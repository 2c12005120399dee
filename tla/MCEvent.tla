------------------------------ MODULE MCEvent ------------------------------
(* The instance of Event for TLC.                                          *)
EXTENDS Event
=============================================================================
