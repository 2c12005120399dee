-------------------------- MODULE MCLinkedHashMap ---------------------------
(* The instance of LinkedHashMap for TLC.                                  *)
EXTENDS LinkedHashMap
=============================================================================
