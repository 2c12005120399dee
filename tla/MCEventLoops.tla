---------------------------- MODULE MCEventLoops ----------------------------
(* The instance of EventLoops for TLC.                                     *)
EXTENDS EventLoops

(* Less than a millisecond.                                                *)
ShortTimeOut == [l \in Loops |-> 500]

=============================================================================
