---------------------------- MODULE MCTimerQueue ----------------------------
(* The instance of TimerQueue for TLC.                                     *)
EXTENDS TimerQueue

(* An overdue task, and delays within and beyond what timeSetEvent takes.  *)
MixedDelays == {-1, 1, 5}

=============================================================================
