--------------------------- MODULE AbstractEvent ---------------------------
(***************************************************************************)
(* What base::Event promises (event.h): a flag that Set raises and Reset   *)
(* lowers, and a Wait that returns true only when the flag is up, lowering *)
(* it again if the event resets itself; that returns false only if it was  *)
(* given a time limit; and that changes nothing when it returns false.     *)
(***************************************************************************)
CONSTANTS Threads

VARIABLES
  manual,    \* whether the event stays signalled until Reset
  signaled,  \* the flag
  waiting,   \* the threads that are in Wait
  limited,   \* those of them that may give up
  result     \* what a thread's last Wait has returned

vars == <<manual, signaled, waiting, limited, result>>

Init ==
  /\ manual \in BOOLEAN /\ signaled \in BOOLEAN
  /\ waiting = {} /\ limited = {}
  /\ result = [p \in Threads |-> "none"]

Set == signaled' = TRUE /\ UNCHANGED <<manual, waiting, limited, result>>

Reset == signaled' = FALSE /\ UNCHANGED <<manual, waiting, limited, result>>

Wait(p) ==
  /\ p \notin waiting
  /\ waiting' = waiting \cup {p}
  /\ limited' \in {limited, limited \cup {p}}
  /\ result' = [result EXCEPT ![p] = "none"]
  /\ UNCHANGED <<manual, signaled>>

Return(p, r) ==
  /\ p \in waiting
  /\ waiting' = waiting \ {p}
  /\ limited' = limited \ {p}
  /\ result' = [result EXCEPT ![p] = r]
  /\ UNCHANGED manual

Succeed(p) == signaled /\ signaled' = manual /\ Return(p, "signaled")

GiveUp(p) == p \in limited /\ UNCHANGED signaled /\ Return(p, "timeout")

Next == Set \/ Reset \/ \E p \in Threads : Wait(p) \/ Succeed(p) \/ GiveUp(p)

Spec == Init /\ [][Next]_vars

=============================================================================
