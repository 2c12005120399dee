------------------------------- MODULE Event -------------------------------
(***************************************************************************)
(* base::Event on POSIX (event.cc): event_status_ under event_mutex_ with  *)
(* the condition variable event_cond_, and Wait with the two deadlines     *)
(* warn_ts and give_up_ts. Between unlocking and being woken up everything *)
(* may happen: a time-out, a spurious wake-up, a Set, a Reset and a Wait   *)
(* that takes the signal.                                                  *)
(*                                                                         *)
(* A thread's pc is its next step: "idle" outside the class; "setlock",    *)
(* "assign", "broadcast" and "unlock" in Set; "waitlock" before the mutex  *)
(* is locked in Wait, "loop" at the condition of the inner while loop,     *)
(* "blocked" in pthread_cond_wait or pthread_cond_timedwait and "relock"   *)
(* when these are about to return.                                         *)
(***************************************************************************)
EXTENDS Naturals

CONSTANTS
  Threads,   \* the threads that use the event
  MaxCalls,  \* bound: the calls of Set, Reset and Wait
  None       \* no thread

ASSUME EventAssumption == None \notin Threads /\ MaxCalls \in Nat

VARIABLES
  manual,  \* is_manual_reset_
  status,  \* event_status_
  mutex,   \* the thread that holds event_mutex_
  pc,      \* see above
  warn,    \* the threads whose current wait ends at warn_ts
  giveUp,  \* the threads whose Wait has a give_up_ts
  error,   \* the threads whose last wait on event_cond_ timed out
  result,  \* what a thread's last Wait has returned
  calls,   \* the number of calls made
  credit,  \* history: the calls of Set so far, and the initial signal
  taken    \* history: how many Waits have returned true

callVars == <<warn, giveUp, error, result, calls>>
history == <<credit, taken>>
vars == <<manual, status, mutex, pc, callVars, history>>

SetSteps == {"setlock", "assign", "broadcast", "unlock"}
WaitSteps == {"waitlock", "loop", "blocked", "relock"}

(* The constructor.                                                        *)
Init ==
  /\ manual \in BOOLEAN /\ status \in BOOLEAN
  /\ mutex = None
  /\ pc = [p \in Threads |-> "idle"]
  /\ warn = {} /\ giveUp = {} /\ error = {}
  /\ result = [p \in Threads |-> "none"]
  /\ calls = 0
  /\ credit = (IF status THEN 1 ELSE 0) /\ taken = 0

Goto(p, label) == pc' = [pc EXCEPT ![p] = label]

Call(p, label) ==
  /\ pc[p] = "idle" /\ calls < MaxCalls
  /\ calls' = calls + 1
  /\ Goto(p, label)

-----------------------------------------------------------------------------
Set(p) ==
  /\ Call(p, "setlock")
  /\ credit' = credit + 1
  /\ UNCHANGED <<manual, status, mutex, warn, giveUp, error, result, taken>>

SetLock(p) ==
  /\ pc[p] = "setlock" /\ mutex = None
  /\ mutex' = p
  /\ Goto(p, "assign")
  /\ UNCHANGED <<manual, status, callVars, history>>

(* Faulty: the mutex is unlocked before the broadcast.                     *)
SetAssignUnlocks(p) ==
  /\ pc[p] = "assign"
  /\ status' = TRUE
  /\ mutex' = None
  /\ Goto(p, "broadcast")
  /\ UNCHANGED <<manual, callVars, history>>

SetAssign(p) ==
  /\ pc[p] = "assign"
  /\ status' = TRUE
  /\ Goto(p, "broadcast")
  /\ UNCHANGED <<manual, mutex, callVars, history>>

(* Faulty: one waiter, if any, is woken up instead of all of them.         *)
SetSignalsOne(p) ==
  LET blocked == {q \in Threads : pc[q] = "blocked"} IN
  /\ pc[p] = "broadcast"
  /\ IF blocked = {} THEN Goto(p, "unlock")
     ELSE \E q \in blocked : pc' = [pc EXCEPT ![p] = "unlock", ![q] = "relock"]
  /\ UNCHANGED <<manual, status, mutex, callVars, history>>

SetBroadcast(p) ==
  /\ pc[p] = "broadcast"
  /\ pc' = [q \in Threads |-> IF q = p THEN "unlock"
                              ELSE IF pc[q] = "blocked" THEN "relock" ELSE pc[q]]
  /\ UNCHANGED <<manual, status, mutex, callVars, history>>

SetUnlock(p) ==
  /\ pc[p] = "unlock"
  /\ mutex' = None
  /\ Goto(p, "idle")
  /\ UNCHANGED <<manual, status, callVars, history>>

(* Reset does nothing under the mutex that another thread could see        *)
(* half done.                                                              *)
Reset(p) ==
  /\ Call(p, "idle") /\ mutex = None
  /\ status' = FALSE
  /\ UNCHANGED <<manual, mutex, warn, giveUp, error, result, history>>

-----------------------------------------------------------------------------
(* Wait(give_up_after, warn_after), up to the mutex: warn_ts is there if   *)
(* warn_after < give_up_after, give_up_ts if give_up_after is finite.      *)
Wait(p, hasWarn, hasGiveUp) ==
  /\ Call(p, "waitlock")
  /\ warn' = IF hasWarn THEN warn \cup {p} ELSE warn
  /\ giveUp' = IF hasGiveUp THEN giveUp \cup {p} ELSE giveUp
  /\ result' = [result EXCEPT ![p] = "none"]
  /\ UNCHANGED <<manual, status, mutex, error, history>>

(* Faulty: the event is read without the mutex.                            *)
WaitUnlocked(p) ==
  /\ pc[p] = "waitlock"
  /\ Goto(p, "loop")
  /\ UNCHANGED <<manual, status, mutex, callVars, history>>

WaitLock(p) ==
  /\ pc[p] = "waitlock" /\ mutex = None
  /\ mutex' = p
  /\ Goto(p, "loop")
  /\ UNCHANGED <<manual, status, callVars, history>>

CondWait(p) ==
  /\ pc[p] = "loop" /\ ~status /\ p \notin error
  /\ mutex' = None
  /\ Goto(p, "blocked")
  /\ UNCHANGED <<manual, status, callVars, history>>

(* The deadline passes: of the warning, or of the wait as a whole.         *)
TimedOut(p) ==
  /\ pc[p] = "blocked" /\ p \in warn \cup giveUp
  /\ error' = error \cup {p}
  /\ Goto(p, "relock")
  /\ UNCHANGED <<manual, status, mutex, warn, giveUp, result, calls, history>>

SpuriousWakeup(p) ==
  /\ pc[p] = "blocked"
  /\ Goto(p, "relock")
  /\ UNCHANGED <<manual, status, mutex, callVars, history>>

Relock(p) ==
  /\ pc[p] = "relock" /\ mutex = None
  /\ mutex' = p
  /\ Goto(p, "loop")
  /\ UNCHANGED <<manual, status, callVars, history>>

(* ETIMEDOUT at warn_ts: log the warning and wait on, for give_up_ts.      *)
WaitWarns(p) ==
  /\ pc[p] = "loop" /\ p \in error /\ p \in warn
  /\ warn' = warn \ {p}
  /\ error' = error \ {p}
  /\ UNCHANGED <<manual, status, mutex, pc, giveUp, result, calls, history>>

(* Faulty: the event resets itself after a time-out, too.                  *)
WaitReturnsAndResets(p) ==
  /\ pc[p] = "loop" /\ (status \/ p \in error) /\ ~(p \in error /\ p \in warn)
  /\ status' = (status /\ manual)
  /\ taken' = IF p \in error THEN taken ELSE taken + 1
  /\ result' = [result EXCEPT ![p] = IF p \in error THEN "timeout" ELSE "signaled"]
  /\ mutex' = None
  /\ Goto(p, "idle")
  /\ warn' = warn \ {p} /\ giveUp' = giveUp \ {p} /\ error' = error \ {p}
  /\ UNCHANGED <<manual, calls, credit>>

(* Faulty: the event does not reset itself.                                *)
WaitReturnsWithoutReset(p) ==
  /\ pc[p] = "loop" /\ (status \/ p \in error) /\ ~(p \in error /\ p \in warn)
  /\ UNCHANGED status
  /\ taken' = IF p \in error THEN taken ELSE taken + 1
  /\ result' = [result EXCEPT ![p] = IF p \in error THEN "timeout" ELSE "signaled"]
  /\ mutex' = None
  /\ Goto(p, "idle")
  /\ warn' = warn \ {p} /\ giveUp' = giveUp \ {p} /\ error' = error \ {p}
  /\ UNCHANGED <<manual, calls, credit>>

(* The end of Wait: an event that resets itself does so only if the wait   *)
(* did not fail, and a wait that timed out fails even if the event has     *)
(* been set in the meantime.                                               *)
WaitReturns(p) ==
  /\ pc[p] = "loop" /\ (status \/ p \in error) /\ ~(p \in error /\ p \in warn)
  /\ status' = IF p \in error THEN status ELSE manual
  /\ taken' = IF p \in error THEN taken ELSE taken + 1
  /\ result' = [result EXCEPT ![p] = IF p \in error THEN "timeout" ELSE "signaled"]
  /\ mutex' = None
  /\ Goto(p, "idle")
  /\ warn' = warn \ {p} /\ giveUp' = giveUp \ {p} /\ error' = error \ {p}
  /\ UNCHANGED <<manual, calls, credit>>

-----------------------------------------------------------------------------
(* What a thread inside a call does next; a deadline passes in the end.    *)
Step(p) ==
  \/ SetLock(p) \/ SetAssign(p) \/ SetBroadcast(p) \/ SetUnlock(p)
  \/ WaitLock(p) \/ CondWait(p) \/ TimedOut(p) \/ Relock(p)
  \/ WaitWarns(p) \/ WaitReturns(p)

UserStep(p) ==
  Set(p) \/ Reset(p) \/ \E w, g \in BOOLEAN : Wait(p, w, g)

Next == \E p \in Threads : Step(p) \/ UserStep(p) \/ SpuriousWakeup(p)

Spec == Init /\ [][Next]_vars

(* Threads inside a call are scheduled; nobody has to call.                *)
FairSpec == Spec /\ \A p \in Threads : WF_vars(Step(p))

-----------------------------------------------------------------------------
(* Every variable holds a value of its kind, and the mutex is held by the  *)
(* thread that is between locking and unlocking it.                        *)
TypeOK ==
  /\ manual \in BOOLEAN /\ status \in BOOLEAN
  /\ pc \in [Threads -> {"idle"} \cup SetSteps \cup WaitSteps]
  /\ \A p \in Threads : pc[p] \in {"assign", "broadcast", "unlock", "loop"} <=> mutex = p
  /\ mutex \in Threads \cup {None}
  /\ warn \subseteq Threads /\ giveUp \subseteq Threads /\ error \subseteq Threads
  /\ result \in [Threads -> {"none", "signaled", "timeout"}]
  /\ calls \in 0 .. MaxCalls
  /\ credit \in Nat /\ taken \in Nat

(* No waiter sleeps through a signal: whenever the event is set, every     *)
(* thread blocked on event_cond_ is about to be woken by the broadcast.    *)
NoMissedBroadcast ==
  status => \A p \in Threads :
              pc[p] = "blocked" => \E q \in Threads : pc[q] = "broadcast"

(* The NOTE in Wait: "Exactly one thread will auto-reset this event". An   *)
(* event that resets itself never releases more Waits than it was set.     *)
OneWaitPerSet == ~manual => taken + (IF status THEN 1 ELSE 0) <= credit

(* BlockingCallImpl keeps its event on the stack and leaves as soon as     *)
(* Wait returns. When the one Set there is has released a Wait, it does    *)
(* not touch the event any more.                                           *)
SetIsOver ==
  \A p \in Threads : result[p] = "signaled" /\ credit = 1 =>
    \A q \in Threads : pc[q] \notin SetSteps

(* A thread in Wait while the event is set comes back, unless the signal   *)
(* is taken by another thread or by Reset.                                 *)
SignalReleases ==
  \A p \in Threads : status /\ pc[p] \in WaitSteps ~> pc[p] = "idle" \/ ~status

(* The promise of event.h, with Wait in progress as the abstract wait.     *)
Abstract == INSTANCE AbstractEvent WITH
  signaled <- status,
  waiting <- {p \in Threads : pc[p] \in WaitSteps},
  limited <- giveUp

(* All steps of the mutex and of the condition variable, time-outs and     *)
(* spurious wake-ups included, are steps of the abstract event.            *)
ImplementsEvent == Abstract!Spec

=============================================================================
