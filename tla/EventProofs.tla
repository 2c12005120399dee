---------------------------- MODULE EventProofs ----------------------------
(***************************************************************************)
(* Proofs, for every set of threads and every number of calls, that Event  *)
(* keeps its types and its mutex, wakes all waiters, is left alone by the  *)
(* Set that released a Wait, and implements AbstractEvent.                 *)
(***************************************************************************)
EXTENDS Event, FiniteSetTheorems, TLAPS

(* Deadlines and time-outs are those of threads in Wait, and only a wait   *)
(* that has a deadline times out.                                          *)
WaitShape ==
  /\ \A p \in warn \cup giveUp \cup error : pc[p] \in WaitSteps
  /\ error \subseteq warn \cup giveUp

EventInv == TypeOK /\ WaitShape

(* While the first Set is under way nothing has been released; before its  *)
(* assignment the event is not set, after it the Set holds the mutex.      *)
SetInv ==
  /\ credit = 0 => /\ ~status
                   /\ \A p \in Threads : pc[p] \notin SetSteps /\ result[p] # "signaled"
  /\ credit = 1 => \A p \in Threads : pc[p] \in SetSteps =>
       /\ \A q \in Threads : result[q] # "signaled" /\ (pc[q] \in SetSteps => q = p)
       /\ pc[p] \in {"setlock", "assign"} => ~status

-----------------------------------------------------------------------------
(* Every step keeps the types, the holder of the mutex and the deadlines.  *)
LEMMA EventStep == EventInv /\ [Next]_vars => EventInv'
<1> SUFFICES ASSUME EventInv, [Next]_vars PROVE EventInv'
  OBVIOUS
<1> USE EventAssumption
    DEF EventInv, TypeOK, WaitShape, SetSteps, WaitSteps, Goto, callVars, history
<1>1. ASSUME NEW p \in Threads, Set(p) PROVE EventInv'
  BY <1>1 DEF Set, Call
<1>2. ASSUME NEW p \in Threads, SetLock(p) PROVE EventInv'
  BY <1>2 DEF SetLock
<1>3. ASSUME NEW p \in Threads, SetAssign(p) PROVE EventInv'
  BY <1>3 DEF SetAssign
<1>4. ASSUME NEW p \in Threads, SetBroadcast(p) PROVE EventInv'
  BY <1>4 DEF SetBroadcast
<1>5. ASSUME NEW p \in Threads, SetUnlock(p) PROVE EventInv'
  BY <1>5 DEF SetUnlock
<1>6. ASSUME NEW p \in Threads, Reset(p) PROVE EventInv'
  <2>1. pc' = pc /\ calls' \in 0 .. MaxCalls
    BY <1>6 DEF Reset, Call
  <2>2. status' = FALSE /\ UNCHANGED <<manual, mutex, warn, giveUp, error, result, credit, taken>>
    BY <1>6 DEF Reset
  <2> QED
    BY <2>1, <2>2
<1>7. ASSUME NEW p \in Threads, WaitLock(p) PROVE EventInv'
  BY <1>7 DEF WaitLock
<1>8. ASSUME NEW p \in Threads, CondWait(p) PROVE EventInv'
  BY <1>8 DEF CondWait
<1>9. ASSUME NEW p \in Threads, TimedOut(p) PROVE EventInv'
  BY <1>9 DEF TimedOut
<1>10. ASSUME NEW p \in Threads, Relock(p) PROVE EventInv'
  BY <1>10 DEF Relock
<1>11. ASSUME NEW p \in Threads, WaitWarns(p) PROVE EventInv'
  BY <1>11 DEF WaitWarns
<1>12. ASSUME NEW p \in Threads, WaitReturns(p) PROVE EventInv'
  BY <1>12 DEF WaitReturns
<1>13. ASSUME NEW p \in Threads, SpuriousWakeup(p) PROVE EventInv'
  BY <1>13 DEF SpuriousWakeup
<1>14. ASSUME NEW p \in Threads, NEW w \in BOOLEAN, NEW g \in BOOLEAN, Wait(p, w, g) PROVE EventInv'
  BY <1>14 DEF Wait, Call
<1>15. CASE UNCHANGED vars
  BY <1>15 DEF vars
<1> QED
  BY <1>1, <1>2, <1>3, <1>4, <1>5, <1>6, <1>7, <1>8, <1>9, <1>10, <1>11, <1>12, <1>13, <1>14, <1>15 DEF Next, Step, UserStep

(* The types and the shape of Wait are invariants.                         *)
THEOREM EventInvCorrect == Spec => []EventInv
<1>1. Init => EventInv
  BY EventAssumption DEF Init, EventInv, TypeOK, WaitShape, SetSteps, WaitSteps
<1> QED
  BY <1>1, EventStep, PTL DEF Spec

(* Every variable of Event holds a value of its kind, and the mutex is     *)
(* held by the thread between locking and unlocking it.                    *)
THEOREM EventTypeCorrect == Spec => []TypeOK
<1>1. EventInv => TypeOK
  BY DEF EventInv
<1> QED
  BY <1>1, EventInvCorrect, PTL

-----------------------------------------------------------------------------
(* A thread blocks only while the event is not set, and the event is set   *)
(* by a thread that goes on to wake up all who are blocked.                *)
LEMMA BroadcastStep ==
  EventInv /\ NoMissedBroadcast /\ [Next]_vars => NoMissedBroadcast'
<1> SUFFICES ASSUME EventInv, NoMissedBroadcast, [Next]_vars PROVE NoMissedBroadcast'
  OBVIOUS
<1> USE DEF EventInv, TypeOK, NoMissedBroadcast, SetSteps, WaitSteps, Goto, callVars, history
<1>1. ASSUME NEW p \in Threads, Set(p) PROVE NoMissedBroadcast'
  BY <1>1 DEF Set, Call
<1>2. ASSUME NEW p \in Threads, SetLock(p) PROVE NoMissedBroadcast'
  BY <1>2 DEF SetLock
<1>3. ASSUME NEW p \in Threads, SetAssign(p) PROVE NoMissedBroadcast'
  BY <1>3 DEF SetAssign
<1>4. ASSUME NEW p \in Threads, SetBroadcast(p) PROVE NoMissedBroadcast'
  BY <1>4 DEF SetBroadcast
<1>5. ASSUME NEW p \in Threads, SetUnlock(p) PROVE NoMissedBroadcast'
  BY <1>5 DEF SetUnlock
<1>6. ASSUME NEW p \in Threads, Reset(p) PROVE NoMissedBroadcast'
  BY <1>6 DEF Reset, Call
<1>7. ASSUME NEW p \in Threads, WaitLock(p) PROVE NoMissedBroadcast'
  BY <1>7 DEF WaitLock
<1>8. ASSUME NEW p \in Threads, CondWait(p) PROVE NoMissedBroadcast'
  BY <1>8 DEF CondWait
<1>9. ASSUME NEW p \in Threads, TimedOut(p) PROVE NoMissedBroadcast'
  BY <1>9 DEF TimedOut
<1>10. ASSUME NEW p \in Threads, Relock(p) PROVE NoMissedBroadcast'
  BY <1>10 DEF Relock
<1>11. ASSUME NEW p \in Threads, WaitWarns(p) PROVE NoMissedBroadcast'
  BY <1>11 DEF WaitWarns
<1>12. ASSUME NEW p \in Threads, WaitReturns(p) PROVE NoMissedBroadcast'
  BY <1>12 DEF WaitReturns
<1>13. ASSUME NEW p \in Threads, SpuriousWakeup(p) PROVE NoMissedBroadcast'
  BY <1>13 DEF SpuriousWakeup
<1>14. ASSUME NEW p \in Threads, NEW w \in BOOLEAN, NEW g \in BOOLEAN, Wait(p, w, g) PROVE NoMissedBroadcast'
  BY <1>14 DEF Wait, Call
<1>15. CASE UNCHANGED vars
  BY <1>15 DEF vars
<1> QED
  BY <1>1, <1>2, <1>3, <1>4, <1>5, <1>6, <1>7, <1>8, <1>9, <1>10, <1>11, <1>12, <1>13, <1>14, <1>15 DEF Next, Step, UserStep

(* No thread in Wait sleeps through a Set, for any number of threads.      *)
THEOREM BroadcastCorrect == Spec => []NoMissedBroadcast
<1>1. Init => NoMissedBroadcast
  BY DEF Init, NoMissedBroadcast
<1> QED
  BY <1>1, EventInvCorrect, BroadcastStep, PTL DEF Spec

-----------------------------------------------------------------------------
(* Whatever the other threads do, the first Set releases nobody before it  *)
(* is over.                                                                *)
LEMMA SetInvStep == EventInv /\ SetInv /\ [Next]_vars => SetInv'
<1> SUFFICES ASSUME EventInv, SetInv, [Next]_vars PROVE SetInv'
  OBVIOUS
<1> USE EventAssumption
    DEF EventInv, TypeOK, SetInv, SetSteps, WaitSteps, Goto, callVars, history
<1>1. ASSUME NEW p \in Threads, Set(p) PROVE SetInv'
  BY <1>1 DEF Set, Call
<1>2. ASSUME NEW p \in Threads, SetLock(p) PROVE SetInv'
  BY <1>2 DEF SetLock
<1>3. ASSUME NEW p \in Threads, SetAssign(p) PROVE SetInv'
  BY <1>3 DEF SetAssign
<1>4. ASSUME NEW p \in Threads, SetBroadcast(p) PROVE SetInv'
  BY <1>4 DEF SetBroadcast
<1>5. ASSUME NEW p \in Threads, SetUnlock(p) PROVE SetInv'
  BY <1>5 DEF SetUnlock
<1>6. ASSUME NEW p \in Threads, Reset(p) PROVE SetInv'
  BY <1>6 DEF Reset, Call
<1>7. ASSUME NEW p \in Threads, WaitLock(p) PROVE SetInv'
  BY <1>7 DEF WaitLock
<1>8. ASSUME NEW p \in Threads, CondWait(p) PROVE SetInv'
  BY <1>8 DEF CondWait
<1>9. ASSUME NEW p \in Threads, TimedOut(p) PROVE SetInv'
  BY <1>9 DEF TimedOut
<1>10. ASSUME NEW p \in Threads, Relock(p) PROVE SetInv'
  BY <1>10 DEF Relock
<1>11. ASSUME NEW p \in Threads, WaitWarns(p) PROVE SetInv'
  BY <1>11 DEF WaitWarns
<1>12. ASSUME NEW p \in Threads, WaitReturns(p) PROVE SetInv'
  BY <1>12 DEF WaitReturns
<1>13. ASSUME NEW p \in Threads, SpuriousWakeup(p) PROVE SetInv'
  BY <1>13 DEF SpuriousWakeup
<1>14. ASSUME NEW p \in Threads, NEW w \in BOOLEAN, NEW g \in BOOLEAN, Wait(p, w, g) PROVE SetInv'
  BY <1>14 DEF Wait, Call
<1>15. CASE UNCHANGED vars
  BY <1>15 DEF vars
<1> QED
  BY <1>1, <1>2, <1>3, <1>4, <1>5, <1>6, <1>7, <1>8, <1>9, <1>10, <1>11, <1>12, <1>13, <1>14, <1>15 DEF Next, Step, UserStep

(* The event of a blocking call may be destroyed when its Wait returns:    *)
(* the Set that released it has left the event.                            *)
THEOREM SetIsOverCorrect == Spec => []SetIsOver
<1>1. Init => SetInv
  BY DEF Init, SetInv, SetSteps
<1>2. SetInv => SetIsOver
  BY DEF SetInv, SetIsOver
<1> QED
  BY <1>1, <1>2, EventInvCorrect, SetInvStep, PTL DEF Spec

-----------------------------------------------------------------------------
(* Every step of the implementation is a step of the abstract event, or    *)
(* none: Set takes effect with its assignment, Wait when it returns.       *)
LEMMA AbstractStep == EventInv /\ [Next]_vars => [Abstract!Next]_(Abstract!vars)
<1> SUFFICES ASSUME EventInv, [Next]_vars PROVE [Abstract!Next]_(Abstract!vars)
  OBVIOUS
<1> USE DEF EventInv, TypeOK, WaitShape, SetSteps, WaitSteps, Goto, callVars, history,
            Abstract!vars
<1>1. ASSUME NEW p \in Threads, Set(p) PROVE [Abstract!Next]_(Abstract!vars)
  BY <1>1 DEF Set, Call
<1>2. ASSUME NEW p \in Threads, SetLock(p) PROVE [Abstract!Next]_(Abstract!vars)
  BY <1>2 DEF SetLock
<1>3. ASSUME NEW p \in Threads, SetAssign(p) PROVE [Abstract!Next]_(Abstract!vars)
  BY <1>3 DEF SetAssign, Abstract!Next, Abstract!Set
<1>4. ASSUME NEW p \in Threads, SetBroadcast(p) PROVE [Abstract!Next]_(Abstract!vars)
  BY <1>4 DEF SetBroadcast
<1>5. ASSUME NEW p \in Threads, SetUnlock(p) PROVE [Abstract!Next]_(Abstract!vars)
  BY <1>5 DEF SetUnlock
<1>6. ASSUME NEW p \in Threads, Reset(p) PROVE [Abstract!Next]_(Abstract!vars)
  BY <1>6 DEF Reset, Call, Abstract!Next, Abstract!Reset
<1>7. ASSUME NEW p \in Threads, WaitLock(p) PROVE [Abstract!Next]_(Abstract!vars)
  BY <1>7 DEF WaitLock
<1>8. ASSUME NEW p \in Threads, CondWait(p) PROVE [Abstract!Next]_(Abstract!vars)
  BY <1>8 DEF CondWait
<1>9. ASSUME NEW p \in Threads, TimedOut(p) PROVE [Abstract!Next]_(Abstract!vars)
  BY <1>9 DEF TimedOut
<1>10. ASSUME NEW p \in Threads, Relock(p) PROVE [Abstract!Next]_(Abstract!vars)
  BY <1>10 DEF Relock
<1>11. ASSUME NEW p \in Threads, WaitWarns(p) PROVE [Abstract!Next]_(Abstract!vars)
  BY <1>11 DEF WaitWarns
<1>12. ASSUME NEW p \in Threads, WaitReturns(p) PROVE [Abstract!Next]_(Abstract!vars)
  <2> DEFINE waiting == {q \in Threads : pc[q] \in WaitSteps}
  <2>1. /\ p \in waiting /\ waiting' = waiting \ {p}
        /\ giveUp' = giveUp \ {p} /\ UNCHANGED manual
    BY <1>12 DEF WaitReturns
  <2>2. CASE p \in error
    <3>1. p \in giveUp /\ UNCHANGED status /\ result' = [result EXCEPT ![p] = "timeout"]
      BY <1>12, <2>2 DEF WaitReturns
    <3>2. Abstract!GiveUp(p)
      BY <2>1, <3>1 DEF Abstract!GiveUp, Abstract!Return
    <3> QED
      BY <3>2 DEF Abstract!Next
  <2>3. CASE p \notin error
    <3>1. status /\ status' = manual /\ result' = [result EXCEPT ![p] = "signaled"]
      BY <1>12, <2>3 DEF WaitReturns
    <3>2. Abstract!Succeed(p)
      BY <2>1, <3>1 DEF Abstract!Succeed, Abstract!Return
    <3> QED
      BY <3>2 DEF Abstract!Next
  <2> QED
    BY <2>2, <2>3
<1>13. ASSUME NEW p \in Threads, SpuriousWakeup(p) PROVE [Abstract!Next]_(Abstract!vars)
  BY <1>13 DEF SpuriousWakeup
<1>14. ASSUME NEW p \in Threads, NEW w \in BOOLEAN, NEW g \in BOOLEAN, Wait(p, w, g)
      PROVE  [Abstract!Next]_(Abstract!vars)
  <2> DEFINE waiting == {q \in Threads : pc[q] \in WaitSteps}
  <2>1. /\ p \notin waiting /\ waiting' = waiting \cup {p}
        /\ giveUp' \in {giveUp, giveUp \cup {p}}
        /\ result' = [result EXCEPT ![p] = "none"] /\ UNCHANGED <<manual, status>>
    BY <1>14 DEF Wait, Call
  <2>2. Abstract!Wait(p)
    BY <2>1 DEF Abstract!Wait
  <2> QED
    BY <2>2 DEF Abstract!Next
<1>15. CASE UNCHANGED vars
  BY <1>15 DEF vars
<1> QED
  BY <1>1, <1>2, <1>3, <1>4, <1>5, <1>6, <1>7, <1>8, <1>9, <1>10, <1>11, <1>12, <1>13, <1>14, <1>15 DEF Next, Step, UserStep

(* Event implements AbstractEvent: time-outs, spurious wake-ups and        *)
(* competing waiters are not visible from outside.                         *)
THEOREM EventRefinement == Spec => ImplementsEvent
<1>1. Init => Abstract!Init
  BY DEF Init, Abstract!Init, WaitSteps
<1> QED
  BY <1>1, EventInvCorrect, AbstractStep, PTL DEF Spec, ImplementsEvent, Abstract!Spec

-----------------------------------------------------------------------------
(* The calls of Set that have not assigned event_status_ yet.              *)
Pending == {p \in Threads : pc[p] \in {"setlock", "assign"}}

(* Every call of Set pays for one signal: one that is still to come, the   *)
(* one that is there, or one that a Wait has taken.                        *)
CreditInv ==
  /\ IsFiniteSet(Pending)
  /\ ~manual => taken + (IF status THEN 1 ELSE 0) + Cardinality(Pending) <= credit

(* A step that leaves the pending Sets and the signal alone, or drops it.  *)
LEMMA CreditKept ==
  ASSUME EventInv, CreditInv, Pending' = Pending, manual' = manual, credit' = credit,
         taken' = taken, status' \in {status, FALSE}
  PROVE  CreditInv'
<1>1. manual \in BOOLEAN /\ status \in BOOLEAN /\ taken \in Nat /\ credit \in Nat
  BY DEF EventInv, TypeOK
<1>2. Cardinality(Pending) \in Nat
  BY FS_CardinalityType DEF CreditInv
<1>3. CASE status' = status
  BY <1>3 DEF CreditInv
<1>4. CASE status' = FALSE
  BY <1>1, <1>2, <1>4 DEF CreditInv
<1> QED
  BY <1>3, <1>4

(* Each step keeps the account of the signals.                             *)
LEMMA CreditStep == EventInv /\ CreditInv /\ [Next]_vars => CreditInv'
<1> SUFFICES ASSUME EventInv, CreditInv, [Next]_vars PROVE CreditInv'
  OBVIOUS
<1>t. /\ pc \in [Threads -> {"idle"} \cup SetSteps \cup WaitSteps]
      /\ manual \in BOOLEAN /\ status \in BOOLEAN
      /\ taken \in Nat /\ credit \in Nat
  BY DEF EventInv, TypeOK
<1>c. IsFiniteSet(Pending) /\ Cardinality(Pending) \in Nat
  BY FS_CardinalityType DEF CreditInv
<1>1. ASSUME NEW p \in Threads, Set(p) PROVE CreditInv'
  <2>1. Pending' = Pending \cup {p} /\ p \notin Pending
    BY <1>1, <1>t DEF Set, Call, Goto, Pending
  <2>2. IsFiniteSet(Pending') /\ Cardinality(Pending') = Cardinality(Pending) + 1
    BY <2>1, <1>c, FS_AddElement
  <2>3. credit' = credit + 1 /\ UNCHANGED <<manual, status, taken>>
    BY <1>1 DEF Set
  <2> QED
    BY <2>2, <2>3, <1>t, <1>c DEF CreditInv
<1>2. ASSUME NEW p \in Threads, SetLock(p) PROVE CreditInv'
  <2>1. Pending' = Pending
    BY <1>2, <1>t DEF SetLock, Goto, Pending
  <2> QED
    BY <1>2, <2>1, CreditKept DEF SetLock, history
<1>3. ASSUME NEW p \in Threads, SetAssign(p) PROVE CreditInv'
  <2>1. Pending' = Pending \ {p} /\ p \in Pending
    BY <1>3, <1>t DEF SetAssign, Goto, Pending
  <2>2. IsFiniteSet(Pending') /\ Cardinality(Pending') = Cardinality(Pending) - 1
    BY <2>1, <1>c, FS_RemoveElement
  <2>3. status' = TRUE /\ UNCHANGED <<manual, credit, taken>>
    BY <1>3 DEF SetAssign, history
  <2> QED
    BY <2>2, <2>3, <1>t, <1>c DEF CreditInv
<1>4. ASSUME NEW p \in Threads, SetBroadcast(p) PROVE CreditInv'
  <2>1. Pending' = Pending
    BY <1>4, <1>t DEF SetBroadcast, Pending
  <2> QED
    BY <1>4, <2>1, CreditKept DEF SetBroadcast, history
<1>5. ASSUME NEW p \in Threads, SetUnlock(p) PROVE CreditInv'
  <2>1. Pending' = Pending
    BY <1>5, <1>t DEF SetUnlock, Goto, Pending
  <2> QED
    BY <1>5, <2>1, CreditKept DEF SetUnlock, history
<1>6. ASSUME NEW p \in Threads, Reset(p) PROVE CreditInv'
  <2>1. Pending' = Pending
    BY <1>6, <1>t DEF Reset, Call, Goto, Pending
  <2> QED
    BY <1>6, <2>1, CreditKept DEF Reset, history
<1>7. ASSUME NEW p \in Threads, WaitLock(p) PROVE CreditInv'
  <2>1. Pending' = Pending
    BY <1>7, <1>t DEF WaitLock, Goto, Pending
  <2> QED
    BY <1>7, <2>1, CreditKept DEF WaitLock, history
<1>8. ASSUME NEW p \in Threads, CondWait(p) PROVE CreditInv'
  <2>1. Pending' = Pending
    BY <1>8, <1>t DEF CondWait, Goto, Pending
  <2> QED
    BY <1>8, <2>1, CreditKept DEF CondWait, history
<1>9. ASSUME NEW p \in Threads, TimedOut(p) PROVE CreditInv'
  <2>1. Pending' = Pending
    BY <1>9, <1>t DEF TimedOut, Goto, Pending
  <2> QED
    BY <1>9, <2>1, CreditKept DEF TimedOut, history
<1>10. ASSUME NEW p \in Threads, Relock(p) PROVE CreditInv'
  <2>1. Pending' = Pending
    BY <1>10, <1>t DEF Relock, Goto, Pending
  <2> QED
    BY <1>10, <2>1, CreditKept DEF Relock, history
<1>11. ASSUME NEW p \in Threads, WaitWarns(p) PROVE CreditInv'
  <2>1. Pending' = Pending
    BY <1>11, <1>t DEF WaitWarns, Goto, Pending
  <2> QED
    BY <1>11, <2>1, CreditKept DEF WaitWarns, history
<1>12. ASSUME NEW p \in Threads, WaitReturns(p) PROVE CreditInv'
  <2>1. Pending' = Pending
    BY <1>12, <1>t DEF WaitReturns, Goto, Pending
  <2>2. CASE p \in error
    <3>1. status' = status /\ taken' = taken /\ manual' = manual /\ credit' = credit
      BY <1>12, <2>2 DEF WaitReturns
    <3> QED
      BY <2>1, <3>1, CreditKept
  <2>3. CASE p \notin error
    <3>1. /\ status = TRUE /\ status' = manual
          /\ taken' = taken + 1 /\ manual' = manual /\ credit' = credit
      BY <1>12, <1>t, <2>3 DEF WaitReturns
    <3> QED
      BY <2>1, <3>1, <1>t, <1>c DEF CreditInv
  <2> QED
    BY <2>2, <2>3
<1>13. ASSUME NEW p \in Threads, SpuriousWakeup(p) PROVE CreditInv'
  <2>1. Pending' = Pending
    BY <1>13, <1>t DEF SpuriousWakeup, Goto, Pending
  <2> QED
    BY <1>13, <2>1, CreditKept DEF SpuriousWakeup, history
<1>14. ASSUME NEW p \in Threads, NEW w \in BOOLEAN, NEW g \in BOOLEAN, Wait(p, w, g) PROVE CreditInv'
  <2>1. Pending' = Pending
    BY <1>14, <1>t DEF Wait, Call, Goto, Pending
  <2> QED
    BY <1>14, <2>1, CreditKept DEF Wait, history
<1>15. CASE UNCHANGED vars
  BY <1>15, CreditKept DEF vars, history, Pending
<1> QED
  BY <1>1, <1>2, <1>3, <1>4, <1>5, <1>6, <1>7, <1>8, <1>9, <1>10, <1>11, <1>12, <1>13, <1>14, <1>15 DEF Next, Step, UserStep

(* An event that resets itself never releases more Waits than there were   *)
(* calls of Set, however many threads wait, set, reset and time out.       *)
THEOREM OneWaitPerSetCorrect == Spec => []OneWaitPerSet
<1>1. Init => CreditInv
  <2> SUFFICES ASSUME Init PROVE CreditInv
    OBVIOUS
  <2>1. Pending = {}
    BY DEF Init, Pending
  <2>2. IsFiniteSet(Pending) /\ Cardinality(Pending) = 0
    BY <2>1, FS_EmptySet
  <2>3. status \in BOOLEAN /\ credit = (IF status THEN 1 ELSE 0) /\ taken = 0
    BY DEF Init
  <2> QED
    BY <2>2, <2>3 DEF CreditInv
<1>2. EventInv /\ CreditInv => OneWaitPerSet
  <2> SUFFICES ASSUME EventInv, CreditInv PROVE OneWaitPerSet
    OBVIOUS
  <2>1. status \in BOOLEAN /\ taken \in Nat /\ credit \in Nat
    BY DEF EventInv, TypeOK
  <2>2. Cardinality(Pending) \in Nat
    BY FS_CardinalityType DEF CreditInv
  <2> QED
    BY <2>1, <2>2 DEF CreditInv, OneWaitPerSet
<1> QED
  BY <1>1, <1>2, EventInvCorrect, CreditStep, PTL DEF Spec

=============================================================================
