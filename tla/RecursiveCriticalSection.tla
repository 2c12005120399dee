---------------------- MODULE RecursiveCriticalSection ----------------------
(***************************************************************************)
(* The recursive lock of recursive_critical_section.cc in the variant the  *)
(* repository implements itself (__OS_MAC__ && !USE_NATIVE_MUTEX_ON_MAC):  *)
(* a counter lock_queue_ that is taken with a compare-and-swap, a short    *)
(* spin, and a semaphore through which the lock is handed to a waiter. The *)
(* debug fields thread_ and recursion_count_ are kept beside it.           *)
(***************************************************************************)
EXTENDS CriticalSection

lockVars == <<lock_queue_, semaphore_>>
ownerVars == <<owning_thread_, recursion_, thread_, recursion_count_>>
vars == <<lockVars, ownerVars, at, depth>>

Init ==
  /\ lock_queue_ = 0 /\ semaphore_ = 0
  /\ owning_thread_ = NoThread /\ recursion_ = 0
  /\ thread_ = NoThread /\ recursion_count_ = 0
  /\ at = [t \in Threads |-> "out"] /\ depth = [t \in Threads |-> 0]

Goto(t, place) == at' = [at EXCEPT ![t] = place]

-----------------------------------------------------------------------------
(* Enter, and the constructor of CritScope.                                *)
Enter(t) ==
  /\ at[t] = "out" /\ depth[t] < MaxDepth
  /\ Goto(t, "spin")
  /\ UNCHANGED <<lockVars, ownerVars, depth>>

(* The owner enters again.                                                 *)
EnterAgain(t) ==
  /\ at[t] = "spin" /\ owning_thread_ = t
  /\ lock_queue_' = lock_queue_ + 1
  /\ Goto(t, "own")
  /\ UNCHANGED <<semaphore_, ownerVars, depth>>

(* The load and the compare-and-swap both find 0.                          *)
SpinTakes(t) ==
  /\ at[t] = "spin" /\ owning_thread_ # t /\ lock_queue_ = 0
  /\ lock_queue_' = 1
  /\ Goto(t, "own")
  /\ UNCHANGED <<semaphore_, ownerVars, depth>>

(* Faulty: the spinning has no bound.                                      *)
SpinGoesOn(t) ==
  /\ at[t] = "spin" /\ owning_thread_ # t /\ lock_queue_ # 0
  /\ UNCHANGED vars

(* One of the two did not, in this round and in all those before.          *)
SpinEnds(t) ==
  /\ at[t] = "spin" /\ owning_thread_ # t /\ lock_queue_ # 0
  /\ Goto(t, "queue")
  /\ UNCHANGED <<lockVars, ownerVars, depth>>

(* The increment itself takes a lock that has become free meanwhile.       *)
Queue(t) ==
  /\ at[t] = "queue"
  /\ lock_queue_' = lock_queue_ + 1
  /\ Goto(t, IF lock_queue_' > 1 THEN "sem" ELSE "own")
  /\ UNCHANGED <<semaphore_, ownerVars, depth>>

SemaphoreWait(t) ==
  /\ at[t] = "sem" /\ semaphore_ > 0
  /\ semaphore_' = semaphore_ - 1
  /\ Goto(t, "own")
  /\ UNCHANGED <<lock_queue_, ownerVars, depth>>

(* The end of Enter and TryEnter: the owner's fields, debug ones included. *)
Own(t) ==
  /\ at[t] = "own"
  /\ owning_thread_' = t
  /\ recursion_' = recursion_ + 1
  /\ thread_' = IF recursion_count_ = 0 THEN t ELSE thread_
  /\ recursion_count_' = recursion_count_ + 1
  /\ depth' = [depth EXCEPT ![t] = @ + 1]
  /\ Goto(t, "out")
  /\ UNCHANGED lockVars

(* Faulty: the lock is taken when nobody owns it, although it may be on    *)
(* its way to a waiter.                                                    *)
TryEnterIfUnowned(t) ==
  /\ at[t] = "out" /\ depth[t] < MaxDepth
  /\ owning_thread_ \in {t, NoThread}
  /\ lock_queue_' = lock_queue_ + 1
  /\ Goto(t, "own")
  /\ UNCHANGED <<semaphore_, ownerVars, depth>>

(* TryEnter; if the compare-and-swap fails it returns false.               *)
TryEnter(t) ==
  /\ at[t] = "out" /\ depth[t] < MaxDepth
  /\ owning_thread_ = t \/ lock_queue_ = 0
  /\ lock_queue_' = lock_queue_ + 1
  /\ Goto(t, "own")
  /\ UNCHANGED <<semaphore_, ownerVars, depth>>

-----------------------------------------------------------------------------
(* Faulty: a thread that leaves an inner level gives the lock up.          *)
LeaveAtOnce(t) ==
  /\ at[t] = "out" /\ depth[t] > 0
  /\ recursion_count_' = recursion_count_ - 1
  /\ thread_' = IF recursion_count_' = 0 THEN NoThread ELSE thread_
  /\ recursion_' = 0
  /\ owning_thread_' = NoThread
  /\ depth' = [depth EXCEPT ![t] = @ - 1]
  /\ Goto(t, "dec")
  /\ UNCHANGED lockVars

(* Leave, and the destructor of CritScope: the owner's fields ...          *)
Leave(t) ==
  /\ at[t] = "out" /\ depth[t] > 0
  /\ recursion_count_' = recursion_count_ - 1
  /\ thread_' = IF recursion_count_' = 0 THEN NoThread ELSE thread_
  /\ recursion_' = recursion_ - 1
  /\ owning_thread_' = IF recursion_' = 0 THEN NoThread ELSE owning_thread_
  /\ depth' = [depth EXCEPT ![t] = @ - 1]
  /\ Goto(t, "dec")
  /\ UNCHANGED lockVars

(* ... then lock_queue_ ...                                                *)
Decrement(t) ==
  /\ at[t] = "dec"
  /\ lock_queue_' = lock_queue_ - 1
  /\ Goto(t, IF lock_queue_' > 0 THEN "test" ELSE "out")
  /\ UNCHANGED <<semaphore_, ownerVars, depth>>

(* ... and, with recursion_ read again, the semaphore.                     *)
HandOver(t) ==
  /\ at[t] = "test"
  /\ semaphore_' = IF recursion_ = 0 THEN semaphore_ + 1 ELSE semaphore_
  /\ Goto(t, "out")
  /\ UNCHANGED <<lock_queue_, ownerVars, depth>>

-----------------------------------------------------------------------------
EnterStep(t) ==
  EnterAgain(t) \/ SpinTakes(t) \/ SpinEnds(t) \/ Queue(t) \/ Own(t)

LeaveStep(t) == Decrement(t) \/ HandOver(t)

Next ==
  \E t \in Threads :
    \/ Enter(t) \/ TryEnter(t) \/ EnterStep(t) \/ SemaphoreWait(t)
    \/ Leave(t) \/ LeaveStep(t)

Spec == Init /\ [][Next]_vars

(* Threads run, the spinning is bounded, the semaphore passes over no      *)
(* waiter for ever, and no thread stays inside for ever.                   *)
FairSpec ==
  /\ Spec
  /\ \A t \in Threads : WF_vars(EnterStep(t)) /\ WF_vars(Leave(t)) /\ WF_vars(LeaveStep(t))
  /\ \A t \in Threads : SF_vars(SemaphoreWait(t)) /\ SF_vars(depth[t] = 1 /\ Leave(t))

-----------------------------------------------------------------------------
(* Every variable holds a value of its kind.                               *)
TypeOK ==
  /\ lock_queue_ \in Nat /\ semaphore_ \in Nat
  /\ owning_thread_ \in Threads \cup {NoThread} /\ thread_ \in Threads \cup {NoThread}
  /\ recursion_ \in 0 .. MaxDepth /\ recursion_count_ \in 0 .. MaxDepth
  /\ at \in [Threads -> {"out", "spin", "queue", "sem", "own", "dec", "test"}]
  /\ depth \in [Threads -> 0 .. MaxDepth]

(* Everyone who calls Enter gets in, as long as those inside leave.        *)
EnterReturns ==
  \A t \in Threads : at[t] \in {"spin", "queue", "sem"} ~> at[t] = "own"

=============================================================================
