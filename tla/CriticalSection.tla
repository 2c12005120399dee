-------------------------- MODULE CriticalSection --------------------------
(***************************************************************************)
(* The fields of RecursiveCriticalSection (recursive_critical_section.h),  *)
(* where its threads are, and what its users and its DCHECKs rely on.      *)
(*                                                                         *)
(* A thread is at "out" of any call; "spin" in the loop of Enter; "queue"  *)
(* after it, without the lock; "sem" in dispatch_semaphore_wait; "own"     *)
(* about to make itself the owner; in Leave "dec" about to decrement       *)
(* lock_queue_, and "test" about to read recursion_ after that.            *)
(***************************************************************************)
EXTENDS Naturals, FiniteSets

CONSTANTS
  Threads,
  MaxDepth,  \* bound: how often a thread enters without leaving
  NoThread   \* the thread reference 0

ASSUME LockAssumption == MaxDepth \in Nat \ {0} /\ NoThread \notin Threads

VARIABLES
  lock_queue_,       \* see the header: times locked plus threads waiting
  owning_thread_,
  recursion_,
  semaphore_,
  thread_,           \* debug: the owner
  recursion_count_,  \* debug: how often it has entered
  at,                \* see above
  depth              \* history: how often a thread has entered and not left

-----------------------------------------------------------------------------
(* A thread inside excludes all others: the lock is with one thread at     *)
(* most, counting those about to make themselves the owner and those in    *)
(* Leave, or it is on its way through the semaphore, which is then         *)
(* signalled once; also while threads enter without waiting.               *)
MutualExclusion ==
  semaphore_ + Cardinality({t \in Threads : depth[t] > 0 \/ at[t] \in {"own", "dec", "test"}})
    <= 1

(* The DCHECKs of Enter and TryEnter: whoever takes the lock finds it      *)
(* without an owner, or is the owner; the debug fields agree with it.      *)
OwnerChecks ==
  /\ \A t \in Threads : at[t] = "own" =>
       IF depth[t] = 0 THEN owning_thread_ = NoThread /\ recursion_ = 0 /\ thread_ = NoThread
                       ELSE owning_thread_ = t /\ thread_ = t
  /\ \A t \in Threads : at[t] = "out" /\ depth[t] > 0 => thread_ = t /\ owning_thread_ = t
  /\ recursion_ = recursion_count_

=============================================================================
