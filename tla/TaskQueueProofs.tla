-------------------------- MODULE TaskQueueProofs --------------------------
(***************************************************************************)
(* Proofs, for every set of threads and tasks, of the safety properties of *)
(* TaskQueue: the types, NoLostWakeup, NoDataRace, FifoOrder, NothingLost, *)
(* NoUseAfterDestroy and NoDanglingFunctor; and that TaskQueue implements  *)
(* FifoExecutor.                                                           *)
(***************************************************************************)
EXTENDS TaskQueue, SequenceTheorems, TLAPS

Posting == {"impl", "lock", "write"}
Calling == Posting \cup {"wake", "wait"}

(* A thread holds a task exactly while it is in a call, and the loop's own *)
(* thread, for which BlockingCall runs inline, never a blocking one.       *)
CallShape ==
  /\ \A p \in Threads : pc[p] \in Calling <=> arg[p] # None
  /\ arg[Loop] \notin blocking /\ blocking \subseteq used
  /\ \A p \in Threads : arg[p] # None => arg[p] \in used

(* Where the loop's thread is decides what it has in hand: outside a task  *)
(* cur is None, and only RunPendingTasks' for loop leaves a batch behind.  *)
LoopShape ==
  /\ pc[Loop] \in {"idle", "woken", "drain", "next"} => cur = None
  /\ pc[Loop] = "task" => cur # None
  /\ cur = None => batch = <<>> \/ pc[Loop] \in {"next", "crashed"}
  /\ running => threadId = Loop

(* Until the loop's thread posts, pending_lock_ is held by the one thread  *)
(* that is in push_back, and the size that thread has read is still right. *)
LockInv ==
  ~unlocked =>
    /\ ~raced
    /\ \A p \in Threads : pc[p] = "write" => lock = p /\ size[p] = Len(pending)

(* A task in the hands of a caller: every caller has its own, and until it *)
(* is pushed nobody else has seen it; what is in the queue was pushed.     *)
ArgInv ==
  /\ \A p, q \in Threads : arg[p] = arg[q] /\ arg[p] # None => p = q
  /\ \A p \in Threads : pc[p] \in Posting =>
       ticket[arg[p]] = 0 /\ destroyedBy[arg[p]] = None /\ arg[p] \notin done
  /\ \A t \in Tasks : t \notin used =>
       ticket[t] = 0 /\ destroyedBy[t] = None /\ t \notin done
  /\ \A i \in DOMAIN pending : pending[i] # Garbage => ticket[pending[i]] > 0
  /\ \A i \in DOMAIN batch : batch[i] # Garbage => ticket[batch[i]] > 0
  /\ cur # None => ticket[cur] > 0

Sorted(s) == \A i, j \in DOMAIN s : i < j => ticket[s[i]] < ticket[s[j]]
Before(s, u) == \A i \in DOMAIN s, j \in DOMAIN u : ticket[s[i]] < ticket[u[j]]
Ticketed(s) == \A i \in DOMAIN s : s[i] \in Tasks /\ ticket[s[i]] > 0

(* executed, batch and pending, one after the other, are in ticket order.  *)
OrderInv ==
  /\ \A t \in Tasks : ticket[t] <= issued
  /\ Ticketed(executed) /\ Ticketed(batch) /\ Ticketed(pending)
  /\ Sorted(executed) /\ Sorted(batch) /\ Sorted(pending)
  /\ Before(executed, batch) /\ Before(executed, pending) /\ Before(batch, pending)

(* The task that runs is the last one started.                             *)
CurInv == cur # None => Len(executed) > 0 /\ cur = executed[Len(executed)]

InQueue(t) ==
  \/ \E i \in DOMAIN pending : pending[i] = t
  \/ \E i \in DOMAIN batch : batch[i] = t

InHand(t) == InQueue(t) \/ cur = t

(* What is queued or running is alive, and a blocking caller waits for it. *)
LiveInv ==
  \A t \in Tasks : InHand(t) =>
    /\ destroyedBy[t] = None /\ t \notin done
    /\ t \in blocking => \E p \in Posters : arg[p] = t /\ pc[p] \in {"wake", "wait"}

KeptInv ==
  \A t \in Tasks : ticket[t] > 0 =>
    InQueue(t) \/ (\E i \in DOMAIN executed : executed[i] = t) \/ destroyedBy[t] # None

QueueInv == ~raced => OrderInv /\ CurInv /\ LiveInv /\ KeptInv

ShapeInv == TypeOK /\ CallShape /\ LoopShape

-----------------------------------------------------------------------------
(* The initial state has the shape: no calls, no tasks, an empty queue.    *)
LEMMA ShapeInit == Init => ShapeInv
<1> SUFFICES ASSUME Init PROVE ShapeInv
  OBVIOUS
<1>1. <<>> \in Seq(Tasks \cup {Garbage}) /\ <<>> \in Seq(Tasks)
  OBVIOUS
<1>2. TypeOK
  BY <1>1 DEF Init, TypeOK, Threads, PosterStates, LoopStates
<1> QED
  BY <1>2, ConstantsAssumption DEF Init, ShapeInv, CallShape, LoopShape, Threads,
     Calling, Posting

(* Whatever push_back leaves behind is a vector of tasks and raw slots.    *)
LEMMA PushBackType ==
  ASSUME NEW q \in Seq(Tasks \cup {Garbage}), NEW n \in Nat, NEW t \in Tasks,
         NEW r \in PushBackResults(q, n, t)
  PROVE  r \in Seq(Tasks \cup {Garbage})
<1> DEFINE slot(i) == IF i = n + 1 THEN t ELSE IF i <= Len(q) THEN q[i] ELSE Garbage
<1>1. PICK m \in {n + 1, Len(q) + 1} : r = [i \in 1 .. m |-> slot(i)]
  BY DEF PushBackResults
<1>2. m \in Nat
  OBVIOUS
<1>3. \A i \in 1 .. m : slot(i) \in Tasks \cup {Garbage}
  BY <1>2
<1> QED
  BY <1>1, <1>2, <1>3

(* A slot of the result holds the new task, an old element, or nothing.    *)
LEMMA PushBackSlots ==
  ASSUME NEW q \in Seq(Tasks \cup {Garbage}), NEW n \in Nat, NEW t \in Tasks,
         NEW r \in PushBackResults(q, n, t), NEW i \in DOMAIN r
  PROVE  r[i] \in {t, Garbage} \/ (i \in DOMAIN q /\ r[i] = q[i])
<1>1. PICK m \in {n + 1, Len(q) + 1} :
        r = [j \in 1 .. m |-> IF j = n + 1 THEN t ELSE IF j <= Len(q) THEN q[j] ELSE Garbage]
  BY DEF PushBackResults
<1>2. m \in Nat /\ i \in 1 .. m /\ DOMAIN q = 1 .. Len(q)
  BY <1>1
<1> QED
  BY <1>1, <1>2

(* A push_back that nobody interferes with appends.                        *)
LEMMA PushBackAppends ==
  ASSUME NEW q \in Seq(Tasks \cup {Garbage}), NEW t \in Tasks,
         NEW r \in PushBackResults(q, Len(q), t)
  PROVE  /\ DOMAIN r = 1 .. Len(q) + 1 /\ Len(r) = Len(q) + 1
         /\ r[Len(q) + 1] = t
         /\ \A i \in DOMAIN q : r[i] = q[i]
<1>1. r = [j \in 1 .. Len(q) + 1 |-> IF j = Len(q) + 1 THEN t
                                     ELSE IF j <= Len(q) THEN q[j] ELSE Garbage]
  BY DEF PushBackResults
<1>2. DOMAIN q = 1 .. Len(q) /\ Len(q) \in Nat
  OBVIOUS
<1> QED
  BY <1>1, <1>2

(* A call that returns, to a task of the loop or out of the loop, leaves   *)
(* the shape intact.                                                       *)
LEMMA ReturnShape ==
  ASSUME ShapeInv, NEW p \in Threads, Return(p), pc[p] \notin {"next", "crashed"},
         running' => running, UNCHANGED <<threadId, batch, cur, used, blocking>>
  PROVE  /\ pc' \in [Threads -> PosterStates \cup LoopStates]
         /\ pc'[Loop] \in LoopStates /\ \A q \in Posters : pc'[q] \in PosterStates
         /\ arg' \in [Threads -> Tasks \cup {None}]
         /\ CallShape' /\ LoopShape'
<1> USE ConstantsAssumption DEF ShapeInv, TypeOK, Threads, PosterStates, LoopStates
<1>1. /\ pc' = [pc EXCEPT ![p] = Caller(p)]
      /\ arg' = [arg EXCEPT ![p] = None]
  BY DEF Return, Goto
<1>2. CASE p = Loop
  <2>1. CallShape'
    BY <1>1, <1>2 DEF CallShape, Caller, Calling, Posting
  <2>2. LoopShape'
    BY <1>1, <1>2 DEF LoopShape, Caller
  <2> QED
    BY <1>1, <1>2, <2>1, <2>2 DEF Caller
<1>3. CASE p # Loop
  <2>1. CallShape'
    BY <1>1, <1>3 DEF CallShape, Caller, Calling, Posting
  <2>2. LoopShape'
    BY <1>1, <1>3 DEF LoopShape, Caller
  <2> QED
    BY <1>1, <1>3, <2>1, <2>2 DEF Caller
<1> QED
  BY <1>2, <1>3

(* Every step keeps the types, the tasks in the hands of callers, and the  *)
(* correspondence between where the loop's thread is and what it holds.    *)
LEMMA ShapeStep == ShapeInv /\ [Next]_vars => ShapeInv'
<1> SUFFICES ASSUME ShapeInv, [Next]_vars PROVE ShapeInv'
  OBVIOUS
<1> USE ConstantsAssumption
    DEF ShapeInv, TypeOK, CallShape, LoopShape, Threads, PosterStates, LoopStates,
        Calling, Posting, Goto, Return, Caller, CanCall, Destroy, AfterPost,
        IsQuitting, IsCurrent, queueVars, loopVars, callVars, history
<1>1. ASSUME NEW p \in Threads, NEW t \in Tasks, PostTask(p, t) PROVE ShapeInv'
  BY <1>1 DEF PostTask
<1>2. ASSUME NEW p \in Threads, NEW t \in Tasks, BlockingCallReturnsAtOnce(p, t) PROVE ShapeInv'
  BY <1>2 DEF BlockingCallReturnsAtOnce
<1>3. ASSUME NEW p \in Threads, NEW t \in Tasks, BlockingCallPosts(p, t) PROVE ShapeInv'
  BY <1>3 DEF BlockingCallPosts
<1>4. ASSUME NEW p \in Threads, PostTaskImplDrops(p) PROVE ShapeInv'
  <2>1. CASE arg[p] \in blocking
    <3>1. pc' = [pc EXCEPT ![p] = "wait"] /\ arg' = arg /\ p # Loop
      BY <1>4, <2>1 DEF PostTaskImplDrops
    <3> QED
      BY <1>4, <2>1, <3>1 DEF PostTaskImplDrops
  <2>2. CASE arg[p] \notin blocking
    <3>1. Return(p)
      BY <1>4, <2>2 DEF PostTaskImplDrops
    <3> QED
      BY <1>4, <3>1, ReturnShape DEF PostTaskImplDrops
  <2> QED
    BY <2>1, <2>2
<1>5. ASSUME NEW p \in Threads, PostTaskImplCurrent(p) PROVE ShapeInv'
  BY <1>5 DEF PostTaskImplCurrent
<1>6. ASSUME NEW p \in Threads, PostTaskImplOther(p) PROVE ShapeInv'
  BY <1>6 DEF PostTaskImplOther
<1>7. ASSUME NEW p \in Threads, Lock(p) PROVE ShapeInv'
  BY <1>7 DEF Lock
<1>8. ASSUME NEW p \in Threads, PushBack(p) PROVE ShapeInv'
  <2>1. arg[p] \in Tasks /\ size[p] \in Nat
    BY <1>8 DEF PushBack
  <2>2. pending' \in Seq(Tasks \cup {Garbage})
    BY <1>8, <2>1, PushBackType DEF PushBack
  <2> QED
    BY <1>8, <2>1, <2>2 DEF PushBack
<1>9. ASSUME NEW p \in Threads, WakeUp(p) PROVE ShapeInv'
  <2>1. CASE arg[p] \in blocking
    <3>1. pc' = [pc EXCEPT ![p] = "wait"] /\ arg' = arg /\ p # Loop
      BY <1>9, <2>1 DEF WakeUp
    <3> QED
      BY <1>9, <2>1, <3>1 DEF WakeUp
  <2>2. CASE arg[p] \notin blocking
    <3>1. Return(p)
      BY <1>9, <2>2 DEF WakeUp
    <3> QED
      BY <1>9, <3>1, ReturnShape DEF WakeUp
  <2> QED
    BY <2>1, <2>2
<1>10. ASSUME NEW p \in Threads, WaitDone(p) PROVE ShapeInv'
  BY <1>10 DEF WaitDone
<1>11. ASSUME NEW p \in Threads, QuitSwap(p) PROVE ShapeInv'
  <2>1. pending' \in Seq(Tasks \cup {Garbage})
    BY <1>11 DEF QuitSwap
  <2>2. TypeOK'
    BY <1>11, <2>1 DEF QuitSwap
  <2>3. CallShape' /\ LoopShape'
    BY <1>11 DEF QuitSwap
  <2> QED
    BY <2>2, <2>3
<1>12. ASSUME NEW p \in Threads, QuitStore(p) PROVE ShapeInv'
  BY <1>12, ReturnShape DEF QuitStore
<1>13. ASSUME Begin PROVE ShapeInv'
  BY <1>13 DEF Begin
<1>14. ASSUME RunEventLoopOnce PROVE ShapeInv'
  BY <1>14 DEF RunEventLoopOnce
<1>15. ASSUME ProcessPendingTasks PROVE ShapeInv'
  BY <1>15 DEF ProcessPendingTasks
<1>16. ASSUME RunPendingTasks PROVE ShapeInv'
  BY <1>16 DEF RunPendingTasks
<1>17. ASSUME StartTask PROVE ShapeInv'
  <2>1. Head(batch) \in Tasks /\ Tail(batch) \in Seq(Tasks \cup {Garbage})
    BY <1>17, HeadTailProperties DEF StartTask
  <2>2. executed' \in Seq(Tasks)
    BY <1>17, <2>1 DEF StartTask
  <2> QED
    BY <1>17, <2>1, <2>2 DEF StartTask
<1>18. ASSUME FinishTask PROVE ShapeInv'
  BY <1>18 DEF FinishTask
<1>19. ASSUME RunPendingTasksReturns PROVE ShapeInv'
  BY <1>19 DEF RunPendingTasksReturns
<1>20. ASSUME RunGarbage PROVE ShapeInv'
  BY <1>20 DEF RunGarbage
<1>21. CASE UNCHANGED vars
  BY <1>21 DEF vars
<1> QED
  BY <1>1, <1>2, <1>3, <1>4, <1>5, <1>6, <1>7, <1>8, <1>9, <1>10, <1>11, <1>12, <1>13, <1>14, <1>15, <1>16, <1>17, <1>18, <1>19, <1>20, <1>21
     DEF Next, LoopStep, UserStep, CallStep

(* The types, the shape of calls and the shape of the loop are invariants. *)
THEOREM ShapeCorrect == Spec => []ShapeInv
  BY ShapeInit, ShapeStep, PTL DEF Spec

(* Every variable holds a value of its kind, whatever the threads do; the  *)
(* loop's own thread never blocks on itself in BlockingCall.               *)
THEOREM TypeCorrect == Spec => []TypeOK
<1>1. ShapeInv => TypeOK
  BY DEF ShapeInv
<1> QED
  BY <1>1, ShapeCorrect, PTL

-----------------------------------------------------------------------------
(* No step makes a queued task go unnoticed: what adds a task sets the     *)
(* event afterwards, what resets the event takes the tasks afterwards.     *)
LEMMA WakeupStep == ShapeInv /\ NoLostWakeup /\ [Next]_vars => NoLostWakeup'
<1> SUFFICES ASSUME ShapeInv, NoLostWakeup, [Next]_vars PROVE NoLostWakeup'
  OBVIOUS
<1> USE ConstantsAssumption
    DEF ShapeInv, TypeOK, NoLostWakeup, Threads, Goto, Return, Caller, CanCall,
        AfterPost, IsQuitting, queueVars, loopVars, callVars, history
<1>1. ASSUME NEW p \in Threads, NEW t \in Tasks, PostTask(p, t) PROVE NoLostWakeup'
  BY <1>1 DEF PostTask
<1>2. ASSUME NEW p \in Threads, NEW t \in Tasks, BlockingCallReturnsAtOnce(p, t) PROVE NoLostWakeup'
  BY <1>2 DEF BlockingCallReturnsAtOnce
<1>3. ASSUME NEW p \in Threads, NEW t \in Tasks, BlockingCallPosts(p, t) PROVE NoLostWakeup'
  BY <1>3 DEF BlockingCallPosts
<1>4. ASSUME NEW p \in Threads, PostTaskImplDrops(p) PROVE NoLostWakeup'
  BY <1>4 DEF PostTaskImplDrops
<1>5. ASSUME NEW p \in Threads, PostTaskImplCurrent(p) PROVE NoLostWakeup'
  BY <1>5 DEF PostTaskImplCurrent
<1>6. ASSUME NEW p \in Threads, PostTaskImplOther(p) PROVE NoLostWakeup'
  BY <1>6 DEF PostTaskImplOther
<1>7. ASSUME NEW p \in Threads, Lock(p) PROVE NoLostWakeup'
  BY <1>7 DEF Lock
<1>8. ASSUME NEW p \in Threads, PushBack(p) PROVE NoLostWakeup'
  BY <1>8 DEF PushBack
<1>9. ASSUME NEW p \in Threads, WakeUp(p) PROVE NoLostWakeup'
  BY <1>9 DEF WakeUp
<1>10. ASSUME NEW p \in Threads, WaitDone(p) PROVE NoLostWakeup'
  BY <1>10 DEF WaitDone
<1>11. ASSUME NEW p \in Threads, QuitSwap(p) PROVE NoLostWakeup'
  BY <1>11 DEF QuitSwap
<1>12. ASSUME NEW p \in Threads, QuitStore(p) PROVE NoLostWakeup'
  BY <1>12 DEF QuitStore
<1>13. ASSUME Begin PROVE NoLostWakeup'
  BY <1>13 DEF Begin
<1>14. ASSUME RunEventLoopOnce PROVE NoLostWakeup'
  BY <1>14 DEF RunEventLoopOnce
<1>15. ASSUME ProcessPendingTasks PROVE NoLostWakeup'
  BY <1>15 DEF ProcessPendingTasks
<1>16. ASSUME RunPendingTasks PROVE NoLostWakeup'
  BY <1>16 DEF RunPendingTasks
<1>17. ASSUME StartTask PROVE NoLostWakeup'
  BY <1>17 DEF StartTask
<1>18. ASSUME FinishTask PROVE NoLostWakeup'
  BY <1>18 DEF FinishTask
<1>19. ASSUME RunPendingTasksReturns PROVE NoLostWakeup'
  BY <1>19 DEF RunPendingTasksReturns
<1>20. ASSUME RunGarbage PROVE NoLostWakeup'
  BY <1>20 DEF RunGarbage
<1>21. CASE UNCHANGED vars
  BY <1>21 DEF vars
<1> QED
  BY <1>1, <1>2, <1>3, <1>4, <1>5, <1>6, <1>7, <1>8, <1>9, <1>10, <1>11, <1>12, <1>13, <1>14, <1>15, <1>16, <1>17, <1>18, <1>19, <1>20, <1>21
     DEF Next, LoopStep, UserStep, CallStep

(* A task in the queue never goes unnoticed: ProcessPendingTasks resets    *)
(* the event before it takes the tasks, PostTaskImpl sets it after it has  *)
(* added one, so no order of their steps leaves a task behind.             *)
THEOREM WakeupCorrect == Spec => []NoLostWakeup
<1>1. Init => NoLostWakeup
  BY DEF Init, NoLostWakeup
<1> QED
  BY <1>1, ShapeCorrect, WakeupStep, PTL DEF Spec

-----------------------------------------------------------------------------
(* As long as the loop's thread does not post to its own loop, every       *)
(* push_back is made under the lock and finds the size it has read.        *)
LEMMA LockStep == ShapeInv /\ LockInv /\ [Next]_vars => LockInv'
<1> SUFFICES ASSUME ShapeInv, LockInv, [Next]_vars PROVE LockInv'
  OBVIOUS
<1> USE ConstantsAssumption
    DEF ShapeInv, TypeOK, LoopShape, LockInv, Threads, Goto, Return, Caller, CanCall,
        AfterPost, IsQuitting, IsCurrent, queueVars, loopVars, callVars, history
<1>1. ASSUME NEW p \in Threads, NEW t \in Tasks, PostTask(p, t) PROVE LockInv'
  BY <1>1 DEF PostTask
<1>2. ASSUME NEW p \in Threads, NEW t \in Tasks, BlockingCallReturnsAtOnce(p, t) PROVE LockInv'
  BY <1>2 DEF BlockingCallReturnsAtOnce
<1>3. ASSUME NEW p \in Threads, NEW t \in Tasks, BlockingCallPosts(p, t) PROVE LockInv'
  BY <1>3 DEF BlockingCallPosts
<1>4. ASSUME NEW p \in Threads, PostTaskImplDrops(p) PROVE LockInv'
  BY <1>4 DEF PostTaskImplDrops
<1>5. ASSUME NEW p \in Threads, PostTaskImplCurrent(p) PROVE LockInv'
  BY <1>5 DEF PostTaskImplCurrent
<1>6. ASSUME NEW p \in Threads, PostTaskImplOther(p) PROVE LockInv'
  BY <1>6 DEF PostTaskImplOther
<1>7. ASSUME NEW p \in Threads, Lock(p) PROVE LockInv'
  BY <1>7 DEF Lock
<1>8. ASSUME NEW p \in Threads, PushBack(p) PROVE LockInv'
  BY <1>8 DEF PushBack
<1>9. ASSUME NEW p \in Threads, WakeUp(p) PROVE LockInv'
  BY <1>9 DEF WakeUp
<1>10. ASSUME NEW p \in Threads, WaitDone(p) PROVE LockInv'
  BY <1>10 DEF WaitDone
<1>11. ASSUME NEW p \in Threads, QuitSwap(p) PROVE LockInv'
  BY <1>11 DEF QuitSwap
<1>12. ASSUME NEW p \in Threads, QuitStore(p) PROVE LockInv'
  BY <1>12 DEF QuitStore
<1>13. ASSUME Begin PROVE LockInv'
  BY <1>13 DEF Begin
<1>14. ASSUME RunEventLoopOnce PROVE LockInv'
  BY <1>14 DEF RunEventLoopOnce
<1>15. ASSUME ProcessPendingTasks PROVE LockInv'
  BY <1>15 DEF ProcessPendingTasks
<1>16. ASSUME RunPendingTasks PROVE LockInv'
  BY <1>16 DEF RunPendingTasks
<1>17. ASSUME StartTask PROVE LockInv'
  BY <1>17 DEF StartTask
<1>18. ASSUME FinishTask PROVE LockInv'
  BY <1>18 DEF FinishTask
<1>19. ASSUME RunPendingTasksReturns PROVE LockInv'
  BY <1>19 DEF RunPendingTasksReturns
<1>20. ASSUME RunGarbage PROVE LockInv'
  BY <1>20 DEF RunGarbage
<1>21. CASE UNCHANGED vars
  BY <1>21 DEF vars
<1> QED
  BY <1>1, <1>2, <1>3, <1>4, <1>5, <1>6, <1>7, <1>8, <1>9, <1>10, <1>11, <1>12, <1>13, <1>14, <1>15, <1>16, <1>17, <1>18, <1>19, <1>20, <1>21
     DEF Next, LoopStep, UserStep, CallStep

(* pending_lock_ orders the push_backs of all threads but the loop's own:  *)
(* until code on the loop's thread posts to it, no two of them overlap.    *)
THEOREM LockCorrect == Spec => []NoDataRace
<1>1. Init => LockInv
  BY ConstantsAssumption DEF Init, LockInv, Threads
<1>2. LockInv => NoDataRace
  BY DEF LockInv, NoDataRace
<1> QED
  BY <1>1, <1>2, ShapeCorrect, LockStep, PTL DEF Spec

-----------------------------------------------------------------------------
(* Callers have different tasks, and a task that has not been pushed has   *)
(* neither run nor been destroyed.                                         *)
LEMMA ArgStep ==
  ShapeInv /\ ArgInv /\ [Next]_vars => ArgInv'
<1> SUFFICES ASSUME ShapeInv, ArgInv, [Next]_vars PROVE ArgInv'
  OBVIOUS
<1> USE ConstantsAssumption
    DEF ShapeInv, TypeOK, CallShape, LoopShape, ArgInv, Threads, Calling, Posting, Goto,
        Return, Caller, CanCall, Destroy, AfterPost, IsQuitting, IsCurrent,
        queueVars, loopVars, callVars, history
<1>1. ASSUME NEW p \in Threads, NEW t \in Tasks, PostTask(p, t) PROVE ArgInv'
  BY <1>1 DEF PostTask
<1>2. ASSUME NEW p \in Threads, NEW t \in Tasks, BlockingCallReturnsAtOnce(p, t) PROVE ArgInv'
  BY <1>2 DEF BlockingCallReturnsAtOnce
<1>3. ASSUME NEW p \in Threads, NEW t \in Tasks, BlockingCallPosts(p, t) PROVE ArgInv'
  BY <1>3 DEF BlockingCallPosts
<1>4. ASSUME NEW p \in Threads, PostTaskImplDrops(p) PROVE ArgInv'
  <2>1. CASE arg[p] \in blocking
    <3>1. pc' = [pc EXCEPT ![p] = "wait"] /\ arg' = arg
      BY <1>4, <2>1 DEF PostTaskImplDrops
    <3> QED
      BY <1>4, <3>1 DEF PostTaskImplDrops
  <2>2. CASE arg[p] \notin blocking
    <3>1. pc' = [pc EXCEPT ![p] = Caller(p)] /\ arg' = [arg EXCEPT ![p] = None]
      BY <1>4, <2>2 DEF PostTaskImplDrops
    <3> QED
      BY <1>4, <3>1 DEF PostTaskImplDrops
  <2> QED
    BY <2>1, <2>2
<1>5. ASSUME NEW p \in Threads, PostTaskImplCurrent(p) PROVE ArgInv'
  BY <1>5 DEF PostTaskImplCurrent
<1>6. ASSUME NEW p \in Threads, PostTaskImplOther(p) PROVE ArgInv'
  BY <1>6 DEF PostTaskImplOther
<1>7. ASSUME NEW p \in Threads, Lock(p) PROVE ArgInv'
  BY <1>7 DEF Lock
<1>8. ASSUME NEW p \in Threads, PushBack(p) PROVE ArgInv'
  <2>1. arg[p] \in Tasks /\ size[p] \in Nat /\ ticket[arg[p]] = 0
    BY <1>8 DEF PushBack
  <2>2. ticket' = [ticket EXCEPT ![arg[p]] = issued + 1] /\ pending' \in Seq(Tasks \cup {Garbage})
    BY <1>8, <2>1, PushBackType DEF PushBack
  <2>3. \A i \in DOMAIN pending' : pending'[i] # Garbage => ticket'[pending'[i]] > 0
    <3>1. \A i \in DOMAIN pending' :
             \/ pending'[i] \in {arg[p], Garbage}
             \/ i \in DOMAIN pending /\ pending'[i] = pending[i]
      <4>1. pending \in Seq(Tasks \cup {Garbage})
            /\ pending' \in PushBackResults(pending, size[p], arg[p])
        BY <1>8 DEF PushBack
      <4> HIDE DEF ShapeInv, ArgInv
      <4> QED
        BY <2>1, <4>1, PushBackSlots
    <3>2. \A i \in DOMAIN pending : pending[i] \in Tasks \cup {Garbage}
      OBVIOUS
    <3> QED
      BY <2>1, <2>2, <3>1, <3>2
  <2>4. \A i \in DOMAIN batch' : batch'[i] # Garbage => ticket'[batch'[i]] > 0
    BY <1>8, <2>1, <2>2 DEF PushBack
  <2>5. cur' # None => ticket'[cur'] > 0
    BY <1>8, <2>1, <2>2 DEF PushBack
  <2>6. \A q \in Threads : pc'[q] \in Posting => q # p /\ arg[q] # arg[p] /\ ticket'[arg[q]] = 0
    BY <1>8, <2>1, <2>2 DEF PushBack
  <2> QED
    BY <1>8, <2>1, <2>2, <2>3, <2>4, <2>5, <2>6 DEF PushBack
<1>9. ASSUME NEW p \in Threads, WakeUp(p) PROVE ArgInv'
  <2>1. CASE arg[p] \in blocking
    <3>1. pc' = [pc EXCEPT ![p] = "wait"] /\ arg' = arg
      BY <1>9, <2>1 DEF WakeUp
    <3> QED
      BY <1>9, <3>1 DEF WakeUp
  <2>2. CASE arg[p] \notin blocking
    <3>1. pc' = [pc EXCEPT ![p] = Caller(p)] /\ arg' = [arg EXCEPT ![p] = None]
      BY <1>9, <2>2 DEF WakeUp
    <3> QED
      BY <1>9, <3>1 DEF WakeUp
  <2> QED
    BY <2>1, <2>2
<1>10. ASSUME NEW p \in Threads, WaitDone(p) PROVE ArgInv'
  BY <1>10 DEF WaitDone
<1>11. ASSUME NEW p \in Threads, QuitSwap(p) PROVE ArgInv'
  <2>1. \A t \in Tasks : t \in Range(pending) => ticket[t] > 0
    BY DEF Range
  <2> QED
    BY <1>11, <2>1 DEF QuitSwap
<1>12. ASSUME NEW p \in Threads, QuitStore(p) PROVE ArgInv'
  BY <1>12 DEF QuitStore
<1>13. ASSUME Begin PROVE ArgInv'
  BY <1>13 DEF Begin
<1>14. ASSUME RunEventLoopOnce PROVE ArgInv'
  BY <1>14 DEF RunEventLoopOnce
<1>15. ASSUME ProcessPendingTasks PROVE ArgInv'
  BY <1>15 DEF ProcessPendingTasks
<1>16. ASSUME RunPendingTasks PROVE ArgInv'
  BY <1>16 DEF RunPendingTasks
<1>17. ASSUME StartTask PROVE ArgInv'
  BY <1>17 DEF StartTask
<1>18. ASSUME FinishTask PROVE ArgInv'
  BY <1>18 DEF FinishTask
<1>19. ASSUME RunPendingTasksReturns PROVE ArgInv'
  BY <1>19 DEF RunPendingTasksReturns
<1>20. ASSUME RunGarbage PROVE ArgInv'
  BY <1>20 DEF RunGarbage
<1>21. CASE UNCHANGED vars
  BY <1>21 DEF vars
<1> QED
  BY <1>1, <1>2, <1>3, <1>4, <1>5, <1>6, <1>7, <1>8, <1>9, <1>10, <1>11, <1>12, <1>13, <1>14, <1>15, <1>16, <1>17, <1>18, <1>19, <1>20, <1>21
     DEF Next, LoopStep, UserStep, CallStep

-----------------------------------------------------------------------------
(* Steps that move no task keep the order of the queue.                    *)
LEMMA Unmoved ==
  ASSUME OrderInv, UNCHANGED <<pending, batch, executed, ticket, issued>>
  PROVE  OrderInv'
  BY DEF OrderInv, Sorted, Before, Ticketed

(* Unless push_backs overlap, the tasks move from pending_ through the     *)
(* batch to the executed ones without overtaking each other.               *)
LEMMA OrderStep ==
  ASSUME ShapeInv, ArgInv, OrderInv, [Next]_vars, ~raced'
  PROVE  OrderInv'
<1> USE ConstantsAssumption DEF Threads
<1>1. ASSUME NEW p \in Threads, NEW t \in Tasks, PostTask(p, t) PROVE OrderInv'
  BY <1>1, Unmoved DEF PostTask, queueVars, loopVars, history
<1>2. ASSUME NEW p \in Threads, NEW t \in Tasks, BlockingCallReturnsAtOnce(p, t) PROVE OrderInv'
  BY <1>2, Unmoved DEF BlockingCallReturnsAtOnce, queueVars, loopVars, history
<1>3. ASSUME NEW p \in Threads, NEW t \in Tasks, BlockingCallPosts(p, t) PROVE OrderInv'
  BY <1>3, Unmoved DEF BlockingCallPosts, queueVars, loopVars, history
<1>4. ASSUME NEW p \in Threads, PostTaskImplDrops(p) PROVE OrderInv'
  BY <1>4, Unmoved DEF PostTaskImplDrops, queueVars, loopVars, history
<1>5. ASSUME NEW p \in Threads, PostTaskImplCurrent(p) PROVE OrderInv'
  BY <1>5, Unmoved DEF PostTaskImplCurrent, queueVars, loopVars, history
<1>6. ASSUME NEW p \in Threads, PostTaskImplOther(p) PROVE OrderInv'
  BY <1>6, Unmoved DEF PostTaskImplOther, queueVars, loopVars, history
<1>7. ASSUME NEW p \in Threads, Lock(p) PROVE OrderInv'
  BY <1>7, Unmoved DEF Lock, queueVars, loopVars, history
<1>8. ASSUME NEW p \in Threads, PushBack(p) PROVE OrderInv'
  <2>1. /\ arg[p] \in Tasks /\ ticket[arg[p]] = 0 /\ size[p] = Len(pending)
        /\ pending \in Seq(Tasks \cup {Garbage})
        /\ pending' \in PushBackResults(pending, Len(pending), arg[p])
        /\ ticket' = [ticket EXCEPT ![arg[p]] = issued + 1] /\ issued' = issued + 1
        /\ UNCHANGED <<executed, batch>>
    BY <1>8 DEF PushBack, ShapeInv, TypeOK, CallShape, ArgInv, Calling, Posting, loopVars
  <2>2. /\ DOMAIN pending' = 1 .. Len(pending) + 1 /\ DOMAIN pending = 1 .. Len(pending)
        /\ pending'[Len(pending) + 1] = arg[p]
        /\ \A i \in DOMAIN pending : pending'[i] = pending[i]
    BY <2>1, PushBackAppends
  <2>3. \A t \in Tasks : ticket'[t] = IF t = arg[p] THEN issued + 1 ELSE ticket[t]
    BY <2>1 DEF ShapeInv, TypeOK
  <2>4. issued \in Nat /\ \A t \in Tasks : ticket[t] \in Nat /\ ticket[t] <= issued
    BY DEF ShapeInv, TypeOK, OrderInv
  <2>5. Ticketed(executed)' /\ Ticketed(batch)' /\ Sorted(executed)' /\ Sorted(batch)'
        /\ Before(executed, batch)'
    BY <2>1, <2>3, <2>4 DEF OrderInv, Ticketed, Sorted, Before
  <2>6. Ticketed(pending)' /\ Sorted(pending)'
    <3>1. /\ Len(pending) \in Nat /\ arg[p] \in Tasks
          /\ \A j \in DOMAIN pending' : j \in DOMAIN pending \/ j = Len(pending) + 1
      BY <2>1, <2>2
    <3>2. \A i \in DOMAIN pending : /\ pending[i] \in Tasks /\ pending[i] # arg[p]
                                    /\ 0 < ticket[pending[i]]
      BY <2>1, <2>4 DEF OrderInv, Ticketed
    <3>3. \A i \in DOMAIN pending : ticket'[pending'[i]] = ticket[pending[i]]
      BY <2>2, <2>3, <3>2
    <3>4. ticket'[pending'[Len(pending) + 1]] = issued + 1
      BY <2>2, <2>3, <3>1
    <3>5. Ticketed(pending)'
      BY <2>2, <2>4, <3>1, <3>2, <3>3, <3>4 DEF Ticketed
    <3>6. ASSUME NEW i \in DOMAIN pending', NEW j \in DOMAIN pending', i < j
          PROVE  ticket'[pending'[i]] < ticket'[pending'[j]]
      <4>1. i \in DOMAIN pending
        BY <2>2, <3>1, <3>6
      <4>2. CASE j \in DOMAIN pending
        BY <3>3, <3>6, <4>1, <4>2 DEF OrderInv, Sorted
      <4>3. CASE j = Len(pending) + 1
        BY <2>4, <3>2, <3>3, <3>4, <4>1, <4>3
      <4> QED
        BY <3>1, <4>2, <4>3
    <3> QED
      BY <3>5, <3>6 DEF Sorted
  <2>7. Before(executed, pending)' /\ Before(batch, pending)'
    <3>1. \A j \in DOMAIN pending' : j \in DOMAIN pending \/ j = Len(pending) + 1
      BY <2>1, <2>2
    <3>2. Before(executed, pending)'
      BY <2>1, <2>2, <2>3, <2>4, <3>1 DEF OrderInv, Ticketed, Before
    <3>3. Before(batch, pending)'
      BY <2>1, <2>2, <2>3, <2>4, <3>1 DEF OrderInv, Ticketed, Before
    <3> QED
      BY <3>2, <3>3
  <2>8. \A t \in Tasks : ticket'[t] <= issued'
    BY <2>1, <2>3, <2>4
  <2> QED
    BY <2>5, <2>6, <2>7, <2>8 DEF OrderInv
<1>9. ASSUME NEW p \in Threads, WakeUp(p) PROVE OrderInv'
  BY <1>9, Unmoved DEF WakeUp, queueVars, loopVars, history
<1>10. ASSUME NEW p \in Threads, WaitDone(p) PROVE OrderInv'
  BY <1>10, Unmoved DEF WaitDone, queueVars, loopVars, history
<1>11. ASSUME NEW p \in Threads, QuitSwap(p) PROVE OrderInv'
  <2>1. pending' = <<>> /\ UNCHANGED <<executed, ticket, issued>> /\ batch' \in {batch, pending}
    BY <1>11 DEF QuitSwap, history, loopVars
  <2>2. DOMAIN pending' = {}
    BY <2>1
  <2> QED
    BY <2>1, <2>2 DEF OrderInv, Sorted, Before, Ticketed
<1>12. ASSUME NEW p \in Threads, QuitStore(p) PROVE OrderInv'
  BY <1>12, Unmoved DEF QuitStore, queueVars, loopVars, history
<1>13. ASSUME Begin PROVE OrderInv'
  BY <1>13, Unmoved DEF Begin, queueVars, loopVars, history
<1>14. ASSUME RunEventLoopOnce PROVE OrderInv'
  BY <1>14, Unmoved DEF RunEventLoopOnce, queueVars, loopVars, history
<1>15. ASSUME ProcessPendingTasks PROVE OrderInv'
  BY <1>15, Unmoved DEF ProcessPendingTasks, queueVars, loopVars, history
<1>16. ASSUME RunPendingTasks PROVE OrderInv'
  <2>1. pending' = <<>> /\ UNCHANGED <<executed, ticket, issued>> /\ batch' \in {batch, pending}
    BY <1>16 DEF RunPendingTasks, history, loopVars
  <2>2. DOMAIN pending' = {}
    BY <2>1
  <2> QED
    BY <2>1, <2>2 DEF OrderInv, Sorted, Before, Ticketed
<1>17. ASSUME StartTask PROVE OrderInv'
  <2>1. /\ batch \in Seq(Tasks \cup {Garbage}) /\ batch # <<>> /\ executed \in Seq(Tasks)
        /\ executed' = Append(executed, Head(batch)) /\ batch' = Tail(batch)
        /\ UNCHANGED <<pending, ticket, issued>>
    BY <1>17 DEF StartTask, ShapeInv, TypeOK, queueVars
  <2>2. /\ DOMAIN batch = 1 .. Len(batch) /\ DOMAIN batch' = 1 .. Len(batch) - 1
        /\ \A i \in DOMAIN batch' : batch'[i] = batch[i + 1]
        /\ 1 \in DOMAIN batch /\ Head(batch) = batch[1]
    BY <2>1
  <2>3. /\ DOMAIN executed = 1 .. Len(executed) /\ DOMAIN executed' = 1 .. Len(executed) + 1
        /\ executed'[Len(executed) + 1] = batch[1]
        /\ \A i \in DOMAIN executed : executed'[i] = executed[i]
    BY <2>1, <2>2
  <2>4. \A t \in Tasks : ticket[t] \in Nat
    BY DEF ShapeInv, TypeOK
  <2>5. Ticketed(executed)' /\ Ticketed(batch)' /\ Ticketed(pending)' /\ Sorted(pending)'
    BY <2>1, <2>2, <2>3 DEF OrderInv, Ticketed, Sorted
  <2>6. \A i \in DOMAIN executed' : i \in DOMAIN executed \/ i = Len(executed) + 1
    BY <2>1, <2>3
  <2>7. \A j \in DOMAIN batch' : j + 1 \in DOMAIN batch /\ j + 1 > 1
    BY <2>1, <2>2
  <2>8. Sorted(executed)'
    BY <2>1, <2>2, <2>3, <2>4, <2>6 DEF OrderInv, Ticketed, Sorted, Before
  <2>9. Sorted(batch)'
    BY <2>1, <2>2, <2>4, <2>7 DEF OrderInv, Ticketed, Sorted
  <2>10. Before(executed, batch)'
    <3> SUFFICES ASSUME NEW i \in DOMAIN executed', NEW j \in DOMAIN batch'
                 PROVE  ticket[executed'[i]] < ticket[batch[j + 1]]
      BY <2>1, <2>2 DEF Before
    <3>1. CASE i \in DOMAIN executed
      BY <2>3, <2>7, <3>1 DEF OrderInv, Before
    <3>2. CASE i = Len(executed) + 1
      BY <2>2, <2>3, <2>7, <3>2 DEF OrderInv, Sorted
    <3> QED
      BY <2>6, <3>1, <3>2
  <2>11. Before(executed, pending)'
    BY <2>1, <2>2, <2>3, <2>4, <2>6 DEF OrderInv, Ticketed, Before
  <2>12. Before(batch, pending)'
    BY <2>1, <2>2, <2>4, <2>7 DEF OrderInv, Ticketed, Before
  <2> QED
    BY <2>1, <2>5, <2>8, <2>9, <2>10, <2>11, <2>12 DEF OrderInv
<1>18. ASSUME FinishTask PROVE OrderInv'
  BY <1>18, Unmoved DEF FinishTask, queueVars, loopVars, history
<1>19. ASSUME RunPendingTasksReturns PROVE OrderInv'
  BY <1>19, Unmoved DEF RunPendingTasksReturns, queueVars, loopVars, history
<1>20. ASSUME RunGarbage PROVE OrderInv'
  BY <1>20, Unmoved DEF RunGarbage, queueVars, loopVars, history
<1>21. CASE UNCHANGED vars
  BY <1>21, Unmoved DEF vars, queueVars, loopVars, history
<1> QED
  BY <1>1, <1>2, <1>3, <1>4, <1>5, <1>6, <1>7, <1>8, <1>9, <1>10, <1>11, <1>12, <1>13, <1>14, <1>15, <1>16, <1>17, <1>18, <1>19, <1>20, <1>21
     DEF Next, LoopStep, UserStep, CallStep

-----------------------------------------------------------------------------
(* The task that runs is the one started last.                             *)
LEMMA CurStep ==
  ASSUME ShapeInv, CurInv, [Next]_vars
  PROVE  CurInv'
<1>1. ASSUME NEW p \in Threads, NEW t \in Tasks, PostTask(p, t) PROVE CurInv'
  BY <1>1 DEF PostTask, CurInv, loopVars, history
<1>2. ASSUME NEW p \in Threads, NEW t \in Tasks, BlockingCallReturnsAtOnce(p, t) PROVE CurInv'
  BY <1>2 DEF BlockingCallReturnsAtOnce, CurInv, loopVars, history
<1>3. ASSUME NEW p \in Threads, NEW t \in Tasks, BlockingCallPosts(p, t) PROVE CurInv'
  BY <1>3 DEF BlockingCallPosts, CurInv, loopVars, history
<1>4. ASSUME NEW p \in Threads, PostTaskImplDrops(p) PROVE CurInv'
  BY <1>4 DEF PostTaskImplDrops, CurInv, loopVars, history
<1>5. ASSUME NEW p \in Threads, PostTaskImplCurrent(p) PROVE CurInv'
  BY <1>5 DEF PostTaskImplCurrent, CurInv, loopVars, history
<1>6. ASSUME NEW p \in Threads, PostTaskImplOther(p) PROVE CurInv'
  BY <1>6 DEF PostTaskImplOther, CurInv, loopVars, history
<1>7. ASSUME NEW p \in Threads, Lock(p) PROVE CurInv'
  BY <1>7 DEF Lock, CurInv, loopVars, history
<1>8. ASSUME NEW p \in Threads, PushBack(p) PROVE CurInv'
  BY <1>8 DEF PushBack, CurInv, loopVars, history
<1>9. ASSUME NEW p \in Threads, WakeUp(p) PROVE CurInv'
  BY <1>9 DEF WakeUp, CurInv, loopVars, history
<1>10. ASSUME NEW p \in Threads, WaitDone(p) PROVE CurInv'
  BY <1>10 DEF WaitDone, CurInv, loopVars, history
<1>11. ASSUME NEW p \in Threads, QuitSwap(p) PROVE CurInv'
  BY <1>11 DEF QuitSwap, CurInv, loopVars, history
<1>12. ASSUME NEW p \in Threads, QuitStore(p) PROVE CurInv'
  BY <1>12 DEF QuitStore, CurInv, loopVars, history
<1>13. ASSUME Begin PROVE CurInv'
  BY <1>13 DEF Begin, CurInv, loopVars, history
<1>14. ASSUME RunEventLoopOnce PROVE CurInv'
  BY <1>14 DEF RunEventLoopOnce, CurInv, loopVars, history
<1>15. ASSUME ProcessPendingTasks PROVE CurInv'
  BY <1>15 DEF ProcessPendingTasks, CurInv, loopVars, history
<1>16. ASSUME RunPendingTasks PROVE CurInv'
  BY <1>16 DEF RunPendingTasks, CurInv, loopVars, history
<1>17. ASSUME StartTask PROVE CurInv'
  <2>1. executed \in Seq(Tasks) /\ executed' = Append(executed, Head(batch)) /\ cur' = Head(batch)
    BY <1>17 DEF StartTask, ShapeInv, TypeOK
  <2> QED
    BY <2>1 DEF CurInv
<1>18. ASSUME FinishTask PROVE CurInv'
  BY <1>18 DEF FinishTask, CurInv, loopVars, history
<1>19. ASSUME RunPendingTasksReturns PROVE CurInv'
  BY <1>19 DEF RunPendingTasksReturns, CurInv, loopVars, history
<1>20. ASSUME RunGarbage PROVE CurInv'
  BY <1>20 DEF RunGarbage, CurInv, loopVars, history
<1>21. CASE UNCHANGED vars
  BY <1>21 DEF vars, CurInv, loopVars, history
<1> QED
  BY <1>1, <1>2, <1>3, <1>4, <1>5, <1>6, <1>7, <1>8, <1>9, <1>10, <1>11, <1>12, <1>13, <1>14, <1>15, <1>16, <1>17, <1>18, <1>19, <1>20, <1>21
     DEF Next, LoopStep, UserStep, CallStep

(* The order of the queue makes its tasks different from one another and   *)
(* from the one that runs.                                                 *)
LEMMA Distinct ==
  ASSUME ShapeInv, OrderInv, CurInv
  PROVE  /\ cur # None => \A i \in DOMAIN pending : pending[i] # cur
         /\ cur # None => \A i \in DOMAIN batch : batch[i] # cur
         /\ \A i \in DOMAIN batch, j \in DOMAIN pending : batch[i] # pending[j]
<1>1. \A t \in Tasks : ticket[t] \in Nat
  BY DEF ShapeInv, TypeOK
<1>2. cur # None => Len(executed) \in DOMAIN executed /\ cur = executed[Len(executed)]
  BY DEF CurInv, ShapeInv, TypeOK
<1> QED
  BY <1>1, <1>2 DEF OrderInv, Before, Ticketed

(* What is queued or running has been pushed.                              *)
LEMMA Ticket0 ==
  ASSUME ShapeInv, ArgInv, NEW t \in Tasks, InHand(t)
  PROVE  ticket[t] > 0
  BY ConstantsAssumption DEF InHand, InQueue, ArgInv

(* Steps that move no task, destroy none and leave the waiting callers     *)
(* waiting keep the tasks alive.                                           *)
LEMMA LiveQuiet ==
  ASSUME LiveInv, UNCHANGED <<pending, batch, cur, destroyedBy, done, blocking>>,
         \A q \in Posters : pc[q] \in {"wake", "wait"} /\ arg[q] \in blocking /\ arg[q] \notin done
           => pc'[q] \in {"wake", "wait"} /\ arg'[q] = arg[q]
  PROVE  LiveInv'
<1>1. \A u \in Tasks : InHand(u)' => InHand(u)
  BY DEF InHand, InQueue
<1> QED
  BY <1>1 DEF LiveInv

(* Unless push_backs overlap, tasks are destroyed once, when they have run *)
(* or are released by Quit, and their blocking callers wait until then.    *)
LEMMA LiveStep ==
  ASSUME ShapeInv, ArgInv, OrderInv, CurInv, LiveInv, [Next]_vars, ~raced'
  PROVE  LiveInv'
<1> USE ConstantsAssumption DEF Threads
<1>1. ASSUME NEW p \in Threads, NEW t \in Tasks, PostTask(p, t) PROVE LiveInv'
  BY <1>1, LiveQuiet DEF PostTask, Goto, CanCall, queueVars, loopVars, callVars, history,
     ShapeInv, TypeOK
<1>2. ASSUME NEW p \in Threads, NEW t \in Tasks, BlockingCallReturnsAtOnce(p, t) PROVE LiveInv'
  BY <1>2, LiveQuiet DEF BlockingCallReturnsAtOnce, Goto, CanCall, queueVars, loopVars, callVars, history,
     ShapeInv, TypeOK
<1>3. ASSUME NEW p \in Threads, NEW t \in Tasks, BlockingCallPosts(p, t) PROVE LiveInv'
  <2>1. \A u \in Tasks : InHand(u) => u # t
    BY <1>3, Ticket0 DEF BlockingCallPosts, ArgInv
  <2>2. \A u \in Tasks : InHand(u)' => InHand(u)
    BY <1>3 DEF BlockingCallPosts, InHand, InQueue, queueVars, loopVars
  <2>3. \A q \in Posters : pc[q] \in {"wake", "wait"} => pc'[q] = pc[q] /\ arg'[q] = arg[q]
    BY <1>3 DEF BlockingCallPosts, CanCall, Goto, ShapeInv, TypeOK
  <2>4. blocking' = blocking \cup {t} /\ UNCHANGED <<destroyedBy, done>>
    BY <1>3 DEF BlockingCallPosts, history
  <2> QED
    BY <2>1, <2>2, <2>3, <2>4 DEF LiveInv
<1>4. ASSUME NEW p \in Threads, PostTaskImplDrops(p) PROVE LiveInv'
  <2>1. arg[p] \in Tasks /\ ticket[arg[p]] = 0
    BY <1>4 DEF PostTaskImplDrops, ShapeInv, TypeOK, CallShape, ArgInv, Calling, Posting
  <2>2. \A u \in Tasks : InHand(u) => u # arg[p]
    BY <2>1, Ticket0
  <2>3. \A u \in Tasks : InHand(u)' => InHand(u)
    BY <1>4 DEF PostTaskImplDrops, InHand, InQueue, queueVars, loopVars
  <2>4. \A q \in Posters : pc[q] \in {"wake", "wait"} => pc'[q] = pc[q] /\ arg'[q] = arg[q]
    BY <1>4 DEF PostTaskImplDrops, AfterPost, Return, Goto, ShapeInv, TypeOK
  <2>5. /\ \A u \in Tasks : u # arg[p] => destroyedBy'[u] = destroyedBy[u]
        /\ done' \subseteq done \cup {arg[p]} /\ blocking' = blocking
    BY <1>4 DEF PostTaskImplDrops, Destroy
  <2> QED
    BY <2>2, <2>3, <2>4, <2>5 DEF LiveInv
<1>5. ASSUME NEW p \in Threads, PostTaskImplCurrent(p) PROVE LiveInv'
  BY <1>5, LiveQuiet DEF PostTaskImplCurrent, Goto, CanCall, queueVars, loopVars, callVars, history,
     ShapeInv, TypeOK
<1>6. ASSUME NEW p \in Threads, PostTaskImplOther(p) PROVE LiveInv'
  BY <1>6, LiveQuiet DEF PostTaskImplOther, Goto, CanCall, queueVars, loopVars, callVars, history,
     ShapeInv, TypeOK
<1>7. ASSUME NEW p \in Threads, Lock(p) PROVE LiveInv'
  BY <1>7, LiveQuiet DEF Lock, Goto, CanCall, queueVars, loopVars, callVars, history,
     ShapeInv, TypeOK
<1>8. ASSUME NEW p \in Threads, PushBack(p) PROVE LiveInv'
  <2>1. /\ arg[p] \in Tasks /\ size[p] = Len(pending)
        /\ pending \in Seq(Tasks \cup {Garbage})
        /\ pending' \in PushBackResults(pending, Len(pending), arg[p])
        /\ UNCHANGED <<batch, cur, arg, blocking, done, destroyedBy>>
        /\ pc' = [pc EXCEPT ![p] = "wake"]
    BY <1>8 DEF PushBack, Goto, ShapeInv, TypeOK, CallShape, Calling, Posting, loopVars
  <2>2. \A u \in Tasks : InHand(u)' => InHand(u) \/ u = arg[p]
    <3>1. \A i \in DOMAIN pending' : i \in DOMAIN pending \/ i = Len(pending) + 1
      BY <2>1, PushBackAppends
    <3>2. \A i \in DOMAIN pending' :
            pending'[i] = arg[p] \/ (i \in DOMAIN pending /\ pending'[i] = pending[i])
      BY <2>1, <3>1, PushBackAppends
    <3> QED
      BY <2>1, <3>2 DEF InHand, InQueue
  <2>3. \A q \in Posters : pc[q] \in {"wake", "wait"} => pc'[q] = pc[q]
    BY <1>8, <2>1 DEF PushBack, ShapeInv, TypeOK
  <2>4. destroyedBy[arg[p]] = None /\ arg[p] \notin done
    BY <1>8 DEF PushBack, ArgInv, Posting
  <2>5. arg[p] \in blocking => p \in Posters /\ pc'[p] = "wake"
    BY <2>1 DEF ShapeInv, TypeOK, CallShape
  <2> QED
    BY <2>1, <2>2, <2>3, <2>4, <2>5 DEF LiveInv
<1>9. ASSUME NEW p \in Threads, WakeUp(p) PROVE LiveInv'
  <2>1. \A q \in Posters : pc[q] \in {"wake", "wait"} /\ arg[q] \in blocking /\ arg[q] \notin done
           => pc'[q] \in {"wake", "wait"} /\ arg'[q] = arg[q]
    BY <1>9 DEF WakeUp, AfterPost, Return, Goto, ShapeInv, TypeOK
  <2> QED
    BY <1>9, <2>1, LiveQuiet DEF WakeUp, queueVars, loopVars, history
<1>10. ASSUME NEW p \in Threads, WaitDone(p) PROVE LiveInv'
  <2>1. \A q \in Posters : pc[q] \in {"wake", "wait"} /\ arg[q] \in blocking /\ arg[q] \notin done
           => pc'[q] \in {"wake", "wait"} /\ arg'[q] = arg[q]
    BY <1>10 DEF WaitDone, AfterPost, Return, Goto, ShapeInv, TypeOK
  <2> QED
    BY <1>10, <2>1, LiveQuiet DEF WaitDone, queueVars, loopVars, history
<1>11. ASSUME NEW p \in Threads, QuitSwap(p) PROVE LiveInv'
  <2>1. pending' = <<>> /\ UNCHANGED <<batch, cur, arg, blocking>>
    BY <1>11 DEF QuitSwap, loopVars
  <2>2. \A u \in Tasks : InHand(u)' => InHand(u) /\ \A i \in DOMAIN pending : pending[i] # u
    <3>1. DOMAIN pending' = {}
      BY <2>1
    <3> QED
      BY <2>1, <3>1, Distinct DEF InHand, InQueue
  <2>3. \A q \in Posters : pc[q] \in {"wake", "wait"} => pc'[q] = pc[q]
    BY <1>11 DEF QuitSwap, CanCall, Goto, ShapeInv, TypeOK
  <2>4. /\ \A u \in Tasks : u \notin Range(pending) => destroyedBy'[u] = destroyedBy[u]
        /\ done' \subseteq done \cup Range(pending)
    BY <1>11 DEF QuitSwap, Destroy
  <2>5. \A u \in Tasks : InHand(u)' => u \notin Range(pending)
    BY <2>2 DEF Range
  <2> QED
    BY <2>1, <2>2, <2>3, <2>4, <2>5 DEF LiveInv
<1>12. ASSUME NEW p \in Threads, QuitStore(p) PROVE LiveInv'
  <2>1. \A q \in Posters : pc[q] \in {"wake", "wait"} /\ arg[q] \in blocking /\ arg[q] \notin done
           => pc'[q] \in {"wake", "wait"} /\ arg'[q] = arg[q]
    BY <1>12 DEF QuitStore, AfterPost, Return, Goto, ShapeInv, TypeOK
  <2> QED
    BY <1>12, <2>1, LiveQuiet DEF QuitStore, queueVars, loopVars, history
<1>13. ASSUME Begin PROVE LiveInv'
  BY <1>13, LiveQuiet DEF Begin, Goto, CanCall, queueVars, loopVars, callVars, history,
     ShapeInv, TypeOK
<1>14. ASSUME RunEventLoopOnce PROVE LiveInv'
  BY <1>14, LiveQuiet DEF RunEventLoopOnce, Goto, CanCall, queueVars, loopVars, callVars, history,
     ShapeInv, TypeOK
<1>15. ASSUME ProcessPendingTasks PROVE LiveInv'
  BY <1>15, LiveQuiet DEF ProcessPendingTasks, Goto, CanCall, queueVars, loopVars, callVars, history,
     ShapeInv, TypeOK
<1>16. ASSUME RunPendingTasks PROVE LiveInv'
  <2>1. \A u \in Tasks : InHand(u)' => InHand(u)
    BY <1>16 DEF RunPendingTasks, InHand, InQueue, ShapeInv, TypeOK, queueVars
  <2>2. \A q \in Posters : pc'[q] = pc[q]
    BY <1>16 DEF RunPendingTasks, Goto, ShapeInv, TypeOK
  <2> QED
    BY <1>16, <2>1, <2>2 DEF RunPendingTasks, LiveInv, history
<1>17. ASSUME StartTask PROVE LiveInv'
  <2>1. \A u \in Tasks : InHand(u)' => InHand(u)
    BY <1>17 DEF StartTask, InHand, InQueue, ShapeInv, TypeOK, queueVars
  <2>2. \A q \in Posters : pc'[q] = pc[q]
    BY <1>17 DEF StartTask, Goto, ShapeInv, TypeOK
  <2> QED
    BY <1>17, <2>1, <2>2 DEF StartTask, LiveInv, history
<1>18. ASSUME FinishTask PROVE LiveInv'
  <2>1. cur # None /\ cur' = None /\ UNCHANGED <<pending, batch, arg, blocking>>
    BY <1>18 DEF FinishTask, ShapeInv, LoopShape, queueVars
  <2>2. \A u \in Tasks : InHand(u)' => InHand(u) /\ u # cur
    BY <2>1, Distinct DEF InHand, InQueue
  <2>3. \A q \in Posters : pc'[q] = pc[q]
    BY <1>18 DEF FinishTask, Goto, ShapeInv, TypeOK
  <2>4. /\ \A u \in Tasks : u # cur => destroyedBy'[u] = destroyedBy[u]
        /\ done' \subseteq done \cup {cur}
    BY <1>18 DEF FinishTask, Destroy
  <2> QED
    BY <2>1, <2>2, <2>3, <2>4 DEF LiveInv
<1>19. ASSUME RunPendingTasksReturns PROVE LiveInv'
  BY <1>19, LiveQuiet DEF RunPendingTasksReturns, Goto, CanCall, queueVars, loopVars, callVars, history,
     ShapeInv, TypeOK
<1>20. ASSUME RunGarbage PROVE LiveInv'
  BY <1>20, LiveQuiet DEF RunGarbage, Goto, CanCall, queueVars, loopVars, callVars, history,
     ShapeInv, TypeOK
<1>21. CASE UNCHANGED vars
  BY <1>21, LiveQuiet DEF vars, queueVars, loopVars, callVars, history
<1> QED
  BY <1>1, <1>2, <1>3, <1>4, <1>5, <1>6, <1>7, <1>8, <1>9, <1>10, <1>11, <1>12, <1>13, <1>14, <1>15, <1>16, <1>17, <1>18, <1>19, <1>20, <1>21
     DEF Next, LoopStep, UserStep, CallStep

(* Unless push_backs overlap, no pushed task is mislaid.                   *)
LEMMA KeptStep ==
  ASSUME ShapeInv, KeptInv, [Next]_vars, ~raced'
  PROVE  KeptInv'
<1> USE ConstantsAssumption DEF Threads
<1>1. ASSUME NEW p \in Threads, NEW t \in Tasks, PostTask(p, t) PROVE KeptInv'
  BY <1>1 DEF PostTask, KeptInv, InQueue, queueVars, loopVars, history
<1>2. ASSUME NEW p \in Threads, NEW t \in Tasks, BlockingCallReturnsAtOnce(p, t) PROVE KeptInv'
  BY <1>2 DEF BlockingCallReturnsAtOnce, KeptInv, InQueue, queueVars, loopVars, history
<1>3. ASSUME NEW p \in Threads, NEW t \in Tasks, BlockingCallPosts(p, t) PROVE KeptInv'
  BY <1>3 DEF BlockingCallPosts, KeptInv, InQueue, queueVars, loopVars, history
<1>4. ASSUME NEW p \in Threads, PostTaskImplDrops(p) PROVE KeptInv'
  <2>1. \A t \in Tasks : destroyedBy[t] # None => destroyedBy'[t] # None
    BY <1>4 DEF PostTaskImplDrops, Destroy
  <2> QED
    BY <1>4, <2>1 DEF PostTaskImplDrops, KeptInv, InQueue, queueVars, loopVars
<1>5. ASSUME NEW p \in Threads, PostTaskImplCurrent(p) PROVE KeptInv'
  BY <1>5 DEF PostTaskImplCurrent, KeptInv, InQueue, queueVars, loopVars, history
<1>6. ASSUME NEW p \in Threads, PostTaskImplOther(p) PROVE KeptInv'
  BY <1>6 DEF PostTaskImplOther, KeptInv, InQueue, queueVars, loopVars, history
<1>7. ASSUME NEW p \in Threads, Lock(p) PROVE KeptInv'
  BY <1>7 DEF Lock, KeptInv, InQueue, queueVars, loopVars, history
<1>8. ASSUME NEW p \in Threads, PushBack(p) PROVE KeptInv'
  <2>1. /\ arg[p] \in Tasks /\ size[p] = Len(pending)
        /\ pending \in Seq(Tasks \cup {Garbage})
        /\ pending' \in PushBackResults(pending, Len(pending), arg[p])
        /\ ticket' = [ticket EXCEPT ![arg[p]] = issued + 1]
        /\ UNCHANGED <<batch, executed, destroyedBy>>
    BY <1>8 DEF PushBack, ShapeInv, TypeOK, CallShape, Calling, Posting, loopVars
  <2>2. Len(pending) + 1 \in DOMAIN pending' /\ pending'[Len(pending) + 1] = arg[p]
    BY <2>1, PushBackAppends
  <2>3. \A i \in DOMAIN pending : i \in DOMAIN pending' /\ pending'[i] = pending[i]
    BY <2>1, PushBackAppends
  <2>4. \A t \in Tasks : t # arg[p] => ticket'[t] = ticket[t]
    BY <2>1 DEF ShapeInv, TypeOK
  <2> QED
    BY <2>1, <2>2, <2>3, <2>4 DEF KeptInv, InQueue
<1>9. ASSUME NEW p \in Threads, WakeUp(p) PROVE KeptInv'
  BY <1>9 DEF WakeUp, KeptInv, InQueue, queueVars, loopVars, history
<1>10. ASSUME NEW p \in Threads, WaitDone(p) PROVE KeptInv'
  BY <1>10 DEF WaitDone, KeptInv, InQueue, queueVars, loopVars, history
<1>11. ASSUME NEW p \in Threads, QuitSwap(p) PROVE KeptInv'
  <2>1. /\ \A t \in Range(pending) \cap Tasks : destroyedBy'[t] = p
        /\ \A t \in Tasks : destroyedBy[t] # None => destroyedBy'[t] # None
        /\ p # None /\ UNCHANGED <<batch, executed, ticket>>
    BY <1>11 DEF QuitSwap, Destroy, loopVars
  <2>2. \A i \in DOMAIN pending : pending[i] \in Range(pending)
    BY DEF Range
  <2> QED
    BY <2>1, <2>2 DEF KeptInv, InQueue
<1>12. ASSUME NEW p \in Threads, QuitStore(p) PROVE KeptInv'
  BY <1>12 DEF QuitStore, KeptInv, InQueue, queueVars, loopVars, history
<1>13. ASSUME Begin PROVE KeptInv'
  BY <1>13 DEF Begin, KeptInv, InQueue, queueVars, loopVars, history
<1>14. ASSUME RunEventLoopOnce PROVE KeptInv'
  BY <1>14 DEF RunEventLoopOnce, KeptInv, InQueue, queueVars, loopVars, history
<1>15. ASSUME ProcessPendingTasks PROVE KeptInv'
  BY <1>15 DEF ProcessPendingTasks, KeptInv, InQueue, queueVars, loopVars, history
<1>16. ASSUME RunPendingTasks PROVE KeptInv'
  <2>1. batch = <<>> /\ batch' = pending /\ UNCHANGED <<executed, destroyedBy, ticket>>
    BY <1>16 DEF RunPendingTasks, ShapeInv, LoopShape, history
  <2>2. DOMAIN batch = {}
    BY <2>1
  <2> QED
    BY <2>1, <2>2 DEF KeptInv, InQueue
<1>17. ASSUME StartTask PROVE KeptInv'
  <2>1. /\ batch \in Seq(Tasks \cup {Garbage}) /\ batch # <<>> /\ executed \in Seq(Tasks)
        /\ executed' = Append(executed, Head(batch)) /\ batch' = Tail(batch)
        /\ UNCHANGED <<pending, ticket, destroyedBy>>
    BY <1>17 DEF StartTask, ShapeInv, TypeOK, queueVars
  <2>2. \A i \in DOMAIN batch : i = 1 \/ (i - 1 \in DOMAIN batch' /\ batch'[i - 1] = batch[i])
    BY <2>1
  <2>3. Len(executed) + 1 \in DOMAIN executed' /\ executed'[Len(executed) + 1] = batch[1]
    BY <2>1
  <2>4. \A i \in DOMAIN executed : i \in DOMAIN executed' /\ executed'[i] = executed[i]
    BY <2>1
  <2>5. \A t \in Tasks : InQueue(t) => InQueue(t)' \/ \E i \in DOMAIN executed' : executed'[i] = t
    BY <2>1, <2>2, <2>3 DEF InQueue
  <2> QED
    BY <2>1, <2>4, <2>5 DEF KeptInv
<1>18. ASSUME FinishTask PROVE KeptInv'
  <2>1. \A t \in Tasks : destroyedBy[t] # None => destroyedBy'[t] # None
    BY <1>18 DEF FinishTask, Destroy
  <2> QED
    BY <1>18, <2>1 DEF FinishTask, KeptInv, InQueue, queueVars, loopVars
<1>19. ASSUME RunPendingTasksReturns PROVE KeptInv'
  BY <1>19 DEF RunPendingTasksReturns, KeptInv, InQueue, queueVars, loopVars, history
<1>20. ASSUME RunGarbage PROVE KeptInv'
  BY <1>20 DEF RunGarbage, KeptInv, InQueue, queueVars, loopVars, history
<1>21. CASE UNCHANGED vars
  BY <1>21 DEF vars, KeptInv, InQueue, queueVars, loopVars, history
<1> QED
  BY <1>1, <1>2, <1>3, <1>4, <1>5, <1>6, <1>7, <1>8, <1>9, <1>10, <1>11, <1>12, <1>13, <1>14, <1>15, <1>16, <1>17, <1>18, <1>19, <1>20, <1>21
     DEF Next, LoopStep, UserStep, CallStep

-----------------------------------------------------------------------------
(* The inductive invariant behind the order and the lifetime of tasks.     *)
TaskInv == ShapeInv /\ ArgInv /\ QueueInv

(* An event loop that has just been constructed has no tasks.              *)
LEMMA TaskInit == Init => TaskInv
<1> SUFFICES ASSUME Init PROVE TaskInv
  OBVIOUS
<1>1. DOMAIN pending = {} /\ DOMAIN batch = {} /\ DOMAIN executed = {}
  BY DEF Init
<1>2. ArgInv
  BY <1>1, ConstantsAssumption DEF Init, ArgInv, Threads, Posting
<1>3. QueueInv
  BY <1>1, ConstantsAssumption DEF Init, QueueInv, OrderInv, CurInv, LiveInv, KeptInv,
     InHand, InQueue, Ticketed, Sorted, Before
<1> QED
  BY <1>2, <1>3, ShapeInit DEF TaskInv

(* Once two push_backs have overlapped, history does not forget it.        *)
LEMMA RacedStays == [Next]_vars /\ raced => raced'
<1> SUFFICES ASSUME [Next]_vars, raced PROVE raced'
  OBVIOUS
<1> QED
  BY DEF Next, LoopStep, UserStep, CallStep, vars, history, PostTask, BlockingCallReturnsAtOnce,
     BlockingCallPosts, PostTaskImplDrops, PostTaskImplCurrent, PostTaskImplOther, Lock,
     PushBack, WakeUp, WaitDone, QuitSwap, QuitStore, Begin, RunEventLoopOnce,
     ProcessPendingTasks, RunPendingTasks, StartTask, FinishTask, RunPendingTasksReturns,
     RunGarbage

(* Every step of every thread keeps the inductive invariant.               *)
LEMMA TaskStep == TaskInv /\ [Next]_vars => TaskInv'
<1> SUFFICES ASSUME TaskInv, [Next]_vars PROVE TaskInv'
  OBVIOUS
<1>1. ShapeInv' /\ ArgInv'
  BY ShapeStep, ArgStep DEF TaskInv
<1>2. ASSUME ~raced' PROVE (OrderInv /\ CurInv /\ LiveInv /\ KeptInv)'
  <2>1. ShapeInv /\ ArgInv /\ OrderInv /\ CurInv /\ LiveInv /\ KeptInv
    BY <1>2, RacedStays DEF TaskInv, QueueInv
  <2> QED
    BY <1>2, <2>1, OrderStep, CurStep, LiveStep, KeptStep
<1> QED
  BY <1>1, <1>2 DEF TaskInv, QueueInv

(* Who holds which task, the order of the queue, and the life of a task,   *)
(* together an invariant of the task queue.                                *)
THEOREM TaskInvCorrect == Spec => []TaskInv
  BY TaskInit, TaskStep, PTL DEF Spec

(* Unless two push_backs overlap, queued tasks run in the order they were  *)
(* pushed, for any number of threads, tasks and Quits.                     *)
THEOREM FifoCorrect == Spec => []FifoOrder
<1>1. TaskInv => FifoOrder
  BY DEF TaskInv, QueueInv, OrderInv, Sorted, FifoOrder
<1> QED
  BY <1>1, TaskInvCorrect, PTL

(* Unless two push_backs overlap, no task that was pushed disappears.      *)
THEOREM NothingLostCorrect == Spec => []NothingLost
<1>1. TaskInv => NothingLost
  BY DEF TaskInv, QueueInv, KeptInv, InQueue, NothingLost, Range
<1> QED
  BY <1>1, TaskInvCorrect, PTL

(* Unless two push_backs overlap, no task is destroyed twice, or run after *)
(* it was destroyed.                                                       *)
THEOREM LifetimeCorrect == Spec => []NoUseAfterDestroy
<1>1. TaskInv => NoUseAfterDestroy
  <2> SUFFICES ASSUME TaskInv, ~raced,
                      NEW t \in Range(pending) \cup Range(batch) \cup {cur}, t # None
               PROVE  t \in Tasks /\ destroyedBy[t] = None /\ t \notin done
    BY DEF NoUseAfterDestroy
  <2>1. t \in Tasks /\ InHand(t)
    BY DEF TaskInv, QueueInv, ShapeInv, TypeOK, OrderInv, Ticketed, InHand, InQueue, Range
  <2> QED
    BY <2>1 DEF TaskInv, QueueInv, LiveInv
<1> QED
  BY <1>1, TaskInvCorrect, PTL

(* Unless two push_backs overlap, a functor passed to BlockingCall never   *)
(* runs after the caller, whose stack it refers to, has gone on.           *)
THEOREM FunctorCorrect == Spec => []NoDanglingFunctor
<1>1. TaskInv => NoDanglingFunctor
  <2> SUFFICES ASSUME TaskInv, ~raced,
                      NEW t \in blocking \cap (Range(pending) \cup Range(batch) \cup {cur})
               PROVE  \E p \in Posters : arg[p] = t /\ pc[p] \in {"wake", "wait"}
    BY DEF NoDanglingFunctor
  <2>1. t \in Tasks /\ InHand(t)
    BY DEF TaskInv, ShapeInv, TypeOK, InHand, InQueue, Range
  <2> QED
    BY <2>1 DEF TaskInv, QueueInv, LiveInv
<1> QED
  BY <1>1, TaskInvCorrect, PTL

-----------------------------------------------------------------------------
(* The refinement of FifoExecutor. First, facts about sequences that are   *)
(* taken from the front and added to at the end.                           *)
LEMMA ConcatAppend ==
  ASSUME NEW S, NEW s \in Seq(S), NEW u \in Seq(S), NEW x \in S
  PROVE  s \o Append(u, x) = Append(s \o u, x)
<1>1. <<x>> \in Seq(S) /\ s \o u \in Seq(S)
  BY ConcatProperties
<1>2. Append(u, x) = u \o <<x>> /\ Append(s \o u, x) = (s \o u) \o <<x>>
  BY <1>1, AppendIsConcat
<1>3. (s \o u) \o <<x>> = s \o (u \o <<x>>)
  BY <1>1, ConcatAssociative
<1> QED
  BY <1>2, <1>3

LEMMA ConcatHeadTail ==
  ASSUME NEW S, NEW s \in Seq(S), NEW u \in Seq(S), s # <<>>
  PROVE  s \o u # <<>> /\ Head(s \o u) = Head(s) /\ Tail(s \o u) = Tail(s) \o u
<1> DEFINE w == s \o u
           v == Tail(s) \o u
<1>1. /\ w \in Seq(S) /\ Len(w) = Len(s) + Len(u)
      /\ \A i \in 1 .. Len(s) + Len(u) : w[i] = IF i <= Len(s) THEN s[i] ELSE u[i - Len(s)]
  BY ConcatProperties
<1>2. /\ Len(s) \in Nat \ {0} /\ Len(u) \in Nat
      /\ Head(s) = s[1] /\ Tail(s) \in Seq(S) /\ Len(Tail(s)) = Len(s) - 1
      /\ \A i \in 1 .. Len(s) - 1 : Tail(s)[i] = s[i + 1]
  BY HeadTailProperties, EmptySeq, LenProperties
<1>3. /\ v \in Seq(S) /\ Len(v) = Len(s) - 1 + Len(u)
      /\ \A i \in 1 .. Len(s) - 1 + Len(u) :
           v[i] = IF i <= Len(s) - 1 THEN Tail(s)[i] ELSE u[i - (Len(s) - 1)]
  BY <1>2, ConcatProperties
<1> HIDE DEF w, v
<1>4. w # <<>>
  BY <1>1, <1>2, EmptySeq
<1>5. /\ Head(w) = w[1] /\ Tail(w) \in Seq(S) /\ Len(Tail(w)) = Len(w) - 1
      /\ \A i \in 1 .. Len(w) - 1 : Tail(w)[i] = w[i + 1]
  BY <1>1, <1>4, HeadTailProperties
<1>6. Head(w) = Head(s)
  BY <1>1, <1>2, <1>5
<1>7. ASSUME NEW i \in 1 .. Len(v) PROVE Tail(w)[i] = v[i]
  <2>1. i \in 1 .. Len(w) - 1 /\ i + 1 \in 1 .. Len(s) + Len(u) /\ i \in 1 .. Len(s) - 1 + Len(u)
    BY <1>1, <1>2, <1>3, <1>7
  <2>2. Tail(w)[i] = IF i + 1 <= Len(s) THEN s[i + 1] ELSE u[i + 1 - Len(s)]
    BY <1>1, <1>5, <2>1
  <2>3. v[i] = IF i <= Len(s) - 1 THEN s[i + 1] ELSE u[i - (Len(s) - 1)]
    BY <1>2, <1>3, <2>1
  <2> QED
    BY <1>2, <2>1, <2>2, <2>3
<1>8. Len(Tail(w)) = Len(v)
  BY <1>1, <1>2, <1>3, <1>5
<1>9. Tail(w) = v
  BY <1>3, <1>5, <1>7, <1>8, SeqEqual
<1> QED
  BY <1>4, <1>6, <1>9 DEF w, v

LEMMA ConcatFirst ==
  ASSUME NEW S, NEW s \in Seq(S), NEW u \in Seq(S)
  PROVE  /\ Len(s) \in 0 .. Len(s \o u)
         /\ SubSeq(s \o u, 1, Len(s)) = s
         /\ \A i \in Len(s) + 1 .. Len(s \o u) :
              i - Len(s) \in DOMAIN u /\ (s \o u)[i] = u[i - Len(s)]
         /\ \A j \in DOMAIN u :
              j + Len(s) \in Len(s) + 1 .. Len(s \o u) /\ (s \o u)[j + Len(s)] = u[j]
<1> DEFINE w == s \o u
<1>1. /\ w \in Seq(S) /\ Len(w) = Len(s) + Len(u)
      /\ \A i \in 1 .. Len(s) + Len(u) : w[i] = IF i <= Len(s) THEN s[i] ELSE u[i - Len(s)]
  BY ConcatProperties
<1>2. Len(s) \in Nat /\ Len(u) \in Nat /\ DOMAIN u = 1 .. Len(u)
  BY LenProperties
<1> HIDE DEF w
<1>3. SubSeq(w, 1, Len(s)) = s
  <2>1. /\ SubSeq(w, 1, Len(s)) \in Seq(S) /\ Len(SubSeq(w, 1, Len(s))) = Len(s)
        /\ \A i \in 1 .. Len(s) : SubSeq(w, 1, Len(s))[i] = w[i]
    BY <1>1, <1>2, SMTT(30)
  <2>2. \A i \in 1 .. Len(s) : SubSeq(w, 1, Len(s))[i] = s[i]
    BY <1>1, <1>2, <2>1
  <2> QED
    BY <2>1, <2>2, SeqEqual
<1>4. \A i \in Len(s) + 1 .. Len(w) : i - Len(s) \in DOMAIN u /\ w[i] = u[i - Len(s)]
  BY <1>1, <1>2
<1>5. \A j \in DOMAIN u : j + Len(s) \in Len(s) + 1 .. Len(w) /\ w[j + Len(s)] = u[j]
  BY <1>1, <1>2
<1>6. Len(s) \in 0 .. Len(w)
  BY <1>1, <1>2
<1> QED
  BY <1>3, <1>4, <1>5, <1>6 DEF w

-----------------------------------------------------------------------------
(* done.Set() is called by the destruction of a task only.                 *)
DoneInv == done \subseteq Over

LEMMA DoneStep ==
  ASSUME ShapeInv, DoneInv, [Next]_vars
  PROVE  DoneInv'
<1> USE ConstantsAssumption DEF DoneInv, Over, ShapeInv, TypeOK
<1>1. ASSUME NEW p \in Threads, NEW S, Destroy(p, S) PROVE DoneInv'
  <2>1. \A t \in Tasks : destroyedBy'[t] = IF t \in S THEN p ELSE destroyedBy[t]
    BY <1>1 DEF Destroy
  <2>2. p # None
    BY DEF Threads
  <2> QED
    BY <1>1, <2>1, <2>2 DEF Destroy
<1>2. ASSUME UNCHANGED <<done, destroyedBy>> PROVE DoneInv'
  BY <1>2
<1>3. Loop \in Threads
  BY DEF Threads
<1>4. CASE UNCHANGED vars
  BY <1>2, <1>4 DEF vars, callVars, history
<1>5. CASE LoopStep
  <2>1. CASE FinishTask
    BY <1>1, <1>3, <2>1 DEF FinishTask
  <2>2. CASE ~FinishTask
    BY <1>2, <1>5, <2>2 DEF LoopStep, RunEventLoopOnce, ProcessPendingTasks, RunPendingTasks,
       StartTask, RunPendingTasksReturns, RunGarbage, history
  <2> QED
    BY <2>1, <2>2
<1>6. CASE UserStep
  BY <1>1, <1>2, <1>6 DEF UserStep, Begin, QuitSwap, PostTask, BlockingCallReturnsAtOnce,
     BlockingCallPosts, callVars, history
<1>7. ASSUME NEW p \in Threads, CallStep(p) PROVE DoneInv'
  <2>1. CASE PostTaskImplDrops(p)
    BY <1>1, <2>1 DEF PostTaskImplDrops
  <2>2. CASE ~PostTaskImplDrops(p)
    BY <1>2, <1>7, <2>2 DEF CallStep, PostTaskImplCurrent, PostTaskImplOther, Lock, PushBack,
       WakeUp, WaitDone, QuitStore, history
  <2> QED
    BY <2>1, <2>2
<1> QED
  BY <1>4, <1>5, <1>6, <1>7 DEF Next

(* Who waits for which task, after a step that changes no blocking call.   *)
LEMMA AwaitedStays ==
  ASSUME ShapeInv, UNCHANGED blocking, NEW p \in Threads,
         arg' = arg \/ (arg[p] \notin blocking /\ arg' = [arg EXCEPT ![p] = None])
  PROVE  Awaited' = Awaited
<1>1. None \notin blocking
  BY ConstantsAssumption DEF ShapeInv, TypeOK
<1> QED
  BY <1>1 DEF Awaited, ShapeInv, TypeOK

(* ... in particular, after PostTask has returned.                         *)
LEMMA AfterPostAwaited ==
  ASSUME ShapeInv, UNCHANGED blocking, NEW p \in Threads, AfterPost(p)
  PROVE  Awaited' = Awaited
BY AwaitedStays DEF AfterPost, Return

(* A step that touches neither queue nor tasks nor calls.                  *)
LEMMA Stutters ==
  ASSUME UNCHANGED <<batch, pending, cur, ticket, destroyedBy, raced>>, Awaited' = Awaited
  PROVE  UNCHANGED Executor!vars
<1>1. Queued' = Queued /\ Over' = Over /\ Posted' = Posted
  BY DEF Queued, Over, Posted
<1> QED
  BY <1>1 DEF Executor!vars

(* Calls.                                                                  *)
LEMMA QuietSteps ==
  ASSUME ShapeInv, NEW p \in Threads, NEW t,
         \/ PostTask(p, t) \/ BlockingCallReturnsAtOnce(p, t)
         \/ PostTaskImplCurrent(p) \/ PostTaskImplOther(p) \/ Lock(p) \/ WakeUp(p) \/ QuitStore(p)
  PROVE  UNCHANGED Executor!vars
<1>0. arg \in [Threads -> Tasks \cup {None}] /\ None \notin blocking /\ blocking \subseteq used
  BY ConstantsAssumption DEF ShapeInv, TypeOK, CallShape
<1>1. UNCHANGED <<batch, pending, cur, ticket, destroyedBy, raced, blocking>>
  BY DEF PostTask, BlockingCallReturnsAtOnce, PostTaskImplCurrent, PostTaskImplOther, Lock,
     WakeUp, QuitStore, queueVars, loopVars, callVars, history
<1>2. CASE PostTask(p, t)
  <2>1. arg[p] \notin blocking
    <3>1. pc[p] \notin Calling
      BY <1>2 DEF PostTask, CanCall, Calling, Posting
    <3> QED
      BY <1>0, <3>1 DEF ShapeInv, CallShape
  <2>2. t \notin blocking /\ arg' = [arg EXCEPT ![p] = t]
    BY <1>0, <1>2 DEF PostTask
  <2>3. Awaited' = Awaited
    BY <1>0, <1>1, <2>1, <2>2 DEF Awaited
  <2> QED
    BY <1>1, <2>3, Stutters
<1>3. CASE \/ BlockingCallReturnsAtOnce(p, t)
           \/ PostTaskImplCurrent(p) \/ PostTaskImplOther(p) \/ Lock(p)
  <2>1. arg' = arg
    BY <1>3 DEF BlockingCallReturnsAtOnce, PostTaskImplCurrent, PostTaskImplOther, Lock
  <2> QED
    BY <1>1, <2>1, AwaitedStays, Stutters
<1>4. CASE WakeUp(p)
  BY <1>1, <1>4, AfterPostAwaited, Stutters DEF WakeUp
<1>5. CASE QuitStore(p)
  <2>1. arg[p] \notin blocking
    <3>1. pc[p] \notin Calling
      BY <1>5 DEF QuitStore, Calling, Posting
    <3> QED
      BY <1>0, <3>1 DEF ShapeInv, CallShape
  <2>2. Awaited' = Awaited
    BY <1>1, <1>5, <2>1, AwaitedStays DEF QuitStore, Return
  <2> QED
    BY <1>1, <2>2, Stutters
<1> QED
  BY <1>2, <1>3, <1>4, <1>5

LEMMA CallsRefine ==
  ASSUME TaskInv, NEW p \in Threads, NEW t \in Tasks, BlockingCallPosts(p, t)
  PROVE  Executor!Call(p, t)
<1>0. /\ arg \in [Threads -> Tasks \cup {None}] /\ None \notin blocking
      /\ blocking \subseteq used /\ t \notin used /\ t # None
  BY ConstantsAssumption DEF TaskInv, ShapeInv, TypeOK, CallShape, BlockingCallPosts
<1>1. Awaited[p] = None
  <2>1. pc[p] \notin Calling
    BY DEF BlockingCallPosts, CanCall, Calling, Posting
  <2>2. arg[p] \notin blocking
    BY <1>0, <2>1 DEF TaskInv, ShapeInv, CallShape
  <2> QED
    BY <2>2 DEF Awaited
<1>2. t \notin Posted
  BY <1>0 DEF TaskInv, ArgInv, Posted, Over
<1>3. Awaited' = [Awaited EXCEPT ![p] = t]
  <2>1. \A q \in Threads : arg[q] # t
    BY <1>0 DEF TaskInv, ShapeInv, CallShape
  <2>2. arg' = [arg EXCEPT ![p] = t] /\ blocking' = blocking \cup {t}
    BY DEF BlockingCallPosts
  <2> QED
    BY <1>0, <2>1, <2>2 DEF Awaited
<1>4. UNCHANGED <<Queued, cur, Posted, Over>>
  BY DEF BlockingCallPosts, Queued, Posted, Over, queueVars, loopVars, history
<1> QED
  BY <1>1, <1>2, <1>3, <1>4 DEF Executor!Call

LEMMA WaitDoneRefines ==
  ASSUME TaskInv, DoneInv, NEW p \in Threads, WaitDone(p)
  PROVE  UNCHANGED Executor!vars \/ Executor!Return(p)
<1>0. /\ arg \in [Threads -> Tasks \cup {None}] /\ arg' = [arg EXCEPT ![p] = None]
      /\ None \notin blocking /\ blocking' = blocking
  BY ConstantsAssumption DEF TaskInv, ShapeInv, TypeOK, WaitDone, Return
<1>1. UNCHANGED <<batch, pending, cur, ticket, destroyedBy, raced>>
  BY DEF WaitDone, queueVars, loopVars, history
<1>2. CASE arg[p] \notin blocking
  <2>1. Awaited' = Awaited
    BY <1>0, <1>2, AwaitedStays DEF TaskInv
  <2> QED
    BY <1>1, <2>1, Stutters
<1>3. CASE arg[p] \in blocking
  <2>1. Awaited[p] \in Over
    BY <1>3 DEF Awaited, WaitDone, DoneInv
  <2>2. Awaited' = [Awaited EXCEPT ![p] = None]
    BY <1>0 DEF Awaited
  <2>3. UNCHANGED <<Queued, cur, Posted, Over>>
    BY <1>1 DEF Queued, Posted, Over
  <2> QED
    BY <2>1, <2>2, <2>3 DEF Executor!Return
<1> QED
  BY <1>2, <1>3

LEMMA DropsRefine ==
  ASSUME TaskInv, NEW p \in Threads, PostTaskImplDrops(p)
  PROVE  arg[p] \in Tasks /\ Executor!Refuse(arg[p])
<1>1. /\ arg[p] \in Tasks /\ ticket[arg[p]] = 0 /\ destroyedBy[arg[p]] = None /\ p # None
      /\ p \in Threads
  BY ConstantsAssumption DEF TaskInv, ShapeInv, TypeOK, CallShape, ArgInv, PostTaskImplDrops,
     Calling, Posting, Threads
<1>2. \A t \in Tasks : destroyedBy'[t] = IF t = arg[p] THEN p ELSE destroyedBy[t]
  BY DEF PostTaskImplDrops, Destroy
<1>3. Over' = Over \cup {arg[p]}
  BY <1>1, <1>2 DEF Over
<1>4. Posted' = Posted \cup {arg[p]} /\ arg[p] \notin Posted
  BY <1>1, <1>3 DEF Posted, Over, PostTaskImplDrops
<1>5. Awaited' = Awaited
  BY AfterPostAwaited DEF TaskInv, PostTaskImplDrops
<1>6. UNCHANGED <<Queued, cur>>
  BY DEF Queued, PostTaskImplDrops, queueVars, loopVars
<1> QED
  BY <1>1, <1>3, <1>4, <1>5, <1>6 DEF Executor!Refuse

LEMMA PushRefines ==
  ASSUME TaskInv, NEW p \in Threads, PushBack(p), ~raced'
  PROVE  arg[p] \in Tasks /\ Executor!Accept(arg[p])
<1>1. /\ arg[p] \in Tasks /\ ticket[arg[p]] = 0 /\ destroyedBy[arg[p]] = None
      /\ ticket \in [Tasks -> Nat] /\ issued \in Nat
      /\ pending \in Seq(Tasks \cup {Garbage}) /\ batch \in Seq(Tasks \cup {Garbage})
  BY ConstantsAssumption DEF TaskInv, ShapeInv, TypeOK, CallShape, ArgInv, PushBack,
     Calling, Posting
<1>2. size[p] = Len(pending) /\ pending' \in PushBackResults(pending, Len(pending), arg[p])
  BY DEF PushBack
<1>3. pending' = Append(pending, arg[p])
  <2>1. /\ pending' \in Seq(Tasks \cup {Garbage}) /\ Len(pending') = Len(pending) + 1
        /\ pending'[Len(pending) + 1] = arg[p]
        /\ \A i \in DOMAIN pending : pending'[i] = pending[i]
    <3>1. Len(pending) \in Nat
      BY <1>1, LenProperties
    <3>2. pending' \in Seq(Tasks \cup {Garbage})
      BY <1>1, <1>2, <3>1, PushBackType
    <3> QED
      BY <1>1, <1>2, <3>2, PushBackAppends
  <2>2. /\ Append(pending, arg[p]) \in Seq(Tasks \cup {Garbage})
        /\ Len(Append(pending, arg[p])) = Len(pending) + 1
        /\ Append(pending, arg[p])[Len(pending) + 1] = arg[p]
        /\ \A i \in 1 .. Len(pending) : Append(pending, arg[p])[i] = pending[i]
    BY <1>1, AppendProperties
  <2>3. Len(pending) \in Nat /\ DOMAIN pending = 1 .. Len(pending)
    BY <1>1, LenProperties
  <2>4. \A i \in 1 .. Len(pending') : pending'[i] = Append(pending, arg[p])[i]
    BY <2>1, <2>2, <2>3
  <2> QED
    BY <2>1, <2>2, <2>4, SeqEqual
<1>4. Queued' = Append(Queued, arg[p])
  BY <1>1, <1>3, ConcatAppend DEF Queued, PushBack, loopVars
<1>5. Over' = Over
  BY DEF Over, PushBack
<1>6. Posted' = Posted \cup {arg[p]} /\ arg[p] \notin Posted
  <2>1. \A t \in Tasks : ticket'[t] = IF t = arg[p] THEN issued + 1 ELSE ticket[t]
    BY <1>1 DEF PushBack
  <2>2. issued + 1 > 0
    BY <1>1
  <2> QED
    BY <1>1, <1>5, <2>1, <2>2 DEF Posted, Over
<1>7. Awaited' = Awaited /\ cur' = cur
  BY DEF Awaited, PushBack, loopVars
<1> QED
  BY <1>1, <1>4, <1>5, <1>6, <1>7 DEF Executor!Accept

(* The loop's thread.                                                      *)
LEMMA StartRefines ==
  ASSUME TaskInv, StartTask
  PROVE  Executor!Start
<1>1. /\ pending \in Seq(Tasks \cup {Garbage}) /\ batch \in Seq(Tasks \cup {Garbage})
      /\ batch # <<>> /\ cur = None
  BY DEF TaskInv, ShapeInv, TypeOK, LoopShape, StartTask
<1>2. Queued # <<>> /\ Head(Queued) = Head(batch) /\ Tail(Queued) = Tail(batch) \o pending
  BY <1>1, ConcatHeadTail DEF Queued
<1>3. batch' = Tail(batch) /\ cur' = Head(batch)
      /\ UNCHANGED <<pending, arg, blocking, ticket, destroyedBy>>
  BY DEF StartTask, queueVars
<1>4. Queued' = Tail(Queued)
  BY <1>2, <1>3 DEF Queued
<1>5. UNCHANGED <<Posted, Over, Awaited>>
  BY <1>3 DEF Posted, Over, Awaited
<1> QED
  BY <1>1, <1>2, <1>3, <1>4, <1>5 DEF Executor!Start

LEMMA FinishRefines ==
  ASSUME TaskInv, FinishTask
  PROVE  Executor!Finish
<1>1. cur \in Tasks /\ cur # None /\ ticket[cur] > 0 /\ Loop # None
  BY ConstantsAssumption DEF TaskInv, ShapeInv, TypeOK, LoopShape, ArgInv, FinishTask
<1>2. \A t \in Tasks : destroyedBy'[t] = IF t = cur THEN Loop ELSE destroyedBy[t]
  BY DEF FinishTask, Destroy
<1>3. Over' = Over \cup {cur}
  BY <1>1, <1>2 DEF Over
<1>4. Posted' = Posted
  BY <1>1, <1>3 DEF Posted, FinishTask
<1>5. UNCHANGED <<Queued, Awaited>> /\ cur' = None
  BY DEF FinishTask, Queued, Awaited, queueVars
<1> QED
  BY <1>1, <1>3, <1>4, <1>5 DEF Executor!Finish

(* The batch is empty when pending_ takes its place.                       *)
LEMMA SwapRefines ==
  ASSUME TaskInv, RunPendingTasks
  PROVE  UNCHANGED Executor!vars
<1>1. batch = <<>> /\ pending \in Seq(Tasks \cup {Garbage})
  BY DEF TaskInv, ShapeInv, TypeOK, LoopShape, RunPendingTasks
<1>2. Queued = pending /\ Queued' = pending
  BY <1>1, ConcatEmptySeq DEF Queued, RunPendingTasks
<1>3. UNCHANGED <<cur, Posted, Over, Awaited, raced>>
  BY DEF RunPendingTasks, Posted, Over, Awaited, history
<1> QED
  BY <1>2, <1>3 DEF Executor!vars

LEMMA QuietLoop ==
  ASSUME TaskInv,
         \/ Begin \/ RunEventLoopOnce \/ ProcessPendingTasks
         \/ RunPendingTasksReturns \/ RunGarbage
  PROVE  UNCHANGED Executor!vars
<1>1. UNCHANGED <<batch, pending, cur, ticket, destroyedBy, raced, arg, blocking>>
  BY DEF Begin, RunEventLoopOnce, ProcessPendingTasks, RunPendingTasksReturns, RunGarbage,
     queueVars, loopVars, callVars, history
<1>2. Awaited' = Awaited
  BY <1>1 DEF Awaited
<1> QED
  BY <1>1, <1>2, Stutters

(* Quit deletes what is in pending_ and leaves the batch to the loop.      *)
LEMMA QuitRefines ==
  ASSUME TaskInv, NEW p \in Threads, QuitSwap(p), ~raced
  PROVE  Len(batch) \in 0 .. Len(Queued) /\ Executor!Drop(Len(batch))
<1>1. /\ pending \in Seq(Tasks \cup {Garbage}) /\ batch \in Seq(Tasks \cup {Garbage})
      /\ p # None
  BY ConstantsAssumption DEF TaskInv, ShapeInv, TypeOK, Threads
<1>2. /\ Len(batch) \in 0 .. Len(Queued) /\ SubSeq(Queued, 1, Len(batch)) = batch
      /\ {Queued[i] : i \in Len(batch) + 1 .. Len(Queued)} = {pending[i] : i \in DOMAIN pending}
  <2>1. Len(batch) \in 0 .. Len(batch \o pending)
    BY <1>1, ConcatFirst
  <2>2. SubSeq(batch \o pending, 1, Len(batch)) = batch
    BY <1>1, ConcatFirst
  <2>3. {(batch \o pending)[i] : i \in Len(batch) + 1 .. Len(batch \o pending)}
          = {pending[i] : i \in DOMAIN pending}
    <3>1. \A i \in Len(batch) + 1 .. Len(batch \o pending) :
            i - Len(batch) \in DOMAIN pending /\ (batch \o pending)[i] = pending[i - Len(batch)]
      BY <1>1, ConcatFirst
    <3>2. \A j \in DOMAIN pending :
            /\ j + Len(batch) \in Len(batch) + 1 .. Len(batch \o pending)
            /\ (batch \o pending)[j + Len(batch)] = pending[j]
      BY <1>1, ConcatFirst
    <3> DEFINE w == batch \o pending
               m == Len(batch)
    <3> HIDE DEF w, m
    <3>3. ASSUME NEW i \in m + 1 .. Len(w) PROVE w[i] \in {pending[k] : k \in DOMAIN pending}
      BY <3>1, <3>3 DEF w, m
    <3>4. ASSUME NEW k \in DOMAIN pending PROVE pending[k] \in {w[i] : i \in m + 1 .. Len(w)}
      BY <3>2, <3>4 DEF w, m
    <3>5. {w[i] : i \in m + 1 .. Len(w)} = {pending[k] : k \in DOMAIN pending}
      BY <3>3, <3>4
    <3> QED
      BY <3>5 DEF w, m
  <2> QED
    BY <2>1, <2>2, <2>3 DEF Queued
<1>3. \A i \in DOMAIN pending : pending[i] \in Tasks /\ ticket[pending[i]] > 0
  BY DEF TaskInv, QueueInv, OrderInv, Ticketed
<1>4. Range(pending) = {pending[i] : i \in DOMAIN pending}
  BY DEF Range
<1>5. \A t \in Tasks : destroyedBy'[t] = IF t \in Range(pending) THEN p ELSE destroyedBy[t]
  BY DEF QuitSwap, Destroy
<1>6. Over' = Over \cup Range(pending)
  BY <1>1, <1>3, <1>4, <1>5 DEF Over
<1>7. Posted' = Posted
  <2>1. Range(pending) \subseteq {t \in Tasks : ticket[t] > 0}
    BY <1>3, <1>4
  <2>2. ticket' = ticket
    BY DEF QuitSwap
  <2> QED
    BY <1>6, <2>1, <2>2 DEF Posted
<1>8. Queued' = batch
  <2>1. Queued' = batch \o <<>>
    BY DEF Queued, QuitSwap, loopVars
  <2> QED
    BY <1>1, <2>1, ConcatEmptySeq
<1>9. UNCHANGED <<cur, Awaited>>
  BY DEF QuitSwap, Awaited, loopVars
<1> QED
  BY <1>2, <1>4, <1>6, <1>7, <1>8, <1>9 DEF Executor!Drop

-----------------------------------------------------------------------------
(* Every step is one of the executor's, or changes nothing it can see.     *)
LEMMA AbstractStep ==
  ASSUME TaskInv, DoneInv, [Next]_vars
  PROVE  [Executor!Next]_(Executor!vars)
<1>1. CASE raced'
  BY <1>1 DEF Executor!Next
<1>2. CASE ~raced'
  <2>1. ~raced /\ UNCHANGED raced
    BY <1>2, RacedStays, TaskStep DEF TaskInv, ShapeInv, TypeOK
  <2>2. SUFFICES UNCHANGED Executor!vars \/ Executor!Step
    BY <2>1 DEF Executor!Next
  <2>3. CASE UNCHANGED vars
    <3>1. UNCHANGED <<batch, pending, cur, ticket, destroyedBy, raced, arg, blocking>>
      BY <2>3 DEF vars, queueVars, loopVars, callVars, history
    <3>2. Awaited' = Awaited
      BY <3>1 DEF Awaited
    <3> QED
      BY <3>1, <3>2, Stutters
  <2>4. CASE LoopStep
    BY <2>4, StartRefines, FinishRefines, SwapRefines, QuietLoop DEF LoopStep, Executor!Step
  <2>5. CASE Begin
    BY <2>5, QuietLoop
  <2>6. ASSUME NEW p \in Threads, QuitSwap(p) PROVE Executor!Step
    BY <2>1, <2>6, QuitRefines DEF Executor!Step
  <2>7. ASSUME NEW p \in Threads, NEW t \in Tasks,
               PostTask(p, t) \/ BlockingCallReturnsAtOnce(p, t)
        PROVE  UNCHANGED Executor!vars
    BY <2>7, QuietSteps DEF TaskInv
  <2>8. ASSUME NEW p \in Threads, NEW t \in Tasks, BlockingCallPosts(p, t) PROVE Executor!Step
    BY <2>8, CallsRefine DEF Executor!Step
  <2>9. ASSUME NEW p \in Threads, CallStep(p) PROVE UNCHANGED Executor!vars \/ Executor!Step
    <3>1. CASE PostTaskImplDrops(p)
      BY <3>1, DropsRefine DEF Executor!Step
    <3>2. CASE PushBack(p)
      BY <1>2, <3>2, PushRefines DEF Executor!Step
    <3>3. CASE WaitDone(p)
      BY <3>3, WaitDoneRefines DEF Executor!Step
    <3>4. CASE PostTaskImplCurrent(p) \/ PostTaskImplOther(p) \/ Lock(p) \/ WakeUp(p) \/ QuitStore(p)
      BY <3>4, QuietSteps DEF TaskInv
    <3> QED
      BY <2>9, <3>1, <3>2, <3>3, <3>4 DEF CallStep
  <2> QED
    BY <2>3, <2>4, <2>5, <2>6, <2>7, <2>8, <2>9 DEF Next, UserStep
<1> QED
  BY <1>1, <1>2

LEMMA DoneCorrect == Spec => []DoneInv
<1>1. Init => DoneInv
  BY DEF Init, DoneInv
<1> QED
  BY <1>1, ShapeCorrect, DoneStep, PTL DEF Spec

(* The posters, the loop, Quit and the blocking calls together implement   *)
(* one FIFO queue of tasks that never overlap, from which Quit deletes the *)
(* tasks that wait and whose blocking calls return only after their task   *)
(* is over, as long as no two push_backs have overlapped.                  *)
THEOREM ExecutorRefinement == Spec => ImplementsExecutor
<1>1. Init => Executor!Init
  BY ConcatEmptySeq DEF Init, Executor!Init, Queued, Posted, Over, Awaited
<1> QED
  BY <1>1, TaskInvCorrect, DoneCorrect, AbstractStep, PTL
     DEF Spec, ImplementsExecutor, Executor!Spec

=============================================================================
