----------------------------- MODULE TaskQueue -----------------------------
(***************************************************************************)
(* The task queue of base::EventLoop (event_loop.cc) with the wake-up      *)
(* event of EventLoopWin (event_loop_win.cc): PostTask and BlockingCall    *)
(* from any thread, RunEventLoopOnce / ProcessPendingTasks /               *)
(* RunPendingTasks on the loop's own thread, Begin and Quit.               *)
(*                                                                         *)
(* A thread's pc is the next atomic step of the call it is in:             *)
(*   "impl"    about to read running_ in PostTaskImpl                      *)
(*   "lock"    waiting for pending_lock_ in PostTaskImpl                   *)
(*   "write"   inside push_back, the size of pending_ has been read        *)
(*   "wake"    about to call WakeUp                                        *)
(*   "wait"    in done.Wait(kForever) of BlockingCallImpl                  *)
(*   "quit"    in Quit, between the swap and the store to running_         *)
(*   "idle"    outside the event loop's code; for Loop, between two waits  *)
(*   "woken"   Loop: the wait returned index WSA_WAKEUP_EVENT              *)
(*   "drain"   Loop: wakeup_ev_ reset, about to swap pending_              *)
(*   "next"    Loop: in the for loop of RunPendingTasks                    *)
(*   "task"    Loop: inside the body of task cur                           *)
(*   "crashed" the thread has called or destroyed a slot that holds no task*)
(***************************************************************************)
EXTENDS Integers, Sequences, Functions

CONSTANTS
  Posters,   \* the threads other than the loop's that call into it
  Loop,      \* the thread that calls Begin and RunEventLoopOnce
  Tasks,     \* the tasks that may be posted, each of them once
  Quitters,  \* the threads that may call Quit
  None,      \* no thread, no task
  Garbage    \* the content of a vector slot nobody has constructed

ASSUME ConstantsAssumption ==
  /\ Loop \notin Posters
  /\ None \notin Posters \cup {Loop} \cup Tasks
  /\ Garbage \notin Tasks
  /\ Quitters \subseteq Posters \cup {Loop}

VARIABLES
  running,      \* running_
  threadId,     \* thread_id_ of TaskQueueBase
  lock,         \* the thread that holds pending_lock_
  pending,      \* pending_
  wakeup,       \* wakeup_ev_, a manual-reset event
  batch,        \* the rest of the local `tasks` of RunPendingTasks
  cur,          \* the task Loop is running
  pc,           \* see above
  arg,          \* the task a thread is posting
  size,         \* the size of pending_ a thread has read in push_back
  used,         \* the tasks that have been created
  blocking,     \* the tasks posted by BlockingCallImpl
  done,         \* the tasks whose Cleanup has run done.Set()
  ticket,       \* history: a task's number in the order of the push_backs
  issued,       \* history: the number of push_backs so far
  executed,     \* history: the queued tasks in the order they were started
  destroyedBy,  \* history: the thread that destroyed a task
  raced,        \* history: two push_backs have overlapped
  unlocked      \* history: a push_back has been started without pending_lock_

queueVars == <<running, threadId, lock, pending, wakeup>>
loopVars == <<batch, cur>>
callVars == <<pc, arg, size, used, blocking, done>>
history == <<ticket, issued, executed, destroyedBy, raced, unlocked>>
vars == <<queueVars, loopVars, callVars, history>>

Threads == Posters \cup {Loop}

PosterStates == {"idle", "impl", "lock", "write", "wake", "wait", "quit", "crashed"}
LoopStates == {"idle", "woken", "drain", "next", "task", "impl", "lock", "write",
               "wake", "quit", "crashed"}

-----------------------------------------------------------------------------
Init ==
  /\ running = FALSE /\ threadId = None
  /\ lock = None /\ pending = <<>> /\ wakeup = FALSE
  /\ batch = <<>> /\ cur = None
  /\ pc = [p \in Threads |-> "idle"]
  /\ arg = [p \in Threads |-> None]
  /\ size = [p \in Threads |-> 0]
  /\ used = {} /\ blocking = {} /\ done = {}
  /\ ticket = [t \in Tasks |-> 0] /\ issued = 0
  /\ executed = <<>>
  /\ destroyedBy = [t \in Tasks |-> None]
  /\ raced = FALSE /\ unlocked = FALSE

IsQuitting == ~running

IsCurrent(p) == threadId = p

(* A call returns to the task that made it, or out of the event loop.      *)
Caller(p) == IF p = Loop /\ cur # None THEN "task" ELSE "idle"

Goto(p, label) == pc' = [pc EXCEPT ![p] = label]

Return(p) == Goto(p, Caller(p)) /\ arg' = [arg EXCEPT ![p] = None]

(* Code outside the event loop may call into it from an idle thread and    *)
(* from the body of a task.                                                *)
CanCall(p) == pc[p] = "idle" \/ (p = Loop /\ pc[p] = "task")

(* Faulty: the closure of a blocking task does not own the Cleanup.        *)
DestroyWithoutCleanup(p, S) ==
  /\ destroyedBy' = [t \in Tasks |-> IF t \in S THEN p ELSE destroyedBy[t]]
  /\ UNCHANGED done

(* Thread p destroys the tasks of S. The closure of a blocking task owns   *)
(* the Cleanup that sets the caller's event, executed or not.              *)
Destroy(p, S) ==
  /\ destroyedBy' = [t \in Tasks |-> IF t \in S THEN p ELSE destroyedBy[t]]
  /\ done' = done \cup (S \cap blocking)

(* PostTask has returned: a blocking caller goes on to done.Wait.          *)
AfterPost(p) ==
  IF arg[p] \in blocking THEN Goto(p, "wait") /\ UNCHANGED arg ELSE Return(p)

-----------------------------------------------------------------------------
(* The loop's thread binds the event loop to itself.                       *)
Begin ==
  /\ pc[Loop] = "idle" /\ IsQuitting
  /\ threadId' = Loop
  /\ running' = TRUE
  /\ UNCHANGED <<lock, pending, wakeup, loopVars, callVars, history>>

PostTask(p, t) ==
  /\ CanCall(p) /\ t \notin used
  /\ used' = used \cup {t}
  /\ arg' = [arg EXCEPT ![p] = t]
  /\ Goto(p, "impl")
  /\ UNCHANGED <<queueVars, loopVars, size, blocking, done, history>>

(* BlockingCallImpl up to its PostTask. On the loop's own thread the       *)
(* functor runs inline, and a call on a loop that is not running returns   *)
(* without running it: neither touches the queue.                          *)
BlockingCallReturnsAtOnce(p, t) ==
  /\ CanCall(p) /\ t \notin used
  /\ IsQuitting \/ IsCurrent(p)
  /\ used' = used \cup {t}
  /\ UNCHANGED <<queueVars, loopVars, pc, arg, size, blocking, done, history>>

BlockingCallPosts(p, t) ==
  /\ CanCall(p) /\ t \notin used
  /\ ~IsQuitting /\ ~IsCurrent(p)
  /\ used' = used \cup {t}
  /\ blocking' = blocking \cup {t}
  /\ arg' = [arg EXCEPT ![p] = t]
  /\ Goto(p, "impl")
  /\ UNCHANGED <<queueVars, loopVars, size, done, history>>

-----------------------------------------------------------------------------
(* PostTaskImpl. A loop that is not running drops the task: the poster     *)
(* destroys it on return.                                                  *)
PostTaskImplDrops(p) ==
  /\ pc[p] = "impl" /\ IsQuitting
  /\ Destroy(p, {arg[p]})
  /\ AfterPost(p)
  /\ UNCHANGED <<queueVars, loopVars, size, used, blocking, ticket, issued,
                 executed, raced, unlocked>>

(* The loop's own thread starts its push_back without pending_lock_.       *)
PostTaskImplCurrent(p) ==
  /\ pc[p] = "impl" /\ ~IsQuitting /\ IsCurrent(p)
  /\ size' = [size EXCEPT ![p] = Len(pending)]
  /\ unlocked' = TRUE
  /\ Goto(p, "write")
  /\ UNCHANGED <<queueVars, loopVars, arg, used, blocking, done, ticket, issued,
                 executed, destroyedBy, raced>>

PostTaskImplOther(p) ==
  /\ pc[p] = "impl" /\ ~IsQuitting /\ ~IsCurrent(p)
  /\ Goto(p, "lock")
  /\ UNCHANGED <<queueVars, loopVars, arg, size, used, blocking, done, history>>

(* Faulty: push_back without the lock on every thread.                     *)
LockMissing(p) ==
  /\ pc[p] = "lock"
  /\ size' = [size EXCEPT ![p] = Len(pending)]
  /\ Goto(p, "write")
  /\ UNCHANGED <<queueVars, loopVars, arg, used, blocking, done, history>>

Lock(p) ==
  /\ pc[p] = "lock" /\ lock = None
  /\ lock' = p
  /\ size' = [size EXCEPT ![p] = Len(pending)]
  /\ Goto(p, "write")
  /\ UNCHANGED <<running, threadId, pending, wakeup, loopVars, arg, used,
                 blocking, done, history>>

(* What push_back leaves in q when it read size n before: the task is      *)
(* constructed in slot n + 1 and the size becomes n + 1, or one more than  *)
(* it is now when the increment reads it again. If nobody else has changed *)
(* q in between both are Append(q, t); if somebody has, that is a data race*)
(* and elements are cut off or overwritten and slots appear that nobody    *)
(* constructed.                                                            *)
PushBackResults(q, n, t) ==
  {[i \in 1 .. m |-> IF i = n + 1 THEN t
                     ELSE IF i <= Len(q) THEN q[i] ELSE Garbage] :
      m \in {n + 1, Len(q) + 1}}

(* The end of push_back, and of the critical section if there is one.      *)
PushBack(p) ==
  /\ pc[p] = "write"
  /\ pending' \in PushBackResults(pending, size[p], arg[p])
  /\ raced' = (raced \/ size[p] # Len(pending))
  /\ lock' = IF lock = p THEN None ELSE lock
  /\ size' = [size EXCEPT ![p] = 0]
  /\ issued' = issued + 1
  /\ ticket' = [ticket EXCEPT ![arg[p]] = issued + 1]
  /\ Goto(p, "wake")
  /\ UNCHANGED <<running, threadId, wakeup, loopVars, arg, used, blocking, done,
                 executed, destroyedBy, unlocked>>

(* Faulty: the loop's own thread is believed not to need a wake-up.        *)
WakeUpFromOthersOnly(p) ==
  /\ pc[p] = "wake"
  /\ wakeup' = (wakeup \/ ~IsCurrent(p))
  /\ AfterPost(p)
  /\ UNCHANGED <<running, threadId, lock, pending, loopVars, size, used,
                 blocking, done, history>>

WakeUp(p) ==
  /\ pc[p] = "wake"
  /\ wakeup' = TRUE
  /\ AfterPost(p)
  /\ UNCHANGED <<running, threadId, lock, pending, loopVars, size, used,
                 blocking, done, history>>

(* Faulty: the wait may time out before the task has been destroyed.       *)
WaitDoneTimesOut(p) ==
  /\ pc[p] = "wait"
  /\ Return(p)
  /\ UNCHANGED <<queueVars, loopVars, size, used, blocking, done, history>>

(* done.Wait(kForever) returns once the Cleanup has set the event.         *)
WaitDone(p) ==
  /\ pc[p] = "wait" /\ arg[p] \in done
  /\ Return(p)
  /\ UNCHANGED <<queueVars, loopVars, size, used, blocking, done, history>>

-----------------------------------------------------------------------------
(* The wait returns with index WSA_WAKEUP_EVENT: it is the first of the    *)
(* three events, so nothing can hide it.                                   *)
RunEventLoopOnce ==
  /\ pc[Loop] = "idle" /\ threadId = Loop /\ wakeup
  /\ Goto(Loop, "woken")
  /\ UNCHANGED <<queueVars, loopVars, arg, size, used, blocking, done, history>>

(* ProcessPendingTasks resets the event first and then takes the tasks.    *)
ProcessPendingTasks ==
  /\ pc[Loop] = "woken"
  /\ wakeup' = FALSE
  /\ Goto(Loop, "drain")
  /\ UNCHANGED <<running, threadId, lock, pending, loopVars, arg, size, used,
                 blocking, done, history>>

(* Faulty: only the first task is taken and the vector is cleared.         *)
RunPendingTasksTakesOne ==
  /\ pc[Loop] = "drain" /\ lock = None
  /\ batch' = IF pending = <<>> THEN <<>> ELSE <<Head(pending)>>
  /\ pending' = <<>>
  /\ Goto(Loop, IF pending = <<>> THEN "idle" ELSE "next")
  /\ UNCHANGED <<running, threadId, lock, wakeup, cur, arg, size, used, blocking,
                 done, history>>

RunPendingTasks ==
  /\ pc[Loop] = "drain" /\ lock = None
  /\ batch' = pending
  /\ pending' = <<>>
  /\ Goto(Loop, IF pending = <<>> THEN "idle" ELSE "next")
  /\ UNCHANGED <<running, threadId, lock, wakeup, cur, arg, size, used, blocking,
                 done, history>>

(* Faulty: the tasks are taken from the back of the vector.                *)
StartTaskFromBack ==
  /\ pc[Loop] = "next" /\ batch # <<>> /\ batch[Len(batch)] # Garbage
  /\ cur' = batch[Len(batch)]
  /\ batch' = SubSeq(batch, 1, Len(batch) - 1)
  /\ executed' = Append(executed, batch[Len(batch)])
  /\ Goto(Loop, "task")
  /\ UNCHANGED <<queueVars, arg, size, used, blocking, done, ticket, issued,
                 destroyedBy, raced, unlocked>>

StartTask ==
  /\ pc[Loop] = "next" /\ batch # <<>> /\ Head(batch) # Garbage
  /\ cur' = Head(batch)
  /\ batch' = Tail(batch)
  /\ executed' = Append(executed, Head(batch))
  /\ Goto(Loop, "task")
  /\ UNCHANGED <<queueVars, arg, size, used, blocking, done, ticket, issued,
                 destroyedBy, raced, unlocked>>

(* Faulty: the task is not destroyed before the next one.                  *)
FinishTaskKeeps ==
  /\ pc[Loop] = "task"
  /\ cur' = None
  /\ Goto(Loop, "next")
  /\ UNCHANGED <<queueVars, batch, arg, size, used, blocking, done, history>>

(* The task returns and is destroyed (task = nullptr) before the next one. *)
FinishTask ==
  /\ pc[Loop] = "task"
  /\ Destroy(Loop, {cur})
  /\ cur' = None
  /\ Goto(Loop, "next")
  /\ UNCHANGED <<queueVars, batch, arg, size, used, blocking, ticket, issued,
                 executed, raced, unlocked>>

(* Faulty: wakeup_ev_ is reset again after the tasks have run.             *)
RunPendingTasksThenResets ==
  /\ pc[Loop] = "next" /\ batch = <<>>
  /\ wakeup' = FALSE
  /\ Goto(Loop, "idle")
  /\ UNCHANGED <<running, threadId, lock, pending, loopVars, arg, size, used,
                 blocking, done, history>>

RunPendingTasksReturns ==
  /\ pc[Loop] = "next" /\ batch = <<>>
  /\ Goto(Loop, "idle")
  /\ UNCHANGED <<queueVars, loopVars, arg, size, used, blocking, done, history>>

RunGarbage ==
  /\ pc[Loop] = "next" /\ batch # <<>> /\ Head(batch) = Garbage
  /\ Goto(Loop, "crashed")
  /\ UNCHANGED <<queueVars, loopVars, arg, size, used, blocking, done, history>>

-----------------------------------------------------------------------------
(* Faulty: the tasks are destroyed where they are and stay in pending_.    *)
QuitSwapKeeps(p) ==
  /\ p \in Quitters /\ CanCall(p) /\ lock = None
  /\ Destroy(p, Range(pending))
  /\ Goto(p, IF Garbage \in Range(pending) THEN "crashed" ELSE "quit")
  /\ UNCHANGED <<queueVars, loopVars, arg, size, used, blocking, ticket, issued,
                 executed, raced, unlocked>>

(* Quit swaps pending_ with a local under the lock; the local outlives the *)
(* lock, so the tasks are destroyed outside it, and only then is running_  *)
(* stored.                                                                 *)
QuitSwap(p) ==
  /\ p \in Quitters /\ CanCall(p) /\ lock = None
  /\ Destroy(p, Range(pending))
  /\ pending' = <<>>
  /\ Goto(p, IF Garbage \in Range(pending) THEN "crashed" ELSE "quit")
  /\ UNCHANGED <<running, threadId, lock, wakeup, loopVars, arg, size, used,
                 blocking, ticket, issued, executed, raced, unlocked>>

QuitStore(p) ==
  /\ pc[p] = "quit"
  /\ running' = FALSE
  /\ Return(p)
  /\ UNCHANGED <<threadId, lock, pending, wakeup, loopVars, size, used, blocking,
                 done, history>>

-----------------------------------------------------------------------------
(* A thread that crashes takes the process with it.                        *)
Alive == \A p \in Threads : pc[p] # "crashed"

(* What a thread is inside of: the code guarantees that it goes on.        *)
CallStep(p) ==
  /\ Alive
  /\ \/ PostTaskImplDrops(p) \/ PostTaskImplCurrent(p) \/ PostTaskImplOther(p)
     \/ Lock(p) \/ PushBack(p) \/ WakeUp(p) \/ WaitDone(p) \/ QuitStore(p)

LoopStep ==
  /\ Alive
  /\ \/ RunEventLoopOnce \/ ProcessPendingTasks \/ RunPendingTasks \/ StartTask
     \/ FinishTask \/ RunPendingTasksReturns \/ RunGarbage

(* What the users of the event loop may do, or not.                        *)
UserStep ==
  /\ Alive
  /\ \/ Begin
     \/ \E p \in Threads : QuitSwap(p)
     \/ \E p \in Threads, t \in Tasks :
          PostTask(p, t) \/ BlockingCallReturnsAtOnce(p, t) \/ BlockingCallPosts(p, t)

Next == LoopStep \/ UserStep \/ \E p \in Threads : CallStep(p)

Spec == Init /\ [][Next]_vars

(* Threads inside a call are scheduled, tasks return, and the owner of a   *)
(* running loop keeps calling RunEventLoopOnce (test_base.cc does so in an *)
(* endless loop). Nobody is obliged to post, to begin, to quit, or to run  *)
(* a loop that has quit.                                                   *)
Fairness ==
  /\ \A p \in Threads : WF_vars(CallStep(p))
  /\ WF_vars((running \/ pc[Loop] # "idle") /\ LoopStep)

FairSpec == Spec /\ Fairness

-----------------------------------------------------------------------------
(* Every variable holds a value of its kind; in particular the loop's own  *)
(* thread never waits for itself in BlockingCall.                          *)
TypeOK ==
  /\ running \in BOOLEAN /\ wakeup \in BOOLEAN /\ raced \in BOOLEAN /\ unlocked \in BOOLEAN
  /\ threadId \in {None, Loop}
  /\ lock \in Threads \cup {None}
  /\ pending \in Seq(Tasks \cup {Garbage}) /\ batch \in Seq(Tasks \cup {Garbage})
  /\ cur \in Tasks \cup {None}
  /\ pc \in [Threads -> PosterStates \cup LoopStates]
  /\ pc[Loop] \in LoopStates /\ \A p \in Posters : pc[p] \in PosterStates
  /\ arg \in [Threads -> Tasks \cup {None}]
  /\ size \in [Threads -> Nat]
  /\ used \subseteq Tasks /\ blocking \subseteq Tasks /\ done \subseteq Tasks
  /\ ticket \in [Tasks -> Nat] /\ issued \in Nat
  /\ executed \in Seq(Tasks)
  /\ destroyedBy \in [Tasks -> Threads \cup {None}]

(* Whenever a task is queued, something is under way that makes the loop   *)
(* look at the queue: the event is set, or the loop has reset it and has   *)
(* yet to swap, or a poster has yet to call WakeUp. Resetting the event    *)
(* before the swap in ProcessPendingTasks is what this rests on.           *)
NoLostWakeup ==
  pending # <<>> => wakeup \/ pc[Loop] = "drain" \/ \E p \in Threads : pc[p] = "wake"

(* pending_lock_ keeps the posters from interfering: push_backs overlap    *)
(* only after code on the loop's own thread, which takes no lock, posted.  *)
NoDataRace == raced => unlocked

(* As long as no two push_backs have overlapped, queued tasks are executed *)
(* in the order of their push_backs, across batches, posters and Quits.    *)
FifoOrder ==
  ~raced => \A i, j \in DOMAIN executed :
              i < j => ticket[executed[i]] < ticket[executed[j]]

(* As long as no two push_backs have overlapped, a task whose push_back is *)
(* complete is still queued, has been started, or was destroyed by Quit.   *)
NothingLost ==
  ~raced => \A t \in Tasks :
              ticket[t] > 0 => \/ t \in Range(pending) \cup Range(batch) \cup Range(executed)
                               \/ destroyedBy[t] # None

(* As long as no two push_backs have overlapped, no task is destroyed      *)
(* while it is queued or running, and none is queued again after it ran.   *)
NoUseAfterDestroy ==
  ~raced => \A t \in Range(pending) \cup Range(batch) \cup {cur} :
              t # None => /\ t \in Tasks /\ destroyedBy[t] = None
                          /\ t \notin done

(* The functor of a blocking call refers to its caller's stack. As long as *)
(* no two push_backs have overlapped, while such a task is queued or       *)
(* running, the caller has not returned from BlockingCallImpl.             *)
NoDanglingFunctor ==
  ~raced => \A t \in blocking \cap (Range(pending) \cup Range(batch) \cup {cur}) :
              \E p \in Posters : arg[p] = t /\ pc[p] \in {"wake", "wait"}

(* A task that was pushed is executed, or destroyed by Quit; unless it is  *)
(* lost to the data race of an unlocked push_back, or the loop quits while *)
(* the task is on its way into the queue.                                  *)
PostedTasksSettle ==
  \A t \in Tasks : ticket[t] > 0 ~> \/ t \in Range(executed)
                                    \/ destroyedBy[t] # None
                                    \/ raced \/ IsQuitting

(* A thread that blocks in BlockingCall gets out again, unless the data    *)
(* race of an unlocked push_back loses its task, or the loop quits.        *)
BlockingCallReturns ==
  \A p \in Threads : pc[p] = "wait" ~> pc[p] # "wait" \/ raced \/ IsQuitting

(* What a user sees of the queue. What is queued is the rest of the batch  *)
(* and then pending_; a task is accepted when its push_back is complete,   *)
(* and over when it is destroyed.                                          *)
Queued == batch \o pending
Over == {t \in Tasks : destroyedBy[t] # None}
Posted == {t \in Tasks : ticket[t] > 0} \cup Over
Awaited == [p \in Threads |-> IF arg[p] \in blocking THEN arg[p] ELSE None]

Executor == INSTANCE FifoExecutor WITH
  queue <- Queued, current <- cur, posted <- Posted, over <- Over, awaited <- Awaited,
  void <- raced

(* All steps of the posters, of the loop, of Quit and of blocking calls    *)
(* are steps of one FIFO queue of tasks that never overlap, as long as no  *)
(* two push_backs have overlapped.                                         *)
ImplementsExecutor == Executor!Spec

-----------------------------------------------------------------------------
(* What the comments of the code say and the code does not do.             *)

(* task_queue_base.h: "Schedules a `task` to execute", "May be called on   *)
(* any thread or task queue, including this task queue": a pushed task is  *)
(* queued, executed or destroyed, whoever else is posting.                 *)
ScheduledFromAnyThread ==
  \A t \in Tasks :
    ticket[t] > 0 => \/ t \in Range(pending) \cup Range(batch) \cup Range(executed)
                     \/ destroyedBy[t] # None

=============================================================================
