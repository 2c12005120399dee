----------------------------- MODULE TimerQueue -----------------------------
(***************************************************************************)
(* The delayed tasks of EventLoopWin (event_loop_win.cc): the priority     *)
(* queue timer_tasks_, the multimedia timer with its event, the SetTimer   *)
(* fallback, and PostDelayedTask from the loop's own and from other        *)
(* threads (event_loop.cc). The clock, in microseconds, may advance        *)
(* between any two reads of it; the timer fires on a thread of its own.    *)
(*                                                                         *)
(* The loop's pc: "idle" in the wait; "next" in RunPendingTasks' for loop; *)
(* "body" in the task cur; "compensate" and "push" before the two reads of *)
(* the clock in PostDelayedTaskOnTaskQueue; "schedule" about to call       *)
(* ScheduleNextTimer; "due" in the do loop of RunDueTasks.                 *)
(***************************************************************************)
EXTENDS Integers, Sequences, FiniteSets

CONSTANTS
  Tasks,        \* the delayed tasks that may be posted, each of them once
  Delays,       \* the delays they may be posted with, in microseconds
  Forever,      \* the delay absl::InfiniteDuration()
  MicrosPerMs,  \* kNumMicrosecsPerMillisec, scaled down
  MaxTimerMs,   \* the longest delay timeSetEvent accepts
  IntMax,       \* the largest int64_t, scaled down
  MaxTime,      \* bound: the clock stops here
  MayQuit,      \* whether the owner calls Quit
  LateFires,    \* the systems: may a timer set its event after timeKillEvent
  None          \* no task, no expiry

ASSUME TimerAssumption ==
  /\ Forever \notin Int /\ Delays \subseteq Int \cup {Forever}
  /\ MicrosPerMs \in Nat \ {0} /\ MaxTimerMs \in Nat /\ IntMax \in Nat
  /\ MaxTime \in 0 .. IntMax
  /\ MayQuit \in BOOLEAN /\ LateFires \subseteq BOOLEAN
  /\ None \notin Tasks /\ None \notin Int \cup {Forever}

VARIABLES
  now,       \* CurrentTimeMicros()
  running,   \* running_
  inbox,     \* pending_: the closures PostDelayedTask has put there
  batch,     \* the rest of the local `tasks` of RunPendingTasks
  heap,      \* the tasks in timer_tasks_
  due,       \* their due_time_micros_
  top,       \* the task of timer_tasks_.top()
  mmId,      \* MultimediaTimer::timer_id_ # 0
  armed,     \* the time at which the one-shot timer will fire, or None
  lateFire,  \* external: the system lets a killed timer set its event
  late,      \* a killed timer is still about to set the event
  timerEv,   \* MultimediaTimer::event_, a manual-reset event
  winTimer,  \* EventLoopWin::timer_id_ # 0: a SetTimer timer
  pc,        \* see above
  ctx,       \* what the loop is in: "wait", "pending" or "timer" work
  cur,       \* the task that is running
  req,       \* the arguments of the current PostDelayedTaskOnTaskQueue
  runNow,    \* now_micros of RunDueTasks
  ran,       \* history: the tasks that have been started
  target     \* history: the time a task was asked to run at

clockVars == <<now, target>>
queueVars == <<heap, due, top>>
timerVars == <<mmId, armed, lateFire, late, timerEv, winTimer>>
loopVars == <<pc, ctx, cur, runNow, batch>>
vars == <<clockVars, running, inbox, queueVars, timerVars, loopVars, req, ran>>

Requests == [task : Tasks, start : Nat, delay : Int \cup {Forever}]
NoRequest == [task |-> None, start |-> 0, delay |-> 0]

-----------------------------------------------------------------------------
Init ==
  /\ now = 0 /\ running = TRUE
  /\ inbox = <<>> /\ batch = <<>>
  /\ heap = {} /\ due = [t \in Tasks |-> 0] /\ top = None
  /\ mmId = FALSE /\ armed = None /\ late = FALSE /\ lateFire \in LateFires
  /\ timerEv = FALSE /\ winTimer = FALSE
  /\ pc = "idle" /\ ctx = "wait" /\ cur = None
  /\ req = NoRequest /\ runNow = 0
  /\ ran = {} /\ target = [t \in Tasks |-> None]

IsQuitting == ~running

(* int64_t arithmetic, as the compiled code does it.                       *)
Wrap(x) == ((x + IntMax + 1) % (2 * IntMax + 2)) - IntMax - 1

(* absl::Duration saturates: infinity minus anything is infinity, and      *)
(* converts to the largest integer.                                        *)
Minus(delay, elapsed) == IF delay = Forever THEN Forever ELSE delay - elapsed
ToInt64Microseconds(delay) == IF delay = Forever THEN IntMax ELSE delay

NotPositive(delay) == delay # Forever /\ delay <= 0

(* Where a call made by the loop's thread returns to.                      *)
Back == IF cur # None THEN "body" ELSE IF ctx = "pending" THEN "next" ELSE "idle"

-----------------------------------------------------------------------------
(* The clock is a steady one.                                              *)
Tick ==
  /\ now < MaxTime
  /\ now' = now + 1
  /\ UNCHANGED <<target, running, inbox, queueVars, timerVars, loopVars, req, ran>>

(* The multimedia timer sets the event; its id stays until Cancel.         *)
TimerFires ==
  /\ armed # None /\ armed <= now
  /\ timerEv' = TRUE
  /\ armed' = None
  /\ UNCHANGED <<clockVars, running, inbox, queueVars, mmId, lateFire, late, winTimer,
                 loopVars, req, ran>>

(* timeKillEvent without TIME_KILL_SYNCHRONOUS does not wait for a timer   *)
(* that is expiring.                                                       *)
KilledTimerFires ==
  /\ late
  /\ timerEv' = TRUE
  /\ late' = FALSE
  /\ UNCHANGED <<clockVars, running, inbox, queueVars, mmId, armed, lateFire, winTimer,
                 loopVars, req, ran>>

(* Faulty: the event is not reset.                                         *)
CancelWithoutReset ==
  /\ mmId' = FALSE
  /\ armed' = None
  /\ UNCHANGED <<lateFire, late, timerEv>>

(* MultimediaTimer::Cancel: kill the timer, then reset its event.          *)
Cancel ==
  /\ mmId' = FALSE
  /\ armed' = None
  /\ late' \in {late} \cup {l \in {TRUE} : lateFire /\ armed # None /\ armed <= now}
  /\ timerEv' = FALSE
  /\ UNCHANGED lateFire

-----------------------------------------------------------------------------
(* PostDelayedTask on a loop that has quit drops the task.                 *)
PostDelayedTaskDropped(t) ==
  /\ IsQuitting /\ target[t] = None
  /\ target' = [target EXCEPT ![t] = Forever]
  /\ UNCHANGED <<now, running, inbox, queueVars, timerVars, loopVars, req, ran>>

AskedFor(delay) == IF delay = Forever THEN Forever ELSE now + delay

(* From another thread: the closure carries the time of the call; without  *)
(* a delay the task itself is posted.                                      *)
PostDelayedTaskFromOther(t, delay) ==
  /\ ~IsQuitting /\ target[t] = None
  /\ target' = [target EXCEPT ![t] = AskedFor(delay)]
  /\ inbox' = Append(inbox, [task |-> t, start |-> now, delay |-> delay])
  /\ UNCHANGED <<now, running, queueVars, timerVars, loopVars, req, ran>>

(* Faulty: a delay that is not positive is not treated separately.         *)
PostDelayedTaskAnyDelay(t, delay) ==
  /\ pc \in {"idle", "body"} /\ ~IsQuitting /\ target[t] = None
  /\ target' = [target EXCEPT ![t] = AskedFor(delay)]
  /\ req' = [task |-> t, start |-> now, delay |-> delay]
  /\ pc' = "compensate"
  /\ UNCHANGED <<now, running, inbox, queueVars, timerVars, ctx, cur, runNow, batch, ran>>

(* From the loop's own thread, mostly from inside a task.                  *)
PostDelayedTaskFromLoop(t, delay) ==
  /\ pc \in {"idle", "body"} /\ ~IsQuitting /\ target[t] = None
  /\ target' = [target EXCEPT ![t] = AskedFor(delay)]
  /\ IF NotPositive(delay)
       THEN /\ inbox' = Append(inbox, [task |-> t, start |-> now, delay |-> delay])
            /\ UNCHANGED <<pc, req>>
       ELSE /\ req' = [task |-> t, start |-> now, delay |-> delay]
            /\ pc' = "compensate"
            /\ UNCHANGED inbox
  /\ UNCHANGED <<now, running, queueVars, timerVars, ctx, cur, runNow, batch, ran>>

(* Quit releases what is in pending_, and only that.                       *)
Quit ==
  /\ MayQuit /\ pc \in {"idle", "body"} /\ ~IsQuitting
  /\ inbox' = <<>>
  /\ running' = FALSE
  /\ UNCHANGED <<clockVars, queueVars, timerVars, loopVars, req, ran>>

-----------------------------------------------------------------------------
(* RunPendingTasks, as far as delayed tasks are concerned.                 *)
RunPendingTasks ==
  /\ pc = "idle" /\ inbox # <<>>
  /\ batch' = inbox
  /\ inbox' = <<>>
  /\ pc' = "next" /\ ctx' = "pending"
  /\ UNCHANGED <<clockVars, running, queueVars, timerVars, cur, runNow, req, ran>>

RunPosted ==
  /\ pc = "next" /\ batch # <<>>
  /\ batch' = Tail(batch)
  /\ IF NotPositive(Head(batch).delay)
       THEN /\ cur' = Head(batch).task
            /\ ran' = ran \cup {Head(batch).task}
            /\ pc' = "body"
            /\ UNCHANGED req
       ELSE /\ req' = Head(batch)
            /\ pc' = "compensate"
            /\ UNCHANGED <<cur, ran>>
  /\ UNCHANGED <<clockVars, running, inbox, queueVars, timerVars, ctx, runNow>>

RunPendingTasksReturns ==
  /\ pc = "next" /\ batch = <<>>
  /\ pc' = "idle" /\ ctx' = "wait"
  /\ UNCHANGED <<clockVars, running, inbox, queueVars, timerVars, cur, runNow,
                 batch, req, ran>>

(* PostDelayedTaskOnTaskQueue: the time since the posting is taken off the *)
(* delay ...                                                               *)
Compensate ==
  /\ pc = "compensate"
  /\ req' = [req EXCEPT !.delay = Minus(@, now - req.start)]
  /\ pc' = "push"
  /\ UNCHANGED <<clockVars, running, inbox, queueVars, timerVars, ctx, cur, runNow,
                 batch, ran>>

(* ... and the constructor of DelayedTaskInfo adds what is left to a       *)
(* second reading of the clock.                                            *)
DueTime == Wrap(now + ToInt64Microseconds(req.delay))

NewTop == heap = {} \/ due[top] > DueTime

(* Faulty: only the first task starts the timer.                           *)
PushSchedulesFirstOnly ==
  /\ pc = "push"
  /\ heap' = heap \cup {req.task}
  /\ due' = [due EXCEPT ![req.task] = DueTime]
  /\ top' = IF NewTop THEN req.task ELSE top
  /\ IF heap = {} THEN Cancel /\ winTimer' = FALSE /\ pc' = "schedule"
                  ELSE UNCHANGED timerVars /\ pc' = Back
  /\ req' = NoRequest
  /\ UNCHANGED <<clockVars, running, inbox, ctx, cur, runNow, batch, ran>>

(* The push into the heap changes its root only if the new task is due     *)
(* strictly earlier, and only then are the timers cancelled (CancelTimers) *)
(* to be scheduled anew.                                                   *)
Push ==
  /\ pc = "push"
  /\ heap' = heap \cup {req.task}
  /\ due' = [due EXCEPT ![req.task] = DueTime]
  /\ top' = IF NewTop THEN req.task ELSE top
  /\ IF NewTop THEN Cancel /\ winTimer' = FALSE /\ pc' = "schedule"
               ELSE UNCHANGED timerVars /\ pc' = Back
  /\ req' = NoRequest
  /\ UNCHANGED <<clockVars, running, inbox, ctx, cur, runNow, batch, ran>>

-----------------------------------------------------------------------------
(* The milliseconds to the next task, rounded down.                        *)
DelayMs == LET d == due[top] - now IN (IF d > 0 THEN d ELSE 0) \div MicrosPerMs

(* ScheduleNextTimer: the multimedia timer, or a SetTimer timer if that    *)
(* cannot be started.                                                      *)
ScheduleNextTimer ==
  /\ pc = "schedule"
  /\ pc' = Back
  /\ ctx' = IF cur = None /\ ctx = "timer" THEN "wait" ELSE ctx
  /\ \/ heap = {} /\ UNCHANGED <<mmId, armed, winTimer>>
     \/ /\ heap # {} /\ DelayMs <= MaxTimerMs
        /\ mmId' = TRUE
        /\ armed' = now + DelayMs * MicrosPerMs
        /\ UNCHANGED winTimer
     \/ /\ heap # {} /\ DelayMs > MaxTimerMs
        /\ winTimer' = TRUE
        /\ UNCHANGED <<mmId, armed>>
  /\ UNCHANGED <<clockVars, running, inbox, queueVars, lateFire, late, timerEv, cur, runNow,
                 batch, req, ran>>

(* The wait returns index WSA_TIMER_EVENT. With an empty queue             *)
(* ProcessTimerTasksUpTo returns at once and changes nothing.              *)
ProcessTimerTasksUpTo ==
  /\ pc = "idle" /\ timerEv /\ heap # {}
  /\ Cancel
  /\ runNow' = now
  /\ pc' = "due" /\ ctx' = "timer"
  /\ UNCHANGED <<clockVars, running, inbox, queueVars, winTimer, cur, batch, req, ran>>

(* Faulty: due times are compared in milliseconds.                         *)
RunDueTaskInMs ==
  /\ pc = "due" /\ heap # {} /\ due[top] \div MicrosPerMs <= runNow \div MicrosPerMs
  /\ cur' = top
  /\ ran' = ran \cup {top}
  /\ pc' = "body"
  /\ UNCHANGED <<clockVars, running, inbox, queueVars, timerVars, ctx, runNow,
                 batch, req>>

RunDueTask ==
  /\ pc = "due" /\ heap # {} /\ due[top] <= runNow
  /\ cur' = top
  /\ ran' = ran \cup {top}
  /\ pc' = "body"
  /\ UNCHANGED <<clockVars, running, inbox, queueVars, timerVars, ctx, runNow,
                 batch, req>>

(* Faulty: the timer is not scheduled for the tasks that remain.           *)
RunDueTasksReturnsUnscheduled ==
  /\ pc = "due" /\ ~(heap # {} /\ due[top] <= runNow)
  /\ pc' = "idle" /\ ctx' = "wait" /\ runNow' = 0
  /\ UNCHANGED <<clockVars, running, inbox, queueVars, timerVars, cur, batch, req, ran>>

RunDueTasksReturns ==
  /\ pc = "due" /\ ~(heap # {} /\ due[top] <= runNow)
  /\ pc' = "schedule" /\ runNow' = 0
  /\ UNCHANGED <<clockVars, running, inbox, queueVars, timerVars, ctx, cur, batch, req, ran>>

Earliest(S) == {t \in S : \A u \in S : due[t] <= due[u]}

(* The task returns. RunDueTasks then pops the root of the heap: any of    *)
(* the tasks that are due first may become the new root.                   *)
FinishDueTask ==
  /\ pc = "body" /\ ctx = "timer"
  /\ heap' = heap \ {top}
  /\ top' \in IF heap' = {} THEN {None} ELSE Earliest(heap')
  /\ due' = [due EXCEPT ![top] = 0]
  /\ cur' = None
  /\ pc' = "due"
  /\ UNCHANGED <<clockVars, running, inbox, timerVars, ctx, runNow, batch, req, ran>>

FinishPosted ==
  /\ pc = "body" /\ ctx = "pending"
  /\ cur' = None
  /\ pc' = "next"
  /\ UNCHANGED <<clockVars, running, inbox, queueVars, timerVars, ctx, runNow, batch,
                 req, ran>>

-----------------------------------------------------------------------------
LoopStep ==
  \/ RunPendingTasks \/ RunPosted \/ RunPendingTasksReturns \/ Compensate \/ Push
  \/ ScheduleNextTimer \/ ProcessTimerTasksUpTo \/ RunDueTask \/ RunDueTasksReturns
  \/ FinishDueTask \/ FinishPosted

UserStep ==
  \/ Quit
  \/ \E t \in Tasks : PostDelayedTaskDropped(t)
  \/ \E t \in Tasks, d \in Delays : PostDelayedTaskFromOther(t, d) \/ PostDelayedTaskFromLoop(t, d)

Next == LoopStep \/ UserStep \/ Tick \/ TimerFires \/ KilledTimerFires

Spec == Init /\ [][Next]_vars

(* The loop is run, tasks return, time passes and timers fire.             *)
FairSpec == Spec /\ WF_vars(LoopStep) /\ WF_vars(Tick) /\ WF_vars(TimerFires)

-----------------------------------------------------------------------------
(* Every variable holds a value of its kind, and the root of the heap is   *)
(* one of the tasks that are due first.                                    *)
TypeOK ==
  /\ now \in 0 .. MaxTime /\ runNow \in 0 .. MaxTime
  /\ running \in BOOLEAN /\ mmId \in BOOLEAN /\ late \in BOOLEAN /\ lateFire \in LateFires
  /\ timerEv \in BOOLEAN /\ winTimer \in BOOLEAN
  /\ inbox \in Seq(Requests) /\ batch \in Seq(Requests)
  /\ heap \subseteq Tasks /\ due \in [Tasks -> Int]
  /\ IF heap = {} THEN top = None ELSE top \in Earliest(heap)
  /\ armed \in Nat \cup {None}
  /\ pc \in {"idle", "next", "body", "compensate", "push", "schedule", "due"}
  /\ ctx \in {"wait", "pending", "timer"}
  /\ cur \in Tasks \cup {None}
  /\ req \in Requests \cup {NoRequest}
  /\ ran \subseteq Tasks
  /\ target \in [Tasks -> Int \cup {None, Forever}]

(* A task never starts before the delay asked for has passed since the     *)
(* call, however long its closure waited in pending_ and wherever the      *)
(* clock advanced in between.                                              *)
NeverEarly ==
  cur # None => target[cur] # Forever /\ target[cur] <= now

(* Whenever the loop is not about to schedule, and no SetTimer timer is    *)
(* relied on, a queued task has its timer: the event is set, or the        *)
(* multimedia timer will set it no later than the first task is due.       *)
TimerIsArmed ==
  heap # {} /\ ctx # "timer" /\ pc # "schedule" /\ ~winTimer
    => timerEv \/ (armed # None /\ (armed <= due[top] \/ armed <= now))

(* RunDueTasks runs the root of the heap and pops it afterwards. Whatever  *)
(* the task posted in between, what is popped is the task that ran.        *)
PopsWhatRan == ctx = "timer" /\ cur # None => top = cur

(* The DCHECKs of ScheduleNextTimer and StartOneShotTimer, and the         *)
(* surprising state the comment in Cancel speaks of: no timer of either    *)
(* kind is pending whenever one is scheduled, and no event is set without  *)
(* a timer, on which an empty queue would let the loop spin for ever. A    *)
(* killed timer that sets the event late breaks both.                      *)
NoSurprisingTimer ==
  ~lateFire => /\ pc = "schedule" => ~mmId /\ ~winTimer
               /\ timerEv => mmId

(* A queued task is started once its time has come, unless timeSetEvent    *)
(* refused a delay and the loop relies on a SetTimer timer; also when a    *)
(* timer that was killed sets its event late.                              *)
AcceptedDelayRuns ==
  \A t \in Tasks : t \in heap /\ due[t] <= MaxTime ~> t \in ran \/ winTimer

=============================================================================
