-------------------------- MODULE TimerQueueProofs --------------------------
(***************************************************************************)
(* Proofs, for every set of tasks and delays, that the loop keeps its      *)
(* types and always has a timer for the first delayed task, and, as long   *)
(* as no due time overflows, that no task starts early, that the task that *)
(* is popped is the one that ran, and that no timer is left over.          *)
(***************************************************************************)
EXTENDS TimerQueue, SequenceTheorems, TLAPS

(* What an int64_t number of microseconds can hold: no delay is so long    *)
(* that a due time exceeds it.                                             *)
NoOverflow == \A d \in Delays : d # Forever /\ MaxTime + d <= IntMax

(* Where the loop is, what it is in, and whether a task is running.        *)
ShapeInv ==
  /\ pc = "idle" => ctx = "wait"
  /\ pc = "next" => ctx = "pending"
  /\ pc = "due" => ctx = "timer"
  /\ pc = "body" => ctx # "wait"
  /\ pc = "body" <=> cur # None /\ pc \notin {"compensate", "push", "schedule"}
  /\ ctx = "wait" => cur = None
  /\ ctx = "timer" /\ pc \in {"compensate", "push"} => cur # None
  /\ pc \in {"compensate", "push"} <=> req \in Requests

TasksOf(s) == {r.task : r \in Range(s)}

Distinct(s) == \A i, j \in DOMAIN s : s[i].task = s[j].task => i = j

(* A task is in one place until it has been started.                       *)
PlaceInv ==
  /\ Distinct(inbox) /\ Distinct(batch)
  /\ TasksOf(inbox) \cap TasksOf(batch) = {}
  /\ (TasksOf(inbox) \cup TasksOf(batch)) \cap heap = {}
  /\ req.task \notin TasksOf(inbox) \cup TasksOf(batch) \cup heap
  /\ \A t \in TasksOf(inbox) \cup TasksOf(batch) \cup heap : target[t] # None
  /\ pc \in {"compensate", "push"} => target[req.task] # None

QueueInv == TypeOK /\ ShapeInv /\ PlaceInv /\ TimerIsArmed

-----------------------------------------------------------------------------
(* A request carries the time its task was asked to run at.                *)
OnTime(r) ==
  r.start <= now /\ r.delay \in Delays /\ target[r.task] = r.start + r.delay

(* What is left of a delay, and what is in the heap, is never short of     *)
(* that time. A task that runs from the heap is its root, and what it      *)
(* posts is due later than it was.                                         *)
TimeInv ==
  /\ \A r \in Range(inbox) \cup Range(batch) : OnTime(r)
  /\ pc = "compensate" => OnTime(req) /\ req.delay > 0
  /\ pc = "push" => /\ req.delay \in Int /\ MaxTime + req.delay <= IntMax
                    /\ target[req.task] \in 1 .. now + req.delay
  /\ \A t \in heap : target[t] \in Int /\ target[t] <= due[t]
  /\ runNow <= now
  /\ ctx = "timer" /\ cur # None => heap # {} /\ top = cur /\ due[top] <= runNow
  /\ ctx = "timer" /\ pc \in {"compensate", "push"} => runNow < target[req.task]
  /\ ctx = "timer" /\ pc = "schedule" => cur = None
  /\ cur # None => target[cur] \in Int /\ target[cur] <= now

(* Unless a killed timer fires late, a set event and an armed timer have   *)
(* their id, and one kind of timer is in use at most.                      *)
TimerInv ==
  ~lateFire => /\ ~late
               /\ armed # None => mmId
               /\ timerEv => mmId
               /\ ~(mmId /\ winTimer)
               /\ ctx = "timer" \/ pc = "schedule" => ~mmId /\ ~winTimer

-----------------------------------------------------------------------------
(* What posting, swapping and taking a closure do to the tasks in a queue. *)
LEMMA EmptyTasks == Range(<<>>) = {} /\ TasksOf(<<>>) = {} /\ Distinct(<<>>)
BY DEF TasksOf, Distinct, Range

LEMMA TasksType ==
  ASSUME NEW s \in Seq(Requests) PROVE TasksOf(s) \subseteq Tasks
<1>1. \A i \in DOMAIN s : s[i] \in Requests
  BY ElementOfSeq, LenProperties
<1>2. \A i \in DOMAIN s : s[i].task \in Tasks
  BY <1>1 DEF Requests
<1> QED
  BY <1>2 DEF TasksOf, Range

LEMMA AppendTasks ==
  ASSUME NEW s \in Seq(Requests), NEW r \in Requests
  PROVE  /\ Append(s, r) \in Seq(Requests)
         /\ Range(Append(s, r)) = Range(s) \cup {r}
         /\ TasksOf(Append(s, r)) = TasksOf(s) \cup {r.task}
         /\ Distinct(s) /\ r.task \notin TasksOf(s) => Distinct(Append(s, r))
<1>1. Append(s, r) \in Seq(Requests) /\ Range(Append(s, r)) = Range(s) \cup {r}
  BY AppendProperties DEF Range
<1>2. TasksOf(Append(s, r)) = TasksOf(s) \cup {r.task}
  BY <1>1 DEF TasksOf
<1>3. ASSUME Distinct(s), r.task \notin TasksOf(s) PROVE Distinct(Append(s, r))
  BY <1>3, AppendProperties DEF Distinct, TasksOf, Range
<1> QED
  BY <1>1, <1>2, <1>3

LEMMA TailTasks ==
  ASSUME NEW s \in Seq(Requests), s # <<>>
  PROVE  /\ Tail(s) \in Seq(Requests) /\ Head(s) \in Requests
         /\ Range(s) = Range(Tail(s)) \cup {Head(s)}
         /\ TasksOf(s) = TasksOf(Tail(s)) \cup {Head(s).task}
         /\ Distinct(s) => Distinct(Tail(s)) /\ Head(s).task \notin TasksOf(Tail(s))
<1>1. Tail(s) \in Seq(Requests) /\ Head(s) \in Requests
  BY HeadTailProperties
<1>2. Len(s) \in Nat /\ Len(s) > 0 /\ DOMAIN s = 1 .. Len(s) /\ Head(s) = s[1]
      /\ DOMAIN Tail(s) = 1 .. Len(s) - 1 /\ \A i \in 1 .. Len(s) - 1 : Tail(s)[i] = s[i + 1]
  BY HeadTailProperties, EmptySeq
<1>3. Range(s) = Range(Tail(s)) \cup {Head(s)}
  <2>1. ASSUME NEW i \in DOMAIN s PROVE s[i] \in Range(Tail(s)) \cup {Head(s)}
    <3>1. CASE i = 1
      BY <1>2, <3>1
    <3>2. CASE i # 1
      <4>1. i - 1 \in DOMAIN Tail(s) /\ Tail(s)[i - 1] = s[i]
        BY <1>2, <3>2
      <4> QED
        BY <4>1 DEF Range
    <3> QED
      BY <3>1, <3>2
  <2>2. ASSUME NEW i \in DOMAIN Tail(s) PROVE Tail(s)[i] \in Range(s)
    <3>1. i + 1 \in DOMAIN s /\ Tail(s)[i] = s[i + 1]
      BY <1>2
    <3> QED
      BY <3>1 DEF Range
  <2>3. Head(s) \in Range(s)
    BY <1>2 DEF Range
  <2> QED
    BY <2>1, <2>2, <2>3 DEF Range
<1>4. TasksOf(s) = TasksOf(Tail(s)) \cup {Head(s).task}
  BY <1>3 DEF TasksOf
<1>5. ASSUME Distinct(s) PROVE Distinct(Tail(s)) /\ Head(s).task \notin TasksOf(Tail(s))
  BY <1>2, <1>5 DEF Distinct, TasksOf, Range
<1> QED
  BY <1>1, <1>3, <1>4, <1>5

(* The arithmetic of due times and of milliseconds.                        *)
LEMMA WrapType ==
  ASSUME NEW x \in Int PROVE Wrap(x) \in Int
BY TimerAssumption DEF Wrap

LEMMA WrapIsExact ==
  ASSUME NEW x \in Int, 0 <= x, x <= IntMax PROVE Wrap(x) = x
BY TimerAssumption DEF Wrap

LEMMA RoundedDown ==
  ASSUME NEW d \in Nat
  PROVE  d \div MicrosPerMs \in Nat /\ (d \div MicrosPerMs) * MicrosPerMs \in 0 .. d
BY TimerAssumption

-----------------------------------------------------------------------------
(* The loop's bookkeeping, one action after the other.                     *)
LEMMA QueueStep == QueueInv /\ [Next]_vars => QueueInv'
<1> SUFFICES ASSUME QueueInv, [Next]_vars PROVE QueueInv'
  OBVIOUS
<1> USE TimerAssumption
    DEF QueueInv, clockVars, queueVars, timerVars, loopVars
<1>1. CASE Tick
  <2> USE <1>1 DEF Tick
  <2>1. TypeOK'
    BY DEF TypeOK, Earliest
  <2>2. ShapeInv' /\ PlaceInv'
    BY DEF ShapeInv, PlaceInv
  <2>3. TimerIsArmed'
    BY DEF TimerIsArmed, TypeOK, Earliest
  <2> QED
    BY <2>1, <2>2, <2>3
<1>2. CASE TimerFires \/ KilledTimerFires
  <2> USE <1>2 DEF TimerFires, KilledTimerFires
  <2>1. TypeOK'
    BY DEF TypeOK, Earliest
  <2>2. ShapeInv' /\ PlaceInv' /\ TimerIsArmed'
    BY DEF ShapeInv, PlaceInv, TimerIsArmed
  <2> QED
    BY <2>1, <2>2
<1>3. CASE Quit
  <2> USE <1>3 DEF Quit
  <2>1. TypeOK'
    BY EmptySeq DEF TypeOK, Earliest
  <2>2. ShapeInv' /\ PlaceInv' /\ TimerIsArmed'
    BY EmptyTasks DEF ShapeInv, PlaceInv, TimerIsArmed
  <2> QED
    BY <2>1, <2>2
<1>4. ASSUME NEW t \in Tasks, PostDelayedTaskDropped(t) PROVE QueueInv'
  <2> USE <1>4 DEF PostDelayedTaskDropped
  <2>1. TypeOK'
    BY DEF TypeOK, Earliest
  <2>2. ShapeInv' /\ TimerIsArmed'
    BY DEF ShapeInv, TimerIsArmed
  <2>3. PlaceInv'
    BY DEF PlaceInv, TypeOK, Requests, NoRequest
  <2> QED
    BY <2>1, <2>2, <2>3
<1>5. ASSUME NEW t \in Tasks, NEW d \in Delays,
             PostDelayedTaskFromOther(t, d) \/ PostDelayedTaskFromLoop(t, d)
      PROVE  QueueInv'
  <2> DEFINE r == [task |-> t, start |-> now, delay |-> d]
  <2>1. /\ r \in Requests /\ r.task = t /\ AskedFor(d) # None /\ AskedFor(d) \in Int \cup {Forever}
        /\ t \notin TasksOf(inbox) \cup TasksOf(batch) \cup heap
        /\ pc \in {"compensate", "push"} => t # req.task
        /\ target' = [target EXCEPT ![t] = AskedFor(d)] /\ target \in [Tasks -> Int \cup {None, Forever}]
    BY <1>5 DEF PostDelayedTaskFromOther, PostDelayedTaskFromLoop, Requests, AskedFor, TypeOK, PlaceInv
  <2>2. CASE /\ inbox' = Append(inbox, r)
             /\ UNCHANGED <<now, running, queueVars, timerVars, loopVars, req, ran>>
    <3>1. TypeOK'
      BY <2>1, <2>2, AppendTasks DEF TypeOK, Earliest
    <3>2. ShapeInv' /\ TimerIsArmed'
      BY <2>2 DEF ShapeInv, TimerIsArmed
    <3>3. PlaceInv'
      <4>1. TasksOf(inbox') = TasksOf(inbox) \cup {t} /\ Distinct(inbox')
        BY <2>1, <2>2, AppendTasks DEF PlaceInv, TypeOK
      <4>2. req.task \notin TasksOf(inbox')
        BY <2>1, <4>1 DEF PlaceInv, ShapeInv, TypeOK, NoRequest
      <4>3. \A u \in TasksOf(inbox') \cup TasksOf(batch) \cup heap : target'[u] # None
        BY <2>1, <4>1, TasksType DEF PlaceInv, TypeOK
      <4>4. pc \in {"compensate", "push"} => target'[req.task] # None
        BY <2>1 DEF PlaceInv, ShapeInv, Requests
      <4> QED
        BY <2>1, <2>2, <4>1, <4>2, <4>3, <4>4 DEF PlaceInv
    <3> QED
      BY <3>1, <3>2, <3>3
  <2>3. CASE /\ req' = r /\ pc' = "compensate" /\ pc \in {"idle", "body"}
             /\ UNCHANGED <<now, running, inbox, queueVars, timerVars, ctx, cur, runNow, batch, ran>>
    <3>1. TypeOK'
      BY <2>1, <2>3 DEF TypeOK, Earliest
    <3>2. ShapeInv' /\ TimerIsArmed'
      BY <2>1, <2>3 DEF ShapeInv, TimerIsArmed
    <3>3. PlaceInv'
      BY <2>1, <2>3 DEF PlaceInv, TypeOK
    <3> QED
      BY <3>1, <3>2, <3>3
  <2> QED
    BY <1>5, <2>2, <2>3 DEF PostDelayedTaskFromOther, PostDelayedTaskFromLoop
<1>6. CASE RunPendingTasks \/ RunPendingTasksReturns
  <2> USE <1>6 DEF RunPendingTasks, RunPendingTasksReturns
  <2>1. TypeOK'
    <3>1. <<>> \in Seq(Requests)
      BY EmptySeq
    <3>2. inbox' \in Seq(Requests) /\ batch' \in Seq(Requests)
      BY <3>1 DEF TypeOK
    <3>3. pc' \in {"next", "idle"} /\ ctx' \in {"pending", "wait"}
      OBVIOUS
    <3>4. UNCHANGED <<clockVars, running, queueVars, timerVars, cur, runNow, req, ran>>
      OBVIOUS
    <3> QED
      BY <3>2, <3>3, <3>4 DEF TypeOK, Earliest
  <2>2. ShapeInv' /\ TimerIsArmed'
    BY DEF ShapeInv, TimerIsArmed, TypeOK, Requests, NoRequest
  <2>3. PlaceInv'
    BY EmptyTasks DEF PlaceInv
  <2> QED
    BY <2>1, <2>2, <2>3
<1>7. CASE RunPosted
  <2> DEFINE r == Head(batch)
  <2>1. /\ batch \in Seq(Requests) /\ batch # <<>> /\ pc = "next" /\ r \in Requests /\ r.task \in Tasks
        /\ Tail(batch) \in Seq(Requests) /\ batch' = Tail(batch)
        /\ UNCHANGED <<clockVars, running, inbox, queueVars, timerVars, ctx, runNow>>
    BY <1>7, TailTasks DEF RunPosted, TypeOK, Requests
  <2>2. CASE NotPositive(r.delay)
    <3>1. cur' = r.task /\ ran' = ran \cup {r.task} /\ pc' = "body" /\ UNCHANGED req
      BY <1>7, <2>2 DEF RunPosted
    <3>2. TypeOK'
      BY <2>1, <3>1 DEF TypeOK, Earliest
    <3>3. ShapeInv' /\ TimerIsArmed'
      BY <2>1, <3>1 DEF ShapeInv, TimerIsArmed
    <3>4. PlaceInv'
      BY <2>1, <3>1, TailTasks DEF PlaceInv
    <3> QED
      BY <3>2, <3>3, <3>4
  <2>3. CASE ~NotPositive(r.delay)
    <3>1. req' = r /\ pc' = "compensate" /\ UNCHANGED <<cur, ran>>
      BY <1>7, <2>3 DEF RunPosted
    <3>2. TypeOK'
      BY <2>1, <3>1 DEF TypeOK, Earliest
    <3>3. ShapeInv' /\ TimerIsArmed'
      BY <2>1, <3>1 DEF ShapeInv, TimerIsArmed
    <3>4. PlaceInv'
      BY <2>1, <3>1, TailTasks DEF PlaceInv
    <3> QED
      BY <3>2, <3>3, <3>4
  <2> QED
    BY <2>2, <2>3
<1>8. CASE Compensate
  <2> USE <1>8 DEF Compensate
  <2>1. req \in Requests /\ now \in Int
    BY DEF ShapeInv, TypeOK
  <2>2. Minus(req.delay, now - req.start) \in Int \cup {Forever}
    BY <2>1 DEF Requests, Minus
  <2>3. req' \in Requests /\ req'.task = req.task
    BY <2>1, <2>2 DEF Requests
  <2>4. TypeOK'
    BY <2>3 DEF TypeOK, Earliest
  <2>5. ShapeInv' /\ TimerIsArmed' /\ PlaceInv'
    BY <2>1, <2>3 DEF ShapeInv, TimerIsArmed, PlaceInv
  <2> QED
    BY <2>4, <2>5
<1>9. CASE Push
  <2> USE <1>9 DEF Push
  <2>1. req \in Requests /\ req.task \in Tasks /\ req.task \notin heap
    BY DEF ShapeInv, PlaceInv, Requests
  <2>2. ToInt64Microseconds(req.delay) \in Int /\ now \in Int
    BY <2>1 DEF Requests, TypeOK, ToInt64Microseconds
  <2>3. DueTime \in Int
    BY <2>2, WrapType DEF DueTime
  <2>4. IF heap' = {} THEN top' = None ELSE top' \in Earliest(heap)'
    BY <2>1, <2>3 DEF TypeOK, Earliest, NewTop
  <2>5. TypeOK'
    BY <2>1, <2>3, <2>4 DEF TypeOK, Cancel, Back, NoRequest
  <2>6. ShapeInv'
    BY <2>1 DEF ShapeInv, Back, TypeOK, Requests, NoRequest
  <2>7. PlaceInv'
    <3>1. req'.task = None /\ None \notin TasksOf(inbox) \cup TasksOf(batch) \cup Tasks
      BY TasksType DEF NoRequest, TypeOK
    <3>2. pc' \notin {"compensate", "push"}
      BY DEF Back
    <3> QED
      BY <2>1, <3>1, <3>2 DEF PlaceInv, TypeOK
  <2>8. TimerIsArmed'
    BY <2>1, <2>3 DEF TimerIsArmed, TypeOK, NewTop, Back, ShapeInv, Earliest
  <2> QED
    BY <2>5, <2>6, <2>7, <2>8
<1>10. CASE ScheduleNextTimer
  <2>1. CASE heap = {}
    <3>1. /\ pc = "schedule" /\ pc' = Back
          /\ ctx' = IF cur = None /\ ctx = "timer" THEN "wait" ELSE ctx
          /\ UNCHANGED <<clockVars, running, inbox, queueVars, timerVars, cur, runNow, batch, req, ran>>
      BY <1>10, <2>1 DEF ScheduleNextTimer
    <3>2. TypeOK'
      BY <3>1 DEF TypeOK, Earliest, Back
    <3>3. ShapeInv' /\ PlaceInv'
      BY <3>1 DEF ShapeInv, PlaceInv, Back, TypeOK
    <3>4. TimerIsArmed'
      BY <2>1, <3>1 DEF TimerIsArmed
    <3> QED
      BY <3>2, <3>3, <3>4
  <2>2. CASE heap # {}
    <3>1. PICK k \in Nat : /\ k = DelayMs * MicrosPerMs /\ DelayMs \in Nat
                           /\ k <= due[top] - now \/ k = 0
      <4> DEFINE w == due[top] - now
      <4>1. now \in Nat /\ due[top] \in Int
        BY <2>2 DEF TypeOK, Earliest
      <4>2. CASE w > 0
        <5>1. DelayMs = w \div MicrosPerMs
          BY <4>2 DEF DelayMs
        <5> QED
          BY <4>1, <4>2, <5>1, RoundedDown
      <4>3. CASE ~(w > 0)
        <5>1. DelayMs = 0 \div MicrosPerMs
          BY <4>3 DEF DelayMs
        <5> QED
          BY <4>1, <4>3, <5>1, RoundedDown
      <4> QED
        BY <4>2, <4>3
    <3>2. /\ pc = "schedule" /\ pc' = Back
          /\ ctx' = IF cur = None /\ ctx = "timer" THEN "wait" ELSE ctx
          /\ UNCHANGED <<clockVars, running, inbox, queueVars, lateFire, late, timerEv, cur, runNow,
                         batch, req, ran>>
      BY <1>10 DEF ScheduleNextTimer
    <3>3. \/ mmId' = TRUE /\ armed' = now + k /\ UNCHANGED winTimer
          \/ winTimer' = TRUE /\ UNCHANGED <<mmId, armed>>
      <4>1. \/ mmId' = TRUE /\ armed' = now + DelayMs * MicrosPerMs /\ UNCHANGED winTimer
            \/ winTimer' = TRUE /\ UNCHANGED <<mmId, armed>>
        BY <1>10, <2>2 DEF ScheduleNextTimer
      <4> QED
        BY <3>1, <4>1, Zenon
    <3>4. TypeOK'
      <4>1. now + k \in Nat
        BY DEF TypeOK
      <4>2. armed' \in Nat \cup {None} /\ mmId' \in BOOLEAN /\ winTimer' \in BOOLEAN
        BY <3>3, <4>1 DEF TypeOK
      <4> QED
        BY <3>2, <4>2 DEF TypeOK, Earliest, Back
    <3>5. ShapeInv' /\ PlaceInv'
      BY <3>2 DEF ShapeInv, PlaceInv, Back, TypeOK
    <3>6. TimerIsArmed'
      <4>1. CASE winTimer'
        BY <4>1 DEF TimerIsArmed
      <4>2. CASE armed' = now + k
        <5>1. armed' # None /\ (armed' <= due[top] \/ armed' <= now)
          <6>1. now \in Nat /\ due[top] \in Int
            BY <2>2 DEF TypeOK, Earliest
          <6> QED
            BY <3>1, <4>2, <6>1
        <5> QED
          BY <3>2, <5>1 DEF TimerIsArmed
      <4> QED
        BY <3>3, <4>1, <4>2
    <3> QED
      BY <3>4, <3>5, <3>6
  <2> QED
    BY <2>1, <2>2
<1>11. CASE ProcessTimerTasksUpTo \/ RunDueTask \/ RunDueTasksReturns
  <2> USE <1>11 DEF ProcessTimerTasksUpTo, RunDueTask, RunDueTasksReturns
  <2>1. CASE ProcessTimerTasksUpTo
    BY <2>1 DEF TypeOK, Earliest, Cancel, ShapeInv, PlaceInv, TimerIsArmed
  <2>2. CASE RunDueTask
    <3>1. top \in Tasks
      BY <2>2 DEF TypeOK, Earliest
    <3>2. TypeOK'
      BY <2>2, <3>1 DEF TypeOK, Earliest
    <3>3. ShapeInv' /\ PlaceInv' /\ TimerIsArmed'
      BY <2>2, <3>1 DEF ShapeInv, PlaceInv, TimerIsArmed
    <3> QED
      BY <3>2, <3>3
  <2>3. CASE RunDueTasksReturns
    <3>1. TypeOK'
      BY <2>3 DEF TypeOK, Earliest
    <3>2. ShapeInv' /\ PlaceInv' /\ TimerIsArmed'
      BY <2>3 DEF ShapeInv, PlaceInv, TimerIsArmed
    <3> QED
      BY <3>1, <3>2
  <2> QED
    BY <2>1, <2>2, <2>3
<1>12. CASE FinishDueTask
  <2> USE <1>12 DEF FinishDueTask
  <2>1. IF heap' = {} THEN top' = None ELSE top' \in Earliest(heap)'
    BY DEF TypeOK, Earliest
  <2>2. TypeOK'
    <3>0. due \in [Tasks -> Int] /\ heap \subseteq Tasks
      BY DEF TypeOK
    <3>1. due' = [due EXCEPT ![top] = 0] /\ heap' = heap \ {top}
      OBVIOUS
    <3>2. due' \in [Tasks -> Int]
      <4>1. CASE top \in Tasks
        BY <3>0, <3>1, <4>1
      <4>2. CASE top \notin Tasks
        BY <3>0, <3>1, <4>2
      <4> QED
        BY <4>1, <4>2
    <3>3. heap' \subseteq Tasks
      BY <3>0, <3>1
    <3> QED
      BY <2>1, <3>2, <3>3 DEF TypeOK
  <2>3. ShapeInv' /\ PlaceInv' /\ TimerIsArmed'
    BY DEF ShapeInv, PlaceInv, TimerIsArmed
  <2> QED
    BY <2>2, <2>3
<1>13. CASE FinishPosted
  <2> USE <1>13 DEF FinishPosted
  <2>1. TypeOK'
    BY DEF TypeOK, Earliest
  <2>2. ShapeInv' /\ PlaceInv' /\ TimerIsArmed'
    BY DEF ShapeInv, PlaceInv, TimerIsArmed
  <2> QED
    BY <2>1, <2>2
<1>14. CASE UNCHANGED vars
  BY <1>14 DEF vars, TypeOK, Earliest, ShapeInv, PlaceInv, TimerIsArmed
<1> QED
  BY <1>1, <1>2, <1>3, <1>4, <1>5, <1>6, <1>7, <1>8, <1>9, <1>10, <1>11, <1>12, <1>13, <1>14
     DEF Next, LoopStep, UserStep

(* The types, the loop's shape, the places of the tasks and the timer of   *)
(* the first of them, for any delays.                                      *)
THEOREM QueueInvCorrect == Spec => []QueueInv
<1>1. Init => QueueInv
  <2> SUFFICES ASSUME Init PROVE QueueInv
    OBVIOUS
  <2> USE TimerAssumption DEF Init
  <2>1. TypeOK
    <3>1. <<>> \in Seq(Requests)
      BY EmptySeq
    <3>2. due \in [Tasks -> Int] /\ target \in [Tasks -> Int \cup {None, Forever}]
      OBVIOUS
    <3> QED
      BY <3>1, <3>2 DEF TypeOK
  <2>2. ShapeInv /\ TimerIsArmed
    BY DEF ShapeInv, TimerIsArmed, Requests, NoRequest
  <2>3. PlaceInv
    BY EmptyTasks DEF PlaceInv
  <2> QED
    BY <2>1, <2>2, <2>3 DEF QueueInv
<1> QED
  BY <1>1, QueueStep, PTL DEF Spec

(* Every variable of TimerQueue holds a value of its kind, and the root of *)
(* the heap is due first, also where a due time overflows.                 *)
THEOREM TimerTypeCorrect == Spec => []TypeOK
<1>1. QueueInv => TypeOK
  BY DEF QueueInv
<1> QED
  BY <1>1, QueueInvCorrect, PTL

(* A queued task has its timer whenever the loop waits, for any delays.    *)
THEOREM TimerIsArmedCorrect == Spec => []TimerIsArmed
<1>1. QueueInv => TimerIsArmed
  BY DEF QueueInv
<1> QED
  BY <1>1, QueueInvCorrect, PTL

-----------------------------------------------------------------------------
(* What goes into the heap is due no earlier than asked for: the second    *)
(* reading of the clock is no earlier than the first.                      *)
LEMMA DueTimeIsSum ==
  ASSUME QueueInv, TimeInv, pc = "push"
  PROVE  DueTime = now + req.delay /\ DueTime \in Int /\ target[req.task] \in 1 .. DueTime
<1>1. /\ now \in 0 .. MaxTime /\ req.delay \in Int /\ MaxTime + req.delay <= IntMax
      /\ target[req.task] \in 1 .. now + req.delay
  BY DEF QueueInv, TypeOK, TimeInv
<1>2. now + req.delay \in 0 .. IntMax /\ ToInt64Microseconds(req.delay) = req.delay
  BY <1>1, TimerAssumption DEF ToInt64Microseconds
<1> QED
  BY <1>1, <1>2, WrapIsExact, TimerAssumption DEF DueTime

(* A task that is running from the heap posts nothing that is due before   *)
(* it, so it stays the root.                                               *)
LEMMA RunningStaysTop ==
  ASSUME QueueInv, TimeInv, pc = "push", ctx = "timer"
  PROVE  ~NewTop /\ cur # None
<1>1. cur # None
  BY DEF QueueInv, ShapeInv
<1>2. heap # {} /\ due[top] <= runNow /\ runNow < target[req.task] /\ target[req.task] <= DueTime
      /\ due[top] \in Int /\ runNow \in Int /\ DueTime \in Int /\ target[req.task] \in Int
  BY <1>1, DueTimeIsSum DEF TimeInv, QueueInv, TypeOK, Earliest
<1> QED
  BY <1>1, <1>2 DEF NewTop

LEMMA TimeStep ==
  ASSUME NoOverflow, QueueInv, TimeInv, [Next]_vars
  PROVE  TimeInv'
<1> USE TimerAssumption DEF clockVars, queueVars, timerVars, loopVars
<1> DEFINE Requested == Range(inbox) \cup Range(batch)
<1>a. /\ now \in 0 .. MaxTime /\ runNow \in 0 .. MaxTime /\ MaxTime \in Nat /\ due \in [Tasks -> Int]
      /\ target \in [Tasks -> Int \cup {None, Forever}] /\ heap \subseteq Tasks
      /\ heap # {} => top \in heap
      /\ inbox \in Seq(Requests) /\ batch \in Seq(Requests)
      /\ cur \in Tasks \cup {None}
  BY DEF QueueInv, TypeOK, Earliest
<1>b. \A r \in Requested : r \in Requests /\ r.task \in Tasks /\ r.start \in Nat /\ r.task \in TasksOf(inbox) \cup TasksOf(batch)
  <2>1. \A i \in DOMAIN inbox : inbox[i] \in Requests
    BY <1>a, ElementOfSeq, LenProperties
  <2>2. \A i \in DOMAIN batch : batch[i] \in Requests
    BY <1>a, ElementOfSeq, LenProperties
  <2>3. \A r \in Requested : r \in Requests
    BY <2>1, <2>2 DEF Range
  <2> QED
    BY <2>3 DEF Requests, TasksOf
<1>1. CASE Tick
  <2> USE <1>1 DEF Tick
  <2>1. now' \in Nat /\ now <= now' /\ UNCHANGED <<target, inbox, batch, heap, due, top, pc, ctx, cur, req, runNow>>
    BY <1>a
  <2>2. ASSUME NEW r \in Requests, OnTime(r) PROVE OnTime(r)'
    BY <1>a, <2>1, <2>2 DEF OnTime, Requests
  <2>3. \A r \in (Range(inbox) \cup Range(batch))' : OnTime(r)'
    BY <1>b, <2>1, <2>2 DEF TimeInv
  <2>4. pc' = "compensate" => OnTime(req)' /\ req'.delay > 0
    BY <2>1, <2>2 DEF TimeInv, QueueInv, ShapeInv
  <2>5. pc' = "push" => /\ req'.delay \in Int /\ MaxTime + req'.delay <= IntMax
                        /\ target'[req'.task] \in 1 .. now' + req'.delay
    BY <1>a, <2>1 DEF TimeInv
  <2>6. cur' # None => target'[cur'] \in Int /\ target'[cur'] <= now'
    BY <1>a, <2>1 DEF TimeInv
  <2>7. runNow' <= now'
    BY <1>a, <2>1 DEF TimeInv
  <2> QED
    BY <2>1, <2>3, <2>4, <2>5, <2>6, <2>7 DEF TimeInv
<1>2. CASE TimerFires \/ KilledTimerFires
  BY <1>2 DEF TimerFires, KilledTimerFires, TimeInv, OnTime
<1>3. CASE Quit
  <2>1. Range(inbox') = {}
    BY <1>3, EmptyTasks DEF Quit
  <2> QED
    BY <1>3, <2>1 DEF Quit, TimeInv, OnTime
<1>4. ASSUME NEW t \in Tasks, NEW x \in Int \cup {Forever}, target[t] = None,
             target' = [target EXCEPT ![t] = x]
      PROVE  /\ \A u \in TasksOf(inbox) \cup TasksOf(batch) \cup heap : target'[u] = target[u]
             /\ pc \in {"compensate", "push"} => target'[req.task] = target[req.task]
             /\ cur # None => target'[cur] = target[cur]
             /\ target'[t] = x
  <2>1. cur # None => cur # t
    BY <1>4 DEF TimeInv
  <2> QED
    BY <1>4, <1>a, <2>1, TasksType DEF QueueInv, PlaceInv
<1>5. ASSUME NEW t \in Tasks, PostDelayedTaskDropped(t) PROVE TimeInv'
  <2>1. UNCHANGED <<now, inbox, queueVars, pc, ctx, cur, runNow, batch, req>>
    BY <1>5 DEF PostDelayedTaskDropped
  <2>2. /\ \A u \in TasksOf(inbox) \cup TasksOf(batch) \cup heap : target'[u] = target[u]
        /\ pc \in {"compensate", "push"} => target'[req.task] = target[req.task]
        /\ cur # None => target'[cur] = target[cur]
    BY <1>4, <1>5 DEF PostDelayedTaskDropped
  <2> QED
    BY <1>b, <2>1, <2>2 DEF TimeInv, OnTime

<1>6. ASSUME NEW t \in Tasks, NEW d \in Delays,
             PostDelayedTaskFromOther(t, d) \/ PostDelayedTaskFromLoop(t, d)
      PROVE  TimeInv'
  <2> DEFINE r == [task |-> t, start |-> now, delay |-> d]
  <2>1. /\ d \in Int /\ d # Forever /\ r \in Requests /\ r.task = t /\ r.start = now /\ r.delay = d
        /\ AskedFor(d) = now + d /\ now + d \in Int
        /\ target[t] = None /\ target' = [target EXCEPT ![t] = now + d]
        /\ UNCHANGED <<now, queueVars, ctx, cur, runNow, batch>>
    BY <1>6, <1>a DEF NoOverflow, Requests, AskedFor, PostDelayedTaskFromOther, PostDelayedTaskFromLoop
  <2>2. /\ \A u \in TasksOf(inbox) \cup TasksOf(batch) \cup heap : target'[u] = target[u]
        /\ pc \in {"compensate", "push"} => target'[req.task] = target[req.task]
        /\ cur # None => target'[cur] = target[cur]
        /\ target'[t] = now + d
    BY <1>4, <2>1
  <2>3. OnTime(r)' /\ \A q \in Requested : OnTime(q)'
    BY <1>a, <1>b, <2>1, <2>2 DEF TimeInv, OnTime
  <2>4. CASE inbox' = Append(inbox, r) /\ UNCHANGED <<pc, req>>
    <3>1. Range(inbox') = Range(inbox) \cup {r}
      BY <1>a, <2>1, <2>4, AppendTasks
    <3> QED
      BY <2>1, <2>2, <2>3, <2>4, <3>1 DEF TimeInv, OnTime
  <2>5. CASE req' = r /\ pc' = "compensate" /\ UNCHANGED inbox /\ ~NotPositive(d)
    <3>1. req'.delay > 0 /\ target'[req'.task] = now + d /\ now + d > runNow
      BY <1>a, <2>1, <2>2, <2>5 DEF NotPositive, TimeInv
    <3> QED
      BY <2>1, <2>2, <2>3, <2>5, <3>1 DEF TimeInv, OnTime
  <2> QED
    BY <1>6, <2>4, <2>5 DEF PostDelayedTaskFromOther, PostDelayedTaskFromLoop, loopVars
<1>7. CASE RunPendingTasks \/ RunPendingTasksReturns
  <2>1. (Range(inbox) \cup Range(batch))' \subseteq Requested
    BY <1>7, EmptyTasks DEF RunPendingTasks, RunPendingTasksReturns
  <2>2. cur = None
    BY <1>7 DEF RunPendingTasks, RunPendingTasksReturns, QueueInv, ShapeInv
  <2> QED
    BY <1>7, <2>1, <2>2 DEF RunPendingTasks, RunPendingTasksReturns, TimeInv, OnTime
<1>8. CASE RunPosted
  <2> DEFINE r == Head(batch)
  <2>1. /\ batch # <<>> /\ ctx = "pending" /\ cur = None
        /\ batch' = Tail(batch) /\ UNCHANGED <<clockVars, inbox, queueVars, ctx, runNow>>
    BY <1>8 DEF RunPosted, QueueInv, ShapeInv
  <2>2. r \in Requested /\ (Range(inbox) \cup Range(batch))' \subseteq Requested
    BY <1>a, <2>1, TailTasks
  <2>3. /\ OnTime(r) /\ r \in Requests /\ r.start \in Nat /\ r.delay \in Int /\ r.delay # Forever
        /\ target[r.task] = r.start + r.delay /\ r.start <= now
    BY <1>b, <2>2 DEF TimeInv, OnTime, NoOverflow
  <2>4. CASE NotPositive(r.delay)
    <3>1. cur' = r.task /\ pc' = "body" /\ UNCHANGED req
      BY <1>8, <2>4 DEF RunPosted
    <3>2. target[r.task] \in Int /\ target[r.task] <= now
      BY <1>a, <2>3, <2>4 DEF NotPositive
    <3> QED
      BY <2>1, <2>2, <3>1, <3>2 DEF TimeInv, OnTime
  <2>5. CASE ~NotPositive(r.delay)
    <3>1. req' = r /\ pc' = "compensate" /\ UNCHANGED cur /\ r.delay > 0
      BY <1>8, <2>3, <2>5 DEF RunPosted, NotPositive
    <3> QED
      BY <2>1, <2>2, <2>3, <3>1 DEF TimeInv, OnTime
  <2> QED
    BY <2>4, <2>5
<1>9. CASE Compensate
  <2>1. /\ pc = "compensate" /\ pc' = "push" /\ req \in Requests
        /\ req' = [req EXCEPT !.delay = Minus(@, now - req.start)]
        /\ UNCHANGED <<clockVars, inbox, queueVars, ctx, cur, runNow, batch>>
    BY <1>9 DEF Compensate, QueueInv, ShapeInv
  <2>2. /\ req.delay \in Delays /\ req.delay \in Int /\ req.delay > 0 /\ req.delay # Forever
        /\ MaxTime + req.delay <= IntMax /\ req.start \in Nat /\ req.start <= now
        /\ target[req.task] = req.start + req.delay
    BY <2>1 DEF TimeInv, OnTime, NoOverflow, Requests
  <2>3. req'.task = req.task /\ req'.delay = req.delay - (now - req.start)
    BY <2>1, <2>2 DEF Minus, Requests
  <2>4. /\ req'.delay \in Int /\ MaxTime + req'.delay <= IntMax
        /\ target'[req'.task] \in 1 .. now' + req'.delay
    <3>1. req'.delay \in Int /\ req'.delay <= req.delay /\ now + req'.delay = req.start + req.delay
      BY <1>a, <2>2, <2>3
    <3>2. target'[req'.task] = req.start + req.delay /\ now' = now /\ req.start + req.delay \in Nat \ {0}
      BY <2>1, <2>2, <2>3
    <3> QED
      BY <1>a, <2>2, <3>1, <3>2
  <2> QED
    BY <2>1, <2>3, <2>4 DEF TimeInv, OnTime
<1>10. CASE Push
  <2>1. /\ pc = "push" /\ heap' = heap \cup {req.task} /\ due' = [due EXCEPT ![req.task] = DueTime]
        /\ top' = IF NewTop THEN req.task ELSE top
        /\ pc' = IF NewTop THEN "schedule" ELSE Back
        /\ UNCHANGED <<clockVars, inbox, ctx, cur, runNow, batch>>
    BY <1>10 DEF Push
  <2>2. req.task \in Tasks /\ req.task \notin heap
    BY <2>1 DEF QueueInv, ShapeInv, PlaceInv, Requests
  <2>3. \A t \in heap' : target[t] \in Int /\ target[t] <= due'[t]
    BY <1>a, <2>1, <2>2, DueTimeIsSum DEF TimeInv
  <2>4. ctx = "timer" => cur # None /\ pc' = "body" /\ top' = top /\ heap # {} /\ due'[top'] = due[top]
    BY <1>a, <2>1, <2>2, RunningStaysTop DEF Back, TimeInv
  <2>5. pc' \notin {"compensate", "push"}
    BY <2>1 DEF Back
  <2> QED
    BY <2>1, <2>3, <2>4, <2>5 DEF TimeInv, OnTime
<1>11. CASE ScheduleNextTimer
  <2>1. /\ pc = "schedule" /\ pc' = Back
        /\ ctx' = IF cur = None /\ ctx = "timer" THEN "wait" ELSE ctx
        /\ UNCHANGED <<clockVars, inbox, queueVars, cur, runNow, batch, req>>
    BY <1>11 DEF ScheduleNextTimer
  <2>2. ctx' # "timer" /\ pc' \notin {"compensate", "push", "schedule"}
    BY <2>1 DEF TimeInv, Back
  <2> QED
    BY <2>1, <2>2 DEF TimeInv, OnTime
<1>12. CASE ProcessTimerTasksUpTo
  <2>1. cur = None
    BY <1>12 DEF ProcessTimerTasksUpTo, QueueInv, ShapeInv
  <2> QED
    BY <1>12, <1>a, <2>1 DEF ProcessTimerTasksUpTo, TimeInv, OnTime
<1>13. CASE RunDueTask
  <2>1. /\ pc = "due" /\ heap # {} /\ due[top] <= runNow /\ cur' = top /\ pc' = "body" /\ ctx = "timer"
        /\ UNCHANGED <<clockVars, inbox, queueVars, ctx, runNow, batch, req>>
    BY <1>13 DEF RunDueTask, QueueInv, ShapeInv
  <2>2. target[top] \in Int /\ target[top] <= now
    BY <1>a, <2>1 DEF TimeInv
  <2> QED
    BY <2>1, <2>2 DEF TimeInv, OnTime
<1>14. CASE RunDueTasksReturns
  <2>1. cur = None
    BY <1>14 DEF RunDueTasksReturns, QueueInv, ShapeInv
  <2> QED
    BY <1>14, <1>a, <2>1 DEF RunDueTasksReturns, TimeInv, OnTime
<1>15. CASE FinishDueTask
  <2>1. \A t \in heap' : t \in heap /\ due'[t] = due[t]
    BY <1>15, <1>a DEF FinishDueTask
  <2> QED
    BY <1>15, <2>1 DEF FinishDueTask, TimeInv, OnTime
<1>16. CASE FinishPosted
  BY <1>16 DEF FinishPosted, TimeInv, OnTime
<1>17. CASE UNCHANGED vars
  BY <1>17 DEF vars, TimeInv, OnTime
<1> QED
  BY <1>1, <1>2, <1>3, <1>5, <1>6, <1>7, <1>8, <1>9, <1>10, <1>11, <1>12, <1>13, <1>14, <1>15,
     <1>16, <1>17 DEF Next, LoopStep, UserStep

(* No timer is left over: where the loop schedules there is none, and the  *)
(* running task does not start one behind its back.                        *)
LEMMA TimerStep ==
  ASSUME QueueInv, TimeInv, TimerInv, [Next]_vars
  PROVE  TimerInv'
<1> USE DEF clockVars, queueVars, timerVars, loopVars
<1>a. mmId \in BOOLEAN /\ timerEv \in BOOLEAN /\ winTimer \in BOOLEAN /\ late \in BOOLEAN
  BY DEF QueueInv, TypeOK
<1>1. CASE Tick \/ Quit \/ \E t \in Tasks : PostDelayedTaskDropped(t)
  BY <1>1 DEF Tick, Quit, PostDelayedTaskDropped, TimerInv
<1>2. CASE TimerFires \/ KilledTimerFires
  BY <1>2 DEF TimerFires, KilledTimerFires, TimerInv
<1>3. ASSUME NEW t \in Tasks, NEW d \in Delays,
             PostDelayedTaskFromOther(t, d) \/ PostDelayedTaskFromLoop(t, d)
      PROVE  TimerInv'
  BY <1>3 DEF PostDelayedTaskFromOther, PostDelayedTaskFromLoop, TimerInv
<1>4. CASE RunPendingTasks \/ RunPendingTasksReturns \/ RunPosted \/ Compensate
  BY <1>4 DEF RunPendingTasks, RunPendingTasksReturns, RunPosted, Compensate, TimerInv
<1>5. CASE Push
  <2>1. CASE NewTop
    <3>1. ctx # "timer"
      BY <1>5, <2>1, RunningStaysTop DEF Push
    <3>2. /\ mmId' = FALSE /\ armed' = None /\ timerEv' = FALSE /\ winTimer' = FALSE
          /\ pc' = "schedule" /\ lateFire' = lateFire /\ ctx' = ctx
          /\ ~lateFire /\ ~late => ~late'
      BY <1>5, <2>1 DEF Push, Cancel
    <3> QED
      BY <3>1, <3>2 DEF TimerInv
  <2>2. CASE ~NewTop
    <3>1. UNCHANGED timerVars /\ pc' # "schedule" /\ ctx' = ctx
      BY <1>5, <2>2 DEF Push, Back
    <3> QED
      BY <3>1 DEF TimerInv
  <2> QED
    BY <2>1, <2>2
<1>6. CASE ScheduleNextTimer
  <2>1. /\ pc = "schedule" /\ pc' # "schedule" /\ ctx' # "timer"
        /\ UNCHANGED <<lateFire, late, timerEv>>
    BY <1>6 DEF ScheduleNextTimer, Back, TimeInv
  <2>2. \/ UNCHANGED <<mmId, armed, winTimer>>
        \/ mmId' = TRUE /\ UNCHANGED winTimer
        \/ winTimer' = TRUE /\ UNCHANGED <<mmId, armed>>
    BY <1>6 DEF ScheduleNextTimer
  <2> QED
    BY <1>a, <2>1, <2>2 DEF TimerInv
<1>7. CASE ProcessTimerTasksUpTo
  <2>1. /\ mmId' = FALSE /\ armed' = None /\ timerEv' = FALSE /\ winTimer' = winTimer
        /\ lateFire' = lateFire
    BY <1>7 DEF ProcessTimerTasksUpTo, Cancel
  <2>2. timerEv
    BY <1>7, Zenon DEF ProcessTimerTasksUpTo
  <2>3. ~lateFire => late' = late
    BY <1>7 DEF ProcessTimerTasksUpTo, Cancel
  <2> QED
    BY <2>1, <2>2, <2>3 DEF TimerInv
<1>8. CASE RunDueTask \/ RunDueTasksReturns
  <2>1. ctx = "timer"
    BY <1>8 DEF RunDueTask, RunDueTasksReturns, QueueInv, ShapeInv
  <2> QED
    BY <1>8, <2>1 DEF RunDueTask, RunDueTasksReturns, TimerInv
<1>9. CASE FinishDueTask \/ FinishPosted
  BY <1>9 DEF FinishDueTask, FinishPosted, TimerInv
<1>10. CASE UNCHANGED vars
  BY <1>10 DEF vars, TimerInv
<1> QED
  BY <1>1, <1>2, <1>3, <1>4, <1>5, <1>6, <1>7, <1>8, <1>9, <1>10 DEF Next, LoopStep, UserStep

-----------------------------------------------------------------------------
(* Unless a due time overflows, requests, heap and running task agree with *)
(* what was asked for, and the timers with their ids.                      *)
THEOREM DelayInvCorrect ==
  ASSUME NoOverflow PROVE Spec => [](TimeInv /\ TimerInv)
<1>1. Init => TimeInv /\ TimerInv
  <2>1. Init => TimeInv
    BY EmptyTasks, TimerAssumption DEF Init, TimeInv
  <2>2. Init => TimerInv
    BY DEF Init, TimerInv
  <2> QED
    BY <2>1, <2>2
<1>2. QueueInv /\ TimeInv /\ TimerInv /\ [Next]_vars => (TimeInv /\ TimerInv)'
  BY TimeStep, TimerStep
<1> QED
  BY <1>1, <1>2, QueueInvCorrect, PTL DEF Spec

(* Unless a due time overflows, no task starts before the delay that was   *)
(* asked for has passed since the call.                                    *)
THEOREM NeverEarlyCorrect ==
  ASSUME NoOverflow PROVE Spec => []NeverEarly
<1>1. TimeInv => NeverEarly
  BY TimerAssumption DEF TimeInv, NeverEarly
<1> QED
  BY <1>1, DelayInvCorrect, PTL

(* Unless a due time overflows, RunDueTasks pops the task that it ran.     *)
THEOREM PopsWhatRanCorrect ==
  ASSUME NoOverflow PROVE Spec => []PopsWhatRan
<1>1. TimeInv => PopsWhatRan
  BY DEF TimeInv, PopsWhatRan
<1> QED
  BY <1>1, DelayInvCorrect, PTL

(* Unless a due time overflows or a killed timer fires late, the DCHECKs   *)
(* on the timers hold and no event is set without a timer.                 *)
THEOREM NoSurprisingTimerCorrect ==
  ASSUME NoOverflow PROVE Spec => []NoSurprisingTimer
<1>1. TimerInv => NoSurprisingTimer
  BY DEF TimerInv, NoSurprisingTimer
<1> QED
  BY <1>1, DelayInvCorrect, PTL

=============================================================================
