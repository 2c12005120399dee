----------------------------- MODULE EventLoops -----------------------------
(***************************************************************************)
(* Several EventLoopWin, each run by a thread of its own, that post tasks  *)
(* and make blocking calls to each other. A loop's wake-up, timer and      *)
(* socket events are under the one wait of RunEventLoopOnce, which reports *)
(* the first that is set. What TaskQueue, TimerQueue and SocketLoop show   *)
(* in detail is one step here: a post, the swap of pending_, a round of    *)
(* due tasks, the enumeration of the sockets, which are taken together.    *)
(*                                                                         *)
(* A loop's pc: "wait" between two rounds; "next" in the for loop of       *)
(* RunPendingTasks; in the code of its users, "task" in a posted task,     *)
(* "timer" in delayed tasks, "socket" in callbacks after the socket event, *)
(* "timeout" in callbacks after a time-out. That code may be in a blocking *)
(* call to the loop callee.                                                *)
(***************************************************************************)
EXTENDS Integers, Sequences, Functions, FiniteSetsExt

CONSTANTS
  Loops,        \* the event loops, and their threads
  TimerLoops,   \* those with delayed tasks
  SocketLoops,  \* those with registered sockets
  TimeOut,      \* the default_timeout of a loop, in microseconds
  Forever,      \* absl::InfiniteDuration()
  IntValues,    \* the number of values of int
  EnumMayFail,  \* whether WSAEnumNetworkEvents may fail
  MaxQueue,     \* bound: the length up to which tasks are posted to pending_
  None          \* no loop

ASSUME EventLoopsAssumption ==
  /\ TimerLoops \subseteq Loops /\ SocketLoops \subseteq Loops
  /\ Forever \notin Int /\ TimeOut \in [Loops -> Nat \cup {Forever}]
  /\ MaxQueue \in Nat /\ None \notin Loops
  /\ IntValues \in Nat \ {0} /\ EnumMayFail \in BOOLEAN

VARIABLES
  running,  \* running_
  pending,  \* pending_: for each task the loop that waits for it, or None
  batch,    \* the rest of the local `tasks` of RunPendingTasks
  cur,      \* the loop that waits for the task that is running, or None
  wakeup,   \* wakeup_ev_
  timerEv,  \* the event of timer_
  sockEv,   \* socket_ev_
  hasArt,   \* has_artificial_events_pending_
  art,      \* the loops with an artificial event in one of their registrations
  missed,   \* history: those of them whose enumeration failed since it was put there
  pc,       \* see above
  callee,   \* the loop of the blocking call that a loop's thread is in, or None
  posting,  \* the loops whose call has looked at running_ and has yet to post
  done      \* the loops whose done has been set

artVars == <<hasArt, art, missed>>
eventVars == <<wakeup, timerEv, sockEv, artVars>>
queueVars == <<running, pending, batch, cur>>
callVars == <<callee, posting, done>>
vars == <<queueVars, eventVars, pc, callVars>>

Each(value) == [l \in Loops |-> value]

Init ==
  /\ running = Each(TRUE) /\ pending = Each(<<>>) /\ batch = Each(<<>>) /\ cur = Each(None)
  /\ wakeup = Each(FALSE) /\ timerEv = Each(FALSE)
  /\ sockEv = Each(FALSE) /\ hasArt = Each(FALSE) /\ art = {} /\ missed = {}
  /\ pc = Each("wait") /\ callee = Each(None)
  /\ posting = {} /\ done = {}

UserCode == {"task", "timer", "socket", "timeout"}

InUserCode(l) == pc[l] \in UserCode /\ callee[l] = None

(* INFINITE, or milliseconds, of which there is at least one, converted    *)
(* from 64 bits to an int: with 2^32 - 1 of them, INFINITE as well.        *)
INFINITE == -1
ToInt(n) == ((n + (IntValues \div 2)) % IntValues) - (IntValues \div 2)
ToCmsWait(d) ==
  IF d = Forever THEN INFINITE ELSE ToInt(Max({1, d \div 1000}))

-----------------------------------------------------------------------------
(* A task is queued and the loop woken up, by any thread.                  *)
Push(l, caller) ==
  /\ pending' = [pending EXCEPT ![l] = Append(@, caller)]
  /\ wakeup' = [wakeup EXCEPT ![l] = TRUE]
  /\ UNCHANGED <<running, batch, cur, timerEv, sockEv, artVars, pc>>

PostTask(l) ==
  /\ running[l] /\ Len(pending[l]) < MaxQueue
  /\ Push(l, None)
  /\ UNCHANGED callVars

(* A call to the loop's own thread, or to a loop that has quit, returns at *)
(* once. Any other posts its task, by which time the loop may have quit.   *)
BlockingCall(l, m) ==
  /\ InUserCode(l) /\ l # m /\ running[m]
  /\ callee' = [callee EXCEPT ![l] = m]
  /\ posting' = posting \cup {l}
  /\ UNCHANGED <<queueVars, eventVars, pc, done>>

BlockingCallPosts(l) ==
  /\ l \in posting
  /\ Push(callee[l], l)
  /\ posting' = posting \ {l}
  /\ UNCHANGED <<callee, done>>

BlockingCallReturns(l) ==
  /\ callee[l] # None /\ l \in done
  /\ callee' = [callee EXCEPT ![l] = None]
  /\ done' = done \ {l}
  /\ UNCHANGED <<queueVars, eventVars, pc, posting>>

(* Faulty: the tasks go, but the events of their callers are not set.      *)
QuitWithoutCleanup(l) ==
  /\ running[l]
  /\ pending' = [pending EXCEPT ![l] = <<>>]
  /\ running' = [running EXCEPT ![l] = FALSE]
  /\ UNCHANGED <<batch, cur, eventVars, pc, callVars>>

(* Quit destroys the queued tasks, and the Cleanups in them.               *)
Quit(l) ==
  /\ running[l]
  /\ done' = done \cup (Range(pending[l]) \ {None})
  /\ pending' = [pending EXCEPT ![l] = <<>>]
  /\ running' = [running EXCEPT ![l] = FALSE]
  /\ UNCHANGED <<batch, cur, eventVars, pc, callee, posting>>

-----------------------------------------------------------------------------
(* A delayed task is due, on a thread of the timer's.                      *)
TimerFires(l) ==
  /\ l \in TimerLoops /\ ~timerEv[l]
  /\ timerEv' = [timerEv EXCEPT ![l] = TRUE]
  /\ UNCHANGED <<queueVars, wakeup, sockEv, artVars, pc, callVars>>

NetworkActivity(l) ==
  /\ l \in SocketLoops /\ ~sockEv[l]
  /\ sockEv' = [sockEv EXCEPT ![l] = TRUE]
  /\ UNCHANGED <<queueVars, wakeup, timerEv, artVars, pc, callVars>>

ArtificiallyNotifyEvent(l) ==
  /\ l \in SocketLoops /\ InUserCode(l) /\ running[l]
  /\ hasArt' = [hasArt EXCEPT ![l] = TRUE]
  /\ art' = art \cup {l} /\ missed' = missed \ {l}
  /\ sockEv' = [sockEv EXCEPT ![l] = TRUE]
  /\ UNCHANGED <<queueVars, wakeup, timerEv, pc, callVars>>

-----------------------------------------------------------------------------
(* RunEventLoopOnce is called as long as the loop has not quit.            *)
Waits(l) == pc[l] = "wait" /\ running[l]

Goto(l, label) == pc' = [pc EXCEPT ![l] = label]

(* Faulty: the timer's event comes first in the list of events.            *)
ProcessPendingTasksLast(l) ==
  /\ Waits(l) /\ wakeup[l] /\ ~timerEv[l]
  /\ wakeup' = [wakeup EXCEPT ![l] = FALSE]
  /\ batch' = [batch EXCEPT ![l] = pending[l]]
  /\ pending' = [pending EXCEPT ![l] = <<>>]
  /\ Goto(l, "next")
  /\ UNCHANGED <<running, cur, timerEv, sockEv, artVars, callVars>>

(* Faulty: wakeup_ev_ is not reset.                                        *)
ProcessPendingTasksKeepsEvent(l) ==
  /\ Waits(l) /\ wakeup[l]
  /\ batch' = [batch EXCEPT ![l] = pending[l]]
  /\ pending' = [pending EXCEPT ![l] = <<>>]
  /\ Goto(l, "next")
  /\ UNCHANGED <<running, cur, eventVars, callVars>>

(* The wait returns index WSA_WAKEUP_EVENT, whatever else is set.          *)
ProcessPendingTasks(l) ==
  /\ Waits(l) /\ wakeup[l]
  /\ wakeup' = [wakeup EXCEPT ![l] = FALSE]
  /\ batch' = [batch EXCEPT ![l] = pending[l]]
  /\ pending' = [pending EXCEPT ![l] = <<>>]
  /\ Goto(l, "next")
  /\ UNCHANGED <<running, cur, timerEv, sockEv, artVars, callVars>>

StartTask(l) ==
  /\ pc[l] = "next" /\ batch[l] # <<>>
  /\ cur' = [cur EXCEPT ![l] = Head(batch[l])]
  /\ batch' = [batch EXCEPT ![l] = Tail(@)]
  /\ Goto(l, "task")
  /\ UNCHANGED <<running, pending, eventVars, callVars>>

RunPendingTasksReturns(l) ==
  /\ pc[l] = "next" /\ batch[l] = <<>>
  /\ Goto(l, "wait")
  /\ UNCHANGED <<queueVars, eventVars, callVars>>

(* The wait returns index WSA_TIMER_EVENT. Cancel resets the event.        *)
ProcessTimerTasks(l) ==
  /\ Waits(l) /\ ~wakeup[l] /\ timerEv[l]
  /\ timerEv' = [timerEv EXCEPT ![l] = FALSE]
  /\ Goto(l, "timer")
  /\ UNCHANGED <<queueVars, wakeup, sockEv, artVars, callVars>>

(* The enumeration of the sockets resets their event and takes artificial  *)
(* events; a socket for which it fails is skipped, and if that is the last *)
(* one the event stays set. The flag is cleared in any case.               *)
ProcessSocketEvents(l, label) ==
  /\ \/ /\ sockEv' = [sockEv EXCEPT ![l] = FALSE]
        /\ art' = art \ {l} /\ missed' = missed \ {l}
     \/ /\ EnumMayFail
        /\ \E ev \in {FALSE, sockEv[l]} : sockEv' = [sockEv EXCEPT ![l] = ev]
        /\ missed' = missed \cup (art \cap {l})
        /\ UNCHANGED art
  /\ hasArt' = [hasArt EXCEPT ![l] = FALSE]
  /\ Goto(l, label)
  /\ UNCHANGED <<queueVars, wakeup, timerEv, callVars>>

WaitReturnsSocketEvent(l) ==
  /\ Waits(l) /\ ~wakeup[l] /\ ~timerEv[l] /\ sockEv[l]
  /\ ProcessSocketEvents(l, "socket")

(* Faulty: every time-out is the end of the round.                         *)
WaitTimesOutForNothing(l) == Waits(l) /\ UNCHANGED vars

(* A wait that times out changes something only with artificial events.    *)
WaitTimesOut(l) ==
  /\ Waits(l) /\ ~wakeup[l] /\ ~timerEv[l] /\ ~sockEv[l]
  /\ ToCmsWait(TimeOut[l]) # INFINITE /\ hasArt[l]
  /\ ProcessSocketEvents(l, "timeout")

(* The code of the users returns: the task is destroyed, with the Cleanup  *)
(* that sets its caller's event; after a socket event, socket_ev_ is reset *)
(* once more.                                                              *)
UserCodeReturns(l) ==
  /\ InUserCode(l)
  /\ done' = done \cup ({cur[l]} \ {None})
  /\ cur' = [cur EXCEPT ![l] = None]
  /\ sockEv' = [sockEv EXCEPT ![l] = @ /\ pc[l] # "socket"]
  /\ Goto(l, IF pc[l] = "task" THEN "next" ELSE "wait")
  /\ UNCHANGED <<running, pending, batch, wakeup, timerEv, artVars, callee, posting>>

-----------------------------------------------------------------------------
LoopStep(l) ==
  \/ ProcessPendingTasks(l) \/ StartTask(l) \/ RunPendingTasksReturns(l)
  \/ ProcessTimerTasks(l) \/ WaitReturnsSocketEvent(l) \/ WaitTimesOut(l)
  \/ BlockingCallPosts(l) \/ BlockingCallReturns(l)

Next ==
  \E l \in Loops :
    \/ LoopStep(l) \/ UserCodeReturns(l)
    \/ PostTask(l) \/ Quit(l) \/ TimerFires(l) \/ NetworkActivity(l)
    \/ ArtificiallyNotifyEvent(l) \/ \E m \in Loops : BlockingCall(l, m)

Spec == Init /\ [][Next]_vars

(* Each thread runs its loop, and the code of the users returns, however   *)
(* many blocking calls it makes.                                           *)
FairSpec == Spec /\ \A l \in Loops : WF_vars(LoopStep(l)) /\ SF_vars(UserCodeReturns(l))

-----------------------------------------------------------------------------
(* Every variable holds a value of its kind; a thread calls another loop,  *)
(* from the code of its users, and waits with no batch left behind.        *)
TypeOK ==
  /\ {running, wakeup, timerEv, sockEv, hasArt} \subseteq [Loops -> BOOLEAN]
  /\ art \subseteq Loops /\ missed \subseteq Loops
  /\ {pending, batch} \subseteq [Loops -> Seq(Loops \cup {None})]
  /\ {cur, callee} \subseteq [Loops -> Loops \cup {None}]
  /\ pc \in [Loops -> {"wait", "next"} \cup UserCode]
  /\ done \subseteq Loops /\ posting \subseteq {l \in Loops : callee[l] # None}
  /\ \A l \in Loops : /\ callee[l] # l
                      /\ callee[l] # None => pc[l] \in UserCode
                      /\ pc[l] = "wait" => batch[l] = <<>>

(* A task of the loop's came to another one after that one's Quit.         *)
Overtaken(l) == \E m \in Loops : ~running[m] /\ l \in Range(pending[m])

(* Loops whose threads wait for each other in a circle, or for a task that *)
(* was overtaken by Quit, and those that wait for them.                    *)
Stuck(l) ==
  \E S \in SUBSET Loops :
    l \in S /\ \A k \in S : k \notin posting \cup done /\ (callee[k] \in S \/ Overtaken(k))

TasksFor(l, m) ==
  {<<"pending", i>> : i \in {i \in DOMAIN pending[m] : pending[m][i] = l}} \cup
  {<<"batch", i>> : i \in {i \in DOMAIN batch[m] : batch[m][i] = l}} \cup
  {<<"cur", 0>> : i \in {i \in {0} : cur[m] = l}}

(* A thread that blocks in a call has one task with the called loop, or    *)
(* its event is set, and no other loop has a task or a set event of its:   *)
(* done is on the stack of a caller that waits, and is set once.           *)
CallIsUnderWay ==
  \A l, m \in Loops :
    Cardinality(TasksFor(l, m)) = IF callee[l] = m /\ l \notin posting \cup done THEN 1 ELSE 0

(* A blocking call returns, unless the threads of some loops wait for each *)
(* other in a circle, or Quit has come between its check of running_ and   *)
(* its post: however busy the loops are with tasks, timers and sockets,    *)
(* and also when the called loop quits with the task in its queue.         *)
CallReturnsUnlessStuck ==
  \A l \in Loops : callee[l] # None ~> callee[l] = None \/ Stuck(l)

(* A timer's event is served once nobody posts to the loop any more. Posts *)
(* without an end may starve it: the wake-up event is reported first.      *)
TimersAreServed ==
  \A l \in Loops :
    \/ []<>(pending[l] # <<>>)
    \/ [](timerEv[l] => <>(~timerEv[l] \/ Stuck(l) \/ ~running[l]))

(* With a wait that times out, an artificial event is taken once nobody    *)
(* posts to the loop any more and its timers rest, also when the reset at  *)
(* the end of RunEventLoopOnce wipes out its notification. It is lost when *)
(* the enumeration of its socket fails (event_loop_win.cc:246), and may    *)
(* wait without end when ToCmsWait makes INFINITE of the time-out.         *)
ArtificialIsServed ==
  \A l \in Loops :
    \/ []<>(pending[l] # <<>> \/ timerEv[l]) \/ ToCmsWait(TimeOut[l]) = INFINITE
    \/ [](l \in art => <>(l \notin art \/ l \in missed \/ Stuck(l) \/ ~running[l]))

=============================================================================
