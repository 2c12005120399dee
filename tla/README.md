# Specifications of io_base

TLA+ specifications of io_base: its event loops, what their threads, timers and
sockets may do to each other, and the parts they are built from. Everything is
checked with TLC on small instances. The safety properties of the passing runs, and
that the task queue, `Event` and `LinkedHashMap` implement what their headers
promise, are also proved with TLAPS, for any number of threads, tasks, calls, loops,
sockets and nodes. Every definition follows the C++ source; `PROJECT.json` names the
lines.

## 1. The system

| Part | Sources | State | Operations |
|---|---|---|---|
| Task queue | `event_loop.{h,cc}`, `task_queue_base.h` | `running_`, `thread_id_`, `pending_` under `pending_lock_`, the wake-up event | `Begin`, `Quit`, `PostTask`, `BlockingCall`, `RunPendingTasks` |
| Delayed tasks | `event_loop_win.{h,cc}`, `event_loop.cc`, `time_utils.cc` | the heap `timer_tasks_`, a `MultimediaTimer` with its event, the id of a `SetTimer` timer | `PostDelayedTask`, `ScheduleNextTimer`, `CancelTimers`, `ProcessTimerTasksUpTo`, `RunDueTasks` |
| Sockets | `event_loop_win.{h,cc}` | `registrations_`, the event `socket_ev_` shared by all sockets, `has_artificial_events_pending_` | `RegisterSocket`, `UnregisterSocket`, `RearmSocket`, `ArtificiallyNotifyEvent`, `ProcessSocketEvents`, `RunReadyCallbacks` |
| The loop as a whole | `event_loop_win.cc`, `event_loop.cc` | the order of the three events in one wait; several loops that call each other | `RunEventLoopOnce`, `BlockingCall` |
| `Event` | `event.{h,cc}` | a flag under a mutex with a condition variable, or a Windows event | `Set`, `Reset`, `Wait` with a warning and a deadline |
| `RecursiveCriticalSection` | `recursive_critical_section.{h,cc}` | a system mutex; on older macOS a counter, an owner and a semaphore | `Enter`, `TryEnter`, `Leave` |
| `LinkedHashMap` | `linked_hash_map.h` | a list and an index of its iterators | `insert`, `emplace`, `erase`, `find`, `swap` |
| Signaler and socket server | `event_loop_temp.{h,cc}` | dispatchers by key, an epoll set, a wake-up descriptor | `Wait` over epoll, poll and select, `WakeUp`; `Add`, `Remove`, `Update` are stubs; not compiled at this commit |
| Stack traces | `stacktrace.{h,cc}` | a global pointer, a signal action, a futex in the caller's frame (Android) | `GetStackTrace` |
| The rest | logging, yield policy, thread types, `FunctionView`, macros, `test_base.cc` | little or none | wrappers of system calls, a manual test driver |

How they interact. Any thread may call `PostTask`, `PostDelayedTask` and
`BlockingCall`; they meet the loop's thread in `pending_` and in the wake-up
event. A delayed post from another thread is a posted closure that calls
`PostDelayedTaskOnTaskQueue` on the loop's thread. `RunEventLoopOnce` waits for
three events (wake-up, timer, sockets, in this order of precedence) and runs
tasks, due tasks or listeners, all of which call back into the loop. The
operating system sets the timer's event from a thread of its own and records
network activity at any time.

What is hard about it: pushes that overlap; the reset of an event against the
setting of it; `Quit` against everything; a blocking caller whose stack the task
refers to; a clock that is read three times for one delay; a heap that changes
while its root is running; callbacks that unregister what is still to be called;
one event shared by all sockets; loops that block on each other; a lock that is
handed over in several steps; a signal handler that writes into the frame of a
thread that may have gone on; dispatchers that are replaced between an event and
its dispatch. `hazards` in `PROJECT.json` lists these with
their lines and the properties that watch them.

## 2. The modules

### TaskQueue and FifoExecutor

`TaskQueue.tla` splits every call into the steps other threads can observe. A
thread's `pc` says where in `PostTaskImpl`, `BlockingCallImpl`, `Quit` or (for
the loop's thread) `RunEventLoopOnce` it is; the comment at the top of the module
lists the values. The state is that of the class: `running`, `threadId`, `lock`,
`pending`, `wakeup`, the local `batch` of `RunPendingTasks`, and the task `cur`
that is running. A task is a name. `ticket`, `issued`, `executed`, `destroyedBy`,
`raced` and `unlocked` are history: they record the order of the pushes, the
order of execution, who destroyed a task, and whether pushes have overlapped.

`push_back` has two steps, reading the size and writing the element
(`PushBackResults`): with the lock nothing can come between them; without it, as
on the loop's own thread, everything can, and the outcomes are those of a data
race on a vector: a task overwritten, a vector cut short, a slot nobody
constructed (`Garbage`, and calling it ends the process).

A blocking task's closure owns the `Cleanup` that sets the caller's event, so
`Destroy` sets it, whether the task has run, was dropped or was released by
`Quit`.

`FifoExecutor.tla` is what `task_queue_base.h` promises: a queue of accepted tasks, at
most one task that executes, tasks that are over, and threads in blocking calls, which
return only once their task is over. `Drop` is what `Quit` does: it deletes all but a
first part of the queue. The refinement (`Executor` in `TaskQueue`) takes for the queue
the rest of the batch and then `pending_`, so that the swap of `RunPendingTasks`
changes nothing, and a task is accepted when its `push_back` is complete. The promise
is void from the step in which two pushes overlap (`void`, which is `raced`); until
then it is unconditional.

Abstracted: what tasks compute; the contents of `Location` and the traits, which
the code ignores; `Event`, which has a module of its own and of which only `Set`
and `Wait(kForever)` are used here.

### TimerQueue

`TimerQueue.tla` has a clock in microseconds that may advance between any two
steps, and one step per read of the clock: posting, compensating
(`PostDelayedTaskOnTaskQueue`), computing the due time (the constructor of
`DelayedTaskInfo`), scheduling, and the `now_micros` of `RunDueTasks`. The heap is
the set of its tasks, with their due times and its root `top`; a pop makes any
of the earliest tasks the new root, which is what a heap may do. Milliseconds are
`MicrosPerMs` microseconds and the division rounds down, as
`ToInt64Milliseconds` does. Due times wrap at `IntMax`. `timeSetEvent` refuses
delays above `MaxTimerMs`, and then a `SetTimer` timer is started: it posts
messages nobody reads, so it has no further effect in the model, as in the code.
`lateFire` says whether a timer that is expiring while `timeKillEvent` is called may set
its event afterwards: the timer is not created with `TIME_KILL_SYNCHRONOUS`.

Abstracted: tasks that are not delayed; the system timer resolution
(`timeBeginPeriod`).

### SocketLoop

`SocketLoop.tla` represents masks as sets of bits, with the bit numbers of
`winsock2.h`, because the code hands `POLL` masks to a function that takes `FD_`
masks and only numbers show what that means. Registrations are numbered in the
order they are made: the number is the identity of the shared `Registration`
object, which a `weak_ptr` in the ready list refers to. Winsock is external:
`WSAEventSelect` subscribes a socket and reports what already holds,
`NetworkActivity` records what happens and sets the shared event,
`WSAEnumNetworkEvents` takes a socket's record and resets the shared event
(part of `Enumerate`). It may fail for a socket, which the code then skips
(`EnumerateFails`). `RegisterSocket` whose subscription fails has no effect
and needs no step. `asked`, `credit` and `missed` are history: the events a
registration was asked to watch, how often an event was armed and not told yet
(counted up to two, as many as an event can have: one on the ready list and one
armed since), and the registrations that were skipped with an artificial event.

### Event and AbstractEvent

`AbstractEvent.tla` is what `event.h` promises: a flag, a `Wait` that returns true
only when the flag is up (and lowers it if the event resets itself), returns false
only if it has a time limit, and then changes nothing. `Event.tla` is the POSIX
implementation with its mutex and its condition variable: `Set` in four steps, so
that other threads can come between the assignment, the broadcast and the
unlocking; `Wait` with the inner loop, the release of the mutex while it blocks,
time-outs at `warn_ts` and at `give_up_ts`, spurious wake-ups, and the competition
for the mutex afterwards. The error code of the inner `wait` is the set `error`,
which stays until the outer code has acted on it: a `Wait` whose deadline passed
returns false even if the event has been set before it got the mutex back.
`Reset` is one step, since nobody can see it half done. `credit` and `taken`
count, as history, the calls of `Set` and the Waits that succeeded.

Abstracted: the arithmetic of `GetTimespec` (a deadline may pass at any time after
it was set), durations below zero, and the Windows variant, which hands each
operation to one kernel object.

### EventLoops

`EventLoops.tla` composes whole event loops. Each has its thread, its `pending_`,
its three events and the one wait of `RunEventLoopOnce`, which reports the first
event that is set; the code its thread runs (tasks, delayed tasks, callbacks) may
post to and call other loops. What the three modules above show in detail is one
step here: a post, the swap of `pending_`, a round of due tasks, an enumeration. Two
things stay apart because the composition is about them: a blocking call first
looks at `running_` and posts later, so that `Quit` may come in between
(`posting`), and a task records whose event its `Cleanup` sets. `ToCmsWait` turns
the time-out into milliseconds and narrows it to an `int` of `IntValues` values.
`art` are the loops with an artificial event in a registration, which the flag
`hasArt` (`has_artificial_events_pending_`) should tell and after a failed enumeration
does not. A wait that times out without artificial events
changes nothing and is not a step. The overlapping pushes of `TaskQueue` are left out
here: every push is whole.

### CriticalSection and RecursiveCriticalSection

`CriticalSection.tla` has the fields of the lock, where its threads are (`at`), and what
its users rely on (`MutualExclusion`, `OwnerChecks`); `RecursiveCriticalSection.tla` has
its steps. It is the lock the repository implements itself (macOS
with `USE_NATIVE_MUTEX_ON_MAC` 0; the header sets 1, and all other variants hand the
work to a system mutex). Every access to shared state is a step: the read of
`owning_thread_` and the compare-and-swap of the spin, the increment that queues, the
semaphore, the owner's fields, and in `Leave` the fields, the decrement and the second
read of `recursion_`. The 3000 rounds of the spin are one choice between getting the
lock and not. `depth` is history. The load and the compare-and-swap of one round are a
single step, since a swap that fails has no effect; likewise `owning_thread_` is
compared with the thread's own reference only, whose outcome nobody else can change.

### LinkedHashMap and OrderedMap

`OrderedMap.tla` is what `linked_hash_map.h` promises: sequences of pairs, in which a
key occurs once and elements stay where they were inserted. `LinkedHashMap.tla` has
the list and the index of iterators; nodes have identities, so that an iterator that
leads to a node of another map, or to one that was destroyed, can be told. `insert`
may throw between its two halves (`InsertThrows`); `erase(first, last)` has one step
per element. Iterators handed in are valid, calls come from one thread.

### Stacktrace

`Stacktrace.tla` follows `CaptureRawStacktrace` statement by statement, and the signal
handler on the captured thread beside it: the load of the global pointer, the walk,
the store to the futex and the wake-up. For each frame of the walk, the check of the
counter (116), the store through the counter as it is then (123) and the increment (125)
are steps of their own: the counter is no atomic, and after an interrupted wait two
handlers may work on one `params`. The increment may use the counter as it is or as it
was read for the store. Stores beyond the array are recorded like others, and a counted
entry nobody stored is `Unset`. The kernel is external:
a signal is pending until it is delivered, it is not queued twice, an action that is
restored to the old one discards it, `FUTEX_WAIT` fails if the value has changed or
another signal interrupts it, and `FUTEX_WAKE` goes by the address, which the frames of
successive calls may share. Threads end between calls. Nobody else sends the signal.

### EvenLoop

`EvenLoop.tla` is the POSIX side of `event_loop_temp.cc`, in its three builds. `Add`,
`Remove` and `Update` are empty in the source and virtual; they are modelled, and
marked external, as overrides that keep the two maps and call `AddEpoll`,
`RemoveEpoll` and `UpdateEpoll`, which is what those are there for. `epoll_ctl` is
external: it fails with `EEXIST` or `ENOENT` according to what the epoll set has, and for
the dispatchers in `Refusable` for any other reason, and then changes nothing; the
branches of the three functions on its result follow the source, which logs an error and
goes on. `refused` is history. The initial states
are with and without a registered signaler, as the constructor calls `Add` before an
override can exist. A socket stands for an address and a descriptor, which its
successor has too; a key belongs to one registration. A thread is in `Wait`, others
call at any time they can get `crit_`, and callbacks call back. `ProcessEvents` keeps
its case distinction, with the error code and the closed descriptor as inputs.
Simplified: `EINTR` only where nothing is ready (otherwise it is as if the signal had
come later); the 128 events of one `epoll_wait` are not exceeded; `epoll_create`
succeeds; a turn of `poll` that reports a closed descriptor is a turn without effect.

### Proof and instance modules

The `*Proofs` modules hold the proofs, section 5, each of the module it extends;
`EvenLoopProofs` also has, in its second part, those of `RecursiveCriticalSection`,
which the loop's `crit_` is (`event_loop_temp.h:204`). The
`MC*` modules only name constants for TLC. Definitions whose comment begins with "Faulty" are versions of an action
with a plausible mistake in it; they are not part of `Next` and show that the
properties notice such mistakes.

## 3. What the runs check

Passing runs:

| Run | Instance | What it shows |
|---|---|---|
| `taskqueue` | 2 posters, 2 tasks, `Quit` from the loop and from a poster, fair | No order of posting, resetting the event and taking the tasks leaves a task unnoticed (`NoLostWakeup`); pushes overlap only after the loop's own thread posted (`NoDataRace`); unless they overlap, execution is in push order (`FifoOrder`), nothing disappears (`NothingLost`), nothing is used after it was destroyed (`NoUseAfterDestroy`), no blocking functor outlives its caller (`NoDanglingFunctor`), and all this is one FIFO queue of tasks that never overlap (`ImplementsExecutor`); unless the loop quits, pushed tasks settle (`PostedTasksSettle`) and blocking callers come back (`BlockingCallReturns`) |
| `timerqueue` | 2 tasks with delays below zero, within and beyond what `timeSetEvent` accepts, timers that may fire late or not, `Quit`, fair | No task starts early (`NeverEarly`); the first task always has a timer that is early enough (`TimerIsArmed`); unless a killed timer fires late, the DCHECKs of the two timers hold and no event is left set without a timer (`NoSurprisingTimer`); the task popped is the one that ran (`PopsWhatRan`); a task is started when its time has come, unless the loop relies on `SetTimer` (`AcceptedDelayRuns`) |
| `socketloop_safety` | 2 sockets, 3 registrations, connects that succeed or fail, artificial events, failing enumerations | Listeners hear only of what their own registration was asked for (`CallbackWasAskedFor`), and of an event at most once for each time it was armed, although a callback may rearm a socket that is still on the ready list (`OneCallbackPerArming`) |
| `event` | 3 threads, 4 calls in any order, with and without both deadlines, fair | No waiter sleeps through a signal (`NoMissedBroadcast`) and a waiter gets it or it is taken by another (`SignalReleases`); an event that resets itself releases one `Wait` per `Set` (`OneWaitPerSet`); when the only `Set` has released a `Wait`, it has left the event, so the event of a blocking call may be destroyed (`SetIsOver`); all this implements `AbstractEvent` (`ImplementsEvent`) |
| `socketloop_liveness` | 2 sockets, failing subscriptions and enumerations, time-outs, `Quit`, fair | An artificial event is taken in the end, unless the enumeration of its own socket failed (`ArtificialIsTaken`) |
| `eventloops` | 2 loops, one with timers and sockets, failing enumerations, time-outs of half a millisecond, fair | A caller has exactly one task or its event set, until it goes on (`CallIsUnderWay`); a blocking call returns unless loops wait for each other in a circle or `Quit` came between its check and its post (`CallReturnsUnlessStuck`); a timer is served once the posts rest (`TimersAreServed`), an artificial event once posts and timers rest, unless the enumeration of its socket fails (`ArtificialIsServed`) |
| `critsection` | 4 threads, 2 levels, fair, deadlock checked | One thread is inside or one hand-over is under way, never both (`MutualExclusion`); what the DCHECKs say of the owner (`OwnerChecks`); everyone gets in, so no hand-over is lost (`EnterReturns`) |
| `linkedhashmap` | 2 maps, 3 keys, 2 values, 4 nodes | The list and the index agree but where an insert threw, and no two maps share an element (`InParallel`); the map implements `OrderedMap` (`ImplementsOrderedMap`) |
| `stacktrace` | 2 threads, 3 calls, a stack deeper than the array, failures, fair | Unless a wait was interrupted, a trace is the target's (`TraceIsOfTarget`) and the handler writes only into a call that waits, and only within its array (`NoStrayWrites`); without failures the handler is temporary (`HandlerIsTemporary`); calls return unless a thread ends unanswered (`CallReturns`) |
| `evenloop` | 2 sockets, for one of which `epoll_ctl` may fail, 3 registrations, 3 builds, fair | A callback is made for the key an event was found under, to the dispatcher it was found for, while that dispatcher still has the key (`NoABA`); with epoll, a dispatcher is told of what it asks for and what holds on its socket, or the wait ends, whether or not its descriptor has been out of the epoll set, unless `epoll_ctl` has refused it (`ReadyIsTold`); a `WakeUp` ends the wait (`WakeUpEndsWait`); a time-out does, except with select (`TimedWaitReturns`) |

Runs that show where the code does not do what its comments say:

| Run | The comment | What happens |
|---|---|---|
| `taskqueue_race` | `task_queue_base.h:58,70`: tasks may be posted from any thread, including the queue's own | the loop's thread pushes without the lock (`event_loop.cc:68`), and a task is lost |
| `socketloop_shared` | `event_loop.h:70`: requested events that occur are notified | enumerating one socket resets the event of all (`event_loop_win.cc:246`), and so does the end of the iteration (232) |

Other disagreements show in the model and have no run of their own. In the event
loop: a post that has passed the check of `running_` queues its task after `Quit` has
emptied the queue (`event_loop.h:56`: `Quit` releases all tasks), and a blocking call
then never returns (`Overtaken` in `EventLoops`); a delay that `timeSetEvent` refuses
falls back to a `SetTimer` timer the loop does not listen to, and the task does not run
(`event_loop_win.cc:366`, the `winTimer` of `AcceptedDelayRuns`); an infinite delay
overflows the due time and the task runs at once (`event_loop_win.cc:41`); a task
posted to a loop that is not running is destroyed on the poster's thread
(`PostTaskImplDrops`; `task_queue_base.h:62-66` promises otherwise); a blocking
call that is overtaken by `Quit` returns without having executed
(`event_loop.h:97`), and the typed one then returns an uninitialised value; `Quit`
leaves delayed tasks in the heap; `RegisterSocket` passes a `POLL` mask to
`WSAEventSelect`, which takes `FD_` bits, so that a socket watched for readability
is not subscribed to `FD_READ` (`GetPollMask`; `event_loop_win.cc:134`,
`event_loop.h:70`); an artificial event raised in a callback waits
for the next time-out, not for the next iteration (`event_loop.h:85`), and one whose
socket cannot be enumerated is lost: `ProcessSocketEvents` skips the socket
(`event_loop_win.cc:246-249`) and clears `has_artificial_events_pending_` all the same
(285), so that no later time-out looks for it, although `event_loop.h:85` promises the
notification without condition (`missed` in `SocketLoop` and `EventLoops`); a finite
time-out of 2^32 - 1 milliseconds, narrowed to the `int` -1, is an endless one
(`event_loop.cc:13`), against `event_loop.h:91`. Elsewhere: `GetStackTrace` leaves its handler installed when `tgkill` or the wait fails, against
"temporarily" (`stacktrace.cc:171`), and after an interrupted wait the handler may write
into a frame that is gone, or two handlers write to the same `params`, each finding room
for the last address before the other has counted it, so that one stores beyond
`addresses` in spite of the check that is to avoid it (`stacktrace.cc:115`; the states
are reachable in the `stacktrace` run); descriptors that `epoll_ctl` refuses are logged
and stay as they were (`event_loop_temp.cc:510-514,557-562`); with poll and select a
dispatcher added while another thread blocks in the wait is not watched until that wait
comes round, which is why `ReadyIsTold` is about epoll; with select, a wait whose
descriptors stay ready outlives its time-out (`event_loop_temp.cc:478`); `erase` of an iterator whose key is not in the
index dereferences `map_.end()` before its check can fail (`linked_hash_map.h:131`, of
which line 127 says that the check will).

### Bounds

In `TaskQueue` two tasks are enough for a push that overlaps another, for an order to
be wrong across two batches and for a task to be queued while one is running; the
safety properties are proved for any number.
Two posters
and the loop's thread give every pair of roles, and three parties to the lock.
Symmetry is used for the interchangeable sockets of `socketloop_safety` and nowhere
else. In `TimerQueue` a millisecond is two microseconds and the clock stops at 6:
long enough for a delay to be compensated, rounded, rescheduled and to
become due while another task is running; `IntMax` is far above every time that
is reached, so that only an infinite delay would wrap. In `SocketLoop` three
registrations of two sockets allow the case that matters: two entries on the
ready list, the first of which replaces the registration of the second, or rearms it.
In `Event` three threads are a setter and two competing waiters, or two setters
and a waiter, and four calls let one of them come back for another signal.
In `EventLoops` two loops can call each other and two queued tasks keep a loop busy;
a blocking caller's own post is not bounded; one of the loops has all three events, so
that timers can hold up its sockets. In `RecursiveCriticalSection` four
threads are an owner, one that is handed the lock, one that spins and one that
queues. In `LinkedHashMap` four nodes fill a range of three and leave one for another
map. In `Stacktrace` the third call is the one that a late handler of the first can
disturb while the second is over. In `EvenLoop` three keys are two dispatchers and a
successor, or the signaler and two sockets one after the other under the same
descriptor. `MaxRegs`, `MaxTime`, `MaxCalls`, `MaxQueue`, `MaxDepth`, `MaxNodes`, `MaxKeys`
and the sets of tasks are the only bounds. Most of them end behaviours, and an idle
loop waits for the outside world, hence `CHECK_DEADLOCK FALSE`; the lock can always go
on and is checked for deadlock.

### Fairness

`TaskQueue`: a thread inside a call goes on (the code has no place to stop in
one), and the owner of a running loop keeps calling `RunEventLoopOnce`, as
`test_base.cc:34-41` does. Nobody has to post, begin or quit; a loop that has
quit need not be run. `TimerQueue` adds that time passes and a running timer
fires. `SocketLoop` assumes the loop's steps, its time-outs included. `Event` assumes that
a thread inside a call goes on, gets the mutex if it stays free, and that deadlines
pass; nobody has to call, and nothing makes a thread wake up spuriously. As the
number of calls is bounded nobody can be overtaken for ever, so weak fairness is
enough for the mutex.
Tasks and callbacks are assumed to return. `EventLoops` assumes this strongly, since a
task may make one blocking call after the other, and that each thread keeps running its
loop. `RecursiveCriticalSection`: threads inside a call go on, the spin is bounded by its
counter, a thread inside leaves in the end, and the semaphore passes over no waiter for
ever (strong fairness for each waiter; libdispatch wakes in order). `Stacktrace`: threads
and handlers run and pending signals are delivered. `EvenLoop`: the thread in `Wait` runs
and time passes; nothing is assumed of sockets and callers.

## 4. What could be wrong and is not

The order in `ProcessPendingTasks`, reset first and take afterwards, carries
`NoLostWakeup`; exchanging the two, or resetting again at the end, loses tasks.
The `Cleanup` inside the closure carries `BlockingCallReturns`. The special case
for delays that are not positive carries `PopsWhatRan`: without it a running task
could post one that is due before itself and the wrong one would be popped. The
strict comparison before `CancelTimers` is right because a push changes the root
only then. That the `weak_ptr` in the ready list refers to the registration, not to the
descriptor, carries `CallbackWasAskedFor`; that `DispatchSocketEvent` disarms what it
puts on the list, before any callback can rearm it, carries `OneCallbackPerArming`. `Set` wakes all waiters and keeps the mutex until it has done
so: the first carries `NoMissedBroadcast`, the second `SetIsOver`. The second look at
the futex carries `TraceIsOfTarget` against stale wake-ups, and the mutex around both
`sigaction` calls `HandlerIsTemporary`. That `lock_queue_` counts levels and waiters
together is what makes `TryEnter` refuse a lock that is on its way to a waiter. Keys
that are never used again carry `NoABA`, and the `EPOLL_CTL_ADD` after `ENOENT` carries
`ReadyIsTold`.

## 5. What is proved

`TaskQueueProofs.tla` proves for every set of posters, tasks and quitters, from
the one assumption `ConstantsAssumption` (the constants are different things):

| Theorem | Statement |
|---|---|
| `TypeCorrect` | `Spec => []TypeOK` |
| `WakeupCorrect` | `Spec => []NoLostWakeup` |
| `LockCorrect` | `Spec => []NoDataRace` |
| `TaskInvCorrect` | `Spec => []TaskInv`, the inductive invariant below |
| `FifoCorrect` | `Spec => []FifoOrder` |
| `NothingLostCorrect` | `Spec => []NothingLost` |
| `LifetimeCorrect` | `Spec => []NoUseAfterDestroy` |
| `FunctorCorrect` | `Spec => []NoDanglingFunctor` |
| `ExecutorRefinement` | `Spec => ImplementsExecutor` |

The argument is in layers.

* `ShapeInv` adds to the types which program locations go with which data: a
  thread holds a task exactly while it is in a call (`CallShape`), and what the
  loop's thread holds follows from where it is (`LoopShape`).
* `NoLostWakeup` is inductive relative to `ShapeInv`.
* `LockInv`: until the loop's thread posts, whoever is in `push_back` holds the
  lock and has read the right size. `NoDataRace` follows.
* `TaskInv` carries the rest. `FifoOrder` speaks of executed tasks only and is
  not inductive: `OrderInv` extends it to the concatenation of `executed`,
  `batch` and `pending`. The lifetime properties need in addition that callers
  hold different tasks which nobody has pushed or destroyed yet (`ArgInv`), that
  the running task is the last one started (`CurInv`), that what is queued is
  alive and awaited (`LiveInv`), and that what was pushed is somewhere
  (`KeptInv`). All but `ArgInv` are stated for behaviours without overlapping
  pushes, since the data race destroys each of them.
* Three lemmas on `PushBackResults` say what `push_back` leaves behind: always a
  vector of tasks and raw slots, and an `Append` when nobody interferes.
* The refinement has one lemma per kind of step. `PushBack` is `Accept`, a post to a
  loop that is not running `Refuse`, `StartTask` and `FinishTask` are `Start` and
  `Finish`, the swap of `Quit` is `Drop(Len(batch))`, the beginning and the end of a
  blocking call are `Call` and `Return`; everything else stutters. `Start` and the swap
  need `LoopShape` (no task is running, the batch is empty), `Accept` and `Call` need
  `ArgInv` (the task is new), `Drop` needs `OrderInv` (what is queued are tasks that
  were accepted), and `Return` needs one fact more, `DoneInv`: an event is set only by
  the destruction of its task. Three lemmas on concatenation (`ConcatAppend`,
  `ConcatHeadTail`, `ConcatFirst`) join `batch` and `pending`.

`EventProofs.tla` proves for every set of threads and every bound on the calls,
from `EventAssumption` (`None` is not a thread, the bound is a natural number):

| Theorem | Statement |
|---|---|
| `EventTypeCorrect` | `Spec => []TypeOK`, the holder of the mutex included |
| `BroadcastCorrect` | `Spec => []NoMissedBroadcast` |
| `SetIsOverCorrect` | `Spec => []SetIsOver` |
| `OneWaitPerSetCorrect` | `Spec => []OneWaitPerSet` |
| `EventRefinement` | `Spec => ImplementsEvent` |

`EventInv` adds `WaitShape` to the types: deadlines and time-outs belong to threads
in `Wait`, and only what has a deadline times out. `NoMissedBroadcast` is inductive
relative to it, because a thread blocks only while it holds the mutex and the event
is not set. `SetIsOver` needs `SetInv`: until the first `Set` is over nobody has been
released, because the event is not set before the assignment and the mutex is held
after it. For the refinement every step is matched with one of the abstract event:
`Set` takes effect with its assignment, `Wait` when it returns, and all other steps,
time-outs and wake-ups among them, stutter. That a time-out implies a time limit is
where `WaitShape` is needed. `OneWaitPerSet` is not inductive: a `Set` has been counted
before its signal is there. `CreditInv` counts the Sets under way as well, as the
cardinality of the threads before the assignment.

`EvenLoopProofs.tla` proves for every set of sockets, the three builds and any number of
registrations, from `EvenLoopAssumption`:

| Theorem | Statement |
|---|---|
| `LoopInvCorrect` | `Spec => []LoopInv`, the inductive invariant below |
| `LoopTypeCorrect` | `Spec => []TypeOK` |
| `NoABACorrect` | `Spec => NoABA`, an action property |

`KeyInv`: keys are given out in order and a dispatcher has at most one. For `NoABA` it is
not enough to know the registered keys, as an event may be dispatched long after it was
found: `OfKey` says that a key has been given out and belongs to the dispatcher named or
to nobody. No step can undo that, since a key that was taken back is never given again.
`EpollInv` states it of the epoll set, where a refused `EPOLL_CTL_DEL` leaves the key of a
dispatcher that is gone: `epoll_wait` goes on reporting it, and `NoABA` holds all the
same. Where `epoll_ctl` was not refused `EpollInv` says more, that a descriptor is in the
set exactly while its dispatcher wants something, which decides between `EPOLL_CTL_ADD`
and `EPOLL_CTL_MOD`; `Follows` sums up what the three functions make of each outcome of
`epoll_ctl`. `WatchedInv` and `FoundInv` state `OfKey` of what a wait asked for and of what
it found.

Its second part proves for every set of threads and every depth, from `LockAssumption`,
of the lock (`Crit`, the steps of `RecursiveCriticalSection` on the fields of
`CriticalSection`; the theorems about the lock and those about the loop do not depend on
each other):

| Theorem | Statement |
|---|---|
| `LockInvCorrect` | `Crit!Spec => []LockInv`, the inductive invariant below |
| `ExclusionCorrect` | `Crit!Spec => []MutualExclusion` |
| `OwnerChecksCorrect` | `Crit!Spec => []OwnerChecks` |
| `QueueCountCorrect` | `Crit!Spec => []QueueCount` |
| `NoneStrandedCorrect` | `Crit!Spec => []NoneStranded` |

Who may enter is decided by the one number `lock_queue_`, so exclusion cannot be
separated from what that number counts. `QueueCount` makes the header's comment exact:
the levels of the holder, one more while a level is being entered or left, and the
threads at the semaphore. With it a compare-and-swap from 0 finds nobody inside and
nobody queued, and a `Leave` that sees more than 0 has somebody to wake. `OwnerInv` ties
the owner's fields to the thread that has entered, `ExclusionInv` is `MutualExclusion`
without its reference to the program, and `NoneStranded`, which is what makes
`EnterReturns` possible, says that a waiter waits for a holder or for a signal that is
there, and that no signal is sent when nobody waits.

`TimerQueueProofs.tla`, for every set of tasks and delays, every clock and both kinds
of timers, from `TimerAssumption`:

| Theorem | Statement |
|---|---|
| `QueueInvCorrect` | `Spec => []QueueInv`, for any delays |
| `TimerTypeCorrect` | `Spec => []TypeOK`, the order of the heap included |
| `TimerIsArmedCorrect` | `Spec => []TimerIsArmed` |
| `DelayInvCorrect` | `NoOverflow => (Spec => [](TimeInv /\ TimerInv))` |
| `NeverEarlyCorrect` | `NoOverflow => (Spec => []NeverEarly)` |
| `PopsWhatRanCorrect` | `NoOverflow => (Spec => []PopsWhatRan)` |
| `NoSurprisingTimerCorrect` | `NoOverflow => (Spec => []NoSurprisingTimer)` |

`QueueInv` is the types, where the loop is and what it then holds (`ShapeInv`), that a
task is in one place until it is started (`PlaceInv`) and `TimerIsArmed` itself, which
needs no assumption on the delays: it compares the timer with the due time that is in
the heap, right or wrong. The others compare with what was asked for. `NoOverflow` says
that no delay takes the clock beyond `IntMax`; it is needed because the code adds
without a check (`event_loop_win.cc:41`), and with an infinite delay `NeverEarly` is
false. `TimeInv` follows a delay through the closure, the compensation and the heap:
at each place the time that was asked for is not later than what will be computed from
what is stored. For `PopsWhatRan` it also says that what a running task posts is due
after the `now_micros` of the round, so that the root does not change. `TimerInv` is
about timers that do not fire late.

`SocketLoopProofs.tla`, for every set of sockets and masks, any number of registrations,
and all choices of what may fail, from `SocketAssumption`:

| Theorem | Statement |
|---|---|
| `SocketInvCorrect` | `Spec => []SocketInv` |
| `SocketTypeCorrect` | `Spec => []TypeOK`, no socket registered twice |
| `CallbackWasAskedForCorrect` | `Spec => []CallbackWasAskedFor` |
| `OneCallbackPerArmingCorrect` | `Spec => OneCallbackPerArming`, an action property |

`RegInv` says that numbers in the map, in the ready list and in the callback belong to
registrations that have been made, and that the enumeration's copy of the map is still
the map. `AskedInv` extends `CallbackWasAskedFor` to the ready list: an entry whose
registration is still there carries events this registration was asked for. Since
numbers are not used again, an entry cannot come to belong to a new registration, which
is the step where a descriptor in place of the `weak_ptr` would break the induction.
`MaskIsCut` is the lemma on the bits: the poll bits of the events differ, so cutting a
mask to a registration's bits leaves only its events. For `OneCallbackPerArming` it is not
enough to know that what is armed has an arming to spend: an event on the ready list has
been disarmed and may be armed again before its callback. `CreditInv` therefore counts
both, and an event that is armed and on the list has two. That there are not more is
`ReadyInv`: an enumeration puts a registration on the list at most once, and the list
is empty when the next one begins.

`EventLoopsProofs.tla`, for every set of loops and every length of their queues, from
`EventLoopsAssumption`:

| Theorem | Statement |
|---|---|
| `LoopsInvCorrect` | `Spec => []LoopsInv` |
| `LoopsTypeCorrect` | `Spec => []TypeOK`, no loop waits for itself |
| `CallIsUnderWayCorrect` | `Spec => []CallIsUnderWay` |

`CallIsUnderWay` counts a caller's tasks. `CallInv` says the same with places: a call
under way has one place in one of `pending`, `batch` and `cur` of the loop it calls, and
a call that is not has none, in any loop. `PhaseInv` was first too weak: the swap of
`pending_` overwrites `batch`, and that this drops no task needs the batch to be empty
whenever the loop is not in the `for` over it.

`StacktraceProofs.tla`, for every set of threads and calls, all depths and sizes, from
`StacktraceAssumption`:

| Theorem | Statement |
|---|---|
| `TraceInvCorrect` | `Spec => []TraceInv` |
| `TraceIsOfTargetCorrect` | `Spec => []TraceIsOfTarget` |
| `NoStrayWritesCorrect` | `Spec => []NoStrayWrites` |
| `HandlerIsTemporaryCorrect` | `Spec => []HandlerIsTemporary` |

The core is `SignalInv`: as long as no wait was interrupted, a pending signal or a handler
at work serves the one call that waits under the mutex, `current_output_state_` leads
to that call's frame, its futex is 0, and what the handler has recorded is the
beginning of the target's stack. `Walked` says it of the three places in
`UnwindBacktrace`: after the check the counter is below the size of the array, and
between the store and the increment the array has one frame more than the counter tells.
Only one handler being at work, nobody else moves the counter; without that the bound of
the array does not hold, and it is not claimed. `ParamsInv` follows a frame from blank to complete;
`CallInv` ties the mutex to the caller's steps; `MadeInv` keeps future calls blank.
`HandlerInv` was first too weak: the action that a call has saved must be the old one at
every step from its installation of the handler to the restoration.

`LinkedHashMapProofs.tla`, for every set of maps, keys and values and any number of
nodes, from `LinkedHashMapAssumption`:

| Theorem | Statement |
|---|---|
| `MapInvCorrect` | `Spec => []MapInv` |
| `MapTypeCorrect` | `Spec => []TypeOK` |
| `InParallelCorrect` | `Spec => []InParallel` |
| `OrderedMapRefinement` | `Spec => ImplementsOrderedMap` |

`InParallel` leaves out the maps in which an insert has thrown, and so cannot be
inductive: `clear` destroys their nodes, which must not be another map's. `NodeInv`
therefore holds for all maps: a node is in one list, once, and has a pair. `KeyInv` is
`InParallel` without its count, which follows since places and keys correspond one to
one. `RangeInv` keeps `erase(first, last)` on an element of its map or at the end.
`clear`, `swap` and the move assignment are one case (`Dealt`): lists, nodes and index
are dealt out anew. In the refinement a node's place in the list is its pair's place in
the sequence; `Link` is an insertion at the end, erasing by key or by iterator removes
one place, an insert that throws, the node `emplace` throws away and the two ends of a
range erase stutter.

## 6. What is only model-checked, and what is not modelled

Liveness is checked with TLC only: fairness and `ENABLED` are out of the
prover's reach. In `Stacktrace` the type of `result` is not proved, only its domain
(`Shape` in place of `TypeOK`): it is built with `SelectSeq`, defined by recursion, of
which nothing can be proved here by induction. The inductive invariants have been
checked with TLC on the instances of section 3 before they were proved.

Not modelled: the Windows `Wait` of `event_loop_temp.cc`; logging, which wraps Abseil's;
yield policies and thread types, thin wrappers of system calls; `FunctionView`, whose
one danger, outliving the callable, is `NoDanglingFunctor`; the test driver; the text of
`StackTraceToString`; the storage of the heap (a task posted from a running delayed task
may move the very object that is running, `event_loop_win.cc:345-350`); the 32 bits of the
timer's delay; what a store beyond `addresses` overwrites; memory orders weaker than sequential consistency
(`running_` is read with acquire and written with release; `owning_thread_` is a plain
field that others read; nothing else is shared without a lock but the race above).

## 7. Plan

What was planned is done: every safety property a passing run checks is proved. Next
would come:

1. The fall-back to select of `event_loop_temp.cc` when `epoll_create` fails, and the
   Windows `Wait`.
2. The storage of the heap of delayed tasks, for the reference `top` that is kept while
   a task runs.
3. `AbstractEvent` in place of the one-step event of `TaskQueue`'s blocking calls.
