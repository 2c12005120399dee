----------------------------- MODULE Stacktrace -----------------------------
(***************************************************************************)
(* Stack traces of other threads (stacktrace.cc). GetStackTrace(tid)       *)
(* installs a signal handler, interrupts the thread and sleeps on a futex  *)
(* until the handler, on that thread, has recorded its stack in the        *)
(* caller's frame. Any thread may ask for the stack of any other, and for  *)
(* its own. Nobody else sends kSignal.                                     *)
(*                                                                         *)
(* A thread's pc: "idle"; "lock" before mutex_; "store", "install" and     *)
(* "kill" before the three steps up to tgkill; "wait" before FUTEX_WAIT,   *)
(* "asleep" in it and "check" after it; "restore" before the second        *)
(* sigaction; "return" before the lock is released. Its hpc, in the        *)
(* handler that interrupts it: "load"; "unwind", "write" and "incr" before *)
(* the three accesses to the counter in UnwindBacktrace; "store", "wake".  *)
(***************************************************************************)
EXTENDS Naturals, Sequences

CONSTANTS
  Threads,
  Depth,          \* the number of frames on a thread's stack
  Opaque,         \* the frames dladdr cannot translate
  kMaxStackSize,
  MaxCalls,       \* bound: calls of GetStackTrace in one behaviour
  MayFail,        \* whether sigaction fails and signals of others interrupt a sleep
  None            \* no thread

ASSUME StacktraceAssumption ==
  /\ Depth \in [Threads -> Nat \ {0}]
  /\ kMaxStackSize \in Nat \ {0} /\ MaxCalls \in Nat
  /\ MayFail \in BOOLEAN /\ None \notin Threads

VARIABLES
  pc, hpc,    \* see above
  call,       \* the number of a thread's current call, or 0
  calls,      \* the number of calls made so far
  args,       \* a call's thread and the thread to be captured
  status,     \* a call's outcome: "none" yet, "failed", "interrupted" or "done"
  result,     \* the stack trace a call returns
  mutex,      \* who holds mutex_
  current,    \* current_output_state_: the call whose params it points to, or 0
  params,     \* the params of a call: its futex_, its stack_size_counter and
              \* what has been stored in its addresses, counted from 1
  res,        \* whether FUTEX_WAIT has returned 0
  handler,    \* the action of kSignal: "old", or "ours" for SignalHandler
  old_act,    \* what a thread's first sigaction has returned
  pending,    \* the threads for which kSignal is pending
  seen,       \* the pointer a handler has loaded
  left,       \* the frames a handler has yet to unwind
  slot,       \* the entry of addresses a handler has just written, or 0
  exited      \* the threads that have ended

callVars == <<call, calls, args, status, result>>
signalVars == <<handler, old_act, pending>>
handlerVars == <<hpc, seen, left, slot>>
vars == <<pc, callVars, mutex, current, params, res, signalVars, handlerVars, exited>>

Calls == 1 .. MaxCalls
Frames == Threads \X Nat
Unset == <<None, 0>>       \* what an entry that was never written holds
NoArgs == [by |-> None, tid |-> None]
Blank == [futex |-> 0, count |-> 0, addresses |-> <<>>]

Init ==
  /\ pc = [t \in Threads |-> "idle"] /\ hpc = [t \in Threads |-> "none"]
  /\ call = [t \in Threads |-> 0] /\ calls = 0
  /\ args = [c \in Calls |-> NoArgs]
  /\ status = [c \in Calls |-> "none"] /\ result = [c \in Calls |-> <<>>]
  /\ mutex = None /\ current = 0
  /\ params = [c \in Calls |-> Blank]
  /\ res = [t \in Threads |-> TRUE]
  /\ handler = "old" /\ old_act = [t \in Threads |-> "old"] /\ pending = {}
  /\ seen = [t \in Threads |-> 0] /\ left = [t \in Threads |-> 0]
  /\ slot = [t \in Threads |-> 0] /\ exited = {}

(* The handler interrupts what the thread is doing.                        *)
At(t, place) == pc[t] = place /\ hpc[t] = "none"

Goto(t, place) == pc' = [pc EXCEPT ![t] = place]

-----------------------------------------------------------------------------
(* Frames that cannot be translated are left out of the trace.             *)
FormatStackTrace(addresses) == SelectSeq(addresses, LAMBDA f : f \notin Opaque)

(* The entries up to the counter, whether they have been written or not.   *)
Counted(p) ==
  [i \in 1 .. p.count |-> IF i \in DOMAIN p.addresses THEN p.addresses[i] ELSE Unset]

(* The innermost frames of a thread, as many as there is room for.         *)
StackSize(t) == IF Depth[t] < kMaxStackSize THEN Depth[t] ELSE kMaxStackSize
Stack(t) == [i \in 1 .. StackSize(t) |-> <<t, i>>]

MayCall(t) == At(t, "idle") /\ t \notin exited /\ calls < MaxCalls

(* GetStackTrace() records the thread's own stack, without a signal.       *)
GetOwnStackTrace(t) ==
  /\ MayCall(t)
  /\ calls' = calls + 1
  /\ args' = [args EXCEPT ![calls'] = [by |-> t, tid |-> t]]
  /\ result' = [result EXCEPT ![calls'] = FormatStackTrace(Stack(t))]
  /\ status' = [status EXCEPT ![calls'] = "done"]
  /\ UNCHANGED <<pc, call, mutex, current, params, res, signalVars, handlerVars, exited>>

GetStackTrace(t, tid) ==
  /\ MayCall(t)
  /\ calls' = calls + 1
  /\ call' = [call EXCEPT ![t] = calls']
  /\ args' = [args EXCEPT ![calls'] = [by |-> t, tid |-> tid]]
  /\ Goto(t, "lock")
  /\ UNCHANGED <<status, result, mutex, current, params, res, signalVars, handlerVars, exited>>

(* The call returns to its caller.                                         *)
Finish(t, outcome, trace) ==
  /\ mutex' = None
  /\ status' = [status EXCEPT ![call[t]] = outcome]
  /\ result' = [result EXCEPT ![call[t]] = trace]
  /\ call' = [call EXCEPT ![t] = 0]
  /\ Goto(t, "idle")
  /\ UNCHANGED <<calls, args>>

(* An error string: an empty trace, and everything but the lock stays.     *)
Fail(t, outcome) == Finish(t, outcome, <<>>)

-----------------------------------------------------------------------------
(* CaptureRawStacktrace, statement by statement.                           *)
Lock(t) ==
  /\ At(t, "lock") /\ mutex = None
  /\ mutex' = t
  /\ Goto(t, "store")
  /\ UNCHANGED <<callVars, current, params, res, signalVars, handlerVars, exited>>

StoreOutputState(t) ==
  /\ At(t, "store")
  /\ current' = call[t]
  /\ Goto(t, "install")
  /\ UNCHANGED <<callVars, mutex, params, res, signalVars, handlerVars, exited>>

Install(t) ==
  /\ At(t, "install")
  /\ old_act' = [old_act EXCEPT ![t] = handler]
  /\ handler' = "ours"
  /\ Goto(t, "kill")
  /\ UNCHANGED <<callVars, mutex, current, params, res, pending, handlerVars, exited>>

InstallFails(t) ==
  /\ MayFail /\ At(t, "install")
  /\ Fail(t, "failed")
  /\ UNCHANGED <<current, params, res, signalVars, handlerVars, exited>>

(* tgkill; a signal that is pending already is not queued twice.           *)
Kill(t) ==
  /\ At(t, "kill") /\ args[call[t]].tid \notin exited
  /\ pending' = pending \cup {args[call[t]].tid}
  /\ Goto(t, "wait")
  /\ UNCHANGED <<callVars, mutex, current, params, res, handler, old_act, handlerVars, exited>>

KillFails(t) ==
  /\ At(t, "kill") /\ args[call[t]].tid \in exited
  /\ Fail(t, "failed")
  /\ UNCHANGED <<current, params, res, signalVars, handlerVars, exited>>

(* AsyncSafeWaitableEvent::Wait: FUTEX_WAIT sleeps if futex_ is still 0,   *)
(* and fails with EAGAIN otherwise. A thread that interrupts itself does   *)
(* so before tgkill returns.                                               *)
FutexWait(t) ==
  /\ At(t, "wait") /\ t \notin pending
  /\ IF params[call[t]].futex = 0
       THEN Goto(t, "asleep") /\ UNCHANGED res
       ELSE Goto(t, "check") /\ res' = [res EXCEPT ![t] = FALSE]
  /\ UNCHANGED <<callVars, mutex, current, params, signalVars, handlerVars, exited>>

(* Another signal, whose handler was installed without SA_RESTART: EINTR.  *)
FutexWaitInterrupted(t) ==
  /\ MayFail /\ At(t, "asleep")
  /\ Goto(t, "check")
  /\ res' = [res EXCEPT ![t] = FALSE]
  /\ UNCHANGED <<callVars, mutex, current, params, signalVars, handlerVars, exited>>

(* Faulty: having been woken is taken for having been signalled.           *)
WaitTrustsWakeUp(t) ==
  /\ At(t, "check") /\ (res[t] \/ params[call[t]].futex # 0)
  /\ Goto(t, "restore")
  /\ res' = [res EXCEPT ![t] = TRUE]
  /\ UNCHANGED <<callVars, mutex, current, params, signalVars, handlerVars, exited>>

(* After FUTEX_WAIT only futex_ tells whether the handler is done; if it   *)
(* is not, and there was no error, the wait is repeated.                   *)
WaitChecks(t) ==
  /\ At(t, "check") /\ (res[t] \/ params[call[t]].futex # 0)
  /\ Goto(t, IF params[call[t]].futex # 0 THEN "restore" ELSE "wait")
  /\ res' = [res EXCEPT ![t] = TRUE]
  /\ UNCHANGED <<callVars, mutex, current, params, signalVars, handlerVars, exited>>

WaitFails(t) ==
  /\ At(t, "check") /\ ~res[t] /\ params[call[t]].futex = 0
  /\ Fail(t, "interrupted")
  /\ res' = [res EXCEPT ![t] = TRUE]
  /\ UNCHANGED <<current, params, signalVars, handlerVars, exited>>

(* Faulty: the lock does not cover the second sigaction.                   *)
RestoreUnlocked(t) ==
  /\ At(t, "restore")
  /\ IF mutex = t
       THEN mutex' = None /\ UNCHANGED <<pc, handler, pending>>
       ELSE /\ handler' = old_act[t]
            /\ pending' = IF old_act[t] = "old" THEN {} ELSE pending
            /\ Goto(t, "return")
            /\ UNCHANGED mutex
  /\ UNCHANGED <<callVars, current, params, res, old_act, handlerVars, exited>>

(* The old action ignores the signal, which discards what is pending.      *)
Restore(t) ==
  /\ At(t, "restore")
  /\ handler' = old_act[t]
  /\ pending' = IF old_act[t] = "old" THEN {} ELSE pending
  /\ Goto(t, "return")
  /\ UNCHANGED <<callVars, mutex, current, params, res, old_act, handlerVars, exited>>

(* The lock is released, and GetStackTrace formats what was recorded.      *)
Return(t) ==
  /\ At(t, "return")
  /\ Finish(t, "done", FormatStackTrace(Counted(params[call[t]])))
  /\ UNCHANGED <<current, params, res, signalVars, handlerVars, exited>>

-----------------------------------------------------------------------------
(* The kernel interrupts a thread. The signal is blocked while its handler *)
(* runs, and SA_RESTART lets the thread go back to its sleep.              *)
Deliver(t) ==
  /\ t \in pending /\ hpc[t] = "none" /\ handler = "ours"
  /\ pending' = pending \ {t}
  /\ hpc' = [hpc EXCEPT ![t] = "load"]
  /\ UNCHANGED <<pc, callVars, mutex, current, params, res, handler, old_act, seen, left, slot, exited>>

(* Faulty: the event is set before the stack has been walked.              *)
HandlerSignalsFirst(t) ==
  /\ hpc[t] = "load" /\ current # 0
  /\ seen' = [seen EXCEPT ![t] = current]
  /\ left' = [left EXCEPT ![t] = Depth[t]]
  /\ params' = [params EXCEPT ![current].futex = 1]
  /\ hpc' = [hpc EXCEPT ![t] = "unwind"]
  /\ UNCHANGED <<pc, callVars, mutex, current, res, signalVars, slot, exited>>

(* SignalHandler reads the pointer, which is not reset after a call; it is *)
(* never null, the first call having stored one before it sent a signal.   *)
HandlerLoads(t) ==
  /\ hpc[t] = "load" /\ current # 0
  /\ seen' = [seen EXCEPT ![t] = current]
  /\ left' = [left EXCEPT ![t] = Depth[t]]
  /\ hpc' = [hpc EXCEPT ![t] = "unwind"]
  /\ UNCHANGED <<pc, callVars, mutex, current, params, res, signalVars, slot, exited>>

Full(c) == params[c].count >= kMaxStackSize

(* UnwindBacktrace is called for each frame, from the innermost outwards,  *)
(* and ends the walk when the array is full. The counter is no atomic, and *)
(* nothing keeps two handlers that were led to the same params apart: it   *)
(* may change between the check, the store and the increment.              *)
UnwindBacktrace(t) ==
  /\ hpc[t] = "unwind" /\ left[t] > 0 /\ ~Full(seen[t])
  /\ hpc' = [hpc EXCEPT ![t] = "write"]
  /\ UNCHANGED <<pc, callVars, mutex, current, params, res, signalVars, seen, left, slot, exited>>

(* addresses[n] = frame, which may be the first store there.               *)
Put(addresses, n, frame) ==
  [i \in DOMAIN addresses \cup {n} |-> IF i = n THEN frame ELSE addresses[i]]

(* The store, for which the counter is read again. An entry beyond the     *)
(* array is recorded like any other; what it overwrites is not modelled.   *)
UnwindWrites(t) ==
  /\ hpc[t] = "write"
  /\ slot' = [slot EXCEPT ![t] = params[seen[t]].count + 1]
  /\ params' = [params EXCEPT ![seen[t]].addresses =
                                Put(@, slot'[t], <<t, Depth[t] - left[t] + 1>>)]
  /\ hpc' = [hpc EXCEPT ![t] = "incr"]
  /\ UNCHANGED <<pc, callVars, mutex, current, res, signalVars, seen, left, exited>>

(* The increment, of the counter as it is or as it was read for the store. *)
UnwindCounts(t) ==
  /\ hpc[t] = "incr"
  /\ \E n \in {slot[t], params[seen[t]].count + 1} :
       params' = [params EXCEPT ![seen[t]].count = n]
  /\ slot' = [slot EXCEPT ![t] = 0]
  /\ left' = [left EXCEPT ![t] = @ - 1]
  /\ hpc' = [hpc EXCEPT ![t] = "unwind"]
  /\ UNCHANGED <<pc, callVars, mutex, current, res, signalVars, seen, exited>>

UnwindEnds(t) ==
  /\ hpc[t] = "unwind" /\ (left[t] = 0 \/ Full(seen[t]))
  /\ left' = [left EXCEPT ![t] = 0]
  /\ hpc' = [hpc EXCEPT ![t] = "store"]
  /\ UNCHANGED <<pc, callVars, mutex, current, params, res, signalVars, seen, slot, exited>>

(* AsyncSafeWaitableEvent::Signal in its two steps. From the first one on  *)
(* the caller may return, and the second may find its frame gone.          *)
SignalStores(t) ==
  /\ hpc[t] = "store"
  /\ params' = [params EXCEPT ![seen[t]].futex = 1]
  /\ hpc' = [hpc EXCEPT ![t] = "wake"]
  /\ UNCHANGED <<pc, callVars, mutex, current, res, signalVars, seen, left, slot, exited>>

(* Faulty: FUTEX_WAKE is given a count of 0.                               *)
SignalWakesNobody(t) ==
  /\ hpc[t] = "wake"
  /\ hpc' = [hpc EXCEPT ![t] = "none"]
  /\ seen' = [seen EXCEPT ![t] = 0]
  /\ UNCHANGED <<pc, callVars, mutex, current, params, res, signalVars, left, slot, exited>>

(* FUTEX_WAKE goes by the address: the params of successive calls of one   *)
(* thread may be at the same place, so that it may wake a later call.      *)
SignalWakes(t) ==
  /\ hpc[t] = "wake"
  /\ LET caller == args[seen[t]].by IN
     IF pc[caller] = "asleep"
       THEN \/ Goto(caller, "check")
            \/ call[caller] # seen[t] /\ UNCHANGED pc
       ELSE UNCHANGED pc
  /\ hpc' = [hpc EXCEPT ![t] = "none"]
  /\ seen' = [seen EXCEPT ![t] = 0]
  /\ UNCHANGED <<callVars, mutex, current, params, res, signalVars, left, slot, exited>>

(* A thread ends; a signal that is pending for it is gone with it.         *)
Exit(t) ==
  /\ At(t, "idle") /\ t \notin exited
  /\ exited' = exited \cup {t}
  /\ pending' = pending \ {t}
  /\ UNCHANGED <<pc, callVars, mutex, current, params, res, handler, old_act, handlerVars>>

-----------------------------------------------------------------------------
RequestStep(t) ==
  \/ Lock(t) \/ StoreOutputState(t) \/ Install(t) \/ Kill(t) \/ KillFails(t)
  \/ FutexWait(t) \/ WaitChecks(t) \/ WaitFails(t) \/ Restore(t) \/ Return(t)

HandlerStep(t) ==
  \/ Deliver(t) \/ HandlerLoads(t)
  \/ UnwindBacktrace(t) \/ UnwindWrites(t) \/ UnwindCounts(t) \/ UnwindEnds(t)
  \/ SignalStores(t) \/ SignalWakes(t)

Next ==
  \E t \in Threads :
    \/ RequestStep(t) \/ HandlerStep(t)
    \/ InstallFails(t) \/ FutexWaitInterrupted(t) \/ Exit(t)
    \/ GetOwnStackTrace(t)
    \/ \E tid \in Threads : GetStackTrace(t, tid)

Spec == Init /\ [][Next]_vars

(* Threads and the handlers that interrupt them run.                       *)
FairSpec ==
  Spec /\ \A t \in Threads : WF_vars(RequestStep(t)) /\ WF_vars(HandlerStep(t))

-----------------------------------------------------------------------------
(* Every variable holds a value of its kind.                               *)
TypeOK ==
  /\ pc \in [Threads -> {"idle", "lock", "store", "install", "kill", "wait", "asleep",
                         "check", "restore", "return"}]
  /\ hpc \in [Threads -> {"none", "load", "unwind", "write", "incr", "store", "wake"}]
  /\ calls \in 0 .. MaxCalls /\ call \in [Threads -> 0 .. MaxCalls]
  /\ args \in [Calls -> [by : Threads, tid : Threads] \cup {NoArgs}]
  /\ status \in [Calls -> {"none", "failed", "interrupted", "done"}]
  /\ result \in [Calls -> Seq(Frames \cup {Unset})]
  /\ mutex \in Threads \cup {None} /\ current \in 0 .. MaxCalls
  /\ \A c \in Calls : /\ params[c].futex \in {0, 1} /\ params[c].count \in Nat
                       /\ \A i \in DOMAIN params[c].addresses :
                            i \in Nat \ {0} /\ params[c].addresses[i] \in Frames
  /\ res \in [Threads -> BOOLEAN]
  /\ handler \in {"old", "ours"} /\ old_act \in [Threads -> {"old", "ours"}]
  /\ pending \subseteq Threads /\ exited \subseteq Threads
  /\ seen \in [Threads -> 0 .. MaxCalls]
  /\ left \in [Threads -> Nat] /\ slot \in [Threads -> Nat]

Ended(outcome) == {c \in Calls : status[c] = outcome}

(* A call that succeeds returns the innermost frames of the thread it was  *)
(* asked about, all of them and no others, whoever else captures or is     *)
(* captured, whichever calls failed to interrupt their thread, and however *)
(* late the handler of an earlier call wakes it. Once a wait was           *)
(* interrupted this may fail: its signal is still on the way and finds the *)
(* params of a later call.                                                 *)
TraceIsOfTarget ==
  Ended("interrupted") = {} =>
    \A c \in Ended("done") : result[c] = FormatStackTrace(Stack(args[c].tid))

(* The handler only writes into the frame of a call that has not returned, *)
(* although current_output_state_ is never reset, and never beyond the     *)
(* array there ("Avoid overflowing the stack trace array"). Interrupted    *)
(* waits are excepted from both: their call has returned when the handler  *)
(* comes, or two handlers fill the params of a later call, and each may    *)
(* find room for the last entry before either has counted it.              *)
NoStrayWrites ==
  Ended("interrupted") = {} =>
    /\ \A c \in Calls : DOMAIN params[c].addresses \subseteq 1 .. kMaxStackSize
    /\ \A t \in Threads :
         hpc[t] \in {"unwind", "write", "incr", "store"} => status[seen[t]] = "none"

(* "Temporarily change the signal handler": once no call is in progress    *)
(* the signal has its old action again, as long as every call succeeded.   *)
HandlerIsTemporary ==
  Ended("interrupted") \cup Ended("failed") = {} /\ mutex = None => handler = "old"

(* The thread that holds the lock waits for one that has ended unsignalled.*)
Unanswered ==
  \E t \in Threads :
    /\ pc[t] \in {"wait", "asleep", "check"} /\ params[call[t]].futex = 0
    /\ args[call[t]].tid \in exited

(* GetStackTrace returns, whoever captures whom, unless a thread ends      *)
(* before it has answered its signal: then that call sleeps for ever, and  *)
(* all others behind it.                                                   *)
CallReturns ==
  \A t \in Threads : pc[t] # "idle" ~> pc[t] = "idle" \/ Unanswered

=============================================================================
