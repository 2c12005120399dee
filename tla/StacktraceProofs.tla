-------------------------- MODULE StacktraceProofs --------------------------
(***************************************************************************)
(* Proofs, for any number of threads, calls, frames and any size of the    *)
(* array, that GetStackTrace returns the stack of the thread it was asked  *)
(* about, that the signal handler writes into the params of a call in      *)
(* progress only, and that the handler is installed temporarily.           *)
(***************************************************************************)
EXTENDS Stacktrace, TLAPS

Waiting == {"wait", "asleep", "check"}
Holding == {"store", "install", "kill", "restore", "return"} \cup Waiting

(* The places inside UnwindBacktrace.                                      *)
Walking == {"unwind", "write", "incr"}

Addresses == UNION {[S -> Frames] : S \in SUBSET Nat}
Params == [futex : {0, 1}, count : Nat, addresses : Addresses]
Args == [by : Threads, tid : Threads]

(* The types that the argument needs.                                      *)
Shape ==
  /\ pc \in [Threads -> {"idle", "lock"} \cup Holding]
  /\ hpc \in [Threads -> {"none", "load", "store", "wake"} \cup Walking]
  /\ calls \in 0 .. MaxCalls /\ call \in [Threads -> 0 .. MaxCalls]
  /\ args \in [Calls -> Args \cup {NoArgs}]
  /\ status \in [Calls -> {"none", "failed", "interrupted", "done"}]
  /\ DOMAIN result = Calls
  /\ mutex \in Threads \cup {None} /\ current \in 0 .. MaxCalls
  /\ params \in [Calls -> Params]
  /\ handler \in {"old", "ours"} /\ old_act \in [Threads -> {"old", "ours"}]
  /\ pending \subseteq Threads
  /\ seen \in [Threads -> 0 .. MaxCalls]
  /\ left \in [Threads -> Nat] /\ slot \in [Threads -> Nat]

(* The thread that holds mutex_ is the one in CaptureRawStacktrace; each   *)
(* thread is in a call of its own, which has not returned.                 *)
CallInv ==
  \A t \in Threads :
    /\ mutex = t <=> pc[t] \in Holding
    /\ pc[t] = "idle" => call[t] = 0
    /\ pc[t] # "idle" => /\ call[t] \in 1 .. calls
                         /\ args[call[t]].by = t /\ status[call[t]] = "none"

NoneInterrupted == Ended("interrupted") = {}

(* No array overflows, as long as no wait was interrupted.                 *)
Bounded ==
  NoneInterrupted => \A c \in Calls : DOMAIN params[c].addresses \subseteq 1 .. kMaxStackSize

(* Calls that have not been made are untouched, and what the handlers hold *)
(* are calls that have been made.                                          *)
MadeInv ==
  /\ \A c \in 1 .. calls : args[c] \in Args
  /\ \A c \in Calls : c > calls => status[c] = "none" /\ params[c] = Blank
  /\ current <= calls
  /\ \A t \in Threads : hpc[t] \in Walking \cup {"store", "wake"} => seen[t] \in 1 .. calls
  /\ \A t \in Threads : hpc[t] \in Walking => left[t] <= Depth[t]
  /\ \A t \in Threads : hpc[t] \in {"write", "incr"} => left[t] > 0
  /\ Bounded

(* A signal is pending for the thread, or its handler is at work.          *)
Interrupted(v) == v \in pending \/ hpc[v] \in Walking \cup {"load", "store"}

(* The frames v has recorded in p when its handler is at a place in        *)
(* UnwindBacktrace, with l frames left: between the store and the          *)
(* increment, one more than the counter tells.                             *)
Filled(v, n) == [i \in 1 .. n |-> <<v, i>>]

Walked(v, place, l, s, p) ==
  /\ p.count = Depth[v] - l /\ p.count <= kMaxStackSize
  /\ place # "unwind" => p.count < kMaxStackSize
  /\ place = "incr" => s = p.count + 1 /\ p.addresses = Filled(v, p.count + 1)
  /\ place # "incr" => p.addresses = Filled(v, p.count)

(* It has recorded them all, or as many as there is room for.              *)
Complete(v, p) == p.count = StackSize(v) /\ p.addresses = Stack(v)

(* It is so for the call that waits under the lock, to which the handler   *)
(* has been, or will be, led by current_output_state_.                     *)
Serves(v, t) ==
  /\ mutex = t /\ pc[t] \in Waiting /\ args[call[t]].tid = v
  /\ current = call[t] /\ params[call[t]].futex = 0
  /\ v \in pending => hpc[v] \in {"none", "wake"}
  /\ v \in pending \/ hpc[v] = "load" => params[call[t]] = Blank
  /\ hpc[v] \in Walking \cup {"store"} => seen[v] = call[t]
  /\ hpc[v] \in Walking => Walked(v, hpc[v], left[v], slot[v], params[call[t]])
  /\ hpc[v] = "store" => Complete(v, params[call[t]])

SignalInv ==
  NoneInterrupted => \A v \in Threads : Interrupted(v) => \E t \in Threads : Serves(v, t)

(* What a call's params hold, from its beginning to its end.               *)
ParamsInv ==
  NoneInterrupted =>
    \A t \in Threads :
      /\ pc[t] \in {"lock", "store", "install", "kill"} => params[call[t]] = Blank
      /\ pc[t] \in {"install", "kill"} \cup Waiting => current = call[t]
      /\ \/ pc[t] \in {"restore", "return"}
         \/ pc[t] \in Waiting /\ params[call[t]].futex # 0
         => Complete(args[call[t]].tid, params[call[t]])

(* The handler is installed only inside a call, which has kept the old one.*)
Installed == {"kill", "restore"} \cup Waiting

HandlerInv ==
  Ended("interrupted") \cup Ended("failed") = {} =>
    /\ handler = "ours" => \E t \in Threads : mutex = t /\ pc[t] \in Installed
    /\ \A t \in Threads : pc[t] \in Installed => old_act[t] = "old"

TraceInv ==
  /\ Shape /\ CallInv /\ MadeInv
  /\ SignalInv /\ ParamsInv /\ TraceIsOfTarget /\ HandlerInv

-----------------------------------------------------------------------------
(* The array before and after a store.                                     *)
LEMMA EmptyAddresses == <<>> \in Addresses /\ DOMAIN <<>> = {} /\ \A v : <<>> = Filled(v, 0)
<1>1. DOMAIN <<>> = {} /\ \A v : <<>> = Filled(v, 0)
  BY DEF Filled
<1>2. <<>> \in [{} -> Frames]
  OBVIOUS
<1> QED
  BY <1>1, <1>2 DEF Addresses

LEMMA PutAddresses ==
  ASSUME NEW f \in Addresses, NEW n \in Nat, NEW frame \in Frames
  PROVE  Put(f, n, frame) \in Addresses
<1>1. PICK S \in SUBSET Nat : f \in [S -> Frames]
  BY DEF Addresses
<1>2. Put(f, n, frame) \in [S \cup {n} -> Frames] /\ S \cup {n} \in SUBSET Nat
  BY <1>1 DEF Put
<1> QED
  BY <1>2 DEF Addresses

LEMMA PutFilled ==
  ASSUME NEW v, NEW n \in Nat
  PROVE  Put(Filled(v, n), n + 1, <<v, n + 1>>) = Filled(v, n + 1)
<1>1. DOMAIN Filled(v, n) \cup {n + 1} = 1 .. n + 1
  BY DEF Filled
<1> QED
  BY <1>1 DEF Put, Filled

(* What GetStackTrace formats, and where it is.                            *)
LEMMA CompleteCounted ==
  ASSUME NEW v \in Threads, NEW p, Complete(v, p)
  PROVE  Counted(p) = Stack(v) /\ DOMAIN p.addresses \subseteq 1 .. kMaxStackSize
<1>1. StackSize(v) \in Nat /\ StackSize(v) <= kMaxStackSize
  BY StacktraceAssumption DEF StackSize
<1>2. DOMAIN p.addresses = 1 .. StackSize(v)
  BY DEF Complete, Stack
<1>3. Counted(p) = Stack(v)
  <2>1. Counted(p) = [i \in 1 .. StackSize(v) |->
                        IF i \in DOMAIN p.addresses THEN p.addresses[i] ELSE Unset]
    BY DEF Complete, Counted
  <2>2. \A i \in 1 .. StackSize(v) : p.addresses[i] = <<v, i>>
    BY DEF Complete, Stack
  <2> QED
    BY <1>2, <2>1, <2>2 DEF Stack
<1> QED
  BY <1>1, <1>2, <1>3, StacktraceAssumption

LEMMA TraceInit == Init => TraceInv
<1> SUFFICES ASSUME Init PROVE TraceInv
  OBVIOUS
<1>1. Blank \in Params /\ DOMAIN Blank.addresses = {}
  BY EmptyAddresses DEF Blank, Params
<1>2. Shape
  BY <1>1, StacktraceAssumption DEF Init, Shape, NoArgs, Calls
<1>3. CallInv
  BY StacktraceAssumption DEF Init, CallInv, Holding, Waiting
<1>6. MadeInv
  BY <1>1, StacktraceAssumption DEF Init, MadeInv, Bounded, Calls, Walking
<1>4. SignalInv /\ ParamsInv /\ HandlerInv
  BY DEF Init, SignalInv, Interrupted, Walking, ParamsInv, Waiting, HandlerInv
<1>5. TraceIsOfTarget
  BY DEF Init, TraceIsOfTarget, Ended
<1> QED
  BY <1>2, <1>3, <1>4, <1>5, <1>6 DEF TraceInv

(* A call's outcome stays: an interrupted or failed call remains one.      *)
Remain(outcome) == \A c \in Calls : status[c] = outcome => status'[c] = outcome

LEMMA EndedRemain ==
  ASSUME Remain("interrupted"), Remain("failed")
  PROVE  /\ NoneInterrupted' => NoneInterrupted
         /\ (Ended("interrupted") \cup Ended("failed") = {})'
              => Ended("interrupted") \cup Ended("failed") = {}
BY DEF Remain, NoneInterrupted, Ended

(* Two threads are in different calls.                                     *)
LEMMA CallsDiffer ==
  ASSUME CallInv, NEW t \in Threads, NEW u \in Threads, t # u, pc[t] # "idle"
  PROVE  call[t] # call[u]
BY DEF CallInv

(* A step that changes neither the calls nor where the threads are in them,*)
(* but for moves of threads that hold the lock between its statements.     *)
SameCalls == UNCHANGED <<call, calls, args, status, result, mutex>>

Moves(u, place) == /\ pc[u] \in Holding /\ place \in Holding
                   /\ pc' = [pc EXCEPT ![u] = place]

LEMMA MovesKeepCalls ==
  ASSUME Shape, CallInv, SameCalls,
         pc' = pc \/ \E u \in Threads, place \in Holding : Moves(u, place)
  PROVE  /\ CallInv' /\ (TraceIsOfTarget => TraceIsOfTarget')
         /\ pc' \in [Threads -> {"idle", "lock"} \cup Holding]
         /\ NoneInterrupted' = NoneInterrupted
<1>1. pc' \in [Threads -> {"idle", "lock"} \cup Holding]
  BY DEF Shape, Moves
<1>2. \A t \in Threads : /\ pc'[t] \in Holding <=> pc[t] \in Holding
                         /\ pc'[t] = "idle" <=> pc[t] = "idle"
  BY DEF Shape, Moves, Holding, Waiting
<1>3. CallInv'
  BY <1>2 DEF SameCalls, CallInv
<1>4. TraceIsOfTarget => TraceIsOfTarget'
  BY DEF SameCalls, TraceIsOfTarget, Ended
<1> QED
  BY <1>1, <1>3, <1>4 DEF SameCalls, NoneInterrupted, Ended

(* Nothing is on the way to a handler, and none records, while no call     *)
(* waits with its event unset.                                             *)
LEMMA Quiet ==
  ASSUME CallInv, SignalInv, NoneInterrupted,
         \A u \in Threads : pc[u] \in Waiting => params[call[u]].futex # 0
  PROVE  \A v \in Threads : ~Interrupted(v)
BY DEF SignalInv, Serves

(* The signals' part of the invariant where no interruption begins.        *)
LEMMA QuietKeeps ==
  ASSUME CallInv, SignalInv, NoneInterrupted' => NoneInterrupted,
         \A u \in Threads : pc[u] \in Waiting => params[call[u]].futex # 0,
         pending' \subseteq pending, hpc' = hpc
  PROVE  SignalInv'
<1> SUFFICES ASSUME NoneInterrupted', NEW v \in Threads, Interrupted(v)' PROVE FALSE
  BY DEF SignalInv
<1>1. ~Interrupted(v)
  BY Quiet
<1> QED
  BY <1>1 DEF Interrupted

-----------------------------------------------------------------------------
LEMMA OwnTraceStep ==
  ASSUME TraceInv, NEW t \in Threads, GetOwnStackTrace(t)
  PROVE  TraceInv'
<1> DEFINE n == calls + 1
<1>0. n \in Calls /\ calls' = n /\ calls \in Nat
  BY StacktraceAssumption DEF TraceInv, Shape, GetOwnStackTrace, MayCall, Calls
<1>1. /\ Shape /\ CallInv /\ MadeInv /\ SignalInv /\ ParamsInv /\ TraceIsOfTarget /\ HandlerInv
      /\ n \in Calls /\ calls' = n /\ calls \in Nat
      /\ args' = [args EXCEPT ![n] = [by |-> t, tid |-> t]]
      /\ result' = [result EXCEPT ![n] = FormatStackTrace(Stack(t))]
      /\ status' = [status EXCEPT ![n] = "done"]
      /\ UNCHANGED <<pc, call, mutex, current, params, handler, old_act, pending, hpc, seen, left, slot>>
  BY <1>0 DEF TraceInv, GetOwnStackTrace, signalVars, handlerVars
<1>2. /\ args'[n] = [by |-> t, tid |-> t] /\ result'[n] = FormatStackTrace(Stack(t))
      /\ status'[n] = "done" /\ status[n] = "none"
      /\ \A c \in Calls : c # n => args'[c] = args[c] /\ result'[c] = result[c]
                                   /\ status'[c] = status[c]
      /\ \A u \in Threads : pc[u] # "idle" => call[u] \in Calls /\ call[u] # n
  BY <1>1 DEF Shape, CallInv, MadeInv, Calls
<1>3. Remain("interrupted") /\ Remain("failed")
  BY <1>1, <1>2 DEF Remain
<1>4. Shape'
  <2>1. args' \in [Calls -> Args \cup {NoArgs}]
    BY <1>1 DEF Shape, Args
  <2>2. calls' \in 0 .. MaxCalls
    BY <1>1, StacktraceAssumption DEF Calls
  <2>3. status' \in [Calls -> {"none", "failed", "interrupted", "done"}] /\ DOMAIN result' = Calls
    BY <1>1 DEF Shape
  <2> QED
    BY <1>1, <2>1, <2>2, <2>3 DEF Shape
<1>5. CallInv'
  BY <1>1, <1>2 DEF CallInv, Calls
<1>6. MadeInv'
  <2>1. Bounded'
    BY <1>1, <1>3, EndedRemain DEF MadeInv, Bounded
  <2>2. /\ \A w \in Threads : hpc[w] \in Walking \cup {"store", "wake"} => seen[w] \in 1 .. n
        /\ current <= n
    BY <1>1 DEF MadeInv, Shape
  <2>3. /\ \A c \in 1 .. n : args'[c] \in Args
        /\ \A c \in Calls : c > n => status'[c] = "none" /\ params'[c] = Blank
    BY <1>1, <1>2 DEF MadeInv, Args, Calls, Shape
  <2> QED
    BY <1>1, <2>1, <2>2, <2>3 DEF MadeInv
<1>7. SignalInv'
  <2>1. \A v, u \in Threads : Serves(v, u) => Serves(v, u)'
    BY <1>1, <1>2 DEF Serves, Waiting
  <2>2. \A v \in Threads : Interrupted(v)' => Interrupted(v)
    BY <1>1 DEF Interrupted
  <2>3. NoneInterrupted' => NoneInterrupted
    BY <1>3, EndedRemain
  <2> QED
    BY <1>1, <2>1, <2>2, <2>3 DEF SignalInv
<1>8. ParamsInv'
  BY <1>1, <1>2, <1>3, EndedRemain DEF ParamsInv, Waiting
<1>9. TraceIsOfTarget'
  <2> SUFFICES ASSUME NoneInterrupted', NEW c \in Calls, status'[c] = "done"
               PROVE  result'[c] = FormatStackTrace(Stack(args'[c].tid))
    BY DEF TraceIsOfTarget, NoneInterrupted, Ended
  <2>1. CASE c = n
    BY <1>2, <2>1
  <2>2. CASE c # n
    BY <1>1, <1>2, <1>3, <2>2, EndedRemain DEF TraceIsOfTarget, NoneInterrupted, Ended
  <2> QED
    BY <2>1, <2>2
<1>10. HandlerInv'
  BY <1>1, <1>3, EndedRemain DEF HandlerInv
<1> QED
  BY <1>4, <1>5, <1>6, <1>7, <1>8, <1>9, <1>10 DEF TraceInv

LEMMA GetTraceStep ==
  ASSUME TraceInv, NEW t \in Threads, NEW tid \in Threads, GetStackTrace(t, tid)
  PROVE  TraceInv'
<1> DEFINE n == calls + 1
<1>0. n \in Calls /\ calls' = n /\ calls \in Nat
  BY StacktraceAssumption DEF TraceInv, Shape, GetStackTrace, MayCall, Calls
<1>1. /\ Shape /\ CallInv /\ MadeInv /\ SignalInv /\ ParamsInv /\ TraceIsOfTarget /\ HandlerInv
      /\ n \in Calls /\ calls' = n /\ calls \in Nat /\ pc[t] = "idle"
      /\ args' = [args EXCEPT ![n] = [by |-> t, tid |-> tid]]
      /\ call' = [call EXCEPT ![t] = n] /\ pc' = [pc EXCEPT ![t] = "lock"]
      /\ UNCHANGED <<status, result, mutex, current, params, handler, old_act, pending, hpc,
                     seen, left, slot>>
  BY <1>0 DEF TraceInv, GetStackTrace, MayCall, At, Goto, signalVars, handlerVars
<1>2. /\ args'[n] = [by |-> t, tid |-> tid] /\ status[n] = "none" /\ params[n] = Blank
      /\ \A c \in Calls : c # n => args'[c] = args[c]
      /\ pc'[t] = "lock" /\ call'[t] = n
      /\ \A u \in Threads : u # t => pc'[u] = pc[u] /\ call'[u] = call[u]
      /\ \A u \in Threads : pc[u] # "idle" => u # t /\ call[u] \in Calls /\ call[u] # n
  BY <1>1 DEF Shape, CallInv, MadeInv, Calls
<1>3. Remain("interrupted") /\ Remain("failed")
  BY <1>1, <1>2 DEF Remain
<1>4. Shape'
  <2>1. args' \in [Calls -> Args \cup {NoArgs}]
    BY <1>1 DEF Shape, Args
  <2>2. calls' \in 0 .. MaxCalls
    BY <1>1, StacktraceAssumption DEF Calls
  <2>3. /\ pc' \in [Threads -> {"idle", "lock"} \cup Holding]
        /\ call' \in [Threads -> 0 .. MaxCalls]
    BY <1>1, <2>2 DEF Shape
  <2> QED
    BY <1>1, <2>1, <2>2, <2>3 DEF Shape
<1>5. CallInv'
  BY <1>1, <1>2 DEF CallInv, Calls, Holding, Waiting
<1>6. MadeInv'
  <2>1. Bounded'
    BY <1>1, <1>3, EndedRemain DEF MadeInv, Bounded
  <2>2. /\ \A w \in Threads : hpc[w] \in Walking \cup {"store", "wake"} => seen[w] \in 1 .. n
        /\ current <= n
    BY <1>1 DEF MadeInv, Shape
  <2>3. /\ \A c \in 1 .. n : args'[c] \in Args
        /\ \A c \in Calls : c > n => status'[c] = "none" /\ params'[c] = Blank
    <3>1. \A c \in Calls : c > n => c > calls
      BY <1>1 DEF Calls
    <3>2. ASSUME NEW c \in 1 .. n PROVE args'[c] \in Args
      <4>1. c \in Calls /\ (c = n \/ c \in 1 .. calls)
        BY <1>0, StacktraceAssumption DEF Calls
      <4> QED
        BY <1>1, <1>2, <4>1 DEF MadeInv, Args
    <3> QED
      BY <1>1, <3>1, <3>2 DEF MadeInv
  <2> QED
    BY <1>1, <2>1, <2>2, <2>3 DEF MadeInv
<1>7. SignalInv'
  <2>1. \A v, u \in Threads : Serves(v, u) => Serves(v, u)'
    BY <1>1, <1>2 DEF Serves, Waiting
  <2>2. \A v \in Threads : Interrupted(v)' => Interrupted(v)
    BY <1>1 DEF Interrupted
  <2>3. NoneInterrupted' => NoneInterrupted
    BY <1>3, EndedRemain
  <2> QED
    BY <1>1, <2>1, <2>2, <2>3 DEF SignalInv
<1>8. ParamsInv'
  BY <1>1, <1>2, <1>3, EndedRemain DEF ParamsInv, Waiting
<1>9. TraceIsOfTarget'
  BY <1>1, <1>2 DEF TraceIsOfTarget, Ended
<1>10. HandlerInv'
  BY <1>1, <1>2, <1>3, EndedRemain DEF HandlerInv, Installed, Waiting
<1> QED
  BY <1>4, <1>5, <1>6, <1>7, <1>8, <1>9, <1>10 DEF TraceInv

(* A call returns: with the trace from the end of CaptureRawStacktrace, or *)
(* with an error from a place where no signal is under way, or where the   *)
(* wait was interrupted.                                                   *)
LEMMA FinishStep ==
  ASSUME TraceInv, NEW t \in Threads, NEW outcome \in {"failed", "interrupted", "done"},
         NEW trace, Finish(t, outcome, trace),
         UNCHANGED <<current, params, signalVars, handlerVars>>,
         pc[t] \in Holding, outcome = "interrupted" \/ pc[t] \notin Waiting,
         outcome = "done" => pc[t] = "return",
         outcome = "done" /\ NoneInterrupted => trace = FormatStackTrace(Stack(args[call[t]].tid))
  PROVE  TraceInv'
<1> DEFINE c0 == call[t]
<1>1. /\ Shape /\ CallInv /\ MadeInv /\ SignalInv /\ ParamsInv /\ TraceIsOfTarget /\ HandlerInv
      /\ mutex' = None
      /\ status' = [status EXCEPT ![c0] = outcome] /\ result' = [result EXCEPT ![c0] = trace]
      /\ call' = [call EXCEPT ![t] = 0] /\ pc' = [pc EXCEPT ![t] = "idle"]
      /\ UNCHANGED <<calls, args, current, params, handler, old_act, pending, hpc, seen, left, slot>>
  BY DEF TraceInv, Finish, Goto, signalVars, handlerVars
<1>2. /\ pc[t] # "idle" /\ mutex = t /\ c0 \in Calls /\ c0 \in 1 .. calls /\ status[c0] = "none"
      /\ \A u \in Threads : u # t => pc[u] \notin Holding
      /\ \A u \in Threads : u # t /\ pc[u] # "idle" => call[u] \in Calls /\ call[u] # c0
  <2>1. pc[t] # "idle"
    BY DEF Holding, Waiting
  <2> QED
    BY <1>1, <2>1, CallsDiffer DEF CallInv, Calls, Shape
<1>3. /\ pc'[t] = "idle" /\ call'[t] = 0 /\ status'[c0] = outcome /\ result'[c0] = trace
      /\ \A u \in Threads : u # t => pc'[u] = pc[u] /\ call'[u] = call[u]
      /\ \A c \in Calls : c # c0 => status'[c] = status[c] /\ result'[c] = result[c]
  BY <1>1, <1>2 DEF Shape
<1>4. Remain("interrupted") /\ Remain("failed")
  BY <1>2, <1>3 DEF Remain
<1>5. Shape'
  <2>1. /\ pc' \in [Threads -> {"idle", "lock"} \cup Holding]
        /\ call' \in [Threads -> 0 .. MaxCalls]
    BY <1>1, StacktraceAssumption DEF Shape
  <2>2. status' \in [Calls -> {"none", "failed", "interrupted", "done"}] /\ DOMAIN result' = Calls
    BY <1>1 DEF Shape
  <2> QED
    BY <1>1, <2>1, <2>2 DEF Shape
<1>6. CallInv'
  <2> SUFFICES ASSUME NEW u \in Threads
               PROVE  /\ mutex' = u <=> pc'[u] \in Holding
                      /\ pc'[u] = "idle" => call'[u] = 0
                      /\ pc'[u] # "idle" => /\ call'[u] \in 1 .. calls'
                                            /\ args'[call'[u]].by = u /\ status'[call'[u]] = "none"
    BY DEF CallInv
  <2>1. CASE u = t
    BY <1>1, <1>3, <2>1, StacktraceAssumption DEF Holding, Waiting
  <2>2. CASE u # t
    BY <1>1, <1>2, <1>3, <2>2, StacktraceAssumption DEF CallInv
  <2> QED
    BY <2>1, <2>2
<1>7. MadeInv'
  BY <1>1, <1>2, <1>3, <1>4, EndedRemain DEF MadeInv, Bounded, Calls, Shape
<1>8. CASE outcome = "interrupted"
  <2>1. ~NoneInterrupted' /\ (Ended("interrupted") \cup Ended("failed"))' # {}
    BY <1>2, <1>3, <1>8 DEF NoneInterrupted, Ended
  <2> QED
    BY <1>5, <1>6, <1>7, <2>1
       DEF TraceInv, SignalInv, ParamsInv, TraceIsOfTarget, HandlerInv, NoneInterrupted
<1>9. CASE outcome # "interrupted"
  <2>1. NoneInterrupted' => NoneInterrupted
    BY <1>4, EndedRemain
  <2>2. \A u \in Threads : pc[u] \notin Waiting
    BY <1>2, <1>9 DEF Holding
  <2>3. SignalInv'
    BY <1>1, <2>1, <2>2, QuietKeeps
  <2>4. ParamsInv'
    BY <1>1, <1>3, <2>1 DEF ParamsInv, Waiting
  <2>5. TraceIsOfTarget'
    <3> SUFFICES ASSUME NoneInterrupted', NEW c \in Calls, status'[c] = "done"
                 PROVE  result'[c] = FormatStackTrace(Stack(args'[c].tid))
      BY DEF TraceIsOfTarget, NoneInterrupted, Ended
    <3>1. CASE c = c0
      BY <1>1, <1>3, <2>1, <3>1
    <3>2. CASE c # c0
      BY <1>1, <1>3, <2>1, <3>2 DEF TraceIsOfTarget, NoneInterrupted, Ended
    <3> QED
      BY <3>1, <3>2
  <2>6. HandlerInv'
    <3>1. CASE outcome = "failed"
      <4>1. (Ended("interrupted") \cup Ended("failed"))' # {}
        BY <1>2, <1>3, <3>1 DEF Ended
      <4> QED
        BY <4>1 DEF HandlerInv
    <3>2. CASE outcome = "done"
      BY <1>1, <1>2, <1>4, <3>2, EndedRemain DEF HandlerInv, Installed, Waiting
    <3> QED
      BY <1>9, <3>1, <3>2
  <2> QED
    BY <1>5, <1>6, <1>7, <2>3, <2>4, <2>5, <2>6 DEF TraceInv
<1> QED
  BY <1>8, <1>9

(* Lock, and the statements up to tgkill.                                  *)
LEMMA LockStep ==
  ASSUME TraceInv, NEW t \in Threads, Lock(t)
  PROVE  TraceInv'
<1>1. /\ Shape /\ CallInv /\ MadeInv /\ SignalInv /\ ParamsInv /\ TraceIsOfTarget /\ HandlerInv
      /\ pc[t] = "lock" /\ mutex = None /\ mutex' = t /\ pc' = [pc EXCEPT ![t] = "store"]
      /\ UNCHANGED <<call, calls, args, status, result, current, params, handler, old_act,
                     pending, hpc, seen, left, slot>>
  BY DEF TraceInv, Lock, At, Goto, callVars, signalVars, handlerVars
<1>2. /\ pc'[t] = "store" /\ \A u \in Threads : u # t => pc'[u] = pc[u]
      /\ \A u \in Threads : pc[u] \notin Holding
  BY <1>1, StacktraceAssumption DEF Shape, CallInv
<1>3. Shape'
  BY <1>1 DEF Shape, Holding
<1>4. CallInv'
  BY <1>1, <1>2 DEF CallInv, Holding
<1>5. MadeInv' /\ NoneInterrupted' = NoneInterrupted /\ TraceIsOfTarget'
  BY <1>1 DEF MadeInv, Bounded, NoneInterrupted, Ended, TraceIsOfTarget
<1>6. \A u \in Threads : pc[u] \notin Waiting
  BY <1>2 DEF Holding
<1>7. SignalInv'
  BY <1>1, <1>5, <1>6, QuietKeeps
<1>8. ParamsInv'
  BY <1>1, <1>2, <1>5 DEF ParamsInv, Waiting
<1>9. HandlerInv'
  BY <1>1, <1>2, StacktraceAssumption DEF HandlerInv, Ended, Installed, Waiting
<1> QED
  BY <1>3, <1>4, <1>5, <1>7, <1>8, <1>9 DEF TraceInv

LEMMA BeforeKillSteps ==
  ASSUME TraceInv, NEW t \in Threads, StoreOutputState(t) \/ Install(t)
  PROVE  TraceInv'
<1>1. /\ Shape /\ CallInv /\ MadeInv /\ SignalInv /\ ParamsInv /\ TraceIsOfTarget /\ HandlerInv
      /\ UNCHANGED <<call, calls, args, status, result, mutex, params, pending, hpc, seen, left, slot>>
  BY DEF TraceInv, StoreOutputState, Install, callVars, signalVars, handlerVars
<1>2. /\ pc[t] \in {"store", "install"}
      /\ pc' = [pc EXCEPT ![t] = IF pc[t] = "store" THEN "install" ELSE "kill"]
      /\ current' = IF pc[t] = "store" THEN call[t] ELSE current
      /\ pc[t] = "store" => UNCHANGED <<handler, old_act>>
      /\ pc[t] = "install" => old_act' = [old_act EXCEPT ![t] = handler] /\ handler' = "ours"
  BY DEF StoreOutputState, Install, At, Goto, signalVars
<1>3. /\ mutex = t /\ call[t] \in 1 .. calls
      /\ \A u \in Threads : u # t => pc[u] \notin Holding /\ pc'[u] = pc[u]
      /\ pc'[t] \in {"install", "kill"} /\ (pc'[t] = "kill" => pc[t] = "install")
  BY <1>1, <1>2 DEF CallInv, Shape, Holding
<1>4. \A u \in Threads : pc[u] \notin Waiting
  BY <1>2, <1>3 DEF Holding, Waiting
<1>5. /\ CallInv' /\ TraceIsOfTarget' /\ NoneInterrupted' = NoneInterrupted
      /\ pc' \in [Threads -> {"idle", "lock"} \cup Holding]
  <2>1. Moves(t, "install") \/ Moves(t, "kill")
    BY <1>2 DEF Moves, Holding
  <2> QED
    BY <1>1, <2>1, MovesKeepCalls DEF SameCalls, Holding
<1>6. Shape'
  <2>1. handler' \in {"old", "ours"} /\ old_act' \in [Threads -> {"old", "ours"}]
    BY <1>1, <1>2 DEF Shape
  <2>2. current' \in 0 .. MaxCalls
    BY <1>1, <1>2 DEF Shape
  <2> QED
    BY <1>1, <1>5, <2>1, <2>2 DEF Shape
<1>7. MadeInv'
  <2>1. current' <= calls
    BY <1>1, <1>2, <1>3 DEF MadeInv, Shape
  <2> QED
    BY <1>1, <1>5, <2>1 DEF MadeInv, Bounded
<1>8. SignalInv'
  BY <1>1, <1>4, <1>5, QuietKeeps
<1>9. ParamsInv'
  <2> SUFFICES ASSUME NoneInterrupted, NEW u \in Threads
               PROVE  /\ pc'[u] \in {"lock", "store", "install", "kill"} => params'[call'[u]] = Blank
                      /\ pc'[u] \in {"install", "kill"} \cup Waiting => current' = call'[u]
                      /\ pc'[u] \notin {"restore", "return"} \cup Waiting
    BY <1>5 DEF ParamsInv
  <2>1. CASE u = t
    BY <1>1, <1>2, <1>3, <2>1 DEF ParamsInv, Waiting
  <2>2. CASE u # t
    BY <1>1, <1>3, <2>2 DEF ParamsInv, Waiting, Holding
  <2> QED
    BY <2>1, <2>2
<1>10. HandlerInv'
  <2> SUFFICES ASSUME Ended("interrupted") \cup Ended("failed") = {}
               PROVE  /\ handler' = "ours" => pc'[t] \in Installed
                      /\ \A u \in Threads : pc'[u] \in Installed => old_act'[u] = "old"
    BY <1>1, <1>3 DEF HandlerInv, Ended
  <2>1. handler = "old" /\ \A u \in Threads : u # t => pc'[u] \notin Installed
    BY <1>1, <1>2, <1>3 DEF HandlerInv, Shape, Installed, Holding, Waiting
  <2> QED
    BY <1>1, <1>2, <1>3, <2>1 DEF Shape, Installed, Waiting
<1> QED
  BY <1>5, <1>6, <1>7, <1>8, <1>9, <1>10 DEF TraceInv

(* tgkill: the signal is under way for the call that holds the lock.       *)
LEMMA KillStep ==
  ASSUME TraceInv, NEW t \in Threads, Kill(t)
  PROVE  TraceInv'
<1> DEFINE w == args[call[t]].tid
<1>1. /\ Shape /\ CallInv /\ MadeInv /\ SignalInv /\ ParamsInv /\ TraceIsOfTarget /\ HandlerInv
      /\ pc[t] = "kill" /\ pc' = [pc EXCEPT ![t] = "wait"] /\ pending' = pending \cup {w}
      /\ UNCHANGED <<call, calls, args, status, result, mutex, current, params, handler, old_act,
                     hpc, seen, left, slot>>
  BY DEF TraceInv, Kill, At, Goto, callVars, handlerVars
<1>2. /\ mutex = t /\ call[t] \in 1 .. calls /\ call[t] \in Calls /\ w \in Threads
      /\ \A u \in Threads : u # t => pc[u] \notin Holding /\ pc'[u] = pc[u]
      /\ pc'[t] = "wait"
  BY <1>1 DEF CallInv, Shape, MadeInv, Holding, Args, Calls
<1>3. \A u \in Threads : pc[u] \notin Waiting
  BY <1>1, <1>2 DEF Holding, Waiting
<1>4. /\ CallInv' /\ TraceIsOfTarget' /\ NoneInterrupted' = NoneInterrupted
      /\ pc' \in [Threads -> {"idle", "lock"} \cup Holding]
  <2>1. Moves(t, "wait") /\ "wait" \in Holding
    BY <1>1 DEF Moves, Holding, Waiting
  <2> QED
    BY <1>1, <2>1, MovesKeepCalls DEF SameCalls
<1>5. Shape'
  BY <1>1, <1>2, <1>4 DEF Shape
<1>6. MadeInv'
  BY <1>1, <1>4 DEF MadeInv, Bounded
<1>7. SignalInv'
  <2> SUFFICES ASSUME NoneInterrupted, NEW v \in Threads, Interrupted(v)'
               PROVE  Serves(v, t)'
    BY <1>4 DEF SignalInv
  <2>1. ~Interrupted(v) /\ ~Interrupted(w)
    BY <1>1, <1>2, <1>3, Quiet
  <2>2. v = w
    BY <1>1, <2>1 DEF Interrupted
  <2>3. hpc[v] \in {"none", "wake"}
    BY <1>1, <2>1 DEF Interrupted, Shape
  <2>4. params[call[t]] = Blank /\ current = call[t]
    BY <1>1 DEF ParamsInv
  <2>5. params[call[t]].futex = 0
    BY <2>4 DEF Blank
  <2> QED
    BY <1>1, <1>2, <2>2, <2>3, <2>4, <2>5 DEF Serves, Walking, Waiting
<1>8. ParamsInv'
  <2> SUFFICES ASSUME NoneInterrupted, NEW u \in Threads
               PROVE  /\ pc'[u] \in {"lock", "store", "install", "kill"} => params'[call'[u]] = Blank
                      /\ pc'[u] \in {"install", "kill"} \cup Waiting => current' = call'[u]
                      /\ pc'[u] \notin {"restore", "return"}
                      /\ pc'[u] \in Waiting => params'[call'[u]].futex = 0
    BY <1>4 DEF ParamsInv
  <2>1. CASE u = t
    BY <1>1, <1>2, <2>1 DEF ParamsInv, Waiting, Blank
  <2>2. CASE u # t
    BY <1>1, <1>2, <2>2 DEF ParamsInv, Waiting, Holding
  <2> QED
    BY <2>1, <2>2
<1>9. HandlerInv'
  BY <1>1, <1>2 DEF HandlerInv, Ended, Installed, Waiting
<1> QED
  BY <1>4, <1>5, <1>6, <1>7, <1>8, <1>9 DEF TraceInv

(* The caller's side of the event: it goes on only when futex_ is set.     *)
LEMMA WaitSteps ==
  ASSUME TraceInv, NEW t \in Threads, NEW place \in Waiting \cup {"restore"},
         pc[t] \in Waiting, pc' = [pc EXCEPT ![t] = place],
         place = "restore" => params[call[t]].futex # 0,
         UNCHANGED <<callVars, mutex, current, params, signalVars, handlerVars>>
  PROVE  TraceInv'
<1>1. /\ Shape /\ CallInv /\ MadeInv /\ SignalInv /\ ParamsInv /\ TraceIsOfTarget /\ HandlerInv
      /\ UNCHANGED <<call, calls, args, status, result, mutex, current, params, handler, old_act,
                     pending, hpc, seen, left, slot>>
  BY DEF TraceInv, callVars, signalVars, handlerVars
<1>2. /\ mutex = t /\ pc'[t] = place
      /\ \A u \in Threads : u # t => pc[u] \notin Holding /\ pc'[u] = pc[u]
  BY <1>1 DEF CallInv, Shape, Holding
<1>3. /\ CallInv' /\ TraceIsOfTarget' /\ NoneInterrupted' = NoneInterrupted
      /\ pc' \in [Threads -> {"idle", "lock"} \cup Holding]
  <2>1. Moves(t, place) /\ place \in Holding
    BY DEF Moves, Holding
  <2> QED
    BY <1>1, <2>1, MovesKeepCalls DEF SameCalls
<1>4. Shape' /\ MadeInv'
  BY <1>1, <1>3 DEF Shape, MadeInv, Bounded
<1>5. SignalInv'
  <2>1. CASE place \in Waiting
    <3>1. \A v, u \in Threads : Serves(v, u) => Serves(v, u)'
      BY <1>1, <1>2, <2>1 DEF Serves
    <3>2. \A v \in Threads : Interrupted(v)' => Interrupted(v)
      BY <1>1 DEF Interrupted
    <3> QED
      BY <1>1, <1>3, <3>1, <3>2 DEF SignalInv
  <2>2. CASE place = "restore"
    <3>1. \A u \in Threads : pc[u] \in Waiting => params[call[u]].futex # 0
      BY <1>2, <2>2 DEF Holding
    <3> QED
      BY <1>1, <1>3, <3>1, QuietKeeps
  <2> QED
    BY <2>1, <2>2
<1>6. ParamsInv'
  <2> SUFFICES ASSUME NoneInterrupted, NEW u \in Threads
               PROVE  /\ pc'[u] \in {"lock", "store", "install", "kill"} => params[call[u]] = Blank
                      /\ pc'[u] \in {"install", "kill"} \cup Waiting => current = call[u]
                      /\ \/ pc'[u] \in {"restore", "return"}
                         \/ pc'[u] \in Waiting /\ params[call[u]].futex # 0
                         => Complete(args[call[u]].tid, params[call[u]])
    BY <1>1, <1>3 DEF ParamsInv
  <2>1. CASE u = t
    BY <1>1, <1>2, <2>1 DEF ParamsInv, Waiting
  <2>2. CASE u # t
    BY <1>1, <1>2, <2>2 DEF ParamsInv
  <2> QED
    BY <2>1, <2>2
<1>7. HandlerInv'
  BY <1>1, <1>2 DEF HandlerInv, Ended, Installed, Waiting
<1> QED
  BY <1>3, <1>4, <1>5, <1>6, <1>7 DEF TraceInv

(* The second sigaction puts back what the first one has found.            *)
LEMMA RestoreStep ==
  ASSUME TraceInv, NEW t \in Threads, Restore(t)
  PROVE  TraceInv'
<1>1. /\ Shape /\ CallInv /\ MadeInv /\ SignalInv /\ ParamsInv /\ TraceIsOfTarget /\ HandlerInv
      /\ pc[t] = "restore" /\ pc' = [pc EXCEPT ![t] = "return"] /\ handler' = old_act[t]
      /\ pending' \subseteq pending
      /\ UNCHANGED <<call, calls, args, status, result, mutex, current, params, old_act, hpc,
                     seen, left, slot>>
  BY DEF TraceInv, Restore, At, Goto, callVars, handlerVars
<1>2. /\ mutex = t /\ pc'[t] = "return"
      /\ \A u \in Threads : u # t => pc[u] \notin Holding /\ pc'[u] = pc[u]
  BY <1>1 DEF CallInv, Shape, Holding
<1>3. /\ CallInv' /\ TraceIsOfTarget' /\ NoneInterrupted' = NoneInterrupted
      /\ pc' \in [Threads -> {"idle", "lock"} \cup Holding]
  <2>1. Moves(t, "return") /\ "return" \in Holding
    BY <1>1 DEF Moves, Holding
  <2> QED
    BY <1>1, <2>1, MovesKeepCalls DEF SameCalls
<1>4. Shape' /\ MadeInv'
  BY <1>1, <1>3 DEF Shape, MadeInv, Bounded
<1>5. \A u \in Threads : pc[u] \notin Waiting
  BY <1>1, <1>2 DEF Holding, Waiting
<1>6. SignalInv'
  BY <1>1, <1>3, <1>5, QuietKeeps
<1>7. ParamsInv'
  BY <1>1, <1>2, <1>3 DEF ParamsInv, Waiting
<1>8. HandlerInv'
  <2> SUFFICES ASSUME Ended("interrupted") \cup Ended("failed") = {}
               PROVE  handler' = "old" /\ \A u \in Threads : pc'[u] \notin Installed
    BY <1>1 DEF HandlerInv, Ended
  <2> QED
    BY <1>1, <1>2 DEF HandlerInv, Installed, Holding, Waiting
<1> QED
  BY <1>3, <1>4, <1>6, <1>7, <1>8 DEF TraceInv

-----------------------------------------------------------------------------
(* Only the thread that the waiting call asks about is interrupted.        *)
LEMMA OneInterrupted ==
  ASSUME SignalInv, NoneInterrupted, NEW v \in Threads, NEW w \in Threads,
         Interrupted(v), Interrupted(w)
  PROVE  v = w
BY DEF SignalInv, Serves

(* A step of a thread's handler that only touches hpc, seen and left, or   *)
(* the set of pending signals.                                             *)
LEMMA HandlerFrame ==
  ASSUME TraceInv,
         UNCHANGED <<pc, callVars, mutex, current, params, handler, old_act>>
  PROVE  /\ CallInv' /\ ParamsInv' /\ TraceIsOfTarget' /\ HandlerInv'
         /\ NoneInterrupted' = NoneInterrupted
         /\ \A c \in 1 .. calls' : args'[c] \in Args
         /\ \A c \in Calls : c > calls' => status'[c] = "none" /\ params'[c] = Blank
         /\ current' <= calls' /\ Bounded'
<1>1. UNCHANGED <<pc, call, calls, args, status, result, mutex, current, params, handler, old_act>>
  BY DEF callVars
<1>2. CallInv' /\ ParamsInv' /\ TraceIsOfTarget' /\ HandlerInv' /\ NoneInterrupted' = NoneInterrupted
  BY <1>1 DEF TraceInv, CallInv, ParamsInv, TraceIsOfTarget, HandlerInv, NoneInterrupted, Ended
<1> QED
  BY <1>1, <1>2 DEF TraceInv, MadeInv, Bounded

LEMMA DeliverStep ==
  ASSUME TraceInv, NEW v \in Threads, Deliver(v)
  PROVE  TraceInv'
<1>1. /\ Shape /\ MadeInv /\ SignalInv /\ v \in pending /\ hpc[v] = "none"
      /\ pending' = pending \ {v} /\ hpc' = [hpc EXCEPT ![v] = "load"]
      /\ UNCHANGED <<pc, callVars, mutex, current, params, handler, old_act, seen, left, slot>>
  BY DEF TraceInv, Deliver
<1>2. /\ CallInv' /\ ParamsInv' /\ TraceIsOfTarget' /\ HandlerInv'
      /\ NoneInterrupted' = NoneInterrupted
  BY <1>1, HandlerFrame
<1>3. /\ hpc'[v] = "load" /\ \A w \in Threads : w # v => hpc'[w] = hpc[w]
      /\ hpc' \in [Threads -> {"none", "load", "store", "wake"} \cup Walking]
  BY <1>1 DEF Shape
<1>4. Shape'
  BY <1>1, <1>3 DEF Shape, callVars
<1>5. MadeInv'
  <2>1. \A w \in Threads : /\ hpc'[w] \in Walking \cup {"store", "wake"} => seen'[w] \in 1 .. calls'
                           /\ hpc'[w] \in Walking => left'[w] <= Depth[w]
                           /\ hpc'[w] \in {"write", "incr"} => left'[w] > 0
    BY <1>1, <1>3 DEF MadeInv, Walking, callVars
  <2> QED
    BY <1>1, <2>1, HandlerFrame DEF MadeInv
<1>6. SignalInv'
  <2> SUFFICES ASSUME NoneInterrupted, NEW w \in Threads, Interrupted(w)'
               PROVE  \E t \in Threads : Serves(w, t)'
    BY <1>2 DEF SignalInv
  <2>1. Interrupted(v) /\ Interrupted(w)
    BY <1>1, <1>3 DEF Interrupted
  <2>2. w = v
    BY <1>1, <2>1, OneInterrupted
  <2>3. PICK t \in Threads : Serves(v, t)
    BY <1>1, <2>1 DEF SignalInv
  <2>4. Serves(v, t)'
    BY <1>1, <1>3, <2>3 DEF Serves, Walking, callVars
  <2> QED
    BY <2>2, <2>4
<1> QED
  BY <1>2, <1>4, <1>5, <1>6 DEF TraceInv

LEMMA LoadsStep ==
  ASSUME TraceInv, NEW v \in Threads, HandlerLoads(v)
  PROVE  TraceInv'
<1>1. /\ Shape /\ MadeInv /\ SignalInv /\ hpc[v] = "load" /\ current # 0
      /\ seen' = [seen EXCEPT ![v] = current] /\ left' = [left EXCEPT ![v] = Depth[v]]
      /\ hpc' = [hpc EXCEPT ![v] = "unwind"]
      /\ UNCHANGED <<pc, callVars, mutex, current, params, handler, old_act, pending, slot>>
  BY DEF TraceInv, HandlerLoads, signalVars
<1>2. /\ CallInv' /\ ParamsInv' /\ TraceIsOfTarget' /\ HandlerInv'
      /\ NoneInterrupted' = NoneInterrupted
  BY <1>1, HandlerFrame
<1>3. /\ hpc'[v] = "unwind" /\ seen'[v] = current /\ left'[v] = Depth[v] /\ Depth[v] \in Nat
      /\ \A w \in Threads : w # v => hpc'[w] = hpc[w] /\ seen'[w] = seen[w] /\ left'[w] = left[w]
  BY <1>1, StacktraceAssumption DEF Shape
<1>4. Shape'
  <2>1. /\ hpc' \in [Threads -> {"none", "load", "store", "wake"} \cup Walking]
        /\ seen' \in [Threads -> 0 .. MaxCalls] /\ left' \in [Threads -> Nat]
    BY <1>1, <1>3 DEF Shape, Walking
  <2> QED
    BY <1>1, <2>1 DEF Shape, callVars
<1>5. MadeInv'
  <2>1. current \in 1 .. calls /\ calls' = calls
    BY <1>1 DEF MadeInv, Shape, callVars
  <2>2. \A w \in Threads : /\ hpc'[w] \in Walking \cup {"store", "wake"} => seen'[w] \in 1 .. calls'
                           /\ hpc'[w] \in Walking => left'[w] <= Depth[w]
                           /\ hpc'[w] \in {"write", "incr"} => left'[w] > 0
    BY <1>1, <1>3, <2>1 DEF MadeInv
  <2> QED
    BY <1>1, <2>2, HandlerFrame DEF MadeInv
<1>6. SignalInv'
  <2> SUFFICES ASSUME NoneInterrupted, NEW w \in Threads, Interrupted(w)'
               PROVE  \E t \in Threads : Serves(w, t)'
    BY <1>2 DEF SignalInv
  <2>1. Interrupted(v) /\ Interrupted(w)
    BY <1>1, <1>3 DEF Interrupted
  <2>2. w = v
    BY <1>1, <2>1, OneInterrupted
  <2>3. PICK t \in Threads : Serves(v, t)
    BY <1>1, <2>1 DEF SignalInv
  <2>4. Walked(v, "unwind", Depth[v], slot[v], Blank)
    BY <1>3, EmptyAddresses, StacktraceAssumption DEF Walked, Blank
  <2>5. Serves(v, t)'
    BY <1>1, <1>3, <2>3, <2>4 DEF Serves, Walking, callVars
  <2> QED
    BY <2>2, <2>5
<1> QED
  BY <1>2, <1>4, <1>5, <1>6 DEF TraceInv

(* The walk has recorded every frame, or as many as there is room for.     *)
LEMMA WalkedAll ==
  ASSUME NEW v \in Threads, NEW l \in Nat, NEW s, NEW p, Walked(v, "unwind", l, s, p),
         l = 0 \/ p.count >= kMaxStackSize
  PROVE  Complete(v, p)
<1>1. p.count = StackSize(v)
  BY StacktraceAssumption DEF Walked, StackSize
<1> QED
  BY <1>1 DEF Walked, Complete, Stack, Filled

LEMMA UnwindEndsStep ==
  ASSUME TraceInv, NEW v \in Threads, UnwindEnds(v)
  PROVE  TraceInv'
<1>1. /\ Shape /\ MadeInv /\ SignalInv /\ hpc[v] = "unwind" /\ (left[v] = 0 \/ Full(seen[v]))
      /\ left' = [left EXCEPT ![v] = 0] /\ hpc' = [hpc EXCEPT ![v] = "store"]
      /\ UNCHANGED <<pc, callVars, mutex, current, params, handler, old_act, pending, seen, slot>>
  BY DEF TraceInv, UnwindEnds, signalVars
<1>2. /\ CallInv' /\ ParamsInv' /\ TraceIsOfTarget' /\ HandlerInv'
      /\ NoneInterrupted' = NoneInterrupted
  BY <1>1, HandlerFrame
<1>3. /\ hpc'[v] = "store" /\ \A w \in Threads : w # v => hpc'[w] = hpc[w] /\ left'[w] = left[w]
      /\ seen[v] \in 1 .. calls /\ seen[v] \in Calls
  BY <1>1 DEF Shape, MadeInv, Calls, Walking
<1>4. Shape'
  BY <1>1 DEF Shape, callVars
<1>5. MadeInv'
  <2>1. \A w \in Threads : /\ hpc'[w] \in Walking \cup {"store", "wake"} => seen'[w] \in 1 .. calls'
                           /\ hpc'[w] \in Walking => left'[w] <= Depth[w]
                           /\ hpc'[w] \in {"write", "incr"} => left'[w] > 0
    BY <1>1, <1>3 DEF MadeInv, Walking, callVars
  <2> QED
    BY <1>1, <2>1, HandlerFrame DEF MadeInv
<1>6. SignalInv'
  <2> SUFFICES ASSUME NoneInterrupted, NEW w \in Threads, Interrupted(w)'
               PROVE  \E t \in Threads : Serves(w, t)'
    BY <1>2 DEF SignalInv
  <2>1. Interrupted(v) /\ Interrupted(w)
    BY <1>1, <1>3 DEF Interrupted, Walking
  <2>2. w = v
    BY <1>1, <2>1, OneInterrupted
  <2>3. PICK t \in Threads : Serves(v, t)
    BY <1>1, <2>1 DEF SignalInv
  <2>4. Complete(v, params[call[t]])
    <3>1. /\ seen[v] = call[t] /\ left[v] \in Nat
          /\ Walked(v, "unwind", left[v], slot[v], params[call[t]])
      BY <1>1, <2>3 DEF Serves, Shape, Walking
    <3> QED
      BY <1>1, <3>1, WalkedAll DEF Full
  <2>5. Serves(v, t)'
    BY <1>1, <1>3, <2>3, <2>4 DEF Serves, Walking, callVars
  <2> QED
    BY <2>2, <2>5
<1> QED
  BY <1>2, <1>4, <1>5, <1>6 DEF TraceInv

(* A handler writes to the params it has seen.                             *)
LEMMA WriteFrame ==
  ASSUME TraceInv, NEW v \in Threads, hpc[v] \in Walking \cup {"store"}, NEW p \in Params,
         NoneInterrupted => DOMAIN p.addresses \subseteq 1 .. kMaxStackSize,
         params' = [params EXCEPT ![seen[v]] = p],
         UNCHANGED <<pc, callVars, mutex, current, handler, old_act>>
  PROVE  /\ CallInv' /\ TraceIsOfTarget' /\ HandlerInv'
         /\ NoneInterrupted' = NoneInterrupted
         /\ params' \in [Calls -> Params]
         /\ seen[v] \in 1 .. calls /\ seen[v] \in Calls /\ params'[seen[v]] = p
         /\ \A c \in Calls : c # seen[v] => params'[c] = params[c]
         /\ \A c \in 1 .. calls' : args'[c] \in Args
         /\ \A c \in Calls : c > calls' => status'[c] = "none" /\ params'[c] = Blank
         /\ current' <= calls' /\ Bounded'
<1>1. UNCHANGED <<pc, call, calls, args, status, result, mutex, current, handler, old_act>>
  BY DEF callVars
<1>2. CallInv' /\ TraceIsOfTarget' /\ HandlerInv' /\ NoneInterrupted' = NoneInterrupted
  BY <1>1 DEF TraceInv, CallInv, TraceIsOfTarget, HandlerInv, NoneInterrupted, Ended
<1>3. /\ params \in [Calls -> Params] /\ seen[v] \in 1 .. calls /\ seen[v] \in Calls
      /\ calls \in Nat
  BY DEF TraceInv, Shape, MadeInv, Calls
<1>4. /\ params' \in [Calls -> Params] /\ params'[seen[v]] = p
      /\ \A c \in Calls : c # seen[v] => params'[c] = params[c]
  BY <1>3
<1>5. /\ \A c \in 1 .. calls' : args'[c] \in Args
      /\ \A c \in Calls : c > calls' => status'[c] = "none" /\ params'[c] = Blank
      /\ current' <= calls' /\ Bounded'
  BY <1>1, <1>2, <1>3, <1>4 DEF TraceInv, MadeInv, Bounded, Calls
<1> QED
  BY <1>2, <1>3, <1>4, <1>5

(* A step of UnwindBacktrace, after which the handler is at another place  *)
(* there and the params it has seen are p.                                 *)
LEMMA WalkStep ==
  ASSUME TraceInv, NEW v \in Threads, hpc[v] \in Walking, NEW place \in Walking,
         NEW l \in Nat, l <= Depth[v], place # "unwind" => l > 0, NEW s \in Nat,
         NEW p \in Params, p.futex = params[seen[v]].futex,
         NoneInterrupted /\ Walked(v, hpc[v], left[v], slot[v], params[seen[v]])
           => Walked(v, place, l, s, p),
         params' = [params EXCEPT ![seen[v]] = p], hpc' = [hpc EXCEPT ![v] = place],
         left' = [left EXCEPT ![v] = l], slot' = [slot EXCEPT ![v] = s],
         UNCHANGED <<pc, callVars, mutex, current, handler, old_act, pending, seen>>
  PROVE  TraceInv'
<1> DEFINE c0 == seen[v]
<1>1. Shape /\ CallInv /\ MadeInv /\ SignalInv /\ ParamsInv
  BY DEF TraceInv
<1>2. ASSUME NoneInterrupted
      PROVE  \E t \in Threads : /\ Serves(v, t) /\ call[t] = c0 /\ pc[t] \in Waiting
                                /\ params[c0].futex = 0 /\ v \notin pending
                                /\ Walked(v, place, l, s, p)
  <2>1. PICK t \in Threads : Serves(v, t)
    BY <1>1, <1>2 DEF SignalInv, Interrupted
  <2>2. /\ call[t] = c0 /\ pc[t] \in Waiting /\ params[c0].futex = 0 /\ v \notin pending
        /\ Walked(v, hpc[v], left[v], slot[v], params[c0])
    BY <2>1 DEF Serves, Walking
  <2> QED
    BY <1>2, <2>1, <2>2
<1>3. NoneInterrupted => DOMAIN p.addresses \subseteq 1 .. kMaxStackSize
  <2> SUFFICES ASSUME NoneInterrupted PROVE DOMAIN p.addresses \subseteq 1 .. kMaxStackSize
    OBVIOUS
  <2>1. Walked(v, place, l, s, p) /\ p.count \in Nat
    BY <1>2 DEF Params
  <2>2. PICK n \in Nat : n <= kMaxStackSize /\ p.addresses = Filled(v, n)
    BY <2>1, StacktraceAssumption DEF Walked
  <2> QED
    BY <2>2, StacktraceAssumption DEF Filled
<1>4. /\ CallInv' /\ TraceIsOfTarget' /\ HandlerInv' /\ NoneInterrupted' = NoneInterrupted
      /\ params' \in [Calls -> Params] /\ params'[c0] = p
      /\ \A c \in Calls : c # c0 => params'[c] = params[c]
      /\ c0 \in 1 .. calls /\ c0 \in Calls
  BY <1>3, WriteFrame
<1>5. /\ hpc'[v] = place /\ left'[v] = l /\ slot'[v] = s
      /\ \A w \in Threads : w # v => hpc'[w] = hpc[w] /\ left'[w] = left[w]
  BY <1>1 DEF Shape
<1>6. Shape'
  <2>1. /\ hpc' \in [Threads -> {"none", "load", "store", "wake"} \cup Walking]
        /\ left' \in [Threads -> Nat] /\ slot' \in [Threads -> Nat]
    BY <1>1 DEF Shape
  <2> QED
    BY <1>1, <1>4, <2>1 DEF Shape, callVars
<1>7. MadeInv'
  <2>1. \A w \in Threads : /\ hpc'[w] \in Walking \cup {"store", "wake"} => seen'[w] \in 1 .. calls'
                           /\ hpc'[w] \in Walking => left'[w] <= Depth[w]
                           /\ hpc'[w] \in {"write", "incr"} => left'[w] > 0
    BY <1>1, <1>4, <1>5 DEF MadeInv, callVars
  <2> QED
    BY <1>3, <2>1, WriteFrame DEF MadeInv
<1>8. SignalInv'
  <2> SUFFICES ASSUME NoneInterrupted, NEW w \in Threads, Interrupted(w)'
               PROVE  \E t \in Threads : Serves(w, t)'
    BY <1>4 DEF SignalInv
  <2>1. Interrupted(v) /\ Interrupted(w)
    BY <1>5 DEF Interrupted
  <2>2. w = v
    BY <1>1, <2>1, OneInterrupted
  <2>3. PICK t \in Threads : /\ Serves(v, t) /\ call[t] = c0 /\ pc[t] \in Waiting
                             /\ params[c0].futex = 0 /\ v \notin pending
                             /\ Walked(v, place, l, s, p)
    BY <1>2
  <2>4. Serves(v, t)'
    BY <1>4, <1>5, <2>3 DEF Serves, Walking, callVars
  <2> QED
    BY <2>2, <2>4
<1>9. ParamsInv'
  <2> SUFFICES ASSUME NoneInterrupted, NEW u \in Threads, pc[u] # "idle"
               PROVE  /\ pc[u] \in {"lock", "store", "install", "kill"} => params'[call[u]] = Blank
                      /\ pc[u] \in {"install", "kill"} \cup Waiting => current = call[u]
                      /\ \/ pc[u] \in {"restore", "return"}
                         \/ pc[u] \in Waiting /\ params'[call[u]].futex # 0
                         => Complete(args[call[u]].tid, params'[call[u]])
    BY <1>4 DEF ParamsInv, Waiting, callVars
  <2>1. PICK t \in Threads : call[t] = c0 /\ pc[t] \in Waiting /\ params[c0].futex = 0
    BY <1>2
  <2>2. CASE u = t
    BY <1>1, <1>4, <2>1, <2>2 DEF ParamsInv, Waiting
  <2>3. CASE u # t
    <3>1. call[u] # c0 /\ call[u] \in Calls
      BY <1>1, <2>1, <2>3, CallsDiffer DEF CallInv, Calls, Shape
    <3> QED
      BY <1>1, <1>4, <3>1 DEF ParamsInv
  <2> QED
    BY <2>2, <2>3
<1> QED
  BY <1>4, <1>6, <1>7, <1>8, <1>9 DEF TraceInv

(* The check, the store and the increment in UnwindBacktrace.              *)
LEMMA UnwindStep ==
  ASSUME TraceInv, NEW v \in Threads, UnwindBacktrace(v) \/ UnwindWrites(v) \/ UnwindCounts(v)
  PROVE  TraceInv'
<1> DEFINE c0 == seen[v]
           old == params[c0]
<1>1. /\ Shape /\ MadeInv /\ hpc[v] \in Walking
      /\ UNCHANGED <<pc, callVars, mutex, current, handler, old_act, pending, seen>>
  BY DEF TraceInv, UnwindBacktrace, UnwindWrites, UnwindCounts, signalVars, Walking
<1>2. /\ c0 \in Calls /\ old \in Params /\ left[v] \in Nat /\ slot[v] \in Nat /\ Depth[v] \in Nat
      /\ left[v] <= Depth[v] /\ (hpc[v] \in {"write", "incr"} => left[v] > 0)
  BY <1>1, StacktraceAssumption DEF Shape, MadeInv, Calls
<1>3. /\ old.futex \in {0, 1} /\ old.count \in Nat /\ old.addresses \in Addresses
      /\ old = [futex |-> old.futex, count |-> old.count, addresses |-> old.addresses]
  BY <1>2 DEF Params
<1> HIDE DEF old
<1>7. "unwind" \in Walking /\ "write" \in Walking /\ "incr" \in Walking
  BY DEF Walking
<1>4. CASE UnwindBacktrace(v)
  <2>1. /\ hpc[v] = "unwind" /\ left[v] > 0 /\ old.count < kMaxStackSize
        /\ hpc' = [hpc EXCEPT ![v] = "write"]
    BY <1>3, <1>4, StacktraceAssumption DEF UnwindBacktrace, Full, old
  <2>2. /\ params' = [params EXCEPT ![c0] = old] /\ left' = [left EXCEPT ![v] = left[v]]
        /\ slot' = [slot EXCEPT ![v] = slot[v]]
    BY <1>1, <1>2, <1>4 DEF UnwindBacktrace, Shape, old
  <2>3. Walked(v, "unwind", left[v], slot[v], old) => Walked(v, "write", left[v], slot[v], old)
    BY <2>1 DEF Walked
  <2>4. NoneInterrupted /\ Walked(v, hpc[v], left[v], slot[v], old)
          => Walked(v, "write", left[v], slot[v], old)
    BY <2>1, <2>3
  <2> QED
    BY <1>1, <1>2, <1>7, <2>1, <2>2, <2>3, <2>4, WalkStep DEF old
<1>5. CASE UnwindWrites(v)
  <2> DEFINE n == old.count + 1
             frame == <<v, Depth[v] - left[v] + 1>>
             p == [futex |-> old.futex, count |-> old.count,
                   addresses |-> Put(old.addresses, n, frame)]
  <2>1. /\ hpc[v] = "write" /\ slot' = [slot EXCEPT ![v] = n]
        /\ params' = [params EXCEPT ![c0].addresses = Put(params[c0].addresses, n, frame)]
        /\ hpc' = [hpc EXCEPT ![v] = "incr"]
    <3>1. slot' = [slot EXCEPT ![v] = n] /\ slot'[v] = n
      BY <1>1, <1>5 DEF UnwindWrites, Shape, old
    <3> QED
      BY <1>5, <3>1 DEF UnwindWrites
  <2>2. frame \in Frames /\ n \in Nat
    BY <1>2, <1>3 DEF Frames
  <2>3. p \in Params
    BY <1>3, <2>2, PutAddresses DEF Params
  <2>4. params' = [params EXCEPT ![c0] = p] /\ left' = [left EXCEPT ![v] = left[v]]
    <3>1. [old EXCEPT !.addresses = Put(old.addresses, n, frame)] = p
      BY <1>3
    <3>2. params' = [params EXCEPT ![c0] = [old EXCEPT !.addresses = Put(old.addresses, n, frame)]]
      BY <1>1, <1>2, <2>1 DEF Shape, old
    <3> QED
      BY <1>1, <1>5, <3>1, <3>2 DEF UnwindWrites, Shape
  <2>5. Walked(v, "write", left[v], slot[v], old) => Walked(v, "incr", left[v], n, p)
    <3> SUFFICES ASSUME Walked(v, "write", left[v], slot[v], old) PROVE Walked(v, "incr", left[v], n, p)
      OBVIOUS
    <3>1. old.addresses = Filled(v, old.count) /\ frame = <<v, old.count + 1>>
      BY DEF Walked
    <3>2. Put(old.addresses, n, frame) = Filled(v, n)
      BY <1>3, <3>1, PutFilled
    <3> QED
      BY <3>2 DEF Walked
  <2>6. p.futex = old.futex
    OBVIOUS
  <2>7. /\ hpc[v] = "write" /\ slot' = [slot EXCEPT ![v] = n] /\ hpc' = [hpc EXCEPT ![v] = "incr"]
        /\ NoneInterrupted /\ Walked(v, hpc[v], left[v], slot[v], old)
             => Walked(v, "incr", left[v], n, p)
    BY <2>1, <2>5
  <2> HIDE DEF p, n
  <2> QED
    BY <1>1, <1>2, <1>7, <2>2, <2>3, <2>4, <2>6, <2>7, WalkStep DEF old
<1>6. CASE UnwindCounts(v)
  <2>1. PICK n \in {slot[v], old.count + 1} : params' = [params EXCEPT ![c0].count = n]
    BY <1>6 DEF UnwindCounts, old
  <2> DEFINE l == left[v] - 1
             p == [futex |-> old.futex, count |-> n, addresses |-> old.addresses]
  <2>2. /\ hpc[v] = "incr" /\ slot' = [slot EXCEPT ![v] = 0] /\ left' = [left EXCEPT ![v] = l]
        /\ hpc' = [hpc EXCEPT ![v] = "unwind"]
    BY <1>6 DEF UnwindCounts
  <2>3. n \in Nat /\ l \in Nat /\ l <= Depth[v]
    BY <1>2, <1>3, <2>1, <2>2
  <2>4. p \in Params
    BY <1>3, <2>3 DEF Params
  <2>5. params' = [params EXCEPT ![c0] = p]
    <3>1. [old EXCEPT !.count = n] = p
      BY <1>3
    <3>2. params' = [params EXCEPT ![c0] = [old EXCEPT !.count = n]]
      BY <1>1, <1>2, <2>1 DEF Shape, old
    <3> QED
      BY <3>1, <3>2
  <2>6. Walked(v, "incr", left[v], slot[v], old) => Walked(v, "unwind", l, 0, p)
    BY <1>2, <1>3, <2>1, StacktraceAssumption DEF Walked
  <2>7. p.futex = old.futex
    OBVIOUS
  <2> HIDE DEF p, l
  <2> QED
    BY <1>1, <2>2, <2>3, <2>4, <2>5, <2>6, <2>7, WalkStep DEF Walking, old
<1> QED
  BY <1>4, <1>5, <1>6

LEMMA SignalStoresStep ==
  ASSUME TraceInv, NEW v \in Threads, SignalStores(v)
  PROVE  TraceInv'
<1> DEFINE c0 == seen[v]
           p == [futex |-> 1, count |-> params[c0].count, addresses |-> params[c0].addresses]
<1>1. /\ Shape /\ CallInv /\ MadeInv /\ SignalInv /\ ParamsInv /\ hpc[v] = "store"
      /\ params' = [params EXCEPT ![c0].futex = 1] /\ hpc' = [hpc EXCEPT ![v] = "wake"]
      /\ UNCHANGED <<pc, callVars, mutex, current, handler, old_act, pending, seen, left, slot>>
  BY DEF TraceInv, SignalStores, signalVars
<1>2. /\ c0 \in 1 .. calls /\ c0 \in Calls /\ params[c0] \in Params
      /\ NoneInterrupted => DOMAIN params[c0].addresses \subseteq 1 .. kMaxStackSize
  BY <1>1 DEF Shape, MadeInv, Bounded, Calls
<1>3. p \in Params /\ params' = [params EXCEPT ![c0] = p]
  <2>1. p \in Params /\ [params[c0] EXCEPT !.futex = 1] = p
    BY <1>2 DEF Params
  <2>2. params' = [params EXCEPT ![c0] = [params[c0] EXCEPT !.futex = 1]]
    BY <1>1, <1>2 DEF Shape
  <2> QED
    BY <2>1, <2>2
<1>4. /\ p.addresses = params[c0].addresses /\ p.count = params[c0].count /\ p.futex = 1
  OBVIOUS
<1> HIDE DEF p
<1>5. /\ CallInv' /\ TraceIsOfTarget' /\ HandlerInv' /\ NoneInterrupted' = NoneInterrupted
      /\ params' \in [Calls -> Params] /\ params'[c0] = p
      /\ \A c \in Calls : c # c0 => params'[c] = params[c]
  BY <1>1, <1>2, <1>3, <1>4, WriteFrame
<1>6. /\ hpc' \in [Threads -> {"none", "load", "store", "wake"} \cup Walking]
      /\ hpc'[v] = "wake" /\ \A w \in Threads : w # v => hpc'[w] = hpc[w]
  BY <1>1 DEF Shape
<1>7. Shape'
  BY <1>1, <1>5, <1>6 DEF Shape, callVars
<1>8. MadeInv'
  <2>1. \A w \in Threads : /\ hpc'[w] \in Walking \cup {"store", "wake"} => seen'[w] \in 1 .. calls'
                           /\ hpc'[w] \in Walking => left'[w] <= Depth[w]
                           /\ hpc'[w] \in {"write", "incr"} => left'[w] > 0
    BY <1>1, <1>2, <1>6 DEF MadeInv, Walking, callVars
  <2> QED
    BY <1>1, <1>2, <1>3, <1>4, <2>1, WriteFrame DEF MadeInv
<1>9. ASSUME NoneInterrupted
      PROVE  /\ \A w \in Threads : ~Interrupted(w)'
             /\ \E t \in Threads : /\ call[t] = c0 /\ pc[t] \in Waiting
                                   /\ Complete(args[c0].tid, params[c0])
  <2>1. PICK t \in Threads : Serves(v, t)
    BY <1>1, <1>9 DEF SignalInv, Interrupted
  <2>2. /\ call[t] = c0 /\ pc[t] \in Waiting /\ v \notin pending
        /\ Complete(args[c0].tid, params[c0])
    BY <1>1, <2>1 DEF Serves
  <2>3. ~Interrupted(v)'
    BY <1>1, <1>6, <2>2 DEF Interrupted, Walking
  <2>4. ASSUME NEW w \in Threads, w # v, Interrupted(w)' PROVE FALSE
    <3>1. Interrupted(w) /\ Interrupted(v)
      BY <1>1, <1>6, <2>4 DEF Interrupted
    <3> QED
      BY <1>1, <1>9, <2>4, <3>1, OneInterrupted
  <2> QED
    BY <2>2, <2>3, <2>4
<1>10. SignalInv'
  BY <1>5, <1>9 DEF SignalInv
<1>11. ParamsInv'
  <2> SUFFICES ASSUME NoneInterrupted, NEW u \in Threads, pc[u] # "idle"
               PROVE  /\ pc[u] \in {"lock", "store", "install", "kill"} => params'[call[u]] = Blank
                      /\ pc[u] \in {"install", "kill"} \cup Waiting => current = call[u]
                      /\ \/ pc[u] \in {"restore", "return"}
                         \/ pc[u] \in Waiting /\ params'[call[u]].futex # 0
                         => Complete(args[call[u]].tid, params'[call[u]])
    BY <1>1, <1>5 DEF ParamsInv, Waiting, callVars
  <2>1. PICK t \in Threads : call[t] = c0 /\ pc[t] \in Waiting
                             /\ Complete(args[c0].tid, params[c0])
    BY <1>9
  <2>2. CASE u = t
    BY <1>1, <1>4, <1>5, <2>1, <2>2 DEF ParamsInv, Waiting, Complete
  <2>3. CASE u # t
    <3>1. call[u] # c0 /\ call[u] \in Calls
      BY <1>1, <2>1, <2>3, CallsDiffer DEF CallInv, Calls, Shape
    <3> QED
      BY <1>1, <1>5, <3>1 DEF ParamsInv
  <2> QED
    BY <2>2, <2>3
<1> QED
  BY <1>5, <1>7, <1>8, <1>10, <1>11 DEF TraceInv

(* The wake-up may reach a later call of the thread; it changes no data.   *)
LEMMA SignalWakesStep ==
  ASSUME TraceInv, NEW v \in Threads, SignalWakes(v)
  PROVE  TraceInv'
<1> DEFINE caller == args[seen[v]].by
<1>1. /\ Shape /\ CallInv /\ MadeInv /\ SignalInv /\ ParamsInv /\ TraceIsOfTarget /\ HandlerInv
      /\ hpc[v] = "wake" /\ hpc' = [hpc EXCEPT ![v] = "none"] /\ seen' = [seen EXCEPT ![v] = 0]
      /\ UNCHANGED <<call, calls, args, status, result, mutex, current, params, handler, old_act,
                     pending, left, slot>>
      /\ pc' = pc \/ (pc[caller] = "asleep" /\ pc' = [pc EXCEPT ![caller] = "check"])
  BY DEF TraceInv, SignalWakes, Goto, callVars, signalVars
<1>2. caller \in Threads
  BY <1>1 DEF MadeInv, Shape, Calls, Args
<1>3. /\ CallInv' /\ TraceIsOfTarget' /\ NoneInterrupted' = NoneInterrupted
      /\ pc' \in [Threads -> {"idle", "lock"} \cup Holding]
  <2>1. pc' = pc \/ Moves(caller, "check")
    BY <1>1 DEF Moves, Holding, Waiting
  <2>2. "check" \in Holding
    BY DEF Holding, Waiting
  <2> QED
    BY <1>1, <1>2, <2>1, <2>2, MovesKeepCalls DEF SameCalls
<1>4. /\ \A u \in Threads : pc'[u] = pc[u] \/ (pc[u] = "asleep" /\ pc'[u] = "check")
      /\ hpc'[v] = "none"
      /\ \A w \in Threads : w # v => hpc'[w] = hpc[w] /\ seen'[w] = seen[w]
  BY <1>1, <1>2 DEF Shape
<1>5. Shape'
  <2>1. /\ hpc' \in [Threads -> {"none", "load", "store", "wake"} \cup Walking]
        /\ seen' \in [Threads -> 0 .. MaxCalls]
    BY <1>1, StacktraceAssumption DEF Shape
  <2> QED
    BY <1>1, <1>3, <2>1 DEF Shape
<1>6. MadeInv'
  BY <1>1, <1>3, <1>4 DEF MadeInv, Bounded, Walking
<1>7. SignalInv'
  <2>1. \A w \in Threads : Interrupted(w)' => Interrupted(w)
    BY <1>1, <1>4 DEF Interrupted, Walking
  <2>2. \A w, t \in Threads : Serves(w, t) => Serves(w, t)'
    BY <1>1, <1>4 DEF Serves, Walking, Waiting
  <2> QED
    BY <1>1, <1>3, <2>1, <2>2 DEF SignalInv
<1>8. ParamsInv'
  BY <1>1, <1>3, <1>4 DEF ParamsInv, Waiting
<1>9. HandlerInv'
  BY <1>1, <1>4 DEF HandlerInv, Ended, Installed, Waiting
<1> QED
  BY <1>3, <1>5, <1>6, <1>7, <1>8, <1>9 DEF TraceInv

LEMMA ExitStep ==
  ASSUME TraceInv, NEW t \in Threads, Exit(t)
  PROVE  TraceInv'
<1>1. /\ Shape /\ MadeInv /\ SignalInv /\ pending' = pending \ {t}
      /\ UNCHANGED <<pc, callVars, mutex, current, params, handler, old_act, hpc, seen, left, slot>>
  BY DEF TraceInv, Exit, handlerVars
<1>2. /\ CallInv' /\ ParamsInv' /\ TraceIsOfTarget' /\ HandlerInv'
      /\ NoneInterrupted' = NoneInterrupted
  BY <1>1, HandlerFrame
<1>3. Shape' /\ MadeInv'
  BY <1>1, <1>2 DEF Shape, MadeInv, Bounded, callVars
<1>4. SignalInv'
  <2>1. \A w \in Threads : Interrupted(w)' => Interrupted(w)
    BY <1>1 DEF Interrupted
  <2>2. \A w, u \in Threads : Serves(w, u) => Serves(w, u)'
    BY <1>1 DEF Serves, callVars
  <2> QED
    BY <1>1, <1>2, <2>1, <2>2 DEF SignalInv
<1> QED
  BY <1>2, <1>3, <1>4 DEF TraceInv

-----------------------------------------------------------------------------
(* The statements that return to the caller.                               *)
LEMMA ReturnSteps ==
  ASSUME TraceInv, NEW t \in Threads,
         InstallFails(t) \/ KillFails(t) \/ WaitFails(t) \/ Return(t)
  PROVE  TraceInv'
<1>1. CASE InstallFails(t) \/ KillFails(t)
  <2>1. pc[t] \in Holding /\ pc[t] \notin Waiting
    BY <1>1 DEF InstallFails, KillFails, At, Holding, Waiting
  <2>2. Finish(t, "failed", <<>>) /\ UNCHANGED <<current, params, signalVars, handlerVars>>
    BY <1>1 DEF InstallFails, KillFails, Fail
  <2> QED
    BY <2>1, <2>2, FinishStep
<1>2. CASE WaitFails(t)
  <2>1. pc[t] \in Holding
    BY <1>2 DEF WaitFails, At, Holding, Waiting
  <2>2. Finish(t, "interrupted", <<>>) /\ UNCHANGED <<current, params, signalVars, handlerVars>>
    BY <1>2 DEF WaitFails, Fail
  <2> QED
    BY <2>1, <2>2, FinishStep
<1>3. CASE Return(t)
  <2> DEFINE trace == FormatStackTrace(Counted(params[call[t]]))
  <2>1. pc[t] = "return" /\ pc[t] \in Holding /\ pc[t] \notin Waiting
    BY <1>3 DEF Return, At, Holding, Waiting
  <2>2. Finish(t, "done", trace) /\ UNCHANGED <<current, params, signalVars, handlerVars>>
    BY <1>3 DEF Return
  <2>3. NoneInterrupted => trace = FormatStackTrace(Stack(args[call[t]].tid))
    <3>1. args[call[t]].tid \in Threads
      BY <2>1 DEF TraceInv, CallInv, MadeInv, Args
    <3>2. NoneInterrupted => Complete(args[call[t]].tid, params[call[t]])
      BY <2>1 DEF TraceInv, ParamsInv
    <3> QED
      BY <3>1, <3>2, CompleteCounted
  <2> HIDE DEF trace
  <2> QED
    BY <2>1, <2>2, <2>3, FinishStep
<1> QED
  BY <1>1, <1>2, <1>3

LEMMA EventSteps ==
  ASSUME TraceInv, NEW t \in Threads, FutexWait(t) \/ FutexWaitInterrupted(t) \/ WaitChecks(t)
  PROVE  TraceInv'
<1>1. /\ pc[t] \in Waiting
      /\ UNCHANGED <<callVars, mutex, current, params, signalVars, handlerVars>>
  BY DEF FutexWait, FutexWaitInterrupted, WaitChecks, At, Waiting
<1>2. \E place \in Waiting \cup {"restore"} :
        /\ pc' = [pc EXCEPT ![t] = place]
        /\ place = "restore" => params[call[t]].futex # 0
  BY DEF FutexWait, FutexWaitInterrupted, WaitChecks, Goto, Waiting
<1> QED
  BY <1>1, <1>2, WaitSteps

LEMMA TraceStep == TraceInv /\ [Next]_vars => TraceInv'
<1> SUFFICES ASSUME TraceInv, [Next]_vars PROVE TraceInv'
  OBVIOUS
<1>1. CASE Next
  <2>1. PICK t \in Threads :
          \/ RequestStep(t) \/ HandlerStep(t)
          \/ InstallFails(t) \/ FutexWaitInterrupted(t) \/ Exit(t)
          \/ GetOwnStackTrace(t) \/ \E tid \in Threads : GetStackTrace(t, tid)
    BY <1>1 DEF Next
  <2>2. CASE RequestStep(t)
    BY <2>2, LockStep, BeforeKillSteps, KillStep, ReturnSteps, EventSteps, RestoreStep
       DEF RequestStep
  <2>3. CASE HandlerStep(t)
    BY <2>3, DeliverStep, LoadsStep, UnwindStep, UnwindEndsStep, SignalStoresStep, SignalWakesStep
       DEF HandlerStep
  <2> QED
    BY <2>1, <2>2, <2>3, ReturnSteps, EventSteps, ExitStep, OwnTraceStep, GetTraceStep
<1>2. CASE UNCHANGED vars
  <2>1. /\ UNCHANGED <<pc, callVars, mutex, current, params, handler, old_act>>
        /\ UNCHANGED <<hpc, seen, left, slot, pending>>
    BY <1>2 DEF vars, signalVars, handlerVars
  <2>2. /\ CallInv' /\ ParamsInv' /\ TraceIsOfTarget' /\ HandlerInv'
        /\ NoneInterrupted' = NoneInterrupted
    BY <2>1, HandlerFrame
  <2>3. Shape' /\ MadeInv'
    BY <2>1, <2>2 DEF TraceInv, Shape, MadeInv, Bounded, callVars
  <2>4. SignalInv'
    BY <2>1, <2>2 DEF TraceInv, SignalInv, Interrupted, Serves, callVars
  <2> QED
    BY <2>2, <2>3, <2>4 DEF TraceInv
<1> QED
  BY <1>1, <1>2

-----------------------------------------------------------------------------
(* The inductive invariant of CaptureRawStacktrace and SignalHandler.      *)
THEOREM TraceInvCorrect == Spec => []TraceInv
BY TraceInit, TraceStep, PTL DEF Spec

(* As long as no wait was interrupted, GetStackTrace(tid) returns the      *)
(* innermost frames of tid, all that fit and no others, whichever threads  *)
(* capture each other and however late the handlers run.                   *)
THEOREM TraceIsOfTargetCorrect == Spec => []TraceIsOfTarget
<1>1. TraceInv => TraceIsOfTarget
  BY DEF TraceInv
<1> QED
  BY <1>1, TraceInvCorrect, PTL

(* As long as no wait was interrupted, UnwindBacktrace never writes beyond *)
(* the array, though its check, its store and its increment are steps of   *)
(* their own, and the handler writes only to the frame of a call that has  *)
(* not returned.                                                           *)
THEOREM NoStrayWritesCorrect == Spec => []NoStrayWrites
<1>1. TraceInv => NoStrayWrites
  <2> SUFFICES ASSUME TraceInv, NoneInterrupted
               PROVE  /\ \A c \in Calls : DOMAIN params[c].addresses \subseteq 1 .. kMaxStackSize
                      /\ \A t \in Threads :
                           hpc[t] \in Walking \cup {"store"} => status[seen[t]] = "none"
    BY DEF NoStrayWrites, NoneInterrupted, Walking
  <2>1. \A c \in Calls : DOMAIN params[c].addresses \subseteq 1 .. kMaxStackSize
    BY DEF TraceInv, MadeInv, Bounded
  <2>2. ASSUME NEW t \in Threads, hpc[t] \in Walking \cup {"store"} PROVE status[seen[t]] = "none"
    <3>1. PICK u \in Threads : Serves(t, u)
      BY <2>2 DEF TraceInv, SignalInv, Interrupted
    <3> QED
      BY <2>2, <3>1 DEF TraceInv, CallInv, Serves, Waiting
  <2> QED
    BY <2>1, <2>2
<1> QED
  BY <1>1, TraceInvCorrect, PTL

(* The signal has its old action between calls, as long as no call failed. *)
THEOREM HandlerIsTemporaryCorrect == Spec => []HandlerIsTemporary
<1>1. TraceInv => HandlerIsTemporary
  BY StacktraceAssumption DEF TraceInv, HandlerInv, HandlerIsTemporary, Shape
<1> QED
  BY <1>1, TraceInvCorrect, PTL

=============================================================================
