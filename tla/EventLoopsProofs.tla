-------------------------- MODULE EventLoopsProofs --------------------------
(***************************************************************************)
(* Proofs, for every set of loops and queues of any length, that a thread  *)
(* in BlockingCall has exactly one task with the loop it has called until  *)
(* its event is set, and none anywhere else.                               *)
(***************************************************************************)
EXTENDS EventLoops, SequenceTheorems, FiniteSetTheorems, TLAPS

Callers == Loops \cup {None}

(* Where a caller's tasks are in a queue.                                  *)
Places(l, queue) == {i \in DOMAIN queue : queue[i] = l}

NoTask(l, m) ==
  Places(l, pending[m]) = {} /\ Places(l, batch[m]) = {} /\ cur[m] # l

(* A caller's only place in a queue.                                       *)
OnePlace(l, queue) == \E i \in DOMAIN queue : Places(l, queue) = {i}

OneTask(l, m) ==
  \/ OnePlace(l, pending[m]) /\ Places(l, batch[m]) = {} /\ cur[m] # l
  \/ Places(l, pending[m]) = {} /\ OnePlace(l, batch[m]) /\ cur[m] # l
  \/ Places(l, pending[m]) = {} /\ Places(l, batch[m]) = {} /\ cur[m] = l

(* The call has posted its task and still waits for it.                    *)
UnderWay(l, m) == callee[l] = m /\ l \notin posting \cup done

CallInv ==
  \A l, m \in Loops : (UnderWay(l, m) => OneTask(l, m)) /\ (~UnderWay(l, m) => NoTask(l, m))

(* A call posts before its event is set, an event is set only of a thread  *)
(* that waits, and the batch and the running task are gone with the for    *)
(* loop over them.                                                         *)
PhaseInv ==
  /\ posting \cap done = {}
  /\ done \subseteq {l \in Loops : callee[l] # None}
  /\ \A l \in Loops : /\ cur[l] # None => pc[l] = "task"
                      /\ batch[l] # <<>> => pc[l] \in {"next", "task"}

LoopsInv == TypeOK /\ PhaseInv /\ CallInv

-----------------------------------------------------------------------------
(* Queues and the places in them.                                          *)
LEMMA PlacesEmpty == \A l : Places(l, <<>>) = {}
BY EmptySeq DEF Places

LEMMA PlacesAppend ==
  ASSUME NEW S, NEW s \in Seq(S), NEW x \in S, NEW l
  PROVE  /\ x # l => Places(l, Append(s, x)) = Places(l, s)
         /\ x # l /\ OnePlace(l, s) => OnePlace(l, Append(s, x))
         /\ x = l /\ Places(l, s) = {} => OnePlace(l, Append(s, x))
<1>1. /\ Len(s) \in Nat /\ DOMAIN s = 1 .. Len(s)
      /\ DOMAIN Append(s, x) = 1 .. Len(s) + 1 /\ Append(s, x)[Len(s) + 1] = x
      /\ \A i \in DOMAIN s : Append(s, x)[i] = s[i]
  BY AppendProperties, LenProperties
<1>2. DOMAIN Append(s, x) = DOMAIN s \cup {Len(s) + 1}
  BY <1>1
<1>3. x # l => Places(l, Append(s, x)) = Places(l, s)
  BY <1>1, <1>2 DEF Places
<1>4. x = l /\ Places(l, s) = {} => Places(l, Append(s, x)) = {Len(s) + 1}
  BY <1>1, <1>2 DEF Places
<1> QED
  BY <1>2, <1>3, <1>4 DEF OnePlace

LEMMA PlacesTail ==
  ASSUME NEW S, NEW s \in Seq(S), s # <<>>, NEW l
  PROVE  /\ Places(l, s) = {} => Head(s) # l /\ Places(l, Tail(s)) = {}
         /\ OnePlace(l, s) /\ Head(s) = l => Places(l, Tail(s)) = {}
         /\ OnePlace(l, s) /\ Head(s) # l => OnePlace(l, Tail(s))
<1>1. /\ Len(s) \in Nat \ {0} /\ DOMAIN s = 1 .. Len(s) /\ Head(s) = s[1]
      /\ DOMAIN Tail(s) = 1 .. Len(s) - 1 /\ \A i \in 1 .. Len(s) - 1 : Tail(s)[i] = s[i + 1]
  BY HeadTailProperties, EmptySeq
<1>2. /\ 1 \in DOMAIN s
      /\ \A i \in DOMAIN Tail(s) : i + 1 \in DOMAIN s /\ i + 1 # 1 /\ Tail(s)[i] = s[i + 1]
      /\ \A i \in DOMAIN s : i # 1 => i - 1 \in DOMAIN Tail(s) /\ Tail(s)[i - 1] = s[i]
  BY <1>1
<1>3. Places(l, s) = {} => Head(s) # l /\ Places(l, Tail(s)) = {}
  BY <1>1, <1>2 DEF Places
<1>4. ASSUME NEW i \in DOMAIN s, Places(l, s) = {i}, Head(s) = l PROVE Places(l, Tail(s)) = {}
  <2>1. \A j \in DOMAIN s : s[j] = l => j = 1
    BY <1>1, <1>2, <1>4 DEF Places
  <2> QED
    BY <1>2, <2>1 DEF Places
<1>5. ASSUME NEW i \in DOMAIN s, Places(l, s) = {i}, Head(s) # l PROVE OnePlace(l, Tail(s))
  <2>1. /\ s[i] = l /\ i # 1 /\ \A j \in DOMAIN s : s[j] = l => j = i
    BY <1>1, <1>5 DEF Places
  <2>2. i - 1 \in DOMAIN Tail(s) /\ Tail(s)[i - 1] = l
    BY <1>2, <2>1
  <2>3. \A j \in DOMAIN Tail(s) : Tail(s)[j] = l => j = i - 1
    BY <1>1, <1>2, <2>1
  <2>4. Places(l, Tail(s)) = {i - 1}
    BY <2>2, <2>3 DEF Places
  <2> QED
    BY <2>2, <2>4 DEF OnePlace
<1> QED
  BY <1>3, <1>4, <1>5 DEF OnePlace

LEMMA PlacesRange ==
  ASSUME NEW s, NEW l
  PROVE  Places(l, s) = {} <=> l \notin Range(s)
BY DEF Places, Range

(* The number of a caller's tasks, from their places.                      *)
LEMMA TasksCounted ==
  ASSUME NEW l, NEW m
  PROVE  /\ NoTask(l, m) => Cardinality(TasksFor(l, m)) = 0
         /\ OneTask(l, m) => Cardinality(TasksFor(l, m)) = 1
<1> DEFINE P == {<<"pending", i>> : i \in Places(l, pending[m])}
           B == {<<"batch", i>> : i \in Places(l, batch[m])}
           C == {<<"cur", 0>> : i \in {i \in {0} : cur[m] = l}}
<1>1. TasksFor(l, m) = P \cup B \cup C
  BY DEF TasksFor, Places
<1>2. /\ Places(l, pending[m]) = {} => P = {}
      /\ Places(l, batch[m]) = {} => B = {}
      /\ cur[m] # l => C = {}
      /\ cur[m] = l => C = {<<"cur", 0>>}
  OBVIOUS
<1>3. /\ \A i : Places(l, pending[m]) = {i} => P = {<<"pending", i>>}
      /\ \A i : Places(l, batch[m]) = {i} => B = {<<"batch", i>>}
  OBVIOUS
<1>4. NoTask(l, m) => TasksFor(l, m) = {}
  BY <1>1, <1>2 DEF NoTask
<1>5. OneTask(l, m) => \E x : TasksFor(l, m) = {x}
  <2> HIDE DEF P, B, C
  <2>1. CASE OnePlace(l, pending[m]) /\ Places(l, batch[m]) = {} /\ cur[m] # l
    <3>1. PICK i \in DOMAIN pending[m] : Places(l, pending[m]) = {i}
      BY <2>1 DEF OnePlace
    <3>2. TasksFor(l, m) = {<<"pending", i>>}
      BY <1>1, <1>2, <1>3, <2>1, <3>1
    <3> QED
      BY <3>2
  <2>2. CASE Places(l, pending[m]) = {} /\ OnePlace(l, batch[m]) /\ cur[m] # l
    <3>1. PICK i \in DOMAIN batch[m] : Places(l, batch[m]) = {i}
      BY <2>2 DEF OnePlace
    <3>2. TasksFor(l, m) = {<<"batch", i>>}
      BY <1>1, <1>2, <1>3, <2>2, <3>1
    <3> QED
      BY <3>2
  <2>3. CASE Places(l, pending[m]) = {} /\ Places(l, batch[m]) = {} /\ cur[m] = l
    <3>1. TasksFor(l, m) = {<<"cur", 0>>}
      BY <1>1, <1>2, <2>3
    <3> QED
      BY <3>1
  <2> QED
    BY <2>1, <2>2, <2>3 DEF OneTask
<1> QED
  BY <1>4, <1>5, FS_EmptySet, FS_Singleton

-----------------------------------------------------------------------------
(* The types, variable by variable.                                        *)
Flags == [Loops -> BOOLEAN]

LEMMA Types ==
  TypeOK => /\ running \in Flags /\ wakeup \in Flags /\ timerEv \in Flags
            /\ sockEv \in Flags /\ hasArt \in Flags
            /\ pending \in [Loops -> Seq(Callers)] /\ batch \in [Loops -> Seq(Callers)]
            /\ cur \in [Loops -> Callers] /\ callee \in [Loops -> Callers]
BY DEF TypeOK, Flags, Callers

LEMMA LoopsInit == Init => LoopsInv
<1> SUFFICES ASSUME Init PROVE LoopsInv
  OBVIOUS
<1>1. <<>> \in Seq(Loops \cup {None})
  BY EmptySeq
<1>2. /\ \A v \in BOOLEAN : Each(v) \in [Loops -> BOOLEAN]
      /\ Each(None) \in [Loops -> Loops \cup {None}]
      /\ Each(<<>>) \in [Loops -> Seq(Loops \cup {None})]
      /\ Each("wait") \in [Loops -> {"wait", "next"} \cup UserCode]
  BY <1>1 DEF Each, UserCode
<1>3. TypeOK
  BY <1>2, EventLoopsAssumption DEF Init, TypeOK, Each
<1>4. PhaseInv
  BY DEF Init, PhaseInv, Each
<1>5. CallInv
  <2>1. \A l, m \in Loops : ~UnderWay(l, m) /\ NoTask(l, m)
    BY PlacesEmpty, EventLoopsAssumption DEF Init, UnderWay, NoTask, Each
  <2> QED
    BY <2>1 DEF CallInv
<1> QED
  BY <1>3, <1>4, <1>5 DEF LoopsInv

(* What a step leaves alone of a loop's tasks and of the calls.            *)
SameTasks(m) == pending'[m] = pending[m] /\ batch'[m] = batch[m] /\ cur'[m] = cur[m]

LEMMA TasksSame ==
  ASSUME NEW l, NEW m, SameTasks(m)
  PROVE  (NoTask(l, m) <=> NoTask(l, m)') /\ (OneTask(l, m) <=> OneTask(l, m)')
BY DEF SameTasks, NoTask, OneTask

(* A task of its own, or of another loop, is put into a loop's queue.      *)
LEMMA TasksPush ==
  ASSUME TypeOK, NEW m \in Loops, NEW c \in Callers, Push(m, c), NEW l \in Loops
  PROVE  /\ l # c /\ NoTask(l, m) => NoTask(l, m)'
         /\ l # c /\ OneTask(l, m) => OneTask(l, m)'
         /\ l = c /\ NoTask(l, m) => OneTask(l, m)'
         /\ \A k \in Loops : k # m => SameTasks(k)
<1>1. /\ pending \in [Loops -> Seq(Callers)] /\ pending[m] \in Seq(Callers)
      /\ pending'[m] = Append(pending[m], c) /\ batch' = batch /\ cur' = cur
  BY Types DEF Push
<1>2. \A k \in Loops : k # m => SameTasks(k)
  BY <1>1 DEF Push, SameTasks
<1>3. /\ c # l => Places(l, pending'[m]) = Places(l, pending[m])
      /\ c # l /\ OnePlace(l, pending[m]) => OnePlace(l, pending'[m])
      /\ c = l /\ Places(l, pending[m]) = {} => OnePlace(l, pending'[m])
  BY <1>1, PlacesAppend
<1> QED
  BY <1>1, <1>2, <1>3 DEF NoTask, OneTask

-----------------------------------------------------------------------------
(* A step that only touches events, and the place of a loop in its round.  *)
LEMMA EventSteps ==
  ASSUME LoopsInv, NEW l \in Loops,
         \/ TimerFires(l) \/ NetworkActivity(l) \/ ArtificiallyNotifyEvent(l)
         \/ RunPendingTasksReturns(l) \/ ProcessTimerTasks(l)
         \/ WaitReturnsSocketEvent(l) \/ WaitTimesOut(l)
  PROVE  LoopsInv'
<1> USE DEF TimerFires, NetworkActivity, ArtificiallyNotifyEvent, RunPendingTasksReturns,
     ProcessTimerTasks, WaitReturnsSocketEvent, WaitTimesOut, ProcessSocketEvents
<1>1. TypeOK /\ PhaseInv /\ CallInv
  BY DEF LoopsInv
<1>2. UNCHANGED <<running, pending, batch, cur, callee, posting, done>>
  BY DEF queueVars, callVars
<1>3. /\ wakeup' \in Flags /\ timerEv' \in Flags /\ sockEv' \in Flags /\ hasArt' \in Flags
      /\ art' \subseteq Loops /\ missed' \subseteq Loops
  <2>1. wakeup' \in Flags /\ timerEv' \in Flags /\ hasArt' \in Flags
    BY <1>1, Types DEF Flags, eventVars, artVars
  <2>2. sockEv' \in Flags
    BY <1>1, Types DEF Flags, eventVars
  <2>3. art' \subseteq Loops /\ missed' \subseteq Loops
    BY <1>1 DEF TypeOK, eventVars, artVars
  <2> QED
    BY <2>1, <2>2, <2>3
<1>4. \/ pc' = pc
      \/ /\ pc[l] \in {"wait", "next"}
         /\ pc[l] = "next" => batch[l] = <<>>
         /\ \E label \in {"wait", "timer", "socket", "timeout"} : pc' = [pc EXCEPT ![l] = label]
  BY DEF Goto, Waits
<1>5. /\ pc' \in [Loops -> {"wait", "next"} \cup UserCode]
      /\ \A k \in Loops : callee[k] # None => pc'[k] \in UserCode
      /\ \A k \in Loops : pc'[k] = "wait" => batch[k] = <<>>
      /\ \A k \in Loops : cur[k] # None => pc'[k] = "task"
      /\ \A k \in Loops : batch[k] # <<>> => pc'[k] \in {"next", "task"}
  <2>1. /\ pc \in [Loops -> {"wait", "next"} \cup UserCode]
        /\ \A k \in Loops : callee[k] # None => pc[k] \in UserCode
        /\ \A k \in Loops : pc[k] = "wait" => batch[k] = <<>>
        /\ \A k \in Loops : cur[k] # None => pc[k] = "task"
        /\ \A k \in Loops : batch[k] # <<>> => pc[k] \in {"next", "task"}
    BY <1>1 DEF TypeOK, PhaseInv
  <2> QED
    BY <1>4, <2>1 DEF UserCode
<1>6. TypeOK'
  BY <1>1, <1>2, <1>3, <1>5 DEF TypeOK, Flags
<1>7. PhaseInv'
  BY <1>1, <1>2, <1>5 DEF PhaseInv
<1>8. CallInv'
  <2>1. \A k, m \in Loops : UnderWay(k, m)' <=> UnderWay(k, m)
    BY <1>2 DEF UnderWay
  <2>2. \A m \in Loops : SameTasks(m)
    BY <1>2 DEF SameTasks
  <2> QED
    BY <1>1, <2>1, <2>2, TasksSame DEF CallInv
<1> QED
  BY <1>6, <1>7, <1>8 DEF LoopsInv

(* Push keeps the types.                                                   *)
LEMMA PushTypes ==
  ASSUME TypeOK, NEW m \in Loops, NEW c \in Callers, Push(m, c)
  PROVE  /\ pending' \in [Loops -> Seq(Callers)] /\ wakeup' \in Flags
         /\ UNCHANGED <<running, batch, cur, timerEv, sockEv, hasArt, art, missed, pc>>
<1>1. pending \in [Loops -> Seq(Callers)] /\ Append(pending[m], c) \in Seq(Callers)
  BY Types, AppendProperties
<1>2. pending' \in [Loops -> Seq(Callers)]
  BY <1>1 DEF Push
<1>3. wakeup' \in Flags
  BY Types DEF Push, Flags
<1> QED
  BY <1>2, <1>3 DEF Push, artVars

LEMMA PostStep ==
  ASSUME LoopsInv, NEW m \in Loops, PostTask(m)
  PROVE  LoopsInv'
<1>1. /\ TypeOK /\ PhaseInv /\ CallInv /\ None \in Callers /\ Push(m, None)
      /\ UNCHANGED <<callee, posting, done>>
  BY DEF LoopsInv, PostTask, callVars, artVars, Callers
<1>2. /\ pending' \in [Loops -> Seq(Callers)] /\ wakeup' \in Flags
      /\ UNCHANGED <<running, batch, cur, timerEv, sockEv, hasArt, art, missed, pc>>
  BY <1>1, PushTypes
<1>3. TypeOK'
  BY <1>1, <1>2 DEF TypeOK, Flags, Callers
<1>4. PhaseInv'
  BY <1>1, <1>2 DEF PhaseInv
<1>5. ASSUME NEW l \in Loops, NEW k \in Loops
      PROVE  (NoTask(l, k) => NoTask(l, k)') /\ (OneTask(l, k) => OneTask(l, k)')
  BY <1>1, TasksPush, TasksSame, EventLoopsAssumption
<1>6. CallInv'
  BY <1>1, <1>5 DEF CallInv, UnderWay
<1> QED
  BY <1>3, <1>4, <1>6 DEF LoopsInv

LEMMA CallPostsStep ==
  ASSUME LoopsInv, NEW c \in Loops, BlockingCallPosts(c)
  PROVE  LoopsInv'
<1>1. /\ TypeOK /\ PhaseInv /\ CallInv /\ c \in Callers /\ Push(callee[c], c)
      /\ c \in posting /\ posting' = posting \ {c} /\ UNCHANGED <<callee, done>>
  BY DEF LoopsInv, BlockingCallPosts, artVars, Callers
<1>2. callee[c] \in Loops /\ c \notin done
  BY <1>1, Types DEF TypeOK, PhaseInv, Callers
<1>3. /\ pending' \in [Loops -> Seq(Callers)] /\ wakeup' \in Flags
      /\ UNCHANGED <<running, batch, cur, timerEv, sockEv, hasArt, art, missed, pc>>
  BY <1>1, <1>2, PushTypes
<1>4. TypeOK'
  BY <1>1, <1>3 DEF TypeOK, Flags, Callers
<1>5. PhaseInv'
  BY <1>1, <1>3 DEF PhaseInv
<1>6. ASSUME NEW l \in Loops, NEW k \in Loops
      PROVE  /\ l # c \/ k # callee[c] => (NoTask(l, k) => NoTask(l, k)')
                                          /\ (OneTask(l, k) => OneTask(l, k)')
             /\ l = c /\ k = callee[c] => (NoTask(l, k) => OneTask(l, k)')
  BY <1>1, <1>2, TasksPush, TasksSame
<1>7. CallInv'
  <2> SUFFICES ASSUME NEW l \in Loops, NEW k \in Loops
               PROVE  (UnderWay(l, k)' => OneTask(l, k)') /\ (~UnderWay(l, k)' => NoTask(l, k)')
    BY DEF CallInv
  <2>1. CASE l = c /\ k = callee[c]
    BY <1>1, <1>2, <1>6, <2>1 DEF CallInv, UnderWay
  <2>2. CASE l # c \/ k # callee[c]
    <3>1. UnderWay(l, k)' <=> UnderWay(l, k)
      BY <1>1, <2>2 DEF UnderWay
    <3> QED
      BY <1>1, <1>6, <2>2, <3>1 DEF CallInv
  <2> QED
    BY <2>1, <2>2
<1> QED
  BY <1>4, <1>5, <1>7 DEF LoopsInv

LEMMA CallStep ==
  ASSUME LoopsInv, NEW c \in Loops, NEW m \in Loops, BlockingCall(c, m)
  PROVE  LoopsInv'
<1>1. /\ TypeOK /\ PhaseInv /\ CallInv /\ pc[c] \in UserCode /\ callee[c] = None /\ c # m
      /\ callee' = [callee EXCEPT ![c] = m] /\ posting' = posting \cup {c}
      /\ UNCHANGED <<running, pending, batch, cur, wakeup, timerEv, sockEv, hasArt, art,
                     missed, pc, done>>
  BY DEF LoopsInv, BlockingCall, InUserCode, queueVars, eventVars, artVars
<1>2. /\ callee \in [Loops -> Callers] /\ callee' \in [Loops -> Callers]
      /\ callee'[c] = m /\ m # None /\ \A k \in Loops : k # c => callee'[k] = callee[k]
      /\ c \notin done
  BY <1>1, Types, EventLoopsAssumption DEF Callers, PhaseInv
<1>3. TypeOK'
  <2>1. \A k \in Loops : callee'[k] # k /\ (callee'[k] # None => pc[k] \in UserCode)
    BY <1>1, <1>2 DEF TypeOK
  <2>2. posting' \subseteq {k \in Loops : callee'[k] # None}
    BY <1>1, <1>2 DEF TypeOK
  <2> QED
    BY <1>1, <1>2, <2>1, <2>2 DEF TypeOK, Callers
<1>4. PhaseInv'
  BY <1>1, <1>2 DEF PhaseInv
<1>5. \A l, k \in Loops : UnderWay(l, k)' <=> UnderWay(l, k)
  BY <1>1, <1>2, EventLoopsAssumption DEF UnderWay
<1>6. CallInv'
  BY <1>1, <1>5 DEF CallInv, NoTask, OneTask
<1> QED
  BY <1>3, <1>4, <1>6 DEF LoopsInv

LEMMA CallReturnsStep ==
  ASSUME LoopsInv, NEW c \in Loops, BlockingCallReturns(c)
  PROVE  LoopsInv'
<1>1. /\ TypeOK /\ PhaseInv /\ CallInv /\ c \in done
      /\ callee' = [callee EXCEPT ![c] = None] /\ done' = done \ {c}
      /\ UNCHANGED <<running, pending, batch, cur, wakeup, timerEv, sockEv, hasArt, art, missed,
                     pc, posting>>
  BY DEF LoopsInv, BlockingCallReturns, queueVars, eventVars, artVars
<1>2. /\ callee \in [Loops -> Callers] /\ callee' \in [Loops -> Callers]
      /\ callee'[c] = None /\ \A k \in Loops : k # c => callee'[k] = callee[k]
      /\ c \notin posting
  BY <1>1, Types DEF Callers, PhaseInv
<1>3. TypeOK'
  <2>1. \A k \in Loops : callee'[k] # k /\ (callee'[k] # None => pc[k] \in UserCode)
    BY <1>1, <1>2, EventLoopsAssumption DEF TypeOK
  <2>2. posting' \subseteq {k \in Loops : callee'[k] # None}
    BY <1>1, <1>2 DEF TypeOK
  <2>3. done' \subseteq Loops
    BY <1>1 DEF TypeOK
  <2> QED
    BY <1>1, <1>2, <2>1, <2>2, <2>3 DEF TypeOK, Callers
<1>4. PhaseInv'
  BY <1>1, <1>2 DEF PhaseInv
<1>5. \A l, k \in Loops : UnderWay(l, k)' <=> UnderWay(l, k)
  BY <1>1, <1>2, EventLoopsAssumption DEF UnderWay
<1>6. CallInv'
  BY <1>1, <1>5 DEF CallInv, NoTask, OneTask
<1> QED
  BY <1>3, <1>4, <1>6 DEF LoopsInv

(* Quit destroys the tasks of pending_, whose Cleanups set the events of   *)
(* the callers.                                                            *)
LEMMA QuitStep ==
  ASSUME LoopsInv, NEW m \in Loops, Quit(m)
  PROVE  LoopsInv'
<1>1. /\ TypeOK /\ PhaseInv /\ CallInv
      /\ done' = done \cup (Range(pending[m]) \ {None})
      /\ pending' = [pending EXCEPT ![m] = <<>>]
      /\ running' = [running EXCEPT ![m] = FALSE]
      /\ UNCHANGED <<batch, cur, wakeup, timerEv, sockEv, hasArt, art, missed, pc, callee, posting>>
  BY DEF LoopsInv, Quit, eventVars, artVars
<1>2. \A l \in Range(pending[m]) : l # None => l \in Loops
  BY <1>1, Types, ElementOfSeq, LenProperties DEF Range, Callers
<1>3. \A l \in Loops : l \in Range(pending[m]) => UnderWay(l, m)
  BY <1>1, PlacesRange DEF CallInv, NoTask
<1>4. \A l \in Loops : l \in done' <=> l \in done \/ l \in Range(pending[m])
  BY <1>1, EventLoopsAssumption
<1>5. TypeOK'
  <2>1. pending' \in [Loops -> Seq(Callers)]
    BY <1>1, Types, EmptySeq
  <2>2. running' \in Flags
    BY <1>1, Types DEF Flags
  <2>3. done' \subseteq Loops
    BY <1>1, <1>2 DEF TypeOK
  <2> QED
    BY <1>1, <2>1, <2>2, <2>3 DEF TypeOK, Flags, Callers
<1>6. PhaseInv'
  <2>1. posting' \cap done' = {}
    BY <1>1, <1>2, <1>3 DEF PhaseInv, UnderWay
  <2>2. done' \subseteq {l \in Loops : callee'[l] # None}
    BY <1>1, <1>2, <1>3, EventLoopsAssumption DEF PhaseInv, UnderWay
  <2> QED
    BY <1>1, <2>1, <2>2 DEF PhaseInv
<1>7. CallInv'
  <2> SUFFICES ASSUME NEW l \in Loops, NEW k \in Loops
               PROVE  (UnderWay(l, k)' => OneTask(l, k)') /\ (~UnderWay(l, k)' => NoTask(l, k)')
    BY DEF CallInv
  <2>1. CASE l \in Range(pending[m])
    <3>1. UnderWay(l, m) /\ Places(l, pending[m]) # {} /\ ~UnderWay(l, k)'
      BY <1>3, <1>4, <2>1, PlacesRange DEF UnderWay
    <3>2. Places(l, batch[m]) = {} /\ cur[m] # l
      BY <1>1, <3>1 DEF CallInv, OneTask
    <3>3. CASE k = m
      <4>1. Places(l, pending'[m]) = {}
        BY <1>1, Types, PlacesEmpty
      <4> QED
        BY <1>1, <3>1, <3>2, <3>3, <4>1 DEF NoTask
    <3>4. CASE k # m
      <4>1. NoTask(l, k) /\ SameTasks(k)
        BY <1>1, <3>1, <3>4, Types DEF CallInv, UnderWay, SameTasks
      <4> QED
        BY <3>1, <4>1, TasksSame
    <3> QED
      BY <3>3, <3>4
  <2>2. CASE l \notin Range(pending[m])
    <3>1. UnderWay(l, k)' <=> UnderWay(l, k)
      BY <1>1, <1>4, <2>2 DEF UnderWay
    <3>2. Places(l, pending'[k]) = Places(l, pending[k])
          /\ (OnePlace(l, pending[k]) => OnePlace(l, pending'[k]))
      <4>1. CASE k = m
        BY <1>1, <2>2, <4>1, Types, PlacesEmpty, PlacesRange DEF OnePlace
      <4>2. CASE k # m
        BY <1>1, <4>2, Types
      <4> QED
        BY <4>1, <4>2
    <3> QED
      BY <1>1, <3>1, <3>2 DEF CallInv, NoTask, OneTask
  <2> QED
    BY <2>1, <2>2
<1> QED
  BY <1>5, <1>6, <1>7 DEF LoopsInv

(* RunPendingTasks swaps pending_ into the batch, which is empty.          *)
LEMMA SwapStep ==
  ASSUME LoopsInv, NEW m \in Loops, ProcessPendingTasks(m)
  PROVE  LoopsInv'
<1>1. /\ TypeOK /\ PhaseInv /\ CallInv /\ pc[m] = "wait"
      /\ wakeup' = [wakeup EXCEPT ![m] = FALSE]
      /\ batch' = [batch EXCEPT ![m] = pending[m]]
      /\ pending' = [pending EXCEPT ![m] = <<>>]
      /\ pc' = [pc EXCEPT ![m] = "next"]
      /\ UNCHANGED <<running, cur, timerEv, sockEv, hasArt, art, missed, callee, posting, done>>
  BY DEF LoopsInv, ProcessPendingTasks, Waits, Goto, callVars, artVars
<1>2. /\ batch[m] = <<>> /\ callee[m] = None /\ cur[m] = None
      /\ batch'[m] = pending[m] /\ pending'[m] = <<>> /\ pc'[m] = "next"
      /\ \A k \in Loops : k # m => batch'[k] = batch[k] /\ pending'[k] = pending[k]
                                   /\ pc'[k] = pc[k]
  <2>1. callee[m] = None
    BY <1>1 DEF TypeOK, UserCode
  <2> QED
    BY <1>1, <2>1, Types DEF TypeOK, PhaseInv
<1>3. TypeOK'
  <2>1. pending' \in [Loops -> Seq(Callers)] /\ batch' \in [Loops -> Seq(Callers)]
    BY <1>1, Types, EmptySeq
  <2>2. wakeup' \in Flags
    BY <1>1, Types DEF Flags
  <2>3. pc' \in [Loops -> {"wait", "next"} \cup UserCode]
    BY <1>1 DEF TypeOK
  <2>4. \A k \in Loops : /\ callee'[k] # k /\ (callee'[k] # None => pc'[k] \in UserCode)
                         /\ pc'[k] = "wait" => batch'[k] = <<>>
    BY <1>1, <1>2 DEF TypeOK
  <2> QED
    BY <1>1, <2>1, <2>2, <2>3, <2>4 DEF TypeOK, Flags, Callers
<1>4. PhaseInv'
  BY <1>1, <1>2 DEF PhaseInv
<1>5. CallInv'
  <2> SUFFICES ASSUME NEW l \in Loops, NEW k \in Loops
               PROVE  (UnderWay(l, k)' => OneTask(l, k)') /\ (~UnderWay(l, k)' => NoTask(l, k)')
    BY DEF CallInv
  <2>1. UnderWay(l, k)' <=> UnderWay(l, k)
    BY <1>1 DEF UnderWay
  <2>2. CASE k = m
    <3>1. /\ Places(l, pending'[m]) = {} /\ Places(l, batch[m]) = {}
          /\ ~OnePlace(l, batch[m]) /\ cur[m] # l
      BY <1>2, PlacesEmpty, EventLoopsAssumption DEF OnePlace
    <3> QED
      BY <1>1, <1>2, <2>1, <2>2, <3>1 DEF CallInv, NoTask, OneTask
  <2>3. CASE k # m
    <3>1. SameTasks(k)
      BY <1>1, <1>2, <2>3 DEF SameTasks
    <3> QED
      BY <1>1, <2>1, <3>1, TasksSame DEF CallInv
  <2> QED
    BY <2>2, <2>3
<1> QED
  BY <1>3, <1>4, <1>5 DEF LoopsInv

LEMMA StartStep ==
  ASSUME LoopsInv, NEW m \in Loops, StartTask(m)
  PROVE  LoopsInv'
<1>1. /\ TypeOK /\ PhaseInv /\ CallInv /\ pc[m] = "next" /\ batch[m] # <<>>
      /\ cur' = [cur EXCEPT ![m] = Head(batch[m])]
      /\ batch' = [batch EXCEPT ![m] = Tail(batch[m])]
      /\ pc' = [pc EXCEPT ![m] = "task"]
      /\ UNCHANGED <<running, pending, wakeup, timerEv, sockEv, hasArt, art,
                     missed, callee, posting, done>>
  BY DEF LoopsInv, StartTask, Goto, callVars, eventVars, artVars
<1>2. /\ callee[m] = None /\ cur[m] = None /\ pc'[m] = "task"
      /\ batch'[m] = Tail(batch[m]) /\ cur'[m] = Head(batch[m])
      /\ \A k \in Loops : k # m => batch'[k] = batch[k] /\ cur'[k] = cur[k] /\ pc'[k] = pc[k]
      /\ batch[m] \in Seq(Callers)
  <2>1. callee[m] = None
    BY <1>1 DEF TypeOK, UserCode
  <2> QED
    BY <1>1, <2>1, Types DEF TypeOK, PhaseInv
<1>3. TypeOK'
  <2>1. Tail(batch[m]) \in Seq(Callers) /\ Head(batch[m]) \in Callers
    BY <1>1, <1>2, HeadTailProperties
  <2>2. batch' \in [Loops -> Seq(Callers)] /\ cur' \in [Loops -> Callers]
    BY <1>1, <2>1, Types
  <2>3. pc' \in [Loops -> {"wait", "next"} \cup UserCode]
    BY <1>1 DEF TypeOK, UserCode
  <2>4. \A k \in Loops : /\ callee'[k] # k /\ (callee'[k] # None => pc'[k] \in UserCode)
                         /\ pc'[k] = "wait" => batch'[k] = <<>>
    BY <1>1, <1>2 DEF TypeOK
  <2> QED
    BY <1>1, <2>2, <2>3, <2>4 DEF TypeOK, Callers
<1>4. PhaseInv'
  BY <1>1, <1>2 DEF PhaseInv
<1>5. CallInv'
  <2> SUFFICES ASSUME NEW l \in Loops, NEW k \in Loops
               PROVE  (UnderWay(l, k)' => OneTask(l, k)') /\ (~UnderWay(l, k)' => NoTask(l, k)')
    BY DEF CallInv
  <2>1. UnderWay(l, k)' <=> UnderWay(l, k)
    BY <1>1 DEF UnderWay
  <2>2. CASE k = m
    <3>1. /\ Places(l, batch[m]) = {} => Head(batch[m]) # l /\ Places(l, batch'[m]) = {}
          /\ OnePlace(l, batch[m]) /\ Head(batch[m]) = l => Places(l, batch'[m]) = {}
          /\ OnePlace(l, batch[m]) /\ Head(batch[m]) # l => OnePlace(l, batch'[m])
      <4>1. /\ Places(l, batch[m]) = {} => Head(batch[m]) # l /\ Places(l, Tail(batch[m])) = {}
            /\ OnePlace(l, batch[m]) /\ Head(batch[m]) = l => Places(l, Tail(batch[m])) = {}
            /\ OnePlace(l, batch[m]) /\ Head(batch[m]) # l => OnePlace(l, Tail(batch[m]))
        BY <1>1, <1>2, PlacesTail
      <4> QED
        BY <1>2, <4>1
    <3>2. cur[m] # l
      BY <1>2, EventLoopsAssumption
    <3>3. pending'[m] = pending[m] /\ cur'[m] = Head(batch[m])
      BY <1>1, <1>2
    <3>4. NoTask(l, m) => NoTask(l, m)'
      BY <3>1, <3>3 DEF NoTask
    <3>5. OneTask(l, m) => OneTask(l, m)'
      BY <3>1, <3>2, <3>3 DEF OneTask
    <3> QED
      BY <1>1, <2>1, <2>2, <3>4, <3>5 DEF CallInv
  <2>3. CASE k # m
    <3>1. SameTasks(k)
      BY <1>1, <1>2, <2>3 DEF SameTasks
    <3> QED
      BY <1>1, <2>1, <3>1, TasksSame DEF CallInv
  <2> QED
    BY <2>2, <2>3
<1> QED
  BY <1>3, <1>4, <1>5 DEF LoopsInv

(* A task returns: the Cleanup in it sets the event of its caller.         *)
LEMMA UserReturnsStep ==
  ASSUME LoopsInv, NEW m \in Loops, UserCodeReturns(m)
  PROVE  LoopsInv'
<1> DEFINE label == IF pc[m] = "task" THEN "next" ELSE "wait"
<1>1. /\ TypeOK /\ PhaseInv /\ CallInv /\ pc[m] \in UserCode /\ callee[m] = None
      /\ done' = done \cup ({cur[m]} \ {None})
      /\ cur' = [cur EXCEPT ![m] = None]
      /\ pc' = [pc EXCEPT ![m] = label]
      /\ UNCHANGED <<running, pending, batch, wakeup, timerEv, hasArt, art,
                     missed, callee, posting>>
  BY DEF LoopsInv, UserCodeReturns, InUserCode, Goto, artVars
<1>2. /\ cur[m] \in Callers /\ cur'[m] = None /\ pc'[m] = label
      /\ \A k \in Loops : k # m => cur'[k] = cur[k] /\ pc'[k] = pc[k]
  BY <1>1, Types DEF TypeOK
<1>3. cur[m] # None => cur[m] \in Loops /\ UnderWay(cur[m], m)
  BY <1>1, <1>2 DEF Callers, CallInv, NoTask
<1>4. TypeOK'
  <2>1. sockEv' \in Flags
    BY <1>1, Types DEF UserCodeReturns, Flags
  <2>2. cur' \in [Loops -> Callers]
    BY <1>1, Types DEF Callers
  <2>3. pc' \in [Loops -> {"wait", "next"} \cup UserCode]
    BY <1>1 DEF TypeOK
  <2>4. done' \subseteq Loops
    BY <1>1, <1>3 DEF TypeOK
  <2>5. \A k \in Loops : /\ callee'[k] # k /\ (callee'[k] # None => pc'[k] \in UserCode)
                         /\ pc'[k] = "wait" => batch'[k] = <<>>
    BY <1>1, <1>2 DEF TypeOK, PhaseInv, UserCode
  <2> QED
    BY <1>1, <2>1, <2>2, <2>3, <2>4, <2>5 DEF TypeOK, Flags, Callers
<1>5. PhaseInv'
  <2>1. posting' \cap done' = {} /\ done' \subseteq {l \in Loops : callee'[l] # None}
    BY <1>1, <1>3, EventLoopsAssumption DEF PhaseInv, UnderWay
  <2>2. \A k \in Loops : /\ cur'[k] # None => pc'[k] = "task"
                         /\ batch'[k] # <<>> => pc'[k] \in {"next", "task"}
    BY <1>1, <1>2 DEF PhaseInv, UserCode
  <2> QED
    BY <2>1, <2>2 DEF PhaseInv
<1>6. CallInv'
  <2> SUFFICES ASSUME NEW l \in Loops, NEW k \in Loops
               PROVE  (UnderWay(l, k)' => OneTask(l, k)') /\ (~UnderWay(l, k)' => NoTask(l, k)')
    BY DEF CallInv
  <2>1. CASE l = cur[m]
    <3>1. UnderWay(l, m) /\ ~UnderWay(l, k)'
      BY <1>1, <1>3, <2>1, EventLoopsAssumption DEF UnderWay
    <3>2. CASE k = m
      BY <1>1, <1>2, <2>1, <3>1, <3>2, EventLoopsAssumption DEF CallInv, OneTask, NoTask
    <3>3. CASE k # m
      <4>1. NoTask(l, k) /\ SameTasks(k)
        BY <1>1, <1>2, <3>1, <3>3 DEF CallInv, UnderWay, SameTasks
      <4> QED
        BY <3>1, <4>1, TasksSame
    <3> QED
      BY <3>2, <3>3
  <2>2. CASE l # cur[m]
    <3>1. UnderWay(l, k)' <=> UnderWay(l, k)
      BY <1>1, <2>2 DEF UnderWay
    <3>2. CASE k = m
      <4>1. pending'[m] = pending[m] /\ batch'[m] = batch[m] /\ cur'[m] # l /\ cur[m] # l
        BY <1>1, <1>2, <2>2, EventLoopsAssumption
      <4>2. NoTask(l, m) => NoTask(l, m)'
        BY <4>1 DEF NoTask
      <4>3. OneTask(l, m) => OneTask(l, m)'
        BY <4>1 DEF OneTask
      <4> QED
        BY <1>1, <3>1, <3>2, <4>2, <4>3 DEF CallInv
    <3>3. CASE k # m
      <4>1. SameTasks(k)
        BY <1>1, <1>2, <3>3 DEF SameTasks
      <4> QED
        BY <1>1, <3>1, <4>1, TasksSame DEF CallInv
    <3> QED
      BY <3>2, <3>3
  <2> QED
    BY <2>1, <2>2
<1> QED
  BY <1>4, <1>5, <1>6 DEF LoopsInv

LEMMA LoopsStep == LoopsInv /\ [Next]_vars => LoopsInv'
<1> SUFFICES ASSUME LoopsInv, [Next]_vars PROVE LoopsInv'
  OBVIOUS
<1>1. CASE Next
  <2>1. PICK l \in Loops :
          \/ LoopStep(l) \/ UserCodeReturns(l)
          \/ PostTask(l) \/ Quit(l) \/ TimerFires(l) \/ NetworkActivity(l)
          \/ ArtificiallyNotifyEvent(l) \/ \E m \in Loops : BlockingCall(l, m)
    BY <1>1 DEF Next
  <2>2. CASE LoopStep(l)
    BY <2>2, EventSteps, SwapStep, StartStep, CallPostsStep, CallReturnsStep DEF LoopStep
  <2> QED
    BY <2>1, <2>2, EventSteps, PostStep, QuitStep, CallStep, UserReturnsStep
<1>2. CASE UNCHANGED vars
  <2>1. UNCHANGED <<running, pending, batch, cur, wakeup, timerEv, sockEv, hasArt, art,
                    missed, pc, callee,
                    posting, done>>
    BY <1>2 DEF vars, queueVars, eventVars, artVars, callVars
  <2>2. TypeOK' /\ PhaseInv'
    BY <2>1 DEF LoopsInv, TypeOK, PhaseInv
  <2>3. CallInv'
    BY <2>1 DEF LoopsInv, CallInv, UnderWay, OneTask, NoTask
  <2> QED
    BY <2>2, <2>3 DEF LoopsInv
<1> QED
  BY <1>1, <1>2

-----------------------------------------------------------------------------
(* The inductive invariant of the loops' queues and of the blocking calls  *)
(* between them.                                                           *)
THEOREM LoopsInvCorrect == Spec => []LoopsInv
BY LoopsInit, LoopsStep, PTL DEF Spec

(* The types, and that no thread waits for itself: BlockingCall on the     *)
(* loop's own thread runs the function at once.                            *)
THEOREM LoopsTypeCorrect == Spec => []TypeOK
<1>1. LoopsInv => TypeOK
  BY DEF LoopsInv
<1> QED
  BY <1>1, LoopsInvCorrect, PTL

(* A thread that blocks in BlockingCall has one task with the called loop, *)
(* in pending_, in the batch or running, or its event is set; no task      *)
(* refers to the event of a call that has returned.                        *)
THEOREM CallIsUnderWayCorrect == Spec => []CallIsUnderWay
<1>1. LoopsInv => CallIsUnderWay
  <2> SUFFICES ASSUME LoopsInv, NEW l \in Loops, NEW m \in Loops
               PROVE  Cardinality(TasksFor(l, m))
                        = IF callee[l] = m /\ l \notin posting \cup done THEN 1 ELSE 0
    BY DEF CallIsUnderWay
  <2> QED
    BY TasksCounted DEF LoopsInv, CallInv, UnderWay
<1> QED
  BY <1>1, LoopsInvCorrect, PTL

=============================================================================
