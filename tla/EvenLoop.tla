------------------------------ MODULE EvenLoop ------------------------------
(***************************************************************************)
(* The socket server that event_loop_temp.{h,cc} sketches, as POSIX builds *)
(* it: dispatchers with keys, the Signaler that WakeUp uses, and Wait over *)
(* epoll, poll or select. Add, Remove and Update are stubs ("TODO") there, *)
(* for a subclass to override: they are modelled from the maps, the keys   *)
(* and the epoll calls they are meant for. A subclass may also register    *)
(* signal_wakeup_, which the constructor's call of Add cannot do.          *)
(*                                                                         *)
(* A dispatcher stands for its address and its descriptor, which the next  *)
(* dispatcher may have too; a key is that of one registration. The thread  *)
(* in Wait has the pc "out"; "top" at the head of the loop; "block" in     *)
(* epoll_wait, poll or select; "woken" with what that has reported, and    *)
(* "dispatch" once it has crit_; "callback" in the OnEvent of a socket;    *)
(* "bottom" at the end of the loop.                                        *)
(***************************************************************************)
EXTENDS Naturals, FiniteSets

CONSTANTS
  Sockets,     \* dispatchers of sockets
  Signaler,    \* the dispatcher *signal_wakeup_
  Backends,    \* the builds: a subset of {"epoll", "poll", "select"}
  Requests,    \* what a socket's dispatcher may answer in GetRequestedEvents
  Conditions,  \* what may become of a socket: a subset of {"in", "out", "err"}
  MaxKeys,     \* bound: registrations in one behaviour
  MayFail,     \* whether the wait may fail other than with EINTR
  Refusable,   \* the dispatchers for which epoll_ctl may fail
  None

Flags == {"DE_READ", "DE_WRITE", "DE_CONNECT", "DE_CLOSE", "DE_ACCEPT"}
Dispatchers == Sockets \cup {Signaler}
Keys == 0 .. MaxKeys - 1

ASSUME EvenLoopAssumption ==
  /\ Signaler \notin Sockets /\ Signaler \notin Keys
  /\ None \notin Dispatchers /\ None \notin Keys
  /\ Backends \subseteq {"epoll", "poll", "select"}
  /\ Requests \in [Sockets -> SUBSET SUBSET (Flags \ {"DE_CLOSE"})]
  /\ Conditions \in [Sockets -> SUBSET {"in", "out", "err"}]
  /\ MaxKeys \in Nat \ {0} /\ MayFail \in BOOLEAN /\ Refusable \subseteq Dispatchers

VARIABLES
  backend,    \* the build: with __USE_EPOLL__, __USE_POLL__ or neither
  dispatcher, \* dispatcher_by_key_, and the other way round key_by_dispatcher_
  nextKey,    \* next_dispatcher_key_
  requested,  \* a dispatcher's GetRequestedEvents
  epoll,      \* external: the key and events epoll_fd_ has for a descriptor
  refused,    \* history: the descriptors for which the last epoll_ctl has failed
  ready,      \* external: what holds on the descriptor of a socket
  fSignaled,  \* fSignaled_ of the signaler: its descriptor is readable
  fWait,      \* fWait_
  pc,         \* see above
  process_io,
  timed,      \* cmsWait # kForeverMs
  expired,    \* the time to stop has passed
  watched,    \* current_dispatcher_keys_ in the wait, with the descriptors and events
  found,      \* what the wait has reported, by key, as far as not dispatched
  cur         \* the OnEvent that is running: whose key, and the key the event came with

epollVars == <<epoll, refused>>
registryVars == <<dispatcher, nextKey, requested, epollVars>>
waitVars == <<pc, process_io, timed, expired, watched, found, cur>>
vars == <<backend, registryVars, ready, fSignaled, fWait, waitVars>>

NoInterest == [key |-> None, events |-> {}]
NoEvent == [key |-> None, by |-> None, flags |-> {}, of |-> None]
Nothing == [k \in {} |-> {}]

KeysOf(d) == {k \in Keys : dispatcher[k] = d}

(* A subclass may have registered the signaler, with epoll if that worked. *)
Init ==
  /\ backend \in Backends
  /\ nextKey \in {0, 1}
  /\ dispatcher = [k \in Keys |-> IF k < nextKey THEN Signaler ELSE None]
  /\ requested = [d \in Dispatchers |-> IF d = Signaler THEN {"DE_READ"} ELSE {}]
  /\ refused \in SUBSET (IF nextKey = 1 THEN Refusable \cap {Signaler} ELSE {})
  /\ epoll = [d \in Dispatchers |-> IF d = Signaler /\ nextKey = 1 /\ refused = {}
                                    THEN [key |-> 0, events |-> {"in"}] ELSE NoInterest]
  /\ ready = [d \in Sockets |-> {}]
  /\ fSignaled = FALSE /\ fWait = FALSE
  /\ pc = "out" /\ process_io = FALSE /\ timed = FALSE /\ expired = FALSE
  /\ watched = Nothing /\ found = Nothing /\ cur = NoEvent

-----------------------------------------------------------------------------
(* DispatcherToPollfd, the fd_sets of WaitSelect, and GetEpollEvents.      *)
PollEvents(ff) ==
  (IF ff \cap {"DE_READ", "DE_ACCEPT"} # {} THEN {"in"} ELSE {}) \cup
  (IF ff \cap {"DE_WRITE", "DE_CONNECT"} # {} THEN {"out"} ELSE {})

(* What ProcessEvents makes of an event; errcode is what getsockopt gives, *)
(* closed what IsDescriptorClosed finds.                                   *)
ProcessEvents(ff, revents, errcode, closed) ==
  {f \in Flags :
    \/ f = "DE_CLOSE" /\ (errcode \/ ("in" \in revents /\ closed))
    \/ /\ "in" \in revents /\ ~errcode /\ ~closed
       /\ f = IF "DE_ACCEPT" \in ff THEN "DE_ACCEPT" ELSE "DE_READ"
    \/ /\ "out" \in revents
       /\ IF "DE_CONNECT" \in ff THEN f = "DE_CONNECT" /\ ~errcode ELSE f = "DE_WRITE"}

(* WaitPollOneDispatcher, for the signaler alone, has no use for crit_.    *)
OneDispatcher == backend = "epoll" /\ ~process_io

(* The lock crit_ is held while events are dispatched; a callback may call *)
(* back, the lock being recursive.                                         *)
CanCall == pc # "dispatch" \/ OneDispatcher

(* External: epoll_ctl changes what epoll_fd_ has for a descriptor, or     *)
(* returns an error and changes nothing.                                   *)
CtlErrors(op, d) ==
  (IF op = "ADD" THEN IF epoll[d] = NoInterest THEN {"none"} ELSE {"EEXIST"}
                 ELSE IF epoll[d] = NoInterest THEN {"ENOENT"} ELSE {"none"})
  \cup (IF d \in Refusable THEN {"other"} ELSE {})

epoll_ctl(op, d, interest, err) ==
  /\ err \in CtlErrors(op, d)
  /\ epoll' = IF err = "none" THEN [epoll EXCEPT ![d] = interest] ELSE epoll

(* An error is logged at most, and what was asked for is not done.         *)
Refuses(d, failed) == refused' = IF failed THEN refused \cup {d} ELSE refused \ {d}

(* AddEpoll; with no requested events the descriptor is not added.         *)
AddEpoll(d, key, ff) ==
  IF PollEvents(ff) = {} THEN UNCHANGED epollVars
  ELSE \E err \in {"none", "EEXIST", "other"} :
         /\ epoll_ctl("ADD", d, [key |-> key, events |-> PollEvents(ff)], err)
         /\ Refuses(d, err # "none")

(* RemoveEpoll; that the descriptor is not there is no error.              *)
RemoveEpoll(d) ==
  \E err \in {"none", "ENOENT", "other"} :
    epoll_ctl("DEL", d, NoInterest, err) /\ Refuses(d, err = "other")

(* EPOLL_CTL_MOD where the descriptor is there; ENOENT is left to others.  *)
ModEpoll(d, key, ff) ==
  \E err \in {"none", "other"} :
    /\ epoll_ctl("MOD", d, [key |-> key, events |-> PollEvents(ff)], err)
    /\ Refuses(d, err # "none")

(* Faulty: a descriptor that was taken out is not added again.             *)
UpdateEpollModOnly(d, key, ff) ==
  IF PollEvents(ff) = {} THEN RemoveEpoll(d)
  ELSE \/ ModEpoll(d, key, ff)
       \/ "ENOENT" \in CtlErrors("MOD", d) /\ UNCHANGED epollVars

(* UpdateEpoll: EPOLL_CTL_DEL without requested events; else EPOLL_CTL_MOD *)
(* and, after ENOENT only, EPOLL_CTL_ADD.                                  *)
UpdateEpoll(d, key, ff) ==
  IF PollEvents(ff) = {} THEN RemoveEpoll(d)
  ELSE \/ ModEpoll(d, key, ff)
       \/ "ENOENT" \in CtlErrors("MOD", d) /\ AddEpoll(d, key, ff)

(* Add, Remove and Update (external: the repository leaves them empty).    *)
Add(d, ff) ==
  /\ CanCall /\ KeysOf(d) = {} /\ nextKey < MaxKeys
  /\ dispatcher' = [dispatcher EXCEPT ![nextKey] = d]
  /\ nextKey' = nextKey + 1
  /\ requested' = [requested EXCEPT ![d] = ff]
  /\ IF backend = "epoll" THEN AddEpoll(d, nextKey, ff) ELSE UNCHANGED epollVars
  /\ UNCHANGED <<backend, ready, fSignaled, fWait, waitVars>>

Remove(d) ==
  /\ CanCall /\ KeysOf(d) # {}
  /\ dispatcher' = [k \in Keys |-> IF k \in KeysOf(d) THEN None ELSE dispatcher[k]]
  /\ requested' = [requested EXCEPT ![d] = {}]
  /\ ready' = [ready EXCEPT ![d] = {}]
  /\ IF backend = "epoll" THEN RemoveEpoll(d) ELSE UNCHANGED epollVars
  /\ UNCHANGED <<backend, nextKey, fSignaled, fWait, waitVars>>

(* A dispatcher that wants other events says so with Update.               *)
Update(d, ff) ==
  /\ CanCall /\ ff # requested[d]
  /\ requested' = [requested EXCEPT ![d] = ff]
  /\ \E k \in KeysOf(d) :
       IF backend = "epoll" THEN UpdateEpoll(d, k, ff) ELSE UNCHANGED epollVars
  /\ UNCHANGED <<backend, dispatcher, nextKey, ready, fSignaled, fWait, waitVars>>

(* WakeUp, from any thread. Signaler::Signal, like its OnEvent, keeps the  *)
(* descriptor and fSignaled_ together under a mutex of its own.            *)
WakeUp ==
  /\ ~fSignaled
  /\ fSignaled' = TRUE
  /\ UNCHANGED <<backend, registryVars, ready, fWait, waitVars>>

(* Something happens to a socket.                                          *)
Happens(d, c) ==
  /\ KeysOf(d) # {} /\ c \notin ready[d]
  /\ ready' = [ready EXCEPT ![d] = @ \cup {c}]
  /\ UNCHANGED <<backend, registryVars, fSignaled, fWait, waitVars>>

-----------------------------------------------------------------------------
Wait(io, finite) ==
  /\ pc = "out"
  /\ fWait' = TRUE
  /\ process_io' = io /\ timed' = finite /\ expired' = FALSE
  /\ pc' = "top"
  /\ UNCHANGED <<backend, registryVars, ready, fSignaled, watched, found, cur>>

(* The time a wait was given passes.                                       *)
Expire ==
  /\ pc # "out" /\ timed /\ ~expired
  /\ expired' = TRUE
  /\ UNCHANGED <<backend, registryVars, ready, fSignaled, fWait, pc, process_io, timed,
                 watched, found, cur>>

(* The return from Wait.                                                   *)
Return ==
  /\ pc' = "out"
  /\ process_io' = FALSE /\ timed' = FALSE /\ expired' = FALSE
  /\ watched' = Nothing /\ found' = Nothing /\ cur' = NoEvent
  /\ UNCHANGED <<backend, registryVars, ready, fSignaled, fWait>>

(* WaitPollOneDispatcher polls the signaler without looking for its key;   *)
(* WaitPoll and WaitSelect note the keys they ask for.                     *)
Polled(d) == [by |-> d, events |-> PollEvents(requested[d])]

Top ==
  /\ pc = "top"
  /\ watched' =
       IF OneDispatcher THEN [k \in {Signaler} |-> Polled(Signaler)]
       ELSE IF backend = "epoll" THEN Nothing
       ELSE [k \in UNION {KeysOf(d) : d \in IF process_io THEN Dispatchers ELSE {Signaler}} |->
               Polled(dispatcher[k])]
  /\ pc' = "block"
  /\ UNCHANGED <<backend, registryVars, ready, fSignaled, fWait, process_io, timed, expired,
                 found, cur>>

(* What the kernel is asked for: epoll_wait goes by what is registered     *)
(* when it returns.                                                        *)
Asked ==
  IF backend = "epoll" /\ process_io
    THEN [k \in {epoll[d].key : d \in Dispatchers} \ {None} |->
            LET d == CHOOSE d \in Dispatchers : epoll[d].key = k
            IN  [by |-> d, events |-> epoll[d].events]]
    ELSE watched

Holds(d) ==
  IF d = Signaler THEN (IF fSignaled THEN {"in"} ELSE {}) ELSE ready[d]

(* An error is reported unasked, by select as readable and writable.       *)
Hit(ask) ==
  LET holds == Holds(ask.by)
  IN  IF backend = "select" /\ "err" \in holds THEN ask.events
      ELSE holds \cap (ask.events \cup {"err"})

Reported ==
  LET asked == Asked
  IN  [k \in {j \in DOMAIN asked : Hit(asked[j]) # {}} |->
         [by |-> asked[k].by, events |-> Hit(asked[k])]]

(* What was asked for is not needed beyond the wait: found goes with the   *)
(* keys and events that were reported.                                     *)
WaitReturns ==
  /\ pc = "block" /\ found' = Reported /\ found' # Nothing
  /\ watched' = Nothing
  /\ pc' = "woken"
  /\ UNCHANGED <<backend, registryVars, ready, fSignaled, fWait, process_io, timed, expired,
                 cur>>

WaitTimesOut == pc = "block" /\ Reported = Nothing /\ timed /\ expired /\ Return

(* EINTR is ignored, any other error is returned.                          *)
WaitInterrupted ==
  /\ pc = "block" /\ Reported = Nothing
  /\ watched' = Nothing
  /\ pc' = "bottom"
  /\ UNCHANGED <<backend, registryVars, ready, fSignaled, fWait, process_io, timed, expired,
                 found, cur>>

WaitFails == MayFail /\ pc = "block" /\ Return

(* The thread takes crit_.                                                 *)
Lock ==
  /\ pc = "woken"
  /\ pc' = "dispatch"
  /\ UNCHANGED <<backend, registryVars, ready, fSignaled, fWait, process_io, timed, expired,
                 watched, found, cur>>

Others(k) == [j \in DOMAIN found \ {k} |-> found[j]]

(* Faulty: the flag of the loop is left alone.                             *)
DispatchSignalerKeepsWaiting(k) ==
  /\ pc = "dispatch" /\ k \in DOMAIN found /\ found[k].by = Signaler
  /\ found' = Others(k)
  /\ fSignaled' = FALSE
  /\ UNCHANGED <<backend, registryVars, ready, fWait, pc, process_io, timed, expired,
                 watched, cur>>

(* Signaler::OnEvent takes the event back and ends the loop.               *)
DispatchSignaler(k) ==
  /\ pc = "dispatch" /\ k \in DOMAIN found /\ found[k].by = Signaler
  /\ found' = Others(k)
  /\ fSignaled' = FALSE
  /\ fWait' = FALSE
  /\ UNCHANGED <<backend, registryVars, ready, pc, process_io, timed, expired, watched, cur>>

(* getsockopt(SO_ERROR): epoll and poll ask for it after an error, select  *)
(* after anything; there may be none even so.                              *)
MayBeError(d, revents) ==
  d \in Sockets /\ "err" \in ready[d] /\ (backend = "select" \/ "err" \in revents)

(* Faulty: the dispatcher is found by its descriptor.                      *)
DispatchByDescriptor(k, errcode, closed) ==
  LET d == found[k].by
      ff == ProcessEvents(requested[d], found[k].events, errcode, closed)
  IN
  /\ pc = "dispatch" /\ k \in DOMAIN found /\ found[k].by # Signaler
  /\ errcode => MayBeError(d, found[k].events)
  /\ found' = Others(k)
  /\ IF KeysOf(d) # {} /\ ff # {}
       THEN cur' = [key |-> CHOOSE j \in KeysOf(d) : TRUE, by |-> d, flags |-> ff, of |-> k]
             /\ pc' = "callback"
       ELSE UNCHANGED <<cur, pc>>
  /\ UNCHANGED <<backend, registryVars, ready, fSignaled, fWait, process_io, timed, expired,
                 watched>>

(* One event is dispatched, to whatever is registered under its key.       *)
DispatchSocket(k, errcode, closed) ==
  LET d == dispatcher[k]
      ff == ProcessEvents(requested[d], found[k].events, errcode, closed)
  IN
  /\ pc = "dispatch" /\ k \in DOMAIN found /\ found[k].by # Signaler
  /\ errcode => MayBeError(d, found[k].events)
  /\ found' = Others(k)
  /\ IF d # None /\ ff # {}
       THEN cur' = [key |-> k, by |-> d, flags |-> ff, of |-> k] /\ pc' = "callback"
       ELSE UNCHANGED <<cur, pc>>
  /\ UNCHANGED <<backend, registryVars, ready, fSignaled, fWait, process_io, timed, expired,
                 watched>>

(* OnEvent returns; it has read, written or accepted, or not.              *)
CallbackReturns(consumed) ==
  /\ pc = "callback" /\ consumed \subseteq ready[cur.by]
  /\ ready' = [ready EXCEPT ![cur.by] = @ \ consumed]
  /\ cur' = NoEvent
  /\ pc' = "dispatch"
  /\ UNCHANGED <<backend, registryVars, fSignaled, fWait, process_io, timed, expired, watched,
                 found>>

DispatchEnds ==
  /\ pc = "dispatch" /\ found = Nothing
  /\ pc' = "bottom"
  /\ UNCHANGED <<backend, registryVars, ready, fSignaled, fWait, process_io, timed, expired,
                 watched, found, cur>>

(* Faulty: only a wait without an event looks at the time.                 *)
LoopEndsByFlag == ~fWait

(* The end of the loop: epoll and poll return once their time has passed,  *)
(* select goes on with a time-out of zero.                                 *)
LoopEnds == ~fWait \/ (backend # "select" /\ expired)

Bottom == pc = "bottom" /\ LoopEnds /\ Return

BottomRepeats ==
  /\ pc = "bottom" /\ ~LoopEnds
  /\ pc' = "top"
  /\ UNCHANGED <<backend, registryVars, ready, fSignaled, fWait, process_io, timed, expired,
                 watched, found, cur>>

-----------------------------------------------------------------------------
WaiterStep ==
  \/ Top \/ WaitReturns \/ WaitTimesOut \/ Lock \/ DispatchEnds \/ Bottom \/ BottomRepeats
  \/ \E k \in Keys \cup {Signaler} : DispatchSignaler(k)
  \/ \E k \in Keys, errcode, closed \in BOOLEAN : DispatchSocket(k, errcode, closed)
  \/ \E consumed \in SUBSET {"in", "out", "err"} : CallbackReturns(consumed)

UserStep ==
  \/ WakeUp
  \/ \E io, finite \in BOOLEAN : Wait(io, finite)
  \/ \E d \in Sockets : Remove(d)
  \/ \E d \in Sockets : \E ff \in Requests[d] : Add(d, ff) \/ Update(d, ff)

Next ==
  \/ WaiterStep \/ UserStep \/ Expire \/ WaitInterrupted \/ WaitFails
  \/ \E d \in Sockets : \E c \in Conditions[d] : Happens(d, c)

Spec == Init /\ [][Next]_vars

(* The thread in Wait runs, callbacks return, and time passes.             *)
FairSpec == Spec /\ WF_vars(WaiterStep) /\ WF_vars(Expire)

-----------------------------------------------------------------------------
(* Every variable holds a value of its kind; a dispatcher has one key.     *)
TypeOK ==
  /\ backend \in Backends
  /\ nextKey \in 0 .. MaxKeys
  /\ dispatcher \in [Keys -> Dispatchers \cup {None}]
  /\ \A k \in nextKey .. MaxKeys - 1 : dispatcher[k] = None
  /\ \A d \in Dispatchers : Cardinality(KeysOf(d)) <= 1
  /\ requested \in [Dispatchers -> SUBSET Flags]
  /\ epoll \in [Dispatchers -> [key : Keys \cup {None}, events : SUBSET {"in", "out"}]]
  /\ refused \subseteq Dispatchers
  /\ ready \in [Sockets -> SUBSET {"in", "out", "err"}]
  /\ \A d \in Sockets : ready[d] \subseteq Conditions[d]
  /\ {fSignaled, fWait, process_io, timed, expired} \subseteq BOOLEAN
  /\ pc \in {"out", "top", "block", "woken", "dispatch", "callback", "bottom"}
  /\ DOMAIN watched \subseteq Keys \cup {Signaler} /\ DOMAIN found \subseteq Keys \cup {Signaler}
  /\ cur \in [key : Keys, by : Sockets, flags : SUBSET Flags, of : Keys] \cup {NoEvent}

(* "uint64_t keys are used ... to avoid the ABA problem": an event is told *)
(* to the dispatcher it happened to, or to nobody; not to one that has     *)
(* been removed since, by another thread or by a callback of the same      *)
(* round, and not to one that has taken its place with the same descriptor.*)
NoABA ==
  [][pc = "dispatch" /\ pc' = "callback" =>
       /\ cur'.key = cur'.of /\ cur'.by = found[cur'.of].by
       /\ dispatcher[cur'.key] = cur'.by]_vars

(* With epoll, what a registered dispatcher asks for and what happens to   *)
(* its socket is told to it while a thread is in Wait, or the wait ends,   *)
(* the dispatcher is removed, no longer asks or no longer has it. It may   *)
(* have been added without requested events, and have given up and asked   *)
(* again many times, before, during or between the waits. Excepted are     *)
(* descriptors that epoll_ctl has refused, which the code only logs.       *)
ReadyIsTold ==
  \A d \in Sockets :
    LET Due == /\ backend = "epoll" /\ process_io /\ d \notin refused /\ KeysOf(d) # {}
               /\ ready[d] \cap PollEvents(requested[d]) # {}
    IN  Due ~> ~Due \/ cur.by = d

SignalerIsWatched == OneDispatcher \/ (KeysOf(Signaler) # {} /\ Signaler \notin refused)

(* "The `fWait_` flag to be cleared by the Signaler": a WakeUp, made       *)
(* before or during a Wait, ends it, however busy the sockets are; unless  *)
(* the signaler was never registered, as the stub of Add leaves it, or     *)
(* epoll_ctl has refused it.                                               *)
WakeUpEndsWait ==
  pc # "out" /\ fSignaled /\ SignalerIsWatched ~> pc = "out"

(* A Wait with a time-out returns, also when sockets are ready all the     *)
(* time; with select it may not.                                           *)
TimedWaitReturns ==
  timed /\ backend # "select" ~> pc = "out"

=============================================================================
