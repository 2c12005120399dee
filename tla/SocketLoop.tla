----------------------------- MODULE SocketLoop -----------------------------
(***************************************************************************)
(* The sockets of EventLoopWin (event_loop_win.cc): the registrations, the *)
(* one event socket_ev_ all sockets share, artificial events, and the part *)
(* of RunEventLoopOnce that collects network events and runs the listeners'*)
(* callbacks. Everything but the network runs on the loop's thread.        *)
(*                                                                         *)
(* A mask is the set of its bits. The loop's pc: "idle" in the wait or     *)
(* running tasks; "enum" in the for loop of ProcessSocketEvents; "run" in  *)
(* RunReadyCallbacks; "callback" in a listener; "reset" about to reset     *)
(* socket_ev_ at the end of RunEventLoopOnce.                              *)
(***************************************************************************)
EXTENDS Integers, SequencesExt

CONSTANTS
  Sockets,        \* the file descriptors
  Masks,          \* the event masks the calls are made with
  NetworkBits,    \* the FD_ bits of what may happen to a socket
  MaxRegs,        \* bound: registrations made in one behaviour
  MayQuit,        \* whether the owner calls Quit
  MayTimeOut,     \* whether RunEventLoopOnce is called with a finite timeout
  EnumMayFail,    \* whether WSAEnumNetworkEvents may fail
  SelectMayFail,  \* whether WSAEventSelect may fail
  None

(* EventMask bits of event_loop.h.                                         *)
Readable == "Readable"
Writable == "Writable"
Error == "Error"
Events == {Readable, Writable, Error}
EventMasks == SUBSET Events

(* The bits of winsock2.h (external).                                      *)
FD_READ == 0
FD_WRITE == 1
FD_ACCEPT == 3
FD_CONNECT == 4
FD_CLOSE == 5
POLLERR == {0}
POLLHUP == {1}
POLLOUT == {4}
POLLIN == {8, 9}

ASSUME SocketAssumption ==
  /\ Masks \subseteq EventMasks
  /\ NetworkBits \subseteq 0 .. 9
  /\ MaxRegs \in Nat
  /\ {MayQuit, MayTimeOut, EnumMayFail, SelectMayFail} \subseteq BOOLEAN
  /\ None \notin Sockets

VARIABLES
  running,  \* running_
  regs,     \* registrations_: the registrations, by number, in insertion order
  reg,      \* a registration's fd, events and artificially_notify_at_next_iteration
  made,     \* the number of registrations made so far
  hasArt,   \* has_artificial_events_pending_
  sockEv,   \* socket_ev_, a manual-reset event
  sub,      \* external: the FD_ bits a socket is subscribed to
  rec,      \* external: a socket's record of network events
  cond,     \* external: the conditions that hold on a socket
  pc,       \* see above
  timedOut, \* the wait of this iteration returned WSA_WAIT_TIMEOUT
  todo,     \* the registrations still to be enumerated
  ready,    \* ready_list: registration (a weak pointer) and events
  cur,      \* the entry whose callback is running
  asked,    \* history: all events a registration was asked to watch, while it lives
  credit,   \* history: how often an event was armed and not told yet, counted to 2
  missed    \* history: registrations with an artificial event whose enumeration failed

kernelVars == <<sub, rec, cond>>
loopVars == <<pc, timedOut, todo, ready, cur>>
history == <<asked, credit, missed>>
vars == <<running, regs, reg, made, hasArt, sockEv, kernelVars, loopVars, history>>

Ids == 1 .. MaxRegs
Bits == 0 .. 9
NoReg == [fd |-> None, events |-> {}, art |-> {}]
NoEntry == [fd |-> None, id |-> 0, events |-> {}]

Init ==
  /\ running = TRUE
  /\ regs = <<>> /\ made = 0
  /\ reg = [i \in Ids |-> NoReg]
  /\ hasArt = FALSE /\ sockEv = FALSE
  /\ sub = [s \in Sockets |-> {}]
  /\ rec = [s \in Sockets |-> {}]
  /\ cond = [s \in Sockets |-> {}]
  /\ pc = "idle" /\ timedOut = FALSE
  /\ todo = <<>> /\ ready = <<>> /\ cur = NoEntry
  /\ asked = [i \in Ids |-> {}] /\ missed = {}
  /\ credit = [i \in Ids |-> [e \in Events |-> 0]]

-----------------------------------------------------------------------------
IsQuitting == ~running

(* The poll bits of an event mask. They are also what the code passes to   *)
(* WSAEventSelect, which reads them as FD_ bits.                           *)
GetPollMask(events) ==
  (IF Readable \in events THEN POLLIN ELSE {}) \cup
  (IF Writable \in events THEN POLLOUT ELSE {}) \cup
  (IF Error \in events THEN POLLERR ELSE {})

GetEventMask(mask) ==
  {e \in Events : mask \cap GetPollMask({e}) # {}}

(* The conversion of network events in ProcessSocketEvents.                *)
ToPoll(found, connectError) ==
  (IF FD_READ \in found THEN POLLIN ELSE {}) \cup
  (IF FD_WRITE \in found THEN POLLOUT ELSE {}) \cup
  (IF FD_CLOSE \in found THEN POLLHUP ELSE {}) \cup
  (IF FD_ACCEPT \in found THEN POLLIN ELSE {}) \cup
  (IF FD_CONNECT \in found
     THEN POLLOUT \cup (IF connectError THEN POLLERR ELSE {}) ELSE {})

(* The loop's thread calls from tasks, between two waits, and callbacks.   *)
CanCall == pc \in {"idle", "callback"} /\ ~IsQuitting

Registered(s) == {i \in Range(regs) : reg[i].fd = s}

(* WSAEventSelect (external): subscribes the socket, clears its record,    *)
(* and reports at once what already holds.                                 *)
WSAEventSelect(s, mask) ==
  /\ sub' = [sub EXCEPT ![s] = mask]
  /\ rec' = [rec EXCEPT ![s] = cond[s] \cap mask]
  /\ sockEv' = (sockEv \/ cond[s] \cap mask # {})
  /\ UNCHANGED cond

-----------------------------------------------------------------------------
(* What a call that asks for events adds to a registration's credit.       *)
Armed(old, events) ==
  [e \in Events |-> IF e \in events /\ old[e] < 2 THEN old[e] + 1 ELSE old[e]]

(* If WSAEventSelect fails the new registration is erased again, and the   *)
(* call has no effect.                                                     *)
RegisterSocket(s, events) ==
  /\ CanCall /\ Registered(s) = {} /\ made < MaxRegs
  /\ made' = made + 1
  /\ regs' = Append(regs, made + 1)
  /\ reg' = [reg EXCEPT ![made + 1] = [fd |-> s, events |-> events, art |-> {}]]
  /\ asked' = [asked EXCEPT ![made + 1] = events]
  /\ credit' = [credit EXCEPT ![made + 1] = Armed(@, events)]
  /\ WSAEventSelect(s, GetPollMask(events))
  /\ UNCHANGED <<running, hasArt, loopVars, missed>>

UnregisterSocket(s) ==
  /\ CanCall
  /\ \E k \in DOMAIN regs :
       /\ reg[regs[k]].fd = s
       /\ regs' = RemoveAt(regs, k)
       /\ reg' = [reg EXCEPT ![regs[k]] = NoReg]
       /\ asked' = [asked EXCEPT ![regs[k]] = {}]
       /\ credit' = [credit EXCEPT ![regs[k]] = [e \in Events |-> 0]]
       /\ missed' = missed \ {regs[k]}
  /\ WSAEventSelect(s, {})
  /\ UNCHANGED <<running, made, hasArt, loopVars>>

(* The mask is updated before WSAEventSelect, and stays if that fails.     *)
RearmSocket(s, events) ==
  /\ CanCall
  /\ \E i \in Registered(s) :
       /\ reg' = [reg EXCEPT ![i].events = @ \cup events]
       /\ asked' = [asked EXCEPT ![i] = @ \cup events]
       /\ credit' = [credit EXCEPT ![i] = Armed(@, events)]
       /\ \/ WSAEventSelect(s, GetPollMask(reg[i].events \cup events))
          \/ SelectMayFail /\ UNCHANGED <<sockEv, kernelVars>>
  /\ UNCHANGED <<running, regs, made, hasArt, loopVars, missed>>

(* Faulty: the flag that lets a timed-out wait look at the sockets is not  *)
(* set.                                                                    *)
ArtificiallyNotifyWithoutFlag(s, events) ==
  /\ CanCall
  /\ \E i \in Registered(s) :
       /\ reg' = [reg EXCEPT ![i].art = @ \cup events]
       /\ missed' = missed \ {i}
  /\ sockEv' = TRUE
  /\ UNCHANGED <<running, regs, made, hasArt, kernelVars, loopVars, asked, credit>>

ArtificiallyNotifyEvent(s, events) ==
  /\ CanCall
  /\ hasArt' = TRUE
  /\ \E i \in Registered(s) :
       /\ reg' = [reg EXCEPT ![i].art = @ \cup events]
       /\ missed' = missed \ {i}
  /\ sockEv' = TRUE
  /\ UNCHANGED <<running, regs, made, kernelVars, loopVars, asked, credit>>

Quit ==
  /\ MayQuit /\ CanCall
  /\ running' = FALSE
  /\ UNCHANGED <<regs, reg, made, hasArt, sockEv, kernelVars, loopVars, history>>

-----------------------------------------------------------------------------
(* Something happens to a socket; if the socket is subscribed to it, it is *)
(* recorded and the shared event is set.                                   *)
NetworkActivity(s, bit) ==
  /\ bit \notin cond[s]
  /\ cond' = [cond EXCEPT ![s] = @ \cup {bit}]
  /\ rec' = [rec EXCEPT ![s] = @ \cup ({bit} \cap sub[s])]
  /\ sockEv' = (sockEv \/ bit \in sub[s])
  /\ UNCHANGED <<running, regs, reg, made, hasArt, sub, loopVars, history>>

(* The owner of the socket receives, sends or accepts.                     *)
ConsumeActivity(s, bit) ==
  /\ pc \in {"idle", "callback"} /\ bit \in cond[s]
  /\ cond' = [cond EXCEPT ![s] = @ \ {bit}]
  /\ UNCHANGED <<running, regs, reg, made, hasArt, sockEv, sub, rec, loopVars, history>>

-----------------------------------------------------------------------------
(* RunEventLoopOnce reaches ProcessSocketEvents when the wait returns      *)
(* index WSA_SOCKET_EVENT ...                                              *)
WaitReturnsSocketEvent ==
  /\ pc = "idle" /\ sockEv
  /\ timedOut' = FALSE
  /\ todo' = regs
  /\ pc' = IF regs = <<>> THEN "reset" ELSE "enum"
  /\ UNCHANGED <<running, regs, reg, made, hasArt, sockEv, kernelVars, ready, cur, history>>

(* ... and when it times out with artificial events pending: no index is   *)
(* that of an event then, so socket_ev_ is not reset at the end.           *)
WaitTimesOut ==
  /\ pc = "idle" /\ ~sockEv /\ MayTimeOut /\ hasArt /\ regs # <<>>
  /\ timedOut' = TRUE
  /\ todo' = regs
  /\ pc' = "enum"
  /\ UNCHANGED <<running, regs, reg, made, hasArt, sockEv, kernelVars, ready, cur, history>>

(* Faulty: what was told stays armed.                                      *)
StillArmed(events, told) == events

(* The last line of DispatchSocketEvent.                                   *)
Disarmed(events, told) == events \ told

(* One round of the loop of ProcessSocketEvents, with DispatchSocketEvent: *)
(* WSAEnumNetworkEvents takes the socket's record and resets the event of  *)
(* all sockets; what was not asked for is dropped, the rest goes to the    *)
(* ready list and is not watched for until it is armed again.              *)
Enumerate(connectError) ==
  LET i == Head(todo)
      found == rec[reg[i].fd]
      revents == ToPoll(found, connectError) \cup GetPollMask(reg[i].art)
      events == GetEventMask(revents \cap GetPollMask(reg[i].events))
  IN
  /\ pc = "enum" /\ todo # <<>>
  /\ connectError => FD_CONNECT \in found
  /\ rec' = [rec EXCEPT ![reg[i].fd] = {}]
  /\ sockEv' = FALSE
  /\ reg' = [reg EXCEPT ![i].art = {}, ![i].events = Disarmed(@, events)]
  /\ ready' = IF events = {} THEN ready
              ELSE Append(ready, [fd |-> reg[i].fd, id |-> i, events |-> events])
  /\ todo' = Tail(todo)
  /\ missed' = missed \ {i}
  /\ UNCHANGED <<running, regs, made, hasArt, sub, cond, pc, timedOut, cur, asked, credit>>

(* A socket whose enumeration fails is skipped, its artificial event with  *)
(* it, although EnumerateEnds clears the flag for all.                     *)
EnumerateFails ==
  /\ pc = "enum" /\ todo # <<>> /\ EnumMayFail
  /\ todo' = Tail(todo)
  /\ missed' = IF reg[Head(todo)].art # {} THEN missed \cup {Head(todo)} ELSE missed
  /\ UNCHANGED <<running, regs, reg, made, hasArt, sockEv, kernelVars, pc, timedOut,
                 ready, cur, asked, credit>>

EnumerateEnds ==
  /\ pc = "enum" /\ todo = <<>>
  /\ hasArt' = FALSE
  /\ pc' = "run"
  /\ UNCHANGED <<running, regs, reg, made, sockEv, kernelVars, timedOut, todo, ready,
                 cur, history>>

(* OnSocketEvent is called with an entry of the ready list.                *)
Tell(entry) ==
  /\ cur' = entry /\ pc' = "callback"
  /\ credit' = [credit EXCEPT ![entry.id] =
                  [e \in Events |-> IF e \in entry.events THEN @[e] - 1 ELSE @[e]]]

(* Faulty: the listener is looked up by file descriptor, so that a new     *)
(* registration of the same socket gets what the old one waited for.       *)
RunReadyCallbackByFd ==
  /\ pc = "run" /\ ready # <<>>
  /\ ready' = Tail(ready)
  /\ IF Registered(Head(ready).fd) # {}
       THEN \E i \in Registered(Head(ready).fd) : Tell([Head(ready) EXCEPT !.id = i])
       ELSE UNCHANGED <<cur, pc, credit>>
  /\ UNCHANGED <<running, regs, reg, made, hasArt, sockEv, kernelVars, timedOut, todo,
                 asked, missed>>

(* RunReadyCallbacks: the weak pointer of an entry can be locked as long   *)
(* as the very registration it was made for is in the map.                 *)
RunReadyCallback ==
  /\ pc = "run" /\ ready # <<>>
  /\ ready' = Tail(ready)
  /\ IF Head(ready).id \in Range(regs)
       THEN Tell(Head(ready))
       ELSE UNCHANGED <<cur, pc, credit>>
  /\ UNCHANGED <<running, regs, reg, made, hasArt, sockEv, kernelVars, timedOut, todo,
                 asked, missed>>

CallbackReturns ==
  /\ pc = "callback"
  /\ cur' = NoEntry
  /\ pc' = "run"
  /\ UNCHANGED <<running, regs, reg, made, hasArt, sockEv, kernelVars, timedOut, todo,
                 ready, history>>

RunReadyCallbacksReturns ==
  /\ pc = "run" /\ ready = <<>>
  /\ pc' = IF timedOut THEN "idle" ELSE "reset"
  /\ UNCHANGED <<running, regs, reg, made, hasArt, sockEv, kernelVars, timedOut, todo,
                 ready, cur, history>>

(* The last statement of RunEventLoopOnce.                                 *)
ResetSocketEvent ==
  /\ pc = "reset"
  /\ sockEv' = FALSE
  /\ pc' = "idle"
  /\ UNCHANGED <<running, regs, reg, made, hasArt, kernelVars, timedOut, todo, ready,
                 cur, history>>

-----------------------------------------------------------------------------
LoopStep ==
  \/ WaitReturnsSocketEvent \/ WaitTimesOut
  \/ \E connectError \in BOOLEAN : Enumerate(connectError)
  \/ EnumerateFails \/ EnumerateEnds
  \/ RunReadyCallback \/ CallbackReturns \/ RunReadyCallbacksReturns \/ ResetSocketEvent

UserStep ==
  \/ Quit
  \/ \E s \in Sockets : UnregisterSocket(s)
  \/ \E s \in Sockets, m \in Masks :
       RegisterSocket(s, m) \/ RearmSocket(s, m) \/ ArtificiallyNotifyEvent(s, m)

NetworkStep ==
  \E s \in Sockets, b \in NetworkBits : NetworkActivity(s, b) \/ ConsumeActivity(s, b)

Next == LoopStep \/ UserStep \/ NetworkStep

Spec == Init /\ [][Next]_vars

(* The owner keeps calling RunEventLoopOnce, and callbacks return.         *)
FairSpec == Spec /\ WF_vars(LoopStep)

-----------------------------------------------------------------------------
(* Every variable holds a value of its kind, and no socket has two         *)
(* registrations.                                                          *)
TypeOK ==
  /\ running \in BOOLEAN /\ hasArt \in BOOLEAN /\ sockEv \in BOOLEAN
  /\ timedOut \in BOOLEAN /\ made \in 0 .. MaxRegs
  /\ regs \in Seq(Ids) /\ todo \in Seq(Ids)
  /\ reg \in [Ids -> [fd : Sockets \cup {None}, events : EventMasks, art : EventMasks]]
  /\ \A i, j \in DOMAIN regs : reg[regs[i]].fd = reg[regs[j]].fd => i = j
  /\ {sub, rec, cond} \subseteq [Sockets -> SUBSET Bits]
  /\ pc \in {"idle", "enum", "run", "callback", "reset"}
  /\ ready \in Seq([fd : Sockets, id : Ids, events : EventMasks])
  /\ cur \in [fd : Sockets, id : Ids, events : EventMasks] \cup {NoEntry}
  /\ asked \in [Ids -> EventMasks] /\ missed \subseteq Ids
  /\ credit \in [Ids -> [Events -> 0 .. 2]]

(* A listener only hears of events its own registration was asked to watch *)
(* for. In particular, when a callback unregisters a socket that is on the *)
(* ready list and registers it again, the new listener does not get what   *)
(* was collected for the old one.                                          *)
CallbackWasAskedFor ==
  pc = "callback" /\ cur.id \in Range(regs) =>
    cur.events # {} /\ cur.events \subseteq asked[cur.id]

(* A listener is told of an event at most once for each time the event was *)
(* armed, by RegisterSocket or RearmSocket: "whenever an event is          *)
(* triggered, the event registration is unset and has to be re-armed". A   *)
(* callback further up the ready list may rearm a socket whose own entry   *)
(* is still on the list.                                                   *)
OneCallbackPerArming ==
  [][pc = "run" /\ pc' = "callback" =>
       \A e \in cur'.events : credit[cur'.id][e] > 0]_vars

(* With finite timeouts an artificial event is taken in the end, or its    *)
(* registration is removed: even where the trailing reset of socket_ev_    *)
(* wipes out the notification. The exception is a registration whose       *)
(* enumeration failed (event_loop_win.cc:246): it is skipped, the flag is  *)
(* cleared all the same (285), and nothing brings the loop back to it,     *)
(* although event_loop.h:85 promises the notification without condition.   *)
ArtificialIsTaken ==
  \A i \in Ids : i \in Range(regs) /\ reg[i].art # {}
                   ~> reg[i].art = {} \/ i \notin Range(regs) \/ i \in missed

-----------------------------------------------------------------------------
(* What the comments of event_loop.h say and the code does not do.         *)

(* "Watches for all of the requested |events| that occur on the |fd| and   *)
(* notifies the |listener|": what has been recorded is noticed by the next *)
(* wait.                                                                   *)
RecordedIsNoticed ==
  pc = "idle" => \A s \in Sockets : rec[s] # {} => sockEv

=============================================================================
