--------------------------- MODULE EvenLoopProofs ---------------------------
(***************************************************************************)
(* Proofs, for every set of sockets, all three builds and any number of    *)
(* registrations, and whichever calls of epoll_ctl fail, that an event is  *)
(* told to the dispatcher it happened to or to nobody; and, in the second  *)
(* part, about the lock crit_ of the loop.                                 *)
(***************************************************************************)
EXTENDS EvenLoop, CriticalSection, FiniteSetTheorems, TLAPS

Interests == [key : Keys \cup {None}, events : SUBSET {"in", "out"}]

(* TypeOK but for the number of a dispatcher's keys.                       *)
Types ==
  /\ backend \in Backends
  /\ nextKey \in 0 .. MaxKeys
  /\ dispatcher \in [Keys -> Dispatchers \cup {None}]
  /\ requested \in [Dispatchers -> SUBSET Flags]
  /\ epoll \in [Dispatchers -> Interests] /\ refused \subseteq Dispatchers
  /\ ready \in [Sockets -> SUBSET {"in", "out", "err"}]
  /\ \A d \in Sockets : ready[d] \subseteq Conditions[d]
  /\ {fSignaled, fWait, process_io, timed, expired} \subseteq BOOLEAN
  /\ pc \in {"out", "top", "block", "woken", "dispatch", "callback", "bottom"}
  /\ cur \in [key : Keys, by : Sockets, flags : SUBSET Flags, of : Keys] \cup {NoEvent}
  /\ pc = "callback" => cur # NoEvent

(* Keys are given out in order and once, and a dispatcher has one.         *)
KeyInv ==
  /\ \A k \in Keys : nextKey <= k => dispatcher[k] = None
  /\ \A j, k \in Keys : dispatcher[j] = dispatcher[k] /\ dispatcher[j] # None => j = k

(* What was asked for or reported under a key concerns the dispatcher that *)
(* has the key, or that had it: no other will ever have it.                *)
OfKey(k, d) ==
  /\ d \in Dispatchers
  /\ \/ k = Signaler /\ d = Signaler
     \/ k \in Keys /\ k < nextKey /\ dispatcher[k] \in {d, None}

(* What the epoll set has for a descriptor, it has under a key that is, or *)
(* was, its dispatcher's. Where epoll_ctl was not refused it is there      *)
(* exactly while the dispatcher is registered and wants something, and     *)
(* then under the present key.                                             *)
Wanted(d) ==
  IF KeysOf(d) = {} \/ PollEvents(requested[d]) = {} THEN epoll[d] = NoInterest
  ELSE epoll[d].key \in KeysOf(d) /\ epoll[d].events = PollEvents(requested[d])

EpollInv ==
  \A d \in Dispatchers :
    /\ epoll[d].key # None => epoll[d].key \in Keys /\ OfKey(epoll[d].key, d)
    /\ backend = "epoll" /\ d \notin refused => Wanted(d)

WatchedInv == \A k \in DOMAIN watched : OfKey(k, watched[k].by)

FoundInv == \A k \in DOMAIN found : OfKey(k, found[k].by)

LoopInv == Types /\ KeyInv /\ EpollInv /\ WatchedInv /\ FoundInv

-----------------------------------------------------------------------------
LEMMA PollEventsType == \A ff : PollEvents(ff) \in SUBSET {"in", "out"}
BY DEF PollEvents

LEMMA RequestsAreFlags ==
  ASSUME NEW d \in Sockets, NEW ff \in Requests[d]
  PROVE  ff \in SUBSET Flags
BY EvenLoopAssumption

(* Nothing is said of dispatchers, keys and the epoll set anew by a step   *)
(* that leaves them alone.                                                 *)
LEMMA RegistryStays ==
  ASSUME LoopInv, UNCHANGED <<backend, registryVars>>
  PROVE  /\ KeyInv' /\ EpollInv'
         /\ \A k, d : OfKey(k, d) => OfKey(k, d)'
BY DEF LoopInv, registryVars, epollVars, KeyInv, EpollInv, Wanted, KeysOf, OfKey

(* ... and a step that leaves watched and found alone, too, or takes       *)
(* something from them, has only its types to keep.                        *)
LEMMA WaitStays ==
  ASSUME LoopInv, UNCHANGED <<backend, registryVars>>, Types',
         watched' = watched \/ watched' = Nothing,
         found' = found \/ found' = Nothing
  PROVE  LoopInv'
<1>1. KeyInv' /\ EpollInv' /\ \A k, d : OfKey(k, d) => OfKey(k, d)'
  BY RegistryStays
<1>2. WatchedInv'
  BY <1>1 DEF LoopInv, WatchedInv, Nothing
<1>3. FoundInv'
  BY <1>1 DEF LoopInv, FoundInv, Nothing
<1> QED
  BY <1>1, <1>2, <1>3 DEF LoopInv

-----------------------------------------------------------------------------
LEMMA InitLoop ==
  ASSUME Init
  PROVE  LoopInv
<1> USE EvenLoopAssumption DEF Init
<1>1. Types
  <2>1. /\ nextKey \in 0 .. MaxKeys /\ 0 \in Keys
        /\ dispatcher \in [Keys -> Dispatchers \cup {None}]
    BY DEF Keys, Dispatchers
  <2>2. requested \in [Dispatchers -> SUBSET Flags]
    BY DEF Flags
  <2>3. epoll \in [Dispatchers -> Interests] /\ refused \subseteq Dispatchers
    BY <2>1 DEF NoInterest, Interests, Dispatchers
  <2>4. /\ ready \in [Sockets -> SUBSET {"in", "out", "err"}]
        /\ \A d \in Sockets : ready[d] \subseteq Conditions[d]
        /\ {fSignaled, fWait, process_io, timed, expired} \subseteq BOOLEAN
    OBVIOUS
  <2> QED
    BY <2>1, <2>2, <2>3, <2>4 DEF Types
<1>2. KeyInv
  BY DEF KeyInv, Keys, Dispatchers
<1>3. EpollInv
  <2> SUFFICES ASSUME NEW d \in Dispatchers
               PROVE  /\ epoll[d].key # None => epoll[d].key \in Keys /\ OfKey(epoll[d].key, d)
                      /\ d \notin refused => Wanted(d)
    BY DEF EpollInv
  <2>1. CASE d # Signaler
    <3>1. PollEvents(requested[d]) = {} /\ epoll[d] = NoInterest
      BY <2>1 DEF PollEvents
    <3> QED
      BY <2>1, <3>1 DEF Wanted, NoInterest
  <2>2. CASE d = Signaler /\ nextKey = 0
    <3>1. KeysOf(d) = {} /\ epoll[d] = NoInterest
      BY <2>2 DEF KeysOf, Keys, Dispatchers
    <3> QED
      BY <2>2, <3>1 DEF Wanted, NoInterest
  <2>3. CASE d = Signaler /\ nextKey = 1
    <3>1. 0 \in KeysOf(d) /\ OfKey(0, d) /\ 0 \in Keys
      BY <2>3 DEF KeysOf, OfKey, Keys, Dispatchers
    <3>2. PollEvents(requested[d]) = {"in"}
      BY <2>3 DEF PollEvents, Dispatchers
    <3>3. CASE refused = {}
      <4>1. epoll[d] = [key |-> 0, events |-> {"in"}]
        BY <2>3, <3>3
      <4> QED
        BY <3>1, <3>2, <4>1 DEF Wanted
    <3>4. CASE refused # {}
      <4>1. d \in refused /\ epoll[d] = NoInterest
        BY <2>3, <3>4
      <4> QED
        BY <4>1 DEF NoInterest
    <3> QED
      BY <3>3, <3>4
  <2> QED
    BY <2>1, <2>2, <2>3
<1>4. WatchedInv /\ FoundInv
  BY DEF WatchedInv, FoundInv, Nothing
<1> QED
  BY <1>1, <1>2, <1>3, <1>4 DEF LoopInv

-----------------------------------------------------------------------------
(* The registry. What a call of AddEpoll, RemoveEpoll or UpdateEpoll does  *)
(* for a dispatcher with some key that wants ff: either it leaves the epoll*)
(* set as it is and is refused, or the epoll set is as it should be.       *)
Follows(d, key, ff) ==
  LET interest == IF PollEvents(ff) = {} THEN NoInterest
                  ELSE [key |-> key, events |-> PollEvents(ff)]
  IN  /\ epoll' \in [Dispatchers -> Interests] /\ refused' \subseteq Dispatchers
      /\ \A e \in Dispatchers \ {d} : epoll'[e] = epoll[e] /\ (e \in refused' <=> e \in refused)
      /\ epoll'[d] \in {epoll[d], interest}
      /\ d \notin refused' => epoll'[d] = interest

LEMMA CtlFollows ==
  ASSUME Types, NEW d \in Dispatchers, NEW key \in Keys, NEW ff
  PROVE  /\ \A err : \A interest \in Interests : \A op :
              epoll_ctl(op, d, interest, err) => epoll' \in [Dispatchers -> Interests]
         /\ RemoveEpoll(d) /\ PollEvents(ff) = {} => Follows(d, key, ff)
         /\ AddEpoll(d, key, ff) /\ PollEvents(ff) # {} => Follows(d, key, ff)
         /\ ModEpoll(d, key, ff) /\ PollEvents(ff) # {} => Follows(d, key, ff)
<1> DEFINE interest == [key |-> key, events |-> PollEvents(ff)]
<1>1. NoInterest \in Interests /\ interest \in Interests
  BY PollEventsType DEF NoInterest, Interests
<1>2. epoll \in [Dispatchers -> Interests] /\ refused \subseteq Dispatchers
  BY DEF Types
<1>3. \A err : \A i \in Interests : \A op :
        epoll_ctl(op, d, i, err) => epoll' \in [Dispatchers -> Interests]
  BY <1>2 DEF epoll_ctl
<1>4. ASSUME RemoveEpoll(d), PollEvents(ff) = {} PROVE Follows(d, key, ff)
  <2>1. PICK err \in {"none", "ENOENT", "other"} :
          epoll_ctl("DEL", d, NoInterest, err) /\ Refuses(d, err = "other")
    BY <1>4 DEF RemoveEpoll
  <2>2. err = "ENOENT" => epoll[d] = NoInterest
    BY <2>1 DEF epoll_ctl, CtlErrors
  <2> QED
    BY <1>1, <1>2, <1>3, <1>4, <2>1, <2>2 DEF Follows, epoll_ctl, Refuses
<1>5. ASSUME AddEpoll(d, key, ff), PollEvents(ff) # {} PROVE Follows(d, key, ff)
  <2>1. PICK err \in {"none", "EEXIST", "other"} :
          epoll_ctl("ADD", d, interest, err) /\ Refuses(d, err # "none")
    BY <1>5 DEF AddEpoll
  <2> QED
    BY <1>1, <1>2, <1>3, <1>5, <2>1 DEF Follows, epoll_ctl, Refuses
<1>6. ASSUME ModEpoll(d, key, ff), PollEvents(ff) # {} PROVE Follows(d, key, ff)
  <2>1. PICK err \in {"none", "other"} :
          epoll_ctl("MOD", d, interest, err) /\ Refuses(d, err # "none")
    BY <1>6 DEF ModEpoll
  <2> QED
    BY <1>1, <1>2, <1>3, <1>6, <2>1 DEF Follows, epoll_ctl, Refuses
<1> QED
  BY <1>3, <1>4, <1>5, <1>6

LEMMA UpdateFollows ==
  ASSUME Types, NEW d \in Dispatchers, NEW key \in Keys, NEW ff, UpdateEpoll(d, key, ff)
  PROVE  Follows(d, key, ff)
BY CtlFollows DEF UpdateEpoll

LEMMA AddFollows ==
  ASSUME Types, NEW d \in Dispatchers, NEW key \in Keys, NEW ff, AddEpoll(d, key, ff),
         d \notin refused => epoll[d] = NoInterest
  PROVE  Follows(d, key, ff)
<1>1. CASE PollEvents(ff) = {}
  BY <1>1 DEF AddEpoll, epollVars, Follows, Types
<1>2. CASE PollEvents(ff) # {}
  BY <1>2, CtlFollows
<1> QED
  BY <1>1, <1>2

LEMMA RemoveFollows ==
  ASSUME Types, NEW d \in Dispatchers, NEW key \in Keys, RemoveEpoll(d)
  PROVE  Follows(d, key, {})
<1>1. PollEvents({}) = {}
  BY DEF PollEvents
<1> QED
  BY <1>1, CtlFollows

LEMMA AddKeeps ==
  ASSUME LoopInv, NEW d \in Sockets, NEW ff \in Requests[d], Add(d, ff)
  PROVE  LoopInv'
<1> USE EvenLoopAssumption DEF Add, waitVars
<1>0. /\ d \in Dispatchers /\ d # None /\ nextKey \in Keys /\ nextKey \in Nat
      /\ dispatcher \in [Keys -> Dispatchers \cup {None}]
      /\ \A k \in Keys : k \in Nat
  BY DEF LoopInv, Types, Dispatchers, Keys
<1>1. /\ dispatcher[nextKey] = None /\ dispatcher'[nextKey] = d
      /\ \A k \in Keys \ {nextKey} : dispatcher'[k] = dispatcher[k]
      /\ \A k \in Keys : dispatcher[k] # d
  BY <1>0 DEF LoopInv, KeyInv, KeysOf
<1>7. IF backend = "epoll" THEN Follows(d, nextKey, ff) ELSE UNCHANGED <<epoll, refused>>
  <2>1. backend = "epoll" /\ d \notin refused => epoll[d] = NoInterest
    BY <1>0 DEF LoopInv, EpollInv, Wanted
  <2> QED
    BY <1>0, <2>1, AddFollows DEF LoopInv, epollVars
<1>2. Types'
  <2>1. epoll' \in [Dispatchers -> Interests] /\ refused' \subseteq Dispatchers
    BY <1>7 DEF LoopInv, Types, Follows, epollVars
  <2>2. requested' \in [Dispatchers -> SUBSET Flags]
    BY RequestsAreFlags DEF LoopInv, Types
  <2>3. nextKey' \in 0 .. MaxKeys /\ dispatcher' \in [Keys -> Dispatchers \cup {None}]
    BY <1>0
  <2> QED
    BY <2>1, <2>2, <2>3 DEF LoopInv, Types
<1>3. KeyInv'
  <2>1. ASSUME NEW k \in Keys, nextKey' <= k PROVE dispatcher'[k] = None
    BY <1>0, <1>1, <2>1 DEF LoopInv, KeyInv
  <2>2. ASSUME NEW j \in Keys, NEW k \in Keys, dispatcher'[j] = dispatcher'[k], dispatcher'[j] # None
        PROVE  j = k
    BY <1>0, <1>1, <2>2 DEF LoopInv, KeyInv
  <2> QED
    BY <2>1, <2>2 DEF KeyInv
<1>5. ASSUME NEW k, NEW e, OfKey(k, e) PROVE OfKey(k, e)'
  <2>1. CASE k = Signaler /\ e = Signaler
    BY <1>5, <2>1 DEF OfKey
  <2>2. CASE k \in Keys /\ k < nextKey /\ dispatcher[k] \in {e, None}
    <3>1. k # nextKey /\ k < nextKey + 1
      BY <1>0, <2>2
    <3> QED
      BY <1>1, <1>5, <2>2, <3>1 DEF OfKey
  <2> QED
    BY <1>5, <2>1, <2>2 DEF OfKey
<1>4. EpollInv'
  <2> SUFFICES ASSUME NEW e \in Dispatchers, NEW k, k = epoll'[e].key
               PROVE  /\ k # None => k \in Keys /\ OfKey(k, e)'
                      /\ backend = "epoll" /\ e \notin refused' => Wanted(e)'
    BY DEF EpollInv, OfKey
  <2>0. /\ e # None
        /\ \A j : j = epoll[e].key /\ j # None => j \in Keys /\ OfKey(j, e)'
    BY <1>5 DEF Dispatchers, LoopInv, EpollInv
  <2>1. CASE e # d
    <3>1. KeysOf(e)' = KeysOf(e)
      BY <1>0, <1>1, <2>0, <2>1 DEF KeysOf
    <3>2. requested'[e] = requested[e] /\ epoll'[e] = epoll[e] /\ (e \in refused' <=> e \in refused)
      BY <1>7, <2>1 DEF LoopInv, Types, Follows
    <3> QED
      BY <2>0, <3>1, <3>2 DEF LoopInv, EpollInv, Wanted
  <2>2. CASE e = d /\ backend = "epoll"
    <3>0. PICK key \in Keys : key = nextKey
      BY <1>0
    <3>1. key \in KeysOf(e)' /\ requested'[e] = ff /\ OfKey(key, e)'
      BY <1>0, <1>1, <2>2, <3>0 DEF KeysOf, OfKey, LoopInv, Types
    <3>2. Follows(d, key, ff)
      BY <1>7, <2>2, <3>0
    <3>3. CASE PollEvents(ff) = {}
      BY <2>0, <2>2, <3>1, <3>2, <3>3 DEF Follows, Wanted, NoInterest
    <3>4. CASE PollEvents(ff) # {}
      <4> DEFINE interest == [key |-> key, events |-> PollEvents(ff)]
      <4>1. /\ epoll'[e] \in {epoll[e], interest}
            /\ e \notin refused' => epoll'[e] = interest
            /\ interest.key = key /\ interest.events = PollEvents(ff)
        BY <2>2, <3>2, <3>4 DEF Follows
      <4> HIDE DEF interest
      <4> QED
        BY <1>0, <2>0, <3>1, <3>4, <4>1 DEF Wanted
    <3> QED
      BY <3>3, <3>4
  <2>3. CASE e = d /\ backend # "epoll"
    BY <1>7, <2>0, <2>3
  <2> QED
    BY <2>1, <2>2, <2>3
<1>6. WatchedInv' /\ FoundInv'
  BY <1>5 DEF LoopInv, WatchedInv, FoundInv
<1> QED
  BY <1>2, <1>3, <1>4, <1>6 DEF LoopInv

LEMMA RemoveKeeps ==
  ASSUME LoopInv, NEW d \in Sockets, Remove(d)
  PROVE  LoopInv'
<1> USE EvenLoopAssumption DEF Remove, waitVars
<1>0. /\ d \in Dispatchers /\ d # None
      /\ dispatcher \in [Keys -> Dispatchers \cup {None}]
  BY DEF LoopInv, Types, Dispatchers
<1>1. \A k \in Keys : dispatcher'[k] = IF dispatcher[k] = d THEN None ELSE dispatcher[k]
  BY DEF KeysOf
<1>7. IF backend = "epoll" THEN Follows(d, 0, {}) ELSE UNCHANGED <<epoll, refused>>
  <2>1. 0 \in Keys
    BY DEF Keys
  <2> QED
    BY <1>0, <2>1, RemoveFollows DEF LoopInv, epollVars
<1>2. Types'
  <2>1. epoll' \in [Dispatchers -> Interests] /\ refused' \subseteq Dispatchers
    BY <1>7 DEF LoopInv, Types, Follows, epollVars
  <2>2. requested' \in [Dispatchers -> SUBSET Flags]
    BY DEF LoopInv, Types
  <2>3. dispatcher' \in [Keys -> Dispatchers \cup {None}]
    BY <1>0
  <2>4. /\ ready' \in [Sockets -> SUBSET {"in", "out", "err"}]
        /\ \A e \in Sockets : ready'[e] \subseteq Conditions[e]
    BY DEF LoopInv, Types
  <2> QED
    BY <2>1, <2>2, <2>3, <2>4 DEF LoopInv, Types
<1>3. KeyInv'
  BY <1>1 DEF LoopInv, KeyInv
<1>5. \A k, e : OfKey(k, e) => OfKey(k, e)'
  BY <1>1 DEF OfKey
<1>4. EpollInv'
  <2> SUFFICES ASSUME NEW e \in Dispatchers, NEW k, k = epoll'[e].key
               PROVE  /\ k # None => k \in Keys /\ OfKey(k, e)'
                      /\ backend = "epoll" /\ e \notin refused' => Wanted(e)'
    BY DEF EpollInv, OfKey
  <2>0. /\ e # None
        /\ \A j : j = epoll[e].key /\ j # None => j \in Keys /\ OfKey(j, e)'
    BY <1>5 DEF Dispatchers, LoopInv, EpollInv
  <2>1. CASE e # d
    <3>1. KeysOf(e)' = KeysOf(e)
      BY <1>0, <1>1, <2>0, <2>1 DEF KeysOf
    <3>2. requested'[e] = requested[e] /\ epoll'[e] = epoll[e] /\ (e \in refused' <=> e \in refused)
      BY <1>7, <2>1 DEF LoopInv, Types, Follows
    <3> QED
      BY <2>0, <3>1, <3>2 DEF LoopInv, EpollInv, Wanted
  <2>2. CASE e = d /\ backend = "epoll"
    <3>1. KeysOf(e)' = {}
      BY <1>0, <1>1, <2>2 DEF KeysOf
    <3>2. epoll'[e] \in {epoll[e], NoInterest} /\ (e \notin refused' => epoll'[e] = NoInterest)
      BY <1>7, <2>2 DEF Follows, PollEvents
    <3> QED
      BY <2>0, <3>1, <3>2 DEF Wanted, NoInterest
  <2>3. CASE e = d /\ backend # "epoll"
    BY <1>7, <2>0, <2>3
  <2> QED
    BY <2>1, <2>2, <2>3
<1>6. WatchedInv' /\ FoundInv'
  BY <1>5 DEF LoopInv, WatchedInv, FoundInv
<1> QED
  BY <1>2, <1>3, <1>4, <1>6 DEF LoopInv

LEMMA UpdateKeeps ==
  ASSUME LoopInv, NEW d \in Sockets, NEW ff \in Requests[d], Update(d, ff)
  PROVE  LoopInv'
<1> USE EvenLoopAssumption DEF Update, waitVars
<1>0. /\ d \in Dispatchers
      /\ dispatcher \in [Keys -> Dispatchers \cup {None}] /\ dispatcher' = dispatcher
  BY DEF LoopInv, Types, Dispatchers
<1>1. PICK key \in KeysOf(d) :
        IF backend = "epoll" THEN Follows(d, key, ff) ELSE UNCHANGED <<epoll, refused>>
  <2>1. PICK key \in KeysOf(d) :
          IF backend = "epoll" THEN UpdateEpoll(d, key, ff) ELSE UNCHANGED epollVars
    OBVIOUS
  <2>2. key \in Keys
    BY DEF KeysOf
  <2> QED
    BY <1>0, <2>1, <2>2, UpdateFollows DEF LoopInv, epollVars
<1>2. Types'
  <2>1. epoll' \in [Dispatchers -> Interests] /\ refused' \subseteq Dispatchers
    BY <1>1 DEF LoopInv, Types, Follows
  <2>2. requested' \in [Dispatchers -> SUBSET Flags]
    BY RequestsAreFlags DEF LoopInv, Types
  <2> QED
    BY <1>0, <2>1, <2>2 DEF LoopInv, Types
<1>3. KeyInv' /\ \A e : KeysOf(e)' = KeysOf(e)
  BY <1>0 DEF LoopInv, KeyInv, KeysOf
<1>5. \A k, e : OfKey(k, e) => OfKey(k, e)'
  BY <1>0 DEF OfKey
<1>4. EpollInv'
  <2> SUFFICES ASSUME NEW e \in Dispatchers, NEW k, k = epoll'[e].key
               PROVE  /\ k # None => k \in Keys /\ OfKey(k, e)'
                      /\ backend = "epoll" /\ e \notin refused' => Wanted(e)'
    BY DEF EpollInv, OfKey
  <2>0. /\ e # None
        /\ \A j : j = epoll[e].key /\ j # None => j \in Keys /\ OfKey(j, e)'
    BY <1>5 DEF Dispatchers, LoopInv, EpollInv
  <2>1. CASE e # d
    <3>2. requested'[e] = requested[e] /\ epoll'[e] = epoll[e] /\ (e \in refused' <=> e \in refused)
      BY <1>1, <2>1 DEF LoopInv, Types, Follows
    <3> QED
      BY <1>3, <2>0, <3>2 DEF LoopInv, EpollInv, Wanted
  <2>2. CASE e = d /\ backend = "epoll"
    <3>1. key \in Keys /\ dispatcher[key] = e /\ key < nextKey /\ requested'[e] = ff
      BY <2>0, <2>2 DEF KeysOf, LoopInv, Types, KeyInv, Keys
    <3>2. key \in KeysOf(e)' /\ OfKey(key, e)'
      BY <1>0, <1>3, <2>2, <3>1 DEF OfKey
    <3>3. CASE PollEvents(ff) = {}
      BY <1>1, <2>0, <2>2, <3>1, <3>3 DEF Follows, Wanted, NoInterest
    <3>4. CASE PollEvents(ff) # {}
      <4> DEFINE interest == [key |-> key, events |-> PollEvents(ff)]
      <4>1. /\ epoll'[e] \in {epoll[e], interest}
            /\ e \notin refused' => epoll'[e] = interest
            /\ interest.key = key /\ interest.events = PollEvents(ff)
        BY <1>1, <2>2, <3>4 DEF Follows
      <4> HIDE DEF interest
      <4> QED
        BY <2>0, <3>1, <3>2, <3>4, <4>1 DEF Wanted
    <3> QED
      BY <3>3, <3>4
  <2>3. CASE e = d /\ backend # "epoll"
    BY <1>1, <2>0, <2>3
  <2> QED
    BY <2>1, <2>2, <2>3
<1>6. WatchedInv' /\ FoundInv'
  BY <1>5 DEF LoopInv, WatchedInv, FoundInv
<1> QED
  BY <1>2, <1>3, <1>4, <1>6 DEF LoopInv

-----------------------------------------------------------------------------
(* The steps that only move the thread in Wait, and what others do to      *)
(* sockets and to the signaler.                                            *)
LEMMA WakeUpKeeps ==
  ASSUME LoopInv, WakeUp
  PROVE  LoopInv'
<1>1. Types'
  BY DEF LoopInv, Types, WakeUp, registryVars, epollVars, waitVars
<1> QED
  BY <1>1, WaitStays DEF WakeUp, waitVars

LEMMA HappensKeeps ==
  ASSUME LoopInv, NEW d \in Sockets, NEW c \in Conditions[d], Happens(d, c)
  PROVE  LoopInv'
<1> DEFINE now == ready[d] \cup {c}
<1>b. now \subseteq Conditions[d] /\ now \in SUBSET {"in", "out", "err"}
  BY EvenLoopAssumption DEF LoopInv, Types
<1>a. ready \in [Sockets -> SUBSET {"in", "out", "err"}] /\ ready' = [ready EXCEPT ![d] = now]
  BY DEF LoopInv, Types, Happens
<1> HIDE DEF now
<1>1. /\ ready' \in [Sockets -> SUBSET {"in", "out", "err"}]
      /\ \A e \in Sockets : ready'[e] \subseteq Conditions[e]
  BY <1>b, <1>a DEF LoopInv, Types
<1>2. Types'
  BY <1>1 DEF LoopInv, Types, Happens, registryVars, epollVars, waitVars
<1> QED
  BY <1>2, WaitStays DEF Happens, waitVars

LEMMA MovesKeep ==
  ASSUME LoopInv,
         \/ \E io, finite \in BOOLEAN : Wait(io, finite)
         \/ Expire \/ WaitInterrupted \/ Lock \/ DispatchEnds \/ BottomRepeats
  PROVE  LoopInv'
<1> USE DEF registryVars, epollVars
<1>1. /\ UNCHANGED <<backend, registryVars, ready, fSignaled, found, cur>>
      /\ watched' = watched \/ watched' = Nothing
      /\ {fWait', process_io', timed', expired'} \subseteq BOOLEAN
      /\ pc' \in {"top", "bottom", "dispatch"} \/ pc' = pc
  BY DEF LoopInv, Types, Wait, Expire, WaitInterrupted, Lock, DispatchEnds, BottomRepeats
<1>2. Types'
  BY <1>1 DEF LoopInv, Types
<1> QED
  BY <1>1, <1>2, WaitStays

LEMMA ReturnKeeps ==
  ASSUME LoopInv, Return
  PROVE  LoopInv'
<1>1. Types'
  BY DEF LoopInv, Types, Return, registryVars, epollVars
<1> QED
  BY <1>1, WaitStays DEF Return

LEMMA CallbackReturnsKeeps ==
  ASSUME LoopInv, NEW consumed, CallbackReturns(consumed)
  PROVE  LoopInv'
<1>1. cur.by \in Sockets
  BY DEF LoopInv, Types, CallbackReturns
<1>2. /\ ready' \in [Sockets -> SUBSET {"in", "out", "err"}]
      /\ \A e \in Sockets : ready'[e] \subseteq Conditions[e]
  BY <1>1 DEF LoopInv, Types, CallbackReturns
<1>3. Types'
  BY <1>2 DEF LoopInv, Types, CallbackReturns, registryVars, epollVars
<1> QED
  BY <1>3, WaitStays DEF CallbackReturns

-----------------------------------------------------------------------------
(* The waits. WaitPoll and WaitSelect note the keys that are registered.   *)
LEMMA TopKeeps ==
  ASSUME LoopInv, Top
  PROVE  LoopInv'
<1>1. Types'
  BY DEF LoopInv, Types, Top, registryVars, epollVars
<1>2. KeyInv' /\ EpollInv' /\ \A k, d : OfKey(k, d) => OfKey(k, d)'
  BY RegistryStays DEF Top
<1>3. ASSUME NEW k \in DOMAIN watched' PROVE OfKey(k, watched'[k].by)
  <2>1. CASE OneDispatcher
    <3>1. k = Signaler /\ watched'[k].by = Signaler
      BY <1>3, <2>1 DEF Top, Polled
    <3> QED
      BY <3>1 DEF OfKey, Dispatchers
  <2>2. CASE ~OneDispatcher /\ backend = "epoll"
    BY <1>3, <2>2 DEF Top, Nothing
  <2>3. CASE ~OneDispatcher /\ backend # "epoll"
    <3>1. PICK d \in Dispatchers : k \in KeysOf(d)
      BY <1>3, <2>3 DEF Top, Dispatchers
    <3>2. k \in Keys /\ dispatcher[k] = d /\ watched'[k].by = d
      BY <1>3, <2>3, <3>1 DEF Top, Polled, KeysOf
    <3>3. k < nextKey
      BY <3>1, <3>2, EvenLoopAssumption DEF LoopInv, Types, KeyInv, Keys
    <3> QED
      BY <3>1, <3>2, <3>3 DEF OfKey
  <2> QED
    BY <2>1, <2>2, <2>3
<1>4. WatchedInv'
  BY <1>2, <1>3 DEF WatchedInv
<1>5. FoundInv'
  BY <1>2 DEF LoopInv, FoundInv, Top
<1> QED
  BY <1>1, <1>2, <1>4, <1>5 DEF LoopInv

(* epoll_wait goes by the keys that the epoll set has when it returns.     *)
LEMMA AskedOfKey ==
  ASSUME LoopInv, NEW k \in DOMAIN Asked
  PROVE  OfKey(k, Asked[k].by)
<1>1. CASE backend = "epoll" /\ process_io
  <2> DEFINE e == CHOOSE d \in Dispatchers : epoll[d].key = k
  <2>1. k \in {epoll[d].key : d \in Dispatchers} \ {None} /\ Asked[k].by = e
    BY <1>1 DEF Asked
  <2>2. e \in Dispatchers /\ epoll[e].key = k /\ k # None
    BY <2>1
  <2> HIDE DEF e
  <2>3. OfKey(k, e)
    BY <2>2 DEF LoopInv, EpollInv
  <2> QED
    BY <2>1, <2>3
<1>2. CASE ~(backend = "epoll" /\ process_io)
  BY <1>2 DEF Asked, LoopInv, WatchedInv
<1> QED
  BY <1>1, <1>2

LEMMA WaitReturnsKeeps ==
  ASSUME LoopInv, WaitReturns
  PROVE  LoopInv'
<1>1. Types'
  BY DEF LoopInv, Types, WaitReturns, registryVars, epollVars
<1>2. KeyInv' /\ EpollInv' /\ \A k, d : OfKey(k, d) => OfKey(k, d)'
  BY RegistryStays DEF WaitReturns
<1>3. WatchedInv'
  BY DEF WatchedInv, WaitReturns, Nothing
<1>4. ASSUME NEW k \in DOMAIN found' PROVE OfKey(k, found'[k].by)
  <2>1. k \in DOMAIN Asked /\ found'[k].by = Asked[k].by
    BY <1>4 DEF WaitReturns, Reported
  <2> QED
    BY <2>1, AskedOfKey
<1>5. FoundInv'
  BY <1>2, <1>4 DEF FoundInv
<1> QED
  BY <1>1, <1>2, <1>3, <1>5 DEF LoopInv

-----------------------------------------------------------------------------
(* The dispatching of what was found.                                      *)
LEMMA OthersOfKey ==
  ASSUME LoopInv, NEW k, found' = Others(k), watched' = watched,
         UNCHANGED <<backend, registryVars>>, Types'
  PROVE  LoopInv'
<1>1. KeyInv' /\ EpollInv' /\ \A j, d : OfKey(j, d) => OfKey(j, d)'
  BY RegistryStays
<1>2. WatchedInv'
  BY <1>1 DEF LoopInv, WatchedInv
<1>3. FoundInv'
  BY <1>1 DEF LoopInv, FoundInv, Others
<1> QED
  BY <1>1, <1>2, <1>3 DEF LoopInv

LEMMA DispatchSignalerKeeps ==
  ASSUME LoopInv, NEW k, DispatchSignaler(k)
  PROVE  LoopInv'
<1>1. Types'
  BY DEF LoopInv, Types, DispatchSignaler, registryVars, epollVars
<1> QED
  BY <1>1, OthersOfKey DEF DispatchSignaler

(* The dispatcher under the key of an event is the one the event is about. *)
LEMMA KeyNamesDispatcher ==
  ASSUME LoopInv, NEW k \in Keys, k \in DOMAIN found, dispatcher[k] # None
  PROVE  dispatcher[k] = found[k].by /\ dispatcher[k] \in Dispatchers
BY EvenLoopAssumption DEF LoopInv, FoundInv, OfKey

LEMMA DispatchSocketKeeps ==
  ASSUME LoopInv, NEW k \in Keys, NEW errcode, NEW closed, DispatchSocket(k, errcode, closed)
  PROVE  LoopInv'
<1> DEFINE d == dispatcher[k]
           ff == ProcessEvents(requested[d], found[k].events, errcode, closed)
<1>1. ASSUME d # None /\ ff # {} PROVE Types'
  <2>1. d \in Sockets
    BY <1>1, KeyNamesDispatcher DEF DispatchSocket, Dispatchers
  <2>2. ff \in SUBSET Flags
    BY DEF ProcessEvents
  <2>3. cur' = [key |-> k, by |-> d, flags |-> ff, of |-> k] /\ pc' = "callback"
    BY <1>1 DEF DispatchSocket
  <2> HIDE DEF d, ff
  <2>4. /\ cur' \in [key : Keys, by : Sockets, flags : SUBSET Flags, of : Keys]
        /\ cur' # NoEvent
    BY <2>1, <2>2, <2>3, EvenLoopAssumption DEF NoEvent
  <2> QED
    BY <2>3, <2>4 DEF LoopInv, Types, DispatchSocket, registryVars, epollVars
<1>2. ASSUME ~(d # None /\ ff # {}) PROVE Types'
  BY <1>2 DEF LoopInv, Types, DispatchSocket, registryVars, epollVars
<1>3. Types'
  BY <1>1, <1>2
<1> QED
  BY <1>3, OthersOfKey DEF DispatchSocket

-----------------------------------------------------------------------------
LEMMA StepKeepsLoop ==
  ASSUME LoopInv, [Next]_vars
  PROVE  LoopInv'
<1>1. CASE WaiterStep
  <2>1. CASE WaitTimesOut \/ Bottom
    BY <2>1, ReturnKeeps DEF WaitTimesOut, Bottom
  <2> QED
    BY <1>1, <2>1, TopKeeps, WaitReturnsKeeps, MovesKeep, DispatchSignalerKeeps,
       DispatchSocketKeeps, CallbackReturnsKeeps DEF WaiterStep
<1>2. CASE UserStep
  BY <1>2, WakeUpKeeps, MovesKeep, RemoveKeeps, AddKeeps, UpdateKeeps DEF UserStep
<1>3. CASE Expire \/ WaitInterrupted
  BY <1>3, MovesKeep
<1>4. CASE WaitFails
  BY <1>4, ReturnKeeps DEF WaitFails
<1>5. CASE \E d \in Sockets : \E c \in Conditions[d] : Happens(d, c)
  BY <1>5, HappensKeeps
<1>6. CASE UNCHANGED vars
  <2>1. Types'
    BY <1>6 DEF LoopInv, Types, vars, registryVars, epollVars, waitVars
  <2> QED
    BY <1>6, <2>1, WaitStays DEF vars, waitVars
<1> QED
  BY <1>1, <1>2, <1>3, <1>4, <1>5, <1>6 DEF Next

(* Keys, registrations, epoll set and what the wait has noted and found    *)
(* agree at all times, up to what epoll_ctl has refused.                   *)
THEOREM LoopInvCorrect == Spec => []LoopInv
<1>1. Init => LoopInv
  BY InitLoop
<1>2. LoopInv /\ [Next]_vars => LoopInv'
  BY StepKeepsLoop
<1> QED
  BY <1>1, <1>2, PTL DEF Spec

(* Every variable keeps its type, and no dispatcher has two keys.          *)
THEOREM LoopTypeCorrect == Spec => []TypeOK
<1>1. LoopInv => TypeOK
  <2> SUFFICES ASSUME LoopInv PROVE TypeOK
    OBVIOUS
  <2>1. \A k \in nextKey .. MaxKeys - 1 : dispatcher[k] = None
    BY EvenLoopAssumption DEF LoopInv, Types, KeyInv, Keys
  <2>2. ASSUME NEW d \in Dispatchers PROVE Cardinality(KeysOf(d)) <= 1
    <3>1. CASE KeysOf(d) = {}
      BY <3>1, FS_EmptySet
    <3>2. ASSUME NEW k \in KeysOf(d) PROVE Cardinality(KeysOf(d)) = 1
      <4>1. KeysOf(d) = {k}
        BY <3>2, EvenLoopAssumption DEF KeysOf, LoopInv, KeyInv
      <4> QED
        BY <4>1, FS_Singleton
    <3> QED
      BY <3>1, <3>2
  <2>3. DOMAIN watched \subseteq Keys \cup {Signaler} /\ DOMAIN found \subseteq Keys \cup {Signaler}
    BY DEF LoopInv, WatchedInv, FoundInv, OfKey
  <2> QED
    BY <2>1, <2>2, <2>3 DEF LoopInv, Types, TypeOK, Interests
<1> QED
  BY <1>1, LoopInvCorrect, PTL

(* OnEvent is called of the dispatcher that the event happened to, under   *)
(* the key it was reported with, and never of one that has taken its place.*)
THEOREM NoABACorrect == Spec => NoABA
<1> DEFINE Told == pc = "dispatch" /\ pc' = "callback" =>
                     /\ cur'.key = cur'.of /\ cur'.by = found[cur'.of].by
                     /\ dispatcher[cur'.key] = cur'.by
<1>1. ASSUME LoopInv, [Next]_vars PROVE [Told]_vars
  <2> SUFFICES ASSUME pc = "dispatch", pc' = "callback"
               PROVE  /\ cur'.key = cur'.of /\ cur'.by = found[cur'.of].by
                      /\ dispatcher[cur'.key] = cur'.by
    OBVIOUS
  <2>1. PICK k \in Keys, errcode \in BOOLEAN, closed \in BOOLEAN :
          DispatchSocket(k, errcode, closed)
    BY <1>1 DEF Next, WaiterStep, UserStep, vars, registryVars, waitVars, Top, WaitReturns,
         WaitTimesOut, Return, Lock, DispatchEnds, Bottom, BottomRepeats, DispatchSignaler,
         CallbackReturns, WakeUp, Wait, Remove, Add, Update, Expire, WaitInterrupted, WaitFails,
         Happens
  <2>2. /\ dispatcher[k] # None /\ k \in DOMAIN found
        /\ cur'.key = k /\ cur'.of = k /\ cur'.by = dispatcher[k]
    BY <2>1 DEF DispatchSocket
  <2>3. dispatcher[k] = found[k].by
    BY <1>1, <2>2, KeyNamesDispatcher
  <2> QED
    BY <2>2, <2>3
<1>2. NoABA <=> [][Told]_vars
  BY DEF NoABA
<1> QED
  BY <1>1, <1>2, LoopInvCorrect, PTL DEF Spec

-----------------------------------------------------------------------------
(* crit_, the RecursiveCriticalSection under which the loop reads and      *)
(* changes its dispatchers and tells them their events: proofs, for every  *)
(* set of threads and every depth, that the lock keeps its types,          *)
(* excludes, agrees with its DCHECKs, counts its levels and its waiters in *)
(* lock_queue_, and strands no waiter.                                     *)
Crit == INSTANCE RecursiveCriticalSection

(* The lock is with the thread.                                            *)
HasLock(t) == depth[t] > 0 \/ at[t] \in {"own", "dec", "test"}

Waiters == {t \in Threads : at[t] = "sem"}

(* A level that lock_queue_ counts and the owner's fields do not: the one  *)
(* that is being entered or left.                                          *)
Passing == IF \E t \in Threads : at[t] \in {"own", "dec"} THEN 1 ELSE 0

(* Who is on its way in has a level left, and who has given up spinning    *)
(* is not the owner.                                                       *)
DepthInv ==
  /\ \A t \in Threads : at[t] \in {"spin", "queue", "sem", "own"} => depth[t] < MaxDepth
  /\ \A t \in Threads : at[t] \in {"queue", "sem"} => depth[t] = 0

(* One thread holds the lock or one hand-over is under way.                *)
ExclusionInv ==
  /\ semaphore_ \in {0, 1}
  /\ \A t, u \in Threads : HasLock(t) /\ HasLock(u) => t = u
  /\ semaphore_ = 1 => \A t \in Threads : ~HasLock(t)

(* The owner's fields are those of the thread that has entered.            *)
OwnerInv ==
  /\ recursion_ = recursion_count_
  /\ \A t \in Threads : depth[t] > 0 => owning_thread_ = t /\ thread_ = t /\ recursion_ = depth[t]
  /\ (\A t \in Threads : depth[t] = 0) =>
       owning_thread_ = NoThread /\ thread_ = NoThread /\ recursion_ = 0

(* The header's "number of times the lock has been locked plus number of   *)
(* threads waiting".                                                       *)
QueueCount ==
  /\ IsFiniteSet(Waiters)
  /\ lock_queue_ = recursion_ + Passing + Cardinality(Waiters)

(* A thread that waits for the semaphore waits for somebody: the lock is   *)
(* with a thread, or on its way. A hand-over finds somebody waiting.       *)
NoneStranded ==
  /\ Waiters # {} => semaphore_ = 1 \/ \E t \in Threads : HasLock(t)
  /\ semaphore_ = 1 => Waiters # {}
  /\ \A t \in Threads : at[t] = "test" /\ depth[t] = 0 => Waiters # {}

LockInv == Crit!TypeOK /\ DepthInv /\ ExclusionInv /\ OwnerInv /\ QueueCount /\ NoneStranded

-----------------------------------------------------------------------------
(* The number of waiters is a natural number, and 0 when there are none.   *)
LEMMA WaitersCount ==
  ASSUME LockInv
  PROVE  /\ Cardinality(Waiters) \in Nat
         /\ Cardinality(Waiters) = 0 <=> Waiters = {}
         /\ Passing \in {0, 1}
BY FS_CardinalityType, FS_EmptySet DEF LockInv, QueueCount, Passing

(* A lock_queue_ of 0 says that the lock is with nobody.                   *)
LEMMA ZeroIsFree ==
  ASSUME LockInv, lock_queue_ = 0
  PROVE  /\ Waiters = {} /\ semaphore_ = 0 /\ recursion_ = 0
         /\ \A t \in Threads : ~HasLock(t)
<1>1. Waiters = {} /\ Passing = 0 /\ recursion_ = 0
  BY WaitersCount DEF LockInv, QueueCount, Crit!TypeOK
<1>2. \A t \in Threads : at[t] \notin {"own", "dec"} /\ depth[t] = 0
  BY <1>1 DEF Passing, LockInv, OwnerInv, Crit!TypeOK
<1> QED
  BY <1>1, <1>2 DEF LockInv, NoneStranded, ExclusionInv, HasLock

-----------------------------------------------------------------------------
(* Who holds the lock, and how it is counted, after a step of Enter.       *)
LEMMA EnterKeepsLock ==
  ASSUME LockInv, NEW t \in Threads, Crit!Enter(t) \/ Crit!SpinEnds(t)
  PROVE  LockInv'
<1> USE LockAssumption DEF Crit!Enter, Crit!SpinEnds, Crit!Goto, Crit!lockVars,
      Crit!ownerVars
<1>1. Waiters' = Waiters
  BY DEF Waiters, LockInv, Crit!TypeOK
<1>2. Passing' = Passing
  BY DEF Passing, LockInv, Crit!TypeOK
<1>3. \A u \in Threads : HasLock(u)' <=> HasLock(u)
  BY DEF HasLock, LockInv, Crit!TypeOK
<1>4. Crit!TypeOK' /\ DepthInv'
  BY DEF LockInv, Crit!TypeOK, DepthInv, OwnerInv
<1>5. ExclusionInv'
  BY <1>3 DEF LockInv, ExclusionInv
<1>6. OwnerInv'
  BY DEF LockInv, OwnerInv
<1>7. QueueCount'
  BY <1>1, <1>2 DEF LockInv, QueueCount
<1>8. NoneStranded'
  BY <1>1, <1>3 DEF LockInv, NoneStranded, Crit!TypeOK
<1> QED
  BY <1>4, <1>5, <1>6, <1>7, <1>8 DEF LockInv

(* The owner enters once more: a level of its own is under way.            *)
LEMMA EnterAgainKeepsLock ==
  ASSUME LockInv, NEW t \in Threads, Crit!EnterAgain(t)
  PROVE  LockInv'
<1> USE LockAssumption DEF Crit!EnterAgain, Crit!Goto, Crit!ownerVars
<1>0. depth[t] > 0
  BY DEF LockInv, OwnerInv, Crit!TypeOK
<1>1. Waiters' = Waiters
  BY DEF Waiters, LockInv, Crit!TypeOK
<1>2. Passing = 0
  BY <1>0 DEF Passing, LockInv, ExclusionInv, HasLock
<1>3. Passing' = 1
  BY DEF Passing, LockInv, Crit!TypeOK
<1>4. \A u \in Threads : HasLock(u)' <=> HasLock(u)
  BY <1>0 DEF HasLock, LockInv, Crit!TypeOK
<1>5. Crit!TypeOK' /\ DepthInv'
  BY DEF LockInv, Crit!TypeOK, DepthInv
<1>6. ExclusionInv'
  BY <1>4 DEF LockInv, ExclusionInv
<1>7. OwnerInv'
  BY DEF LockInv, OwnerInv
<1>8. QueueCount'
  BY <1>1, <1>2, <1>3, WaitersCount DEF LockInv, QueueCount, Crit!TypeOK
<1>9. NoneStranded'
  BY <1>1, <1>4 DEF LockInv, NoneStranded, Crit!TypeOK
<1> QED
  BY <1>5, <1>6, <1>7, <1>8, <1>9 DEF LockInv

(* A thread finds the lock free, in TryEnter, while spinning or when it    *)
(* joins the queue.                                                        *)
LEMMA TakeFree ==
  ASSUME LockInv, NEW t \in Threads, lock_queue_ = 0, lock_queue_' = 1,
         at[t] \in {"out", "spin", "queue"}, depth[t] < MaxDepth,
         Crit!Goto(t, "own"), UNCHANGED <<semaphore_, Crit!ownerVars, depth>>
  PROVE  LockInv'
<1> USE LockAssumption DEF Crit!Goto, Crit!ownerVars
<1>0. Waiters = {} /\ semaphore_ = 0 /\ recursion_ = 0 /\ \A u \in Threads : ~HasLock(u)
  BY ZeroIsFree
<1>1. Waiters' = Waiters
  BY DEF Waiters, LockInv, Crit!TypeOK
<1>2. Passing = 0
  BY <1>0 DEF Passing, HasLock
<1>3. Passing' = 1
  BY DEF Passing, LockInv, Crit!TypeOK
<1>4. \A u \in Threads : HasLock(u)' <=> u = t
  BY <1>0 DEF HasLock, LockInv, Crit!TypeOK
<1>5. Crit!TypeOK' /\ DepthInv'
  BY DEF LockInv, Crit!TypeOK, DepthInv
<1>6. ExclusionInv'
  BY <1>0, <1>4 DEF LockInv, ExclusionInv
<1>7. OwnerInv'
  BY DEF LockInv, OwnerInv
<1>8. QueueCount'
  BY <1>0, <1>1, <1>2, <1>3, WaitersCount DEF LockInv, QueueCount, Crit!TypeOK
<1>9. NoneStranded'
  BY <1>0, <1>1, <1>4 DEF LockInv, NoneStranded, Crit!TypeOK
<1> QED
  BY <1>5, <1>6, <1>7, <1>8, <1>9 DEF LockInv

(* Queueing behind others adds a waiter.                                   *)
LEMMA QueueKeepsLock ==
  ASSUME LockInv, NEW t \in Threads, Crit!Queue(t)
  PROVE  LockInv'
<1> USE LockAssumption DEF Crit!Queue, Crit!Goto, Crit!ownerVars
<1>1. CASE lock_queue_ = 0
  <2>1. lock_queue_' = 1 /\ ~(lock_queue_' > 1)
    BY <1>1
  <2>2. Crit!Goto(t, "own") /\ at[t] = "queue" /\ depth[t] < MaxDepth
    BY <2>1 DEF LockInv, DepthInv
  <2> QED
    BY <1>1, <2>1, <2>2, TakeFree
<1>2. CASE lock_queue_ # 0
  <2>a. lock_queue_' > 1
    BY <1>2 DEF LockInv, Crit!TypeOK
  <2>0. lock_queue_' > 1 /\ at' = [at EXCEPT ![t] = "sem"] /\ at[t] = "queue"
    BY <2>a
  <2>1. Waiters' = Waiters \cup {t} /\ t \notin Waiters
    BY <2>0 DEF Waiters, LockInv, Crit!TypeOK
  <2>2. IsFiniteSet(Waiters') /\ Cardinality(Waiters') = Cardinality(Waiters) + 1
    BY <2>1, FS_AddElement DEF LockInv, QueueCount
  <2>3. Passing' = Passing
    BY <2>0 DEF Passing, LockInv, Crit!TypeOK
  <2>4. \A u \in Threads : HasLock(u)' <=> HasLock(u)
    BY <2>0 DEF HasLock, LockInv, Crit!TypeOK
  <2>5. semaphore_ = 1 \/ \E u \in Threads : HasLock(u)
    <3>1. CASE Waiters # {}
      BY <3>1 DEF LockInv, NoneStranded
    <3>2. CASE Waiters = {} /\ Passing = 1
      BY <3>2 DEF Passing, HasLock
    <3>3. CASE Waiters = {} /\ Passing = 0
      <4>1. recursion_ # 0
        BY <1>2, <3>3, WaitersCount DEF LockInv, QueueCount, Crit!TypeOK
      <4> QED
        BY <4>1 DEF LockInv, OwnerInv, HasLock, Crit!TypeOK
    <3> QED
      BY <3>1, <3>2, <3>3, WaitersCount
  <2>6. Crit!TypeOK' /\ DepthInv'
    BY <2>0 DEF LockInv, Crit!TypeOK, DepthInv
  <2>7. ExclusionInv'
    BY <2>4 DEF LockInv, ExclusionInv
  <2>8. OwnerInv'
    BY DEF LockInv, OwnerInv
  <2>9. QueueCount'
    BY <2>2, <2>3, WaitersCount DEF LockInv, QueueCount, Crit!TypeOK
  <2>10. NoneStranded'
    BY <2>0, <2>1, <2>4, <2>5 DEF LockInv, NoneStranded, Crit!TypeOK
  <2> QED
    BY <2>6, <2>7, <2>8, <2>9, <2>10 DEF LockInv
<1> QED
  BY <1>1, <1>2

(* The hand-over reaches a waiter, which holds the lock from then on.      *)
LEMMA SemaphoreKeepsLock ==
  ASSUME LockInv, NEW t \in Threads, Crit!SemaphoreWait(t)
  PROVE  LockInv'
<1> USE LockAssumption DEF Crit!SemaphoreWait, Crit!Goto, Crit!ownerVars
<1>0. semaphore_ = 1 /\ semaphore_' = 0 /\ depth[t] = 0 /\ \A u \in Threads : ~HasLock(u)
  BY DEF LockInv, ExclusionInv, DepthInv
<1>1. Waiters' = Waiters \ {t} /\ t \in Waiters
  BY DEF Waiters, LockInv, Crit!TypeOK
<1>2. IsFiniteSet(Waiters') /\ Cardinality(Waiters') = Cardinality(Waiters) - 1
  BY <1>1, FS_RemoveElement DEF LockInv, QueueCount
<1>3. Passing = 0
  BY <1>0 DEF Passing, HasLock
<1>4. Passing' = 1
  BY DEF Passing, LockInv, Crit!TypeOK
<1>5. \A u \in Threads : HasLock(u)' <=> u = t
  BY <1>0 DEF HasLock, LockInv, Crit!TypeOK
<1>6. Crit!TypeOK' /\ DepthInv'
  BY <1>0 DEF LockInv, Crit!TypeOK, DepthInv
<1>7. ExclusionInv'
  BY <1>0, <1>5 DEF LockInv, ExclusionInv
<1>8. OwnerInv'
  BY DEF LockInv, OwnerInv
<1>9. QueueCount'
  BY <1>2, <1>3, <1>4, WaitersCount DEF LockInv, QueueCount, Crit!TypeOK
<1>10. NoneStranded'
  BY <1>0, <1>5 DEF LockInv, NoneStranded, Crit!TypeOK, HasLock
<1> QED
  BY <1>6, <1>7, <1>8, <1>9, <1>10 DEF LockInv

(* The end of Enter makes the thread the owner, at one level more.         *)
LEMMA OwnKeepsLock ==
  ASSUME LockInv, NEW t \in Threads, Crit!Own(t)
  PROVE  LockInv'
<1> USE LockAssumption DEF Crit!Own, Crit!Goto, Crit!lockVars
<1>0. HasLock(t) /\ semaphore_ = 0 /\ \A u \in Threads : HasLock(u) => u = t
  BY DEF LockInv, ExclusionInv, HasLock
<1>1. recursion_ = depth[t] /\ depth[t] < MaxDepth /\ \A u \in Threads \ {t} : depth[u] = 0
  <2>1. \A u \in Threads \ {t} : depth[u] = 0
    BY <1>0 DEF HasLock, LockInv, Crit!TypeOK
  <2>2. CASE depth[t] = 0
    BY <2>1, <2>2 DEF LockInv, OwnerInv, DepthInv
  <2>3. CASE depth[t] # 0
    BY <2>1, <2>3 DEF LockInv, OwnerInv, DepthInv, Crit!TypeOK
  <2> QED
    BY <2>1, <2>2, <2>3
<1>2. Waiters' = Waiters
  BY DEF Waiters, LockInv, Crit!TypeOK
<1>3. Passing = 1 /\ Passing' = 0
  BY <1>0 DEF Passing, HasLock, LockInv, Crit!TypeOK
<1>4. \A u \in Threads : HasLock(u)' <=> HasLock(u)
  BY <1>0, <1>1 DEF HasLock, LockInv, Crit!TypeOK
<1>5. Crit!TypeOK' /\ DepthInv'
  BY <1>1 DEF LockInv, Crit!TypeOK, DepthInv, OwnerInv
<1>6. ExclusionInv'
  BY <1>4 DEF LockInv, ExclusionInv
<1>7. OwnerInv'
  <2>1. recursion_' = recursion_count_' /\ recursion_' = depth'[t] /\ depth'[t] > 0 /\ owning_thread_' = t
    BY <1>1 DEF LockInv, OwnerInv, Crit!TypeOK
  <2>2. thread_' = t
    BY <1>1 DEF LockInv, OwnerInv, Crit!TypeOK
  <2>3. \A u \in Threads \ {t} : depth'[u] = 0
    BY <1>1 DEF LockInv, Crit!TypeOK
  <2> QED
    BY <2>1, <2>2, <2>3 DEF OwnerInv
<1>8. QueueCount'
  BY <1>2, <1>3, WaitersCount DEF LockInv, QueueCount, Crit!TypeOK
<1>9. NoneStranded'
  BY <1>0, <1>2, <1>4 DEF LockInv, NoneStranded, Crit!TypeOK
<1> QED
  BY <1>5, <1>6, <1>7, <1>8, <1>9 DEF LockInv

(* TryEnter takes a free lock or enters once more.                         *)
LEMMA TryEnterKeepsLock ==
  ASSUME LockInv, NEW t \in Threads, Crit!TryEnter(t)
  PROVE  LockInv'
<1> USE LockAssumption DEF Crit!TryEnter
<1>1. CASE lock_queue_ = 0
  BY <1>1, TakeFree
<1>2. CASE owning_thread_ = t
  <2> USE DEF Crit!Goto, Crit!ownerVars
  <2>0. depth[t] > 0
    BY <1>2 DEF LockInv, OwnerInv, Crit!TypeOK
  <2>1. Waiters' = Waiters
    BY DEF Waiters, LockInv, Crit!TypeOK
  <2>2. Passing = 0 /\ Passing' = 1
    BY <2>0 DEF Passing, LockInv, ExclusionInv, HasLock, Crit!TypeOK
  <2>3. \A u \in Threads : HasLock(u)' <=> HasLock(u)
    BY <2>0 DEF HasLock, LockInv, Crit!TypeOK
  <2>4. Crit!TypeOK' /\ DepthInv'
    BY DEF LockInv, Crit!TypeOK, DepthInv
  <2>5. ExclusionInv'
    BY <2>3 DEF LockInv, ExclusionInv
  <2>6. OwnerInv'
    BY DEF LockInv, OwnerInv
  <2>7. QueueCount'
    BY <2>1, <2>2, WaitersCount DEF LockInv, QueueCount, Crit!TypeOK
  <2>8. NoneStranded'
    BY <2>1, <2>3 DEF LockInv, NoneStranded, Crit!TypeOK
  <2> QED
    BY <2>4, <2>5, <2>6, <2>7, <2>8 DEF LockInv
<1> QED
  BY <1>1, <1>2

-----------------------------------------------------------------------------
(* The first part of Leave takes back a level; lock_queue_ still has it.   *)
LEMMA LeaveKeepsLock ==
  ASSUME LockInv, NEW t \in Threads, Crit!Leave(t)
  PROVE  LockInv'
<1> USE LockAssumption DEF Crit!Leave, Crit!Goto, Crit!lockVars
<1>0. HasLock(t) /\ semaphore_ = 0 /\ \A u \in Threads : HasLock(u) => u = t
  BY DEF LockInv, ExclusionInv, HasLock
<1>1. /\ recursion_ = depth[t] /\ recursion_count_ = depth[t] /\ depth[t] \in 1 .. MaxDepth
      /\ owning_thread_ = t /\ thread_ = t
      /\ \A u \in Threads \ {t} : depth[u] = 0
  BY <1>0 DEF HasLock, LockInv, OwnerInv, Crit!TypeOK
<1>2. Waiters' = Waiters
  BY DEF Waiters, LockInv, Crit!TypeOK
<1>3. Passing = 0 /\ Passing' = 1
  BY <1>0 DEF Passing, HasLock, LockInv, Crit!TypeOK
<1>4. \A u \in Threads : HasLock(u)' <=> HasLock(u)
  BY <1>0, <1>1 DEF HasLock, LockInv, Crit!TypeOK
<1>5. depth'[t] = depth[t] - 1 /\ recursion_' = depth'[t] /\ recursion_count_' = depth'[t]
  BY <1>1 DEF LockInv, Crit!TypeOK
<1>6. Crit!TypeOK' /\ DepthInv'
  BY <1>1, <1>5 DEF LockInv, Crit!TypeOK, DepthInv
<1>7. ExclusionInv'
  BY <1>4 DEF LockInv, ExclusionInv
<1>8. OwnerInv'
  <2>1. \A u \in Threads \ {t} : depth'[u] = 0
    BY <1>1 DEF LockInv, Crit!TypeOK
  <2>2. IF depth'[t] = 0 THEN owning_thread_' = NoThread /\ thread_' = NoThread
                         ELSE owning_thread_' = t /\ thread_' = t
    BY <1>1, <1>5
  <2> QED
    BY <1>1, <1>5, <2>1, <2>2 DEF OwnerInv
<1>9. QueueCount'
  BY <1>1, <1>2, <1>3, <1>5, WaitersCount DEF LockInv, QueueCount, Crit!TypeOK
<1>10. NoneStranded'
  BY <1>0, <1>2, <1>4 DEF LockInv, NoneStranded, Crit!TypeOK
<1> QED
  BY <1>6, <1>7, <1>8, <1>9, <1>10 DEF LockInv

(* The second part takes the level from lock_queue_: what remains are the  *)
(* levels of the thread and those who wait for it.                         *)
LEMMA DecrementKeepsLock ==
  ASSUME LockInv, NEW t \in Threads, Crit!Decrement(t)
  PROVE  LockInv'
<1> USE LockAssumption DEF Crit!Decrement, Crit!Goto, Crit!ownerVars
<1>0. HasLock(t) /\ semaphore_ = 0 /\ \A u \in Threads : HasLock(u) => u = t
  BY DEF LockInv, ExclusionInv, HasLock
<1>1. PICK place \in {"test", "out"} :
        /\ at' = [at EXCEPT ![t] = place]
        /\ place = "test" <=> lock_queue_' > 0
  OBVIOUS
<1>2. Waiters' = Waiters
  BY <1>1 DEF Waiters, LockInv, Crit!TypeOK
<1>3. Passing = 1 /\ Passing' = 0
  BY <1>0, <1>1 DEF Passing, HasLock, LockInv, Crit!TypeOK
<1>4. recursion_ = depth[t]
  BY <1>0 DEF HasLock, LockInv, OwnerInv, Crit!TypeOK
<1>5. lock_queue_' = depth[t] + Cardinality(Waiters) /\ lock_queue_' \in Nat
  BY <1>3, <1>4, WaitersCount DEF LockInv, QueueCount, Crit!TypeOK
<1>6. Crit!TypeOK' /\ DepthInv'
  BY <1>1, <1>5 DEF LockInv, Crit!TypeOK, DepthInv
<1>7. \A u \in Threads : HasLock(u)' <=> HasLock(u) /\ (depth[t] > 0 \/ Waiters # {})
  BY <1>0, <1>1, <1>5, WaitersCount DEF HasLock, LockInv, Crit!TypeOK
<1>8. ExclusionInv'
  BY <1>0, <1>7 DEF LockInv, ExclusionInv
<1>9. OwnerInv'
  BY DEF LockInv, OwnerInv
<1>10. QueueCount'
  BY <1>2, <1>3, <1>4, <1>5, WaitersCount DEF LockInv, QueueCount, Crit!TypeOK
<1>11. NoneStranded'
  <2>1. Waiters' # {} => HasLock(t)'
    BY <1>0, <1>2, <1>7
  <2>2. \A u \in Threads : at'[u] = "test" /\ depth'[u] = 0 => Waiters' # {}
    BY <1>0, <1>1, <1>2, <1>5, WaitersCount DEF HasLock, LockInv, Crit!TypeOK
  <2> QED
    BY <1>0, <2>1, <2>2 DEF NoneStranded
<1> QED
  BY <1>6, <1>8, <1>9, <1>10, <1>11 DEF LockInv

(* The last part gives the lock to a waiter, if it was the last level.     *)
LEMMA HandOverKeepsLock ==
  ASSUME LockInv, NEW t \in Threads, Crit!HandOver(t)
  PROVE  LockInv'
<1> USE LockAssumption DEF Crit!HandOver, Crit!Goto, Crit!ownerVars
<1>0. HasLock(t) /\ semaphore_ = 0 /\ \A u \in Threads : HasLock(u) => u = t
  BY DEF LockInv, ExclusionInv, HasLock
<1>1. recursion_ = depth[t]
  BY <1>0 DEF HasLock, LockInv, OwnerInv, Crit!TypeOK
<1>2. Waiters' = Waiters
  BY DEF Waiters, LockInv, Crit!TypeOK
<1>3. Passing' = Passing
  BY DEF Passing, LockInv, Crit!TypeOK
<1>4. \A u \in Threads : HasLock(u)' <=> u = t /\ depth[t] > 0
  BY <1>0 DEF HasLock, LockInv, Crit!TypeOK
<1>5. semaphore_' = IF depth[t] = 0 THEN 1 ELSE 0
  BY <1>0, <1>1
<1>6. Crit!TypeOK' /\ DepthInv'
  BY <1>5 DEF LockInv, Crit!TypeOK, DepthInv
<1>7. ExclusionInv'
  BY <1>4, <1>5 DEF ExclusionInv
<1>8. OwnerInv'
  BY DEF LockInv, OwnerInv
<1>9. QueueCount'
  BY <1>2, <1>3 DEF LockInv, QueueCount
<1>10. NoneStranded'
  <2>1. semaphore_' = 1 => Waiters' # {}
    BY <1>2, <1>5 DEF LockInv, NoneStranded
  <2>2. semaphore_' = 1 \/ HasLock(t)'
    BY <1>4, <1>5 DEF LockInv, Crit!TypeOK
  <2>3. \A u \in Threads : at'[u] # "test"
    BY <1>0 DEF HasLock, LockInv, Crit!TypeOK
  <2> QED
    BY <2>1, <2>2, <2>3 DEF NoneStranded
<1> QED
  BY <1>6, <1>7, <1>8, <1>9, <1>10 DEF LockInv

-----------------------------------------------------------------------------
(* The lock as a whole: what lock_queue_ counts, who owns the lock and who *)
(* waits for it stay in step under any interleaving of Enter, TryEnter and *)
(* Leave.                                                                  *)
THEOREM LockInvCorrect == Crit!Spec => []LockInv
<1>1. Crit!Init => LockInv
  <2> SUFFICES ASSUME Crit!Init PROVE LockInv
    OBVIOUS
  <2> USE LockAssumption DEF Crit!Init
  <2>1. Waiters = {} /\ Passing = 0
    BY DEF Waiters, Passing
  <2>2. Crit!TypeOK /\ DepthInv
    BY DEF Crit!TypeOK, DepthInv
  <2>3. ExclusionInv /\ OwnerInv
    BY DEF ExclusionInv, OwnerInv, HasLock
  <2>4. QueueCount
    BY <2>1, FS_EmptySet DEF QueueCount
  <2>5. NoneStranded
    BY <2>1 DEF NoneStranded
  <2> QED
    BY <2>2, <2>3, <2>4, <2>5 DEF LockInv
<1>2. LockInv /\ [Crit!Next]_(Crit!vars) => LockInv'
  <2> SUFFICES ASSUME LockInv, [Crit!Next]_(Crit!vars) PROVE LockInv'
    OBVIOUS
  <2>1. CASE UNCHANGED Crit!vars
    BY <2>1 DEF Crit!vars, Crit!lockVars, Crit!ownerVars, LockInv, Crit!TypeOK, DepthInv,
       ExclusionInv, OwnerInv, QueueCount, NoneStranded, HasLock, Waiters, Passing
  <2>2. ASSUME NEW t \in Threads, Crit!SpinTakes(t) PROVE LockInv'
    BY <2>2, TakeFree DEF Crit!SpinTakes, LockInv, DepthInv
  <2>3. CASE Crit!Next
    BY <2>2, <2>3, EnterKeepsLock, EnterAgainKeepsLock, QueueKeepsLock, SemaphoreKeepsLock,
       OwnKeepsLock, TryEnterKeepsLock, LeaveKeepsLock, DecrementKeepsLock, HandOverKeepsLock
       DEF Crit!Next, Crit!EnterStep, Crit!LeaveStep
  <2> QED
    BY <2>1, <2>3
<1> QED
  BY <1>1, <1>2, PTL DEF Crit!Spec

(* No two threads are ever inside, about to be or about to leave, and the  *)
(* lock is not handed over while one is.                                   *)
THEOREM ExclusionCorrect == Crit!Spec => []MutualExclusion
<1>1. LockInv => MutualExclusion
  <2> SUFFICES ASSUME LockInv PROVE MutualExclusion
    OBVIOUS
  <2> DEFINE H == {t \in Threads : depth[t] > 0 \/ at[t] \in {"own", "dec", "test"}}
  <2>1. CASE H = {}
    <3>1. Cardinality(H) = 0
      BY <2>1, FS_EmptySet
    <3> QED
      BY <3>1 DEF MutualExclusion, LockInv, ExclusionInv
  <2>2. CASE H # {}
    <3>1. PICK t \in H : TRUE
      BY <2>2
    <3>2. H = {t} /\ semaphore_ = 0
      BY <3>1 DEF LockInv, ExclusionInv, HasLock
    <3>3. Cardinality(H) = 1
      BY <3>2, FS_Singleton
    <3> QED
      BY <3>2, <3>3 DEF MutualExclusion
  <2> QED
    BY <2>1, <2>2
<1> QED
  BY <1>1, LockInvCorrect, PTL

(* The DCHECKs of Enter, TryEnter and Leave hold.                          *)
THEOREM OwnerChecksCorrect == Crit!Spec => []OwnerChecks
<1>1. LockInv => OwnerChecks
  <2> SUFFICES ASSUME LockInv PROVE OwnerChecks
    OBVIOUS
  <2>1. ASSUME NEW t \in Threads, at[t] = "own", depth[t] = 0
        PROVE  \A u \in Threads : depth[u] = 0
    BY <2>1 DEF LockInv, ExclusionInv, HasLock, Crit!TypeOK
  <2> QED
    BY <2>1 DEF OwnerChecks, LockInv, OwnerInv, Crit!TypeOK
<1> QED
  BY <1>1, LockInvCorrect, PTL

(* lock_queue_ is what the header says it is.                              *)
THEOREM QueueCountCorrect == Crit!Spec => []QueueCount
<1>1. LockInv => QueueCount
  BY DEF LockInv
<1> QED
  BY <1>1, LockInvCorrect, PTL

(* As long as a thread waits for the semaphore, another is inside, or on   *)
(* its way out, or the semaphore is signalled: no hand-over is lost.       *)
THEOREM NoneStrandedCorrect == Crit!Spec => []NoneStranded
<1>1. LockInv => NoneStranded
  BY DEF LockInv
<1> QED
  BY <1>1, LockInvCorrect, PTL

=============================================================================
