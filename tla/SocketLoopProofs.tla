-------------------------- MODULE SocketLoopProofs --------------------------
(***************************************************************************)
(* Proofs, for every set of sockets, masks and network events and any      *)
(* number of registrations, that the loop keeps its types, tells a         *)
(* listener only of what its own registration was asked for, and tells it  *)
(* once for each arming.                                                   *)
(***************************************************************************)
EXTENDS SocketLoop, SequenceTheorems, TLAPS

Regs == [fd : Sockets \cup {None}, events : EventMasks, art : EventMasks]
Entries == [fd : Sockets, id : Ids, events : EventMasks]

(* Whatever refers to a registration was made for one that has been made,  *)
(* and what is in the map has its socket; the enumeration runs over the    *)
(* map as it is.                                                           *)
RegInv ==
  /\ \A i \in Range(regs) : i <= made /\ reg[i].fd \in Sockets
  /\ \A e \in Range(ready) : e.id <= made
  /\ pc = "callback" => cur.id \in 1 .. made
  /\ pc = "enum" => Range(todo) \subseteq Range(regs)

(* An entry for a registration that is still in the map carries events     *)
(* that this registration was asked for.                                   *)
Wanted(e) == e.events # {} /\ (e.id \in Range(regs) => e.events \subseteq asked[e.id])

AskedInv ==
  /\ \A i \in Range(regs) : reg[i].events \subseteq asked[i]
  /\ \A e \in Range(ready) : Wanted(e)
  /\ pc = "callback" => Wanted(cur)

(* The ready list has one entry for each registration enumerated so far    *)
(* that had something to tell, and is empty outside ProcessSocketEvents.   *)
ReadyInv ==
  /\ \A k, l \in DOMAIN ready : ready[k].id = ready[l].id => k = l
  /\ pc = "enum" => /\ \A k, l \in DOMAIN todo : todo[k] = todo[l] => k = l
                    /\ \A k \in DOMAIN ready : ready[k].id \notin Range(todo)
  /\ pc \in {"idle", "reset"} => ready = <<>>

(* An event that is armed, and one that is on the ready list, has its own  *)
(* arming to spend: an event rearmed while it is on the list has two.      *)
OnList(i, e) == \E k \in DOMAIN ready : ready[k].id = i /\ e \in ready[k].events

Owed(i, e) ==
  /\ e \in reg[i].events \/ OnList(i, e) => credit[i][e] >= 1
  /\ e \in reg[i].events /\ OnList(i, e) => credit[i][e] >= 2

CreditInv == \A i \in Range(regs), e \in Events : Owed(i, e)

SocketInv == TypeOK /\ RegInv /\ AskedInv /\ ReadyInv /\ CreditInv

-----------------------------------------------------------------------------
(* The poll bits of different events differ, so what remains of a mask     *)
(* after it was cut to the poll bits of a registration's events are some   *)
(* of these events.                                                        *)
LEMMA MaskIsCut ==
  ASSUME NEW m, NEW events \in EventMasks
  PROVE  GetEventMask(m \cap GetPollMask(events)) \subseteq events
BY DEF GetEventMask, GetPollMask, EventMasks, Events, Readable, Writable, Error, POLLIN, POLLOUT, POLLERR

LEMMA MaskTypes ==
  ASSUME NEW m
  PROVE  GetEventMask(m) \in EventMasks /\ GetPollMask(m) \subseteq Bits
BY DEF GetEventMask, GetPollMask, EventMasks, Bits, POLLIN, POLLOUT, POLLERR

LEMMA RangeAppend ==
  ASSUME NEW S, NEW s \in Seq(S), NEW x \in S
  PROVE  Append(s, x) \in Seq(S) /\ Range(Append(s, x)) = Range(s) \cup {x}
BY AppendProperties DEF Range

LEMMA RangeTail ==
  ASSUME NEW S, NEW s \in Seq(S), s # <<>>
  PROVE  /\ Tail(s) \in Seq(S) /\ Head(s) \in S /\ Head(s) \in Range(s)
         /\ Range(Tail(s)) \subseteq Range(s)
<1>1. Tail(s) \in Seq(S) /\ Head(s) \in S
  BY HeadTailProperties
<1>2. /\ Len(s) \in Nat \ {0} /\ DOMAIN s = 1 .. Len(s) /\ Head(s) = s[1]
      /\ DOMAIN Tail(s) = 1 .. Len(s) - 1 /\ \A i \in 1 .. Len(s) - 1 : Tail(s)[i] = s[i + 1]
  BY HeadTailProperties, EmptySeq
<1>3. \A i \in DOMAIN Tail(s) : i + 1 \in DOMAIN s /\ Tail(s)[i] = s[i + 1]
  BY <1>2
<1> QED
  BY <1>1, <1>2, <1>3 DEF Range

(* RemoveAt, of the community modules, element by element.                 *)
LEMMA RemoveAtShape ==
  ASSUME NEW S, NEW s \in Seq(S), NEW k \in DOMAIN s
  PROVE  /\ RemoveAt(s, k) \in Seq(S)
         /\ RemoveAt(s, k) = [i \in 1 .. Len(s) - 1 |-> IF i < k THEN s[i] ELSE s[i + 1]]
<1> DEFINE a == SubSeq(s, 1, k - 1)  b == SubSeq(s, k + 1, Len(s))
           c == [i \in 1 .. Len(s) - 1 |-> IF i < k THEN s[i] ELSE s[i + 1]]
<1>1. Len(s) \in Nat /\ DOMAIN s = 1 .. Len(s) /\ k \in 1 .. Len(s)
  BY LenProperties
<1>2. a \in Seq(S) /\ Len(a) = k - 1 /\ \A i \in 1 .. k - 1 : a[i] = s[i]
  BY <1>1, SubSeqProperties
<1>3. b \in Seq(S) /\ Len(b) = Len(s) - k /\ \A i \in 1 .. Len(s) - k : b[i] = s[i + k]
  BY <1>1, SubSeqProperties
<1> HIDE DEF a, b
<1>4. /\ a \o b \in Seq(S) /\ Len(a \o b) = Len(a) + Len(b)
      /\ \A i \in 1 .. Len(a) + Len(b) : (a \o b)[i] = IF i <= Len(a) THEN a[i] ELSE b[i - Len(a)]
  BY <1>2, <1>3, ConcatProperties
<1>5. Len(a \o b) = Len(s) - 1
  BY <1>1, <1>2, <1>3, <1>4
<1>6. ASSUME NEW i \in 1 .. Len(s) - 1 PROVE (a \o b)[i] = c[i]
  <2>1. i \in 1 .. Len(a) + Len(b)
    BY <1>1, <1>2, <1>3
  <2>2. CASE i < k
    BY <1>1, <1>2, <1>4, <2>1, <2>2
  <2>3. CASE ~(i < k)
    <3>1. i - Len(a) \in 1 .. Len(s) - k /\ ~(i <= Len(a)) /\ (i - Len(a)) + k = i + 1
      BY <1>1, <1>2, <2>3
    <3> QED
      BY <1>3, <1>4, <2>1, <2>3, <3>1
  <2> QED
    BY <2>2, <2>3
<1>7. DOMAIN (a \o b) = 1 .. Len(s) - 1
  BY <1>4, <1>5, LenProperties
<1>8. c \in Seq(S) /\ Len(c) = Len(s) - 1
  <2> DEFINE slot(i) == IF i < k THEN s[i] ELSE s[i + 1]
  <2>0. Len(s) - 1 \in Nat
    BY <1>1
  <2>1. PICK m \in Nat : m = Len(s) - 1
    BY <2>0
  <2>2. \A i \in 1 .. m : slot(i) \in S
    BY <1>1, <2>1, ElementOfSeq
  <2>3. c = [i \in 1 .. m |-> slot(i)]
    BY <2>1
  <2> HIDE DEF c, slot
  <2> QED
    BY <2>1, <2>2, <2>3
<1> HIDE DEF c
<1>9. a \o b = c
  BY <1>4, <1>5, <1>6, <1>8, SeqEqual
<1> QED
  BY <1>4, <1>9 DEF RemoveAt, a, b, c

(* What remains of the map when one registration is erased.                *)
LEMMA RangeRemoveAt ==
  ASSUME NEW S, NEW s \in Seq(S), NEW k \in DOMAIN s, \A i, j \in DOMAIN s : s[i] = s[j] => i = j
  PROVE  /\ RemoveAt(s, k) \in Seq(S)
         /\ Range(RemoveAt(s, k)) = Range(s) \ {s[k]}
         /\ \A i, j \in DOMAIN RemoveAt(s, k) : RemoveAt(s, k)[i] = RemoveAt(s, k)[j] => i = j
<1> DEFINE w == RemoveAt(s, k)
<1>1. Len(s) \in Nat /\ DOMAIN s = 1 .. Len(s) /\ \A i \in DOMAIN s : s[i] \in S
  BY LenProperties, ElementOfSeq
<1>2. w = [i \in 1 .. Len(s) - 1 |-> IF i < k THEN s[i] ELSE s[i + 1]]
  BY RemoveAtShape
<1>3. w \in Seq(S)
  BY RemoveAtShape
<1> HIDE DEF w
<1>4. Range(w) \subseteq Range(s) \ {s[k]}
  BY <1>1, <1>2 DEF Range
<1>5. ASSUME NEW i \in DOMAIN s, i # k PROVE s[i] \in Range(w)
  <2>1. CASE i < k
    BY <1>1, <1>2, <2>1 DEF Range
  <2>2. CASE i > k
    <3>1. i - 1 \in DOMAIN w /\ w[i - 1] = s[i]
      BY <1>1, <1>2, <2>2
    <3> QED
      BY <3>1 DEF Range
  <2> QED
    BY <1>1, <1>5, <2>1, <2>2
<1>6. \A i, j \in DOMAIN w : w[i] = w[j] => i = j
  BY <1>1, <1>2
<1>7. Range(s) \ {s[k]} \subseteq Range(w)
  BY <1>5 DEF Range
<1> QED
  BY <1>3, <1>4, <1>6, <1>7 DEF w

-----------------------------------------------------------------------------
LEMMA SocketInit == Init => SocketInv
<1> SUFFICES ASSUME Init PROVE SocketInv
  OBVIOUS
<1>1. /\ <<>> \in Seq(Ids) /\ <<>> \in Seq(Entries)
      /\ Range(regs) = {} /\ Range(ready) = {}
  BY EmptySeq DEF Init, Range
<1>2. /\ NoReg \in Regs
      /\ {} \in EventMasks
  BY DEF NoReg, EventMasks, Regs
<1>3. /\ DOMAIN regs = {} /\ made \in 0 .. MaxRegs
      /\ {sub, rec, cond} \subseteq [Sockets -> SUBSET Bits]
  BY SocketAssumption DEF Init
<1>4. running \in BOOLEAN /\ hasArt \in BOOLEAN /\ sockEv \in BOOLEAN /\ timedOut \in BOOLEAN
  BY DEF Init
<1>7. credit \in [Ids -> [Events -> 0 .. 2]] /\ missed \subseteq Ids
  <2>1. [e \in Events |-> 0] \in [Events -> 0 .. 2]
    OBVIOUS
  <2> QED
    BY <2>1 DEF Init
<1>5. TypeOK
  BY <1>1, <1>2, <1>3, <1>4, <1>7 DEF Init, TypeOK, Entries, Regs
<1>6. ReadyInv /\ CreditInv
  <2>1. DOMAIN ready = {} /\ ready = <<>> /\ pc = "idle"
    BY DEF Init
  <2> QED
    BY <1>1, <2>1 DEF ReadyInv, CreditInv
<1> QED
  BY <1>1, <1>5, <1>6 DEF Init, SocketInv, RegInv, AskedInv

(* WSAEventSelect leaves the kernel's tables well-formed.                  *)
LEMMA SelectTypes ==
  ASSUME TypeOK, NEW s \in Sockets, NEW mask \in SUBSET Bits, WSAEventSelect(s, mask)
  PROVE  sockEv' \in BOOLEAN /\ {sub', rec', cond'} \subseteq [Sockets -> SUBSET Bits]
<1>1. sub \in [Sockets -> SUBSET Bits] /\ rec \in [Sockets -> SUBSET Bits]
      /\ cond \in [Sockets -> SUBSET Bits]
  BY DEF TypeOK
<1>2. cond[s] \cap mask \in SUBSET Bits
  BY <1>1
<1>3. sub' \in [Sockets -> SUBSET Bits] /\ rec' \in [Sockets -> SUBSET Bits] /\ cond' = cond
  BY <1>1, <1>2 DEF WSAEventSelect
<1>4. sockEv' \in BOOLEAN
  BY DEF WSAEventSelect
<1> QED
  BY <1>1, <1>3, <1>4

LEMMA ArmedType ==
  ASSUME NEW old \in [Events -> 0 .. 2], NEW events
  PROVE  Armed(old, events) \in [Events -> 0 .. 2]
BY DEF Armed

(* No registration is in the map twice.                                    *)
LEMMA Distinct == TypeOK => \A i, j \in DOMAIN regs : regs[i] = regs[j] => i = j
BY DEF TypeOK

LEMMA EntryTypes == TypeOK => \A e \in Range(ready) : e \in Entries /\ e.id \in Ids
<1> SUFFICES ASSUME TypeOK, NEW e \in Range(ready) PROVE e \in Entries
  BY DEF Entries
<1>1. ready \in Seq(Entries)
  BY DEF TypeOK, Entries
<1> HIDE DEF Entries
<1> QED
  BY <1>1, ElementOfSeq, LenProperties DEF Range

LEMMA RegisterStep ==
  ASSUME SocketInv, NEW s \in Sockets, NEW m \in Masks, RegisterSocket(s, m)
  PROVE  SocketInv'
<1> DEFINE n == made + 1
<1>1. /\ TypeOK /\ RegInv /\ AskedInv
      /\ m \in EventMasks /\ n \in Ids /\ made \in Nat /\ made' = n
      /\ regs' = Append(regs, n) /\ regs \in Seq(Ids)
      /\ reg' = [reg EXCEPT ![n] = [fd |-> s, events |-> m, art |-> {}]]
      /\ asked' = [asked EXCEPT ![n] = m]
      /\ credit' = [credit EXCEPT ![n] = Armed(credit[n], m)]
      /\ UNCHANGED <<running, hasArt, pc, timedOut, todo, ready, cur, missed>>
      /\ Registered(s) = {} /\ pc \in {"idle", "callback"}
  BY SocketAssumption DEF SocketInv, TypeOK, RegisterSocket, CanCall, Ids, loopVars
<1>2. /\ regs' \in Seq(Ids) /\ Range(regs') = Range(regs) \cup {n}
      /\ DOMAIN regs = 1 .. Len(regs) /\ DOMAIN regs' = 1 .. Len(regs) + 1
      /\ Len(regs) \in Nat
      /\ regs'[Len(regs) + 1] = n /\ \A i \in DOMAIN regs : regs'[i] = regs[i]
  BY <1>1, RangeAppend, AppendProperties
<1>3. /\ \A i \in Range(regs) : i <= made /\ i # n /\ i \in Ids /\ reg[i].fd \in Sockets
      /\ \A i \in Range(regs) : reg'[i] = reg[i] /\ asked'[i] = asked[i] /\ reg[i].fd # s
      /\ \A i \in DOMAIN regs : regs[i] \in Range(regs)
  <2>1. \A i \in Range(regs) : i <= made /\ i \in Ids /\ reg[i].fd \in Sockets
    BY <1>1 DEF RegInv, TypeOK, Range
  <2>2. \A i \in Range(regs) : i # n
    BY <1>1, <2>1 DEF Ids
  <2>3. \A i \in Range(regs) : reg'[i] = reg[i] /\ asked'[i] = asked[i] /\ reg[i].fd # s
    BY <1>1, <2>1, <2>2 DEF TypeOK, Registered
  <2> QED
    BY <2>1, <2>2, <2>3 DEF Range
<1>4. reg'[n] = [fd |-> s, events |-> m, art |-> {}] /\ asked'[n] = m
  BY <1>1 DEF TypeOK
<1>8. /\ credit' \in [Ids -> [Events -> 0 .. 2]] /\ credit'[n] = Armed(credit[n], m)
      /\ \A i \in Range(regs) : credit'[i] = credit[i]
  <2>1. credit \in [Ids -> [Events -> 0 .. 2]] /\ credit[n] \in [Events -> 0 .. 2]
    BY <1>1 DEF TypeOK
  <2>2. Armed(credit[n], m) \in [Events -> 0 .. 2]
    BY <2>1, ArmedType
  <2> QED
    BY <1>1, <1>3, <2>1, <2>2
<1>5. TypeOK'
  <2>1. /\ reg' \in [Ids -> Regs]
        /\ asked' \in [Ids -> EventMasks]
    BY <1>1 DEF TypeOK, EventMasks, Regs
  <2>2. \A i, j \in DOMAIN regs' : reg'[regs'[i]].fd = reg'[regs'[j]].fd => i = j
    <3>1. \A i, j \in DOMAIN regs : reg'[regs'[i]].fd = reg'[regs'[j]].fd => i = j
      BY <1>1, <1>2, <1>3 DEF TypeOK
    <3>2. \A i \in DOMAIN regs : reg'[regs'[i]].fd # reg'[regs'[Len(regs) + 1]].fd
      BY <1>2, <1>3, <1>4
    <3>3. \A i \in DOMAIN regs' : i \in DOMAIN regs \/ i = Len(regs) + 1
      BY <1>2
    <3> QED
      BY <3>1, <3>2, <3>3
  <2>3. GetPollMask(m) \in SUBSET Bits /\ WSAEventSelect(s, GetPollMask(m))
    BY MaskTypes DEF RegisterSocket
  <2>4. sockEv' \in BOOLEAN /\ {sub', rec', cond'} \subseteq [Sockets -> SUBSET Bits]
    BY <1>1, <2>3, SelectTypes
  <2>5. made' \in 0 .. MaxRegs
    BY <1>1, SocketAssumption DEF Ids
  <2> QED
    BY <1>1, <1>2, <1>8, <2>1, <2>2, <2>4, <2>5 DEF TypeOK, Regs
<1>6. RegInv'
  <2>1. \A i \in Range(regs') : i <= made' /\ reg'[i].fd \in Sockets
    BY <1>1, <1>2, <1>3, <1>4 DEF Ids
  <2>2. \A e \in Range(ready) : e.id <= made'
    BY <1>1, EntryTypes DEF RegInv, Ids
  <2>3. pc = "callback" => cur.id \in 1 .. made'
    BY <1>1 DEF RegInv
  <2> QED
    BY <1>1, <2>1, <2>2, <2>3 DEF RegInv
<1>7. AskedInv'
  <2>1. \A i \in Range(regs') : reg'[i].events \subseteq asked'[i]
    BY <1>1, <1>2, <1>3, <1>4 DEF AskedInv
  <2>2. ASSUME NEW e, e.id # n, Wanted(e) PROVE Wanted(e)'
    BY <1>2, <1>3, <2>2 DEF Wanted
  <2>3. \A e \in Range(ready) : e.id # n
    BY <1>1, EntryTypes DEF RegInv, Ids
  <2>4. pc = "callback" => cur.id # n
    BY <1>1 DEF RegInv, Ids
  <2> QED
    BY <1>1, <2>1, <2>2, <2>3, <2>4 DEF AskedInv
<1>9. ReadyInv' /\ CreditInv'
  <2>1. ReadyInv'
    BY <1>1 DEF ReadyInv, SocketInv
  <2>2. ASSUME NEW i \in Range(regs), NEW e \in Events PROVE Owed(i, e)'
    BY <1>1, <1>3, <1>8 DEF SocketInv, CreditInv, Owed, OnList
  <2>3. ASSUME NEW i \in {n}, NEW e \in Events PROVE Owed(i, e)'
    <3>1. \A k \in DOMAIN ready : ready[k].id # n
      BY <1>1, EntryTypes DEF RegInv, Ids, Range
    <3>2. credit[n] \in [Events -> 0 .. 2]
      BY <1>1 DEF TypeOK
    <3>3. e \in m => Armed(credit[n], m)[e] >= 1
      BY <3>2 DEF Armed
    <3>4. e \in reg'[i].events => e \in m
      BY <1>4
    <3> QED
      BY <1>1, <1>8, <3>1, <3>3, <3>4 DEF Owed, OnList
  <2> QED
    BY <1>2, <2>1, <2>2, <2>3 DEF CreditInv
<1> QED
  BY <1>5, <1>6, <1>7, <1>9 DEF SocketInv

LEMMA UnregisterStep ==
  ASSUME SocketInv, NEW s \in Sockets, UnregisterSocket(s)
  PROVE  SocketInv'
<1>1. PICK k \in DOMAIN regs : /\ reg[regs[k]].fd = s
                              /\ regs' = RemoveAt(regs, k)
                              /\ reg' = [reg EXCEPT ![regs[k]] = NoReg]
                              /\ asked' = [asked EXCEPT ![regs[k]] = {}]
                              /\ credit' = [credit EXCEPT ![regs[k]] = [e \in Events |-> 0]]
                              /\ missed' = missed \ {regs[k]}
  BY DEF UnregisterSocket
<1>2. /\ TypeOK /\ RegInv /\ AskedInv /\ regs \in Seq(Ids)
      /\ UNCHANGED <<running, made, hasArt, pc, timedOut, todo, ready, cur>>
      /\ pc \in {"idle", "callback"}
  BY DEF SocketInv, TypeOK, UnregisterSocket, CanCall, loopVars
<1>3. /\ regs' \in Seq(Ids) /\ Range(regs') = Range(regs) \ {regs[k]}
      /\ \A i, j \in DOMAIN regs' : regs'[i] = regs'[j] => i = j
  BY <1>1, <1>2, RangeRemoveAt, Distinct
<1>4. \A i \in Range(regs) : i \in Ids
  BY <1>2, ElementOfSeq, LenProperties DEF Range
<1>5. \A i \in Range(regs') : /\ reg'[i] = reg[i] /\ asked'[i] = asked[i]
                              /\ credit'[i] = credit[i] /\ i \in Range(regs)
  BY <1>1, <1>2, <1>3, <1>4 DEF TypeOK
<1>9. credit' \in [Ids -> [Events -> 0 .. 2]] /\ missed' \subseteq Ids
  <2>1. [e \in Events |-> 0] \in [Events -> 0 .. 2]
    OBVIOUS
  <2> QED
    BY <1>1, <1>2, <2>1 DEF TypeOK
<1>6. TypeOK'
  <2>1. /\ reg' \in [Ids -> Regs]
        /\ asked' \in [Ids -> EventMasks]
    BY <1>1, <1>2, <1>4 DEF TypeOK, EventMasks, NoReg, Regs
  <2>2. \A i, j \in DOMAIN regs' : reg'[regs'[i]].fd = reg'[regs'[j]].fd => i = j
    <3>1. \A x, y \in Range(regs) : reg[x].fd = reg[y].fd => x = y
      BY <1>2 DEF TypeOK, Range
    <3>2. \A i \in DOMAIN regs' : regs'[i] \in Range(regs') /\ regs'[i] \in Range(regs)
      BY <1>3 DEF Range
    <3> QED
      BY <1>3, <1>5, <3>1, <3>2
  <2>3. {} \in SUBSET Bits /\ WSAEventSelect(s, {})
    BY DEF UnregisterSocket
  <2>4. sockEv' \in BOOLEAN /\ {sub', rec', cond'} \subseteq [Sockets -> SUBSET Bits]
    BY <1>2, <2>3, SelectTypes
  <2> QED
    BY <1>2, <1>3, <1>9, <2>1, <2>2, <2>4 DEF TypeOK, Regs
<1>7. RegInv'
  BY <1>2, <1>3, <1>5 DEF RegInv
<1>8. AskedInv'
  BY <1>2, <1>3, <1>5 DEF AskedInv, Wanted
<1>10. ReadyInv' /\ CreditInv'
  BY <1>2, <1>5 DEF SocketInv, ReadyInv, CreditInv, Owed, OnList
<1> QED
  BY <1>6, <1>7, <1>8, <1>10 DEF SocketInv

(* RearmSocket, ArtificiallyNotifyEvent and the enumeration leave the map  *)
(* and the sockets of its elements as they are.                            *)
LEMMA SameMap ==
  ASSUME TypeOK, UNCHANGED regs, \A i \in Range(regs) : reg'[i].fd = reg[i].fd
  PROVE  \A i, j \in DOMAIN regs' : reg'[regs'[i]].fd = reg'[regs'[j]].fd => i = j
<1>1. \A i \in DOMAIN regs : regs[i] \in Range(regs)
  BY DEF Range
<1> QED
  BY <1>1 DEF TypeOK

LEMMA RearmStep ==
  ASSUME SocketInv, NEW s \in Sockets, NEW m \in Masks, RearmSocket(s, m)
  PROVE  SocketInv'
<1>1. PICK i \in Registered(s) :
        /\ reg' = [reg EXCEPT ![i].events = @ \cup m]
        /\ asked' = [asked EXCEPT ![i] = @ \cup m]
        /\ credit' = [credit EXCEPT ![i] = Armed(credit[i], m)]
        /\ \/ WSAEventSelect(s, GetPollMask(reg[i].events \cup m))
           \/ SelectMayFail /\ UNCHANGED <<sockEv, kernelVars>>
  BY DEF RearmSocket
<1>2. /\ TypeOK /\ RegInv /\ AskedInv /\ m \in EventMasks
      /\ UNCHANGED <<running, regs, made, hasArt, pc, timedOut, todo, ready, cur, missed>>
  BY SocketAssumption DEF SocketInv, TypeOK, RearmSocket, loopVars
<1>3. i \in Range(regs) /\ \A j \in Range(regs) : j \in Ids
  BY <1>2, ElementOfSeq, LenProperties DEF Registered, Range, TypeOK
<1>4. /\ reg' = [reg EXCEPT ![i] = [reg[i] EXCEPT !.events = @ \cup m]]
      /\ reg[i].events \in EventMasks /\ reg[i].events \cup m \in EventMasks
      /\ asked[i] \cup m \in EventMasks
  BY <1>1, <1>2, <1>3 DEF TypeOK, EventMasks
<1>5. /\ reg' \in [Ids -> Regs]
      /\ asked' \in [Ids -> EventMasks]
  <2>1. [reg[i] EXCEPT !.events = @ \cup m] \in Regs
    BY <1>2, <1>3, <1>4 DEF TypeOK, Regs
  <2>2. reg' \in [Ids -> Regs]
    BY <1>2, <1>4, <2>1 DEF TypeOK, Regs
  <2> QED
    BY <1>1, <1>2, <1>3, <1>4, <2>2 DEF TypeOK, Regs
<1>6. /\ \A j \in Range(regs) : reg'[j].fd = reg[j].fd /\ asked[j] \subseteq asked'[j]
      /\ \A j \in Range(regs) : j # i => reg'[j] = reg[j]
      /\ reg'[i].events = reg[i].events \cup m /\ asked'[i] = asked[i] \cup m
  BY <1>1, <1>2, <1>3, <1>4 DEF TypeOK
<1>7. sockEv' \in BOOLEAN /\ {sub', rec', cond'} \subseteq [Sockets -> SUBSET Bits]
  <2>1. CASE WSAEventSelect(s, GetPollMask(reg[i].events \cup m))
    BY <1>2, <2>1, MaskTypes, SelectTypes
  <2>2. CASE UNCHANGED <<sockEv, kernelVars>>
    BY <1>2, <2>2 DEF TypeOK, kernelVars
  <2> QED
    BY <1>1, <2>1, <2>2
<1>11. /\ credit' \in [Ids -> [Events -> 0 .. 2]] /\ credit'[i] = Armed(credit[i], m)
       /\ \A j \in Range(regs) : j # i => credit'[j] = credit[j]
       /\ credit[i] \in [Events -> 0 .. 2]
  <2>1. credit \in [Ids -> [Events -> 0 .. 2]] /\ credit[i] \in [Events -> 0 .. 2]
    BY <1>2, <1>3 DEF TypeOK
  <2>2. Armed(credit[i], m) \in [Events -> 0 .. 2]
    BY <2>1, ArmedType
  <2> QED
    BY <1>1, <1>3, <2>1, <2>2
<1>8. TypeOK'
  BY <1>2, <1>5, <1>6, <1>7, <1>11, SameMap DEF TypeOK, Regs
<1>9. RegInv'
  BY <1>2, <1>6 DEF RegInv
<1>10. AskedInv'
  <2>1. \A j \in Range(regs) : reg'[j].events \subseteq asked'[j]
    BY <1>2, <1>3, <1>6 DEF AskedInv
  <2>2. \A e : Wanted(e) => Wanted(e)'
    BY <1>2, <1>6 DEF Wanted
  <2> QED
    BY <1>2, <2>1, <2>2 DEF AskedInv
<1>12. ReadyInv'
  BY <1>2 DEF SocketInv, ReadyInv
<1>13. CreditInv'
  <2> SUFFICES ASSUME NEW j \in Range(regs), NEW e \in Events PROVE Owed(j, e)'
    BY <1>2 DEF CreditInv
  <2>1. Owed(j, e) /\ OnList(j, e)' = OnList(j, e)
    BY <1>2 DEF SocketInv, CreditInv, OnList
  <2>2. CASE j # i
    BY <1>6, <1>11, <2>1, <2>2 DEF Owed
  <2>3. CASE j = i
    <3>1. /\ credit'[i][e] >= credit[i][e] /\ credit[i][e] \in 0 .. 2 /\ credit'[i][e] \in 0 .. 2
          /\ e \in m => credit'[i][e] >= 1 /\ (credit[i][e] >= 1 => credit'[i][e] >= 2)
      <4>1. /\ Armed(credit[i], m) \in [Events -> 0 .. 2]
            /\ Armed(credit[i], m)[e] >= credit[i][e]
            /\ e \in m => /\ Armed(credit[i], m)[e] >= 1
                          /\ credit[i][e] >= 1 => Armed(credit[i], m)[e] >= 2
        BY <1>11 DEF Armed
      <4> QED
        BY <1>11, <4>1
    <3> QED
      BY <1>6, <2>1, <2>3, <3>1 DEF Owed
  <2> QED
    BY <2>2, <2>3
<1> QED
  BY <1>8, <1>9, <1>10, <1>12, <1>13 DEF SocketInv

LEMMA NotifyStep ==
  ASSUME SocketInv, NEW s \in Sockets, NEW m \in Masks, ArtificiallyNotifyEvent(s, m)
  PROVE  SocketInv'
<1>1. PICK i \in Registered(s) : /\ reg' = [reg EXCEPT ![i].art = @ \cup m]
                                /\ missed' = missed \ {i}
  BY DEF ArtificiallyNotifyEvent
<1>2. /\ TypeOK /\ RegInv /\ AskedInv /\ m \in EventMasks /\ hasArt' = TRUE /\ sockEv' = TRUE
      /\ UNCHANGED <<running, regs, made, sub, rec, cond, pc, timedOut, todo, ready, cur,
                     asked, credit>>
  BY SocketAssumption
     DEF SocketInv, TypeOK, ArtificiallyNotifyEvent, loopVars, kernelVars
<1>3. i \in Range(regs) /\ \A j \in Range(regs) : j \in Ids
  BY <1>2, ElementOfSeq, LenProperties DEF Registered, Range, TypeOK
<1>4. /\ reg' = [reg EXCEPT ![i] = [reg[i] EXCEPT !.art = @ \cup m]]
      /\ reg[i].art \cup m \in EventMasks
  BY <1>1, <1>2, <1>3 DEF TypeOK, EventMasks
<1>5. reg' \in [Ids -> Regs]
  <2>1. [reg[i] EXCEPT !.art = @ \cup m] \in Regs
    BY <1>2, <1>3, <1>4 DEF TypeOK, Regs
  <2> QED
    BY <1>2, <1>4, <2>1 DEF TypeOK, Regs
<1>6. \A j \in Range(regs) : reg'[j].fd = reg[j].fd /\ reg'[j].events = reg[j].events
  BY <1>1, <1>2, <1>3, <1>4 DEF TypeOK
<1>10. missed' \subseteq Ids
  BY <1>1, <1>2 DEF TypeOK
<1>7. TypeOK'
  BY <1>2, <1>5, <1>6, <1>10, SameMap DEF TypeOK, Regs
<1>8. RegInv'
  BY <1>2, <1>6 DEF RegInv
<1>9. AskedInv'
  BY <1>2, <1>6 DEF AskedInv, Wanted
<1>11. ReadyInv' /\ CreditInv'
  BY <1>2, <1>6 DEF SocketInv, ReadyInv, CreditInv, Owed, OnList
<1> QED
  BY <1>7, <1>8, <1>9, <1>11 DEF SocketInv

-----------------------------------------------------------------------------
(* What the network and the sockets' owners do touches no registration.    *)
LEMMA NetworkStepKeeps ==
  ASSUME SocketInv, NEW s \in Sockets, NEW b \in NetworkBits,
         NetworkActivity(s, b) \/ ConsumeActivity(s, b)
  PROVE  SocketInv'
<1>1. /\ TypeOK /\ RegInv /\ AskedInv /\ b \in Bits
      /\ UNCHANGED <<running, regs, reg, made, hasArt, sub, pc, timedOut, todo, ready, cur,
                     asked, credit, missed>>
  BY SocketAssumption DEF SocketInv, NetworkActivity, ConsumeActivity, Bits, loopVars, history
<1>2. /\ sub \in [Sockets -> SUBSET Bits] /\ rec \in [Sockets -> SUBSET Bits]
      /\ cond \in [Sockets -> SUBSET Bits]
  BY <1>1 DEF TypeOK
<1>3. {sub', rec', cond'} \subseteq [Sockets -> SUBSET Bits]
  <2>1. CASE NetworkActivity(s, b)
    <3>1. cond[s] \cup {b} \in SUBSET Bits /\ rec[s] \cup ({b} \cap sub[s]) \in SUBSET Bits
      BY <1>1, <1>2
    <3>2. cond' \in [Sockets -> SUBSET Bits] /\ rec' \in [Sockets -> SUBSET Bits]
      BY <1>2, <2>1, <3>1 DEF NetworkActivity
    <3> QED
      BY <1>1, <1>2, <3>2
  <2>2. CASE ConsumeActivity(s, b)
    <3>1. cond[s] \ {b} \in SUBSET Bits
      BY <1>2
    <3>2. cond' \in [Sockets -> SUBSET Bits] /\ rec' = rec
      BY <1>2, <2>2, <3>1 DEF ConsumeActivity
    <3> QED
      BY <1>1, <1>2, <3>2
  <2> QED
    BY <2>1, <2>2
<1>4. sockEv' \in BOOLEAN
  BY <1>1 DEF NetworkActivity, ConsumeActivity, TypeOK
<1>5. TypeOK'
  BY <1>1, <1>3, <1>4 DEF TypeOK
<1>6. RegInv' /\ AskedInv'
  BY <1>1 DEF RegInv, AskedInv, Wanted
<1>7. ReadyInv' /\ CreditInv'
  BY <1>1 DEF SocketInv, ReadyInv, CreditInv, Owed, OnList
<1> QED
  BY <1>5, <1>6, <1>7 DEF SocketInv

(* The enumeration takes from a registration's events what it puts on the  *)
(* ready list, and these were asked for.                                   *)
LEMMA EnumerateStep ==
  ASSUME SocketInv, NEW connectError \in BOOLEAN, Enumerate(connectError)
  PROVE  SocketInv'
<1> DEFINE i == Head(todo)
           cut == (ToPoll(rec[reg[i].fd], connectError) \cup GetPollMask(reg[i].art))
                    \cap GetPollMask(reg[i].events)
           events == GetEventMask(cut)
           entry == [fd |-> reg[i].fd, id |-> i, events |-> events]
<1>1. /\ TypeOK /\ RegInv /\ AskedInv /\ pc = "enum" /\ todo # <<>> /\ todo \in Seq(Ids)
      /\ UNCHANGED <<running, regs, made, hasArt, sub, cond, pc, timedOut, cur, asked, credit>>
      /\ todo' = Tail(todo) /\ sockEv' = FALSE /\ missed' = missed \ {i}
      /\ rec' = [rec EXCEPT ![reg[i].fd] = {}]
      /\ reg' = [reg EXCEPT ![i].art = {}, ![i].events = @ \ events]
      /\ ready' = IF events = {} THEN ready ELSE Append(ready, entry)
  BY DEF SocketInv, TypeOK, Enumerate, Disarmed
<1>2. /\ i \in Ids /\ i \in Range(regs) /\ todo' \in Seq(Ids)
      /\ Range(todo') \subseteq Range(regs) /\ reg[i].fd \in Sockets /\ i <= made
  BY <1>1, RangeTail DEF RegInv
<1>3. reg[i] \in Regs /\ reg[i].events \in EventMasks
  BY <1>1, <1>2 DEF TypeOK, Regs
<1>4. events \in EventMasks /\ events \subseteq reg[i].events
  BY <1>3, MaskTypes, MaskIsCut
<1> HIDE DEF cut, events
<1>5. /\ \A j \in Range(regs) : reg'[j].fd = reg[j].fd /\ reg'[j].events \subseteq reg[j].events
      /\ reg' \in [Ids -> Regs] /\ reg'[i].events = reg[i].events \ events
  <2>1. \A j \in Range(regs) : j \in Ids
    BY <1>1, ElementOfSeq, LenProperties DEF Range, TypeOK
  <2>2. reg' = [reg EXCEPT ![i] = [reg[i] EXCEPT !.art = {}, !.events = @ \ events]]
    BY <1>1, <1>2 DEF TypeOK
  <2>3. [reg[i] EXCEPT !.art = {}, !.events = @ \ events] \in Regs
    BY <1>3, <1>4 DEF Regs, EventMasks
  <2>4. reg' \in [Ids -> Regs]
    BY <1>1, <2>2, <2>3 DEF TypeOK, Regs
  <2>5. reg'[i].fd = reg[i].fd /\ reg'[i].events = reg[i].events \ events
    BY <1>1, <1>2, <1>3, <2>2 DEF TypeOK, Regs
  <2>6. \A j \in Range(regs) : j # i => reg'[j] = reg[j]
    BY <1>1, <2>1, <2>2 DEF TypeOK
  <2> QED
    BY <2>4, <2>5, <2>6
<1>6. ready' \in Seq(Entries) /\ \A e \in Range(ready') :
        e \in Range(ready) \/ (e = entry /\ events # {})
  <2>1. ready \in Seq(Entries) /\ entry \in Entries
    BY <1>1, <1>2, <1>4 DEF TypeOK, Entries
  <2> HIDE DEF entry
  <2>2. CASE events = {}
    BY <1>1, <2>1, <2>2
  <2>3. CASE events # {}
    BY <1>1, <2>1, <2>3, RangeAppend
  <2> QED
    BY <2>2, <2>3
<1>7. TypeOK'
  <2>1. rec' \in [Sockets -> SUBSET Bits] /\ sub' \in [Sockets -> SUBSET Bits]
        /\ cond' \in [Sockets -> SUBSET Bits]
    BY <1>1 DEF TypeOK
  <2>2. \A j, k \in DOMAIN regs' : reg'[regs'[j]].fd = reg'[regs'[k]].fd => j = k
    BY <1>1, <1>5, SameMap
  <2> QED
    BY <1>1, <1>2, <1>5, <1>6, <2>1, <2>2 DEF TypeOK, Regs, Entries
<1>10. ReadyInv' /\ CreditInv'
  <2>1. /\ ready \in Seq(Entries) /\ entry \in Entries /\ entry.id = i /\ entry.events = events
        /\ DOMAIN ready = 1 .. Len(ready) /\ Len(ready) \in Nat
    BY <1>1, <1>2, <1>4, LenProperties DEF TypeOK, Entries
  <2> HIDE DEF entry
  <2>2. \/ events = {} /\ ready' = ready
        \/ /\ events # {} /\ DOMAIN ready' = 1 .. Len(ready) + 1
           /\ ready'[Len(ready) + 1] = entry /\ \A k \in DOMAIN ready : ready'[k] = ready[k]
    <3>1. CASE events = {}
      BY <1>1, <3>1
    <3>2. CASE events # {}
      <4>1. ready' = Append(ready, entry)
        BY <1>1, <3>2
      <4>2. /\ Append(ready, entry) \in Seq(Entries) /\ Len(Append(ready, entry)) = Len(ready) + 1
            /\ Append(ready, entry)[Len(ready) + 1] = entry
            /\ \A k \in 1 .. Len(ready) : Append(ready, entry)[k] = ready[k]
        BY <2>1, AppendProperties
      <4>3. DOMAIN ready' = 1 .. Len(ready) + 1
        BY <4>1, <4>2, LenProperties
      <4> QED
        BY <2>1, <3>2, <4>1, <4>2, <4>3
    <3> QED
      BY <3>1, <3>2
  <2>3. /\ \A k, l \in DOMAIN todo' : todo'[k] = todo'[l] => k = l
        /\ i \notin Range(todo') /\ Range(todo') \subseteq Range(todo) /\ i \in Range(todo)
    <3>1. /\ Len(todo) \in Nat \ {0} /\ DOMAIN todo = 1 .. Len(todo) /\ i = todo[1]
          /\ DOMAIN todo' = 1 .. Len(todo) - 1 /\ \A k \in 1 .. Len(todo) - 1 : todo'[k] = todo[k + 1]
      BY <1>1, HeadTailProperties, EmptySeq
    <3>2. \A k \in DOMAIN todo' : k + 1 \in DOMAIN todo /\ k + 1 # 1 /\ todo'[k] = todo[k + 1]
      BY <3>1
    <3>3. \A k, l \in DOMAIN todo : todo[k] = todo[l] => k = l
      BY <1>1 DEF SocketInv, ReadyInv
    <3> HIDE DEF i
    <3>4. 1 \in DOMAIN todo
      BY <3>1
    <3>5. \A k \in DOMAIN todo' : todo'[k] # i
      BY <3>1, <3>2, <3>3, <3>4
    <3>6. \A k, l \in DOMAIN todo' : todo'[k] = todo'[l] => k = l
      BY <3>1, <3>2, <3>3
    <3> QED
      BY <3>1, <3>2, <3>4, <3>5, <3>6 DEF Range
  <2>4. /\ \A k, l \in DOMAIN ready : ready[k].id = ready[l].id => k = l
        /\ \A k \in DOMAIN ready : ready[k].id \notin Range(todo)
    BY <1>1 DEF SocketInv, ReadyInv
  <2> HIDE DEF i
  <2>9. \A k \in DOMAIN ready' : \/ k \in DOMAIN ready /\ ready'[k] = ready[k]
                                 \/ k = Len(ready) + 1 /\ ready'[k] = entry
    BY <2>1, <2>2
  <2>5. ASSUME NEW k \in DOMAIN ready', NEW l \in DOMAIN ready', ready'[k].id = ready'[l].id
        PROVE  k = l
    <3>1. CASE k \in DOMAIN ready /\ ready'[k] = ready[k] /\ l \in DOMAIN ready /\ ready'[l] = ready[l]
      BY <2>4, <2>5, <3>1
    <3>2. CASE k \in DOMAIN ready /\ ready'[k] = ready[k] /\ ready'[l] = entry
      BY <2>1, <2>3, <2>4, <2>5, <3>2
    <3>3. CASE ready'[k] = entry /\ l \in DOMAIN ready /\ ready'[l] = ready[l]
      BY <2>1, <2>3, <2>4, <2>5, <3>3
    <3>4. CASE k = Len(ready) + 1 /\ l = Len(ready) + 1
      BY <3>4
    <3> QED
      BY <2>9, <3>1, <3>2, <3>3, <3>4
  <2>6. ASSUME NEW k \in DOMAIN ready' PROVE ready'[k].id \notin Range(todo')
    <3>1. CASE k \in DOMAIN ready /\ ready'[k] = ready[k]
      BY <2>3, <2>4, <3>1
    <3>2. CASE ready'[k] = entry
      BY <2>1, <2>3, <3>2
    <3> QED
      BY <2>9, <3>1, <3>2
  <2>7. ReadyInv'
    BY <1>1, <2>3, <2>5, <2>6 DEF ReadyInv
  <2>8. ASSUME NEW j \in Range(regs), NEW e \in Events PROVE Owed(j, e)'
    <3>1. Owed(j, e) /\ credit' = credit
      BY <1>1 DEF SocketInv, CreditInv
    <3>2. CASE j # i
      <4>1. OnList(j, e)' => OnList(j, e)
        BY <2>1, <2>2, <3>2 DEF OnList
      <4> QED
        BY <1>5, <3>1, <4>1 DEF Owed
    <3>3. CASE j = i
      <4>1. OnList(j, e)' => e \in events
        BY <2>1, <2>2, <2>3, <2>4, <3>3 DEF OnList
      <4>2. e \in reg'[j].events => e \in reg[j].events /\ e \notin events
        BY <1>5, <3>3
      <4>3. e \in events => e \in reg[j].events
        BY <1>4, <3>3
      <4> QED
        BY <3>1, <4>1, <4>2, <4>3 DEF Owed
    <3> QED
      BY <3>2, <3>3
  <2> QED
    BY <1>1, <2>7, <2>8 DEF CreditInv
<1>8. RegInv'
  <2>1. \A e \in Range(ready') : e.id <= made'
    BY <1>1, <1>2, <1>6 DEF RegInv
  <2>2. \A j \in Range(regs') : j <= made' /\ reg'[j].fd \in Sockets
    BY <1>1, <1>5 DEF RegInv
  <2> QED
    BY <1>1, <1>2, <2>1, <2>2 DEF RegInv
<1>9. AskedInv'
  <2>1. \A j \in Range(regs) : reg'[j].events \subseteq asked[j]
    BY <1>1, <1>5 DEF AskedInv
  <2>2. events # {} => Wanted(entry)
    BY <1>1, <1>2, <1>4 DEF AskedInv, Wanted
  <2>3. \A e : Wanted(e) => Wanted(e)'
    BY <1>1 DEF Wanted
  <2> QED
    BY <1>1, <1>6, <2>1, <2>2, <2>3 DEF AskedInv
<1> QED
  BY <1>7, <1>8, <1>9, <1>10 DEF SocketInv

LEMMA RunReadyStep ==
  ASSUME SocketInv, RunReadyCallback
  PROVE  SocketInv'
<1>1. /\ TypeOK /\ RegInv /\ AskedInv /\ pc = "run" /\ ready # <<>> /\ ready \in Seq(Entries)
      /\ ready' = Tail(ready)
      /\ UNCHANGED <<running, regs, reg, made, hasArt, sockEv, sub, rec, cond, timedOut, todo,
                     asked, missed>>
  BY DEF SocketInv, TypeOK, Entries, RunReadyCallback, kernelVars
<1> DEFINE i == Head(ready).id
<1>0. (cur' = Head(ready) /\ pc' = "callback") \/ (cur' = cur /\ pc' = pc)
  BY DEF RunReadyCallback, Tell
<1>6. \/ /\ i \in Range(regs)
         /\ credit' = [credit EXCEPT ![i] =
              [e \in Events |-> IF e \in Head(ready).events THEN credit[i][e] - 1 ELSE credit[i][e]]]
      \/ i \notin Range(regs) /\ credit' = credit
  BY DEF RunReadyCallback, Tell
<1>2. /\ ready' \in Seq(Entries) /\ Head(ready) \in Entries /\ Head(ready) \in Range(ready)
      /\ Range(ready') \subseteq Range(ready)
  BY <1>1, RangeTail
<1>8. /\ Len(ready) \in Nat \ {0} /\ DOMAIN ready = 1 .. Len(ready) /\ Head(ready) = ready[1]
      /\ DOMAIN ready' = 1 .. Len(ready) - 1
      /\ \A k \in DOMAIN ready' : k + 1 \in DOMAIN ready /\ k + 1 # 1 /\ ready'[k] = ready[k + 1]
      /\ 1 \in DOMAIN ready
  BY <1>1, HeadTailProperties, EmptySeq
<1>9. \A k, l \in DOMAIN ready : ready[k].id = ready[l].id => k = l
  BY DEF SocketInv, ReadyInv
<1>10. i \in Range(regs) => \A e \in Events : e \in Head(ready).events => credit[i][e] >= 1
  BY <1>8 DEF SocketInv, CreditInv, Owed, OnList
<1>7. /\ credit' \in [Ids -> [Events -> 0 .. 2]]
      /\ \A j \in Range(regs), e \in Events :
           credit'[j][e] = IF j = i /\ e \in Head(ready).events THEN credit[j][e] - 1
                           ELSE credit[j][e]
  <2>1. credit \in [Ids -> [Events -> 0 .. 2]] /\ i \in Ids /\ Range(regs) \subseteq Ids
    <3>1. \A j \in Range(regs) : j \in Ids
      BY <1>1, ElementOfSeq, LenProperties DEF Range, TypeOK
    <3> QED
      BY <1>1, <1>2, <3>1 DEF TypeOK, Entries
  <2>2. CASE i \notin Range(regs)
    BY <1>6, <2>1, <2>2
  <2>3. CASE i \in Range(regs)
    <3> DEFINE new == [e \in Events |-> IF e \in Head(ready).events THEN credit[i][e] - 1
                                        ELSE credit[i][e]]
    <3>1. new \in [Events -> 0 .. 2]
      BY <1>10, <2>1, <2>3
    <3>2. credit' = [credit EXCEPT ![i] = new]
      BY <1>6, <2>3
    <3>3. \A e \in Events : new[e] = IF e \in Head(ready).events THEN credit[i][e] - 1
                                     ELSE credit[i][e]
      OBVIOUS
    <3> HIDE DEF new
    <3>4. credit' \in [Ids -> [Events -> 0 .. 2]] /\ credit'[i] = new
          /\ \A j \in Ids : j # i => credit'[j] = credit[j]
      BY <2>1, <3>1, <3>2
    <3> QED
      BY <2>1, <3>3, <3>4
  <2> QED
    BY <2>2, <2>3
<1>3. TypeOK'
  <2>1. pc' \in {"idle", "enum", "run", "callback", "reset"}
    BY <1>0, <1>1
  <2>2. cur' \in Entries \cup {NoEntry}
    BY <1>0, <1>1, <1>2 DEF TypeOK, Entries
  <2> QED
    BY <1>1, <1>2, <1>7, <2>1, <2>2 DEF TypeOK, Entries
<1>4. RegInv'
  <2>1. Head(ready).id \in 1 .. made
    BY <1>1, <1>2 DEF RegInv, Entries, Ids, TypeOK
  <2> QED
    BY <1>0, <1>1, <1>2, <2>1 DEF RegInv
<1>5. AskedInv'
  BY <1>0, <1>1, <1>2 DEF AskedInv, Wanted
<1>11. ReadyInv'
  <2>1. \A k, l \in DOMAIN ready' : ready'[k].id = ready'[l].id => k = l
    BY <1>8, <1>9
  <2> QED
    BY <1>0, <1>1, <2>1 DEF ReadyInv
<1>12. CreditInv'
  <2> SUFFICES ASSUME NEW j \in Range(regs), NEW e \in Events PROVE Owed(j, e)'
    BY <1>1 DEF CreditInv
  <2>1. Owed(j, e) /\ reg' = reg /\ credit[j][e] \in 0 .. 2
    <3>1. j \in Ids
      BY <1>1, ElementOfSeq, LenProperties DEF Range, TypeOK
    <3> QED
      BY <1>1, <3>1 DEF SocketInv, CreditInv, TypeOK
  <2>2. OnList(j, e)' => OnList(j, e)
    BY <1>8 DEF OnList
  <2>3. CASE j = i /\ e \in Head(ready).events
    <3>1. OnList(j, e) /\ ~OnList(j, e)'
      BY <1>8, <1>9, <2>3 DEF OnList
    <3> QED
      BY <1>7, <2>1, <2>3, <3>1 DEF Owed
  <2>4. CASE ~(j = i /\ e \in Head(ready).events)
    BY <1>7, <2>1, <2>2, <2>4 DEF Owed
  <2> QED
    BY <2>3, <2>4
<1> QED
  BY <1>3, <1>4, <1>5, <1>11, <1>12 DEF SocketInv

(* The other steps of the loop, and Quit, change neither the map nor the   *)
(* ready list.                                                             *)
LEMMA OtherSteps ==
  ASSUME SocketInv,
         \/ Quit \/ WaitReturnsSocketEvent \/ WaitTimesOut \/ EnumerateFails \/ EnumerateEnds
         \/ CallbackReturns \/ RunReadyCallbacksReturns \/ ResetSocketEvent
  PROVE  SocketInv'
<1>1. /\ TypeOK /\ RegInv /\ AskedInv
      /\ UNCHANGED <<regs, reg, made, sub, rec, cond, ready, asked, credit>>
  BY DEF SocketInv, Quit, WaitReturnsSocketEvent, WaitTimesOut, EnumerateFails, EnumerateEnds,
     CallbackReturns, RunReadyCallbacksReturns, ResetSocketEvent, kernelVars, loopVars, history
<1>2. /\ running' \in BOOLEAN /\ hasArt' \in BOOLEAN
      /\ sockEv' \in BOOLEAN /\ timedOut' \in BOOLEAN
  BY <1>1 DEF TypeOK, Quit, WaitReturnsSocketEvent, WaitTimesOut, EnumerateFails,
     EnumerateEnds, CallbackReturns, RunReadyCallbacksReturns, ResetSocketEvent, loopVars
<1>3. /\ pc' \in {"idle", "enum", "run", "callback", "reset"}
      /\ pc' = "callback" => pc = "callback" /\ cur' = cur
      /\ cur' \in {cur, NoEntry}
  BY <1>1 DEF TypeOK, Quit, WaitReturnsSocketEvent, WaitTimesOut, EnumerateFails,
     EnumerateEnds, CallbackReturns, RunReadyCallbacksReturns, ResetSocketEvent, loopVars
<1>4. todo' \in Seq(Ids) /\ (pc' = "enum" => Range(todo') \subseteq Range(regs))
  <2>1. CASE WaitReturnsSocketEvent \/ WaitTimesOut
    BY <1>1, <2>1 DEF TypeOK, WaitReturnsSocketEvent, WaitTimesOut
  <2>2. CASE EnumerateFails
    BY <1>1, <2>2, RangeTail DEF TypeOK, RegInv, EnumerateFails
  <2>3. CASE Quit
    BY <1>1, <2>3 DEF TypeOK, RegInv, Quit, loopVars
  <2>4. CASE EnumerateEnds \/ CallbackReturns \/ RunReadyCallbacksReturns \/ ResetSocketEvent
    BY <1>1, <2>4 DEF TypeOK, EnumerateEnds, CallbackReturns, RunReadyCallbacksReturns,
       ResetSocketEvent
  <2> QED
    BY <2>1, <2>2, <2>3, <2>4
<1>7. missed' \subseteq Ids
  <2>1. CASE EnumerateFails
    BY <1>1, <2>1, RangeTail DEF TypeOK, EnumerateFails
  <2>2. CASE ~EnumerateFails
    BY <1>1, <2>2 DEF TypeOK, Quit, WaitReturnsSocketEvent, WaitTimesOut, EnumerateEnds,
       CallbackReturns, RunReadyCallbacksReturns, ResetSocketEvent, history
  <2> QED
    BY <2>1, <2>2
<1>5. TypeOK'
  BY <1>1, <1>2, <1>3, <1>4, <1>7 DEF TypeOK
<1>6. RegInv' /\ AskedInv'
  BY <1>1, <1>3, <1>4 DEF RegInv, AskedInv, Wanted
<1>8. ReadyInv'
  <2>1. ReadyInv
    BY DEF SocketInv
  <2>2. CASE WaitReturnsSocketEvent \/ WaitTimesOut
    <3>1. todo' = regs /\ ready = <<>> /\ pc' \in {"enum", "reset"}
      BY <2>1, <2>2 DEF WaitReturnsSocketEvent, WaitTimesOut, ReadyInv
    <3> QED
      BY <1>1, <2>1, <3>1, Distinct DEF ReadyInv
  <2>3. CASE EnumerateFails
    <3>1. /\ Len(todo) \in Nat \ {0} /\ DOMAIN todo = 1 .. Len(todo) /\ todo' = Tail(todo)
          /\ DOMAIN todo' = 1 .. Len(todo) - 1 /\ pc' = "enum" /\ pc = "enum"
          /\ \A k \in DOMAIN todo' : k + 1 \in DOMAIN todo /\ todo'[k] = todo[k + 1]
      BY <1>1, <2>3, HeadTailProperties, EmptySeq DEF TypeOK, EnumerateFails
    <3>2. \A k, l \in DOMAIN todo' : todo'[k] = todo'[l] => k = l
      BY <2>1, <3>1 DEF ReadyInv
    <3>3. Range(todo') \subseteq Range(todo)
      BY <3>1 DEF Range
    <3> QED
      BY <1>1, <2>1, <3>1, <3>2, <3>3 DEF ReadyInv
  <2>4. CASE \/ Quit \/ EnumerateEnds \/ CallbackReturns \/ RunReadyCallbacksReturns
             \/ ResetSocketEvent
    BY <1>1, <2>1, <2>4 DEF ReadyInv, Quit, EnumerateEnds, CallbackReturns,
       RunReadyCallbacksReturns, ResetSocketEvent, loopVars
  <2> QED
    BY <2>2, <2>3, <2>4
<1>9. CreditInv'
  BY <1>1 DEF SocketInv, CreditInv, Owed, OnList
<1> QED
  BY <1>5, <1>6, <1>8, <1>9 DEF SocketInv

LEMMA SocketStep == SocketInv /\ [Next]_vars => SocketInv'
<1> SUFFICES ASSUME SocketInv, [Next]_vars PROVE SocketInv'
  OBVIOUS
<1>1. CASE LoopStep
  BY <1>1, EnumerateStep, RunReadyStep, OtherSteps DEF LoopStep
<1>2. CASE UserStep
  BY <1>2, RegisterStep, UnregisterStep, RearmStep, NotifyStep, OtherSteps DEF UserStep
<1>3. CASE NetworkStep
  BY <1>3, NetworkStepKeeps DEF NetworkStep
<1>4. CASE UNCHANGED vars
  BY <1>4 DEF vars, kernelVars, loopVars, history, SocketInv, TypeOK, RegInv, AskedInv, Wanted,
     ReadyInv, CreditInv, Owed, OnList
<1> QED
  BY <1>1, <1>2, <1>3, <1>4 DEF Next

-----------------------------------------------------------------------------
(* The invariant of the map, the ready list and the masks, which holds in  *)
(* every state however callbacks register, unregister and rearm sockets    *)
(* while RunReadyCallbacks walks its list.                                 *)
THEOREM SocketInvCorrect == Spec => []SocketInv
BY SocketInit, SocketStep, PTL DEF Spec

(* The types, and in particular that no socket is registered twice.        *)
THEOREM SocketTypeCorrect == Spec => []TypeOK
<1>1. SocketInv => TypeOK
  BY DEF SocketInv
<1> QED
  BY <1>1, SocketInvCorrect, PTL

(* A listener hears only of events its own registration was asked to       *)
(* watch, never of what RunReadyCallbacks collected for an earlier         *)
(* registration of the socket.                                             *)
THEOREM CallbackWasAskedForCorrect == Spec => []CallbackWasAskedFor
<1>1. SocketInv => CallbackWasAskedFor
  BY DEF SocketInv, AskedInv, Wanted, CallbackWasAskedFor
<1> QED
  BY <1>1, SocketInvCorrect, PTL

(* A listener is told of an event at most once for each time RegisterSocket*)
(* or RearmSocket armed it, also when a callback rearms a socket whose     *)
(* entry is still on the ready list.                                       *)
THEOREM OneCallbackPerArmingCorrect == Spec => OneCallbackPerArming
<1>1. SocketInv /\ [Next]_vars =>
        [pc = "run" /\ pc' = "callback" => \A e \in cur'.events : credit[cur'.id][e] > 0]_vars
  <2> SUFFICES ASSUME SocketInv, Next, pc = "run", pc' = "callback"
               PROVE  \A e \in cur'.events : credit[cur'.id][e] > 0
    OBVIOUS
  <2>1. CASE RunReadyCallback
    <3>1. /\ ready # <<>> /\ ready \in Seq(Entries) /\ cur' = Head(ready)
          /\ Head(ready).id \in Range(regs)
      BY <2>1 DEF SocketInv, TypeOK, Entries, RunReadyCallback, Tell
    <3>2. Head(ready) \in Entries /\ 1 \in DOMAIN ready /\ Head(ready) = ready[1]
      BY <3>1, HeadTailProperties, EmptySeq
    <3>3. \A e \in Head(ready).events : e \in Events /\ Owed(Head(ready).id, e)
      BY <3>1, <3>2 DEF SocketInv, CreditInv, Entries, EventMasks
    <3>4. \A e \in Head(ready).events : OnList(Head(ready).id, e)
      BY <3>2 DEF OnList
    <3>5. credit \in [Ids -> [Events -> 0 .. 2]] /\ Head(ready).id \in Ids
      BY <3>2 DEF SocketInv, TypeOK, Entries
    <3>6. \A e \in Head(ready).events : credit[Head(ready).id][e] >= 1
      BY <3>3, <3>4 DEF Owed
    <3> QED
      BY <3>1, <3>3, <3>5, <3>6
  <2>2. CASE LoopStep /\ ~RunReadyCallback
    BY <2>2 DEF LoopStep, WaitReturnsSocketEvent, WaitTimesOut, Enumerate, EnumerateFails,
       EnumerateEnds, CallbackReturns, RunReadyCallbacksReturns, ResetSocketEvent
  <2>3. CASE UserStep \/ NetworkStep
    BY <2>3 DEF UserStep, NetworkStep, Quit, UnregisterSocket, RegisterSocket, RearmSocket,
       ArtificiallyNotifyEvent, NetworkActivity, ConsumeActivity, loopVars
  <2> QED
    BY <2>1, <2>2, <2>3 DEF Next
<1> QED
  BY <1>1, SocketInvCorrect, PTL DEF Spec, OneCallbackPerArming

=============================================================================
