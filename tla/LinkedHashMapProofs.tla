------------------------ MODULE LinkedHashMapProofs ------------------------
(***************************************************************************)
(* Proofs, for any number of maps, keys and nodes, that list_ and map_ of  *)
(* LinkedHashMap go in parallel, and that it implements OrderedMap.        *)
(***************************************************************************)
EXTENDS LinkedHashMap, SequenceTheorems, FiniteSetTheorems, TLAPS

(* A node is in one list, once, and holds a pair; in the lists of maps in  *)
(* which an insert has thrown, too, as clear will destroy these nodes.     *)
NodeInv ==
  /\ \A m \in Maps : IsInjective(list_[m])
  /\ \A m, o \in Maps : m # o => NodesOf(m) \cap NodesOf(o) = {}
  /\ \A m \in Maps : \A n \in NodesOf(m) : pair[n] \in Pairs

(* A key is that of an element, and leads to it.                           *)
KeyInv ==
  \A m \in Maps \ thrown :
    /\ DOMAIN map_[m] = {pair[n][1] : n \in NodesOf(m)}
    /\ \A n \in NodesOf(m) : map_[m][pair[n][1]] = n

(* erase(first, last) is at an element, or at the end, of a map in which   *)
(* no insert has thrown.                                                   *)
RangeInv ==
  range # NoRange => /\ range.on \in Maps \ thrown
                     /\ range.first \in NodesOf(range.on) \cup {End}

MapInv == TypeOK /\ NodeInv /\ KeyInv /\ RangeInv

-----------------------------------------------------------------------------
(* RemoveAt, of the community modules, element by element.                 *)
LEMMA RemoveAtShape ==
  ASSUME NEW S, NEW s \in Seq(S), NEW k \in DOMAIN s
  PROVE  /\ RemoveAt(s, k) \in Seq(S)
         /\ RemoveAt(s, k) = [i \in 1 .. Len(s) - 1 |-> IF i < k THEN s[i] ELSE s[i + 1]]
<1> DEFINE a == SubSeq(s, 1, k - 1)  b == SubSeq(s, k + 1, Len(s))
           c == [i \in 1 .. Len(s) - 1 |-> IF i < k THEN s[i] ELSE s[i + 1]]
<1>1. Len(s) \in Nat /\ DOMAIN s = 1 .. Len(s) /\ k \in 1 .. Len(s)
  BY LenProperties
<1>2. a \in Seq(S) /\ Len(a) = k - 1 /\ \A i \in 1 .. k - 1 : a[i] = s[i]
  BY <1>1, SubSeqProperties
<1>3. b \in Seq(S) /\ Len(b) = Len(s) - k /\ \A i \in 1 .. Len(s) - k : b[i] = s[i + k]
  BY <1>1, SubSeqProperties
<1> HIDE DEF a, b
<1>4. /\ a \o b \in Seq(S) /\ Len(a \o b) = Len(a) + Len(b)
      /\ \A i \in 1 .. Len(a) + Len(b) : (a \o b)[i] = IF i <= Len(a) THEN a[i] ELSE b[i - Len(a)]
  BY <1>2, <1>3, ConcatProperties
<1>5. Len(a \o b) = Len(s) - 1
  BY <1>1, <1>2, <1>3, <1>4
<1>6. ASSUME NEW i \in 1 .. Len(s) - 1 PROVE (a \o b)[i] = c[i]
  <2>1. i \in 1 .. Len(a) + Len(b)
    BY <1>1, <1>2, <1>3
  <2>2. CASE i < k
    BY <1>1, <1>2, <1>4, <2>1, <2>2
  <2>3. CASE ~(i < k)
    <3>1. i - Len(a) \in 1 .. Len(s) - k /\ ~(i <= Len(a)) /\ (i - Len(a)) + k = i + 1
      BY <1>1, <1>2, <2>3
    <3> QED
      BY <1>3, <1>4, <2>1, <2>3, <3>1
  <2> QED
    BY <2>2, <2>3
<1>7. DOMAIN (a \o b) = 1 .. Len(s) - 1
  BY <1>4, <1>5, LenProperties
<1>8. c \in Seq(S) /\ Len(c) = Len(s) - 1
  <2> DEFINE slot(i) == IF i < k THEN s[i] ELSE s[i + 1]
  <2>0. Len(s) - 1 \in Nat
    BY <1>1
  <2>1. PICK m \in Nat : m = Len(s) - 1
    BY <2>0
  <2>2. \A i \in 1 .. m : slot(i) \in S
    BY <1>1, <2>1, ElementOfSeq
  <2>3. c = [i \in 1 .. m |-> slot(i)]
    BY <2>1
  <2> HIDE DEF c, slot
  <2> QED
    BY <2>1, <2>2, <2>3
<1> HIDE DEF c
<1>9. a \o b = c
  BY <1>4, <1>5, <1>6, <1>8, SeqEqual
<1> QED
  BY <1>4, <1>9 DEF RemoveAt, a, b, c

(* What remains of a list when the element at k is erased.                 *)
LEMMA RangeRemoveAt ==
  ASSUME NEW S, NEW s \in Seq(S), IsInjective(s), NEW k \in DOMAIN s
  PROVE  /\ IsInjective(RemoveAt(s, k))
         /\ Range(RemoveAt(s, k)) = Range(s) \ {s[k]}
<1> DEFINE w == RemoveAt(s, k)
<1>1. Len(s) \in Nat /\ DOMAIN s = 1 .. Len(s)
  BY LenProperties
<1>2. w = [i \in 1 .. Len(s) - 1 |-> IF i < k THEN s[i] ELSE s[i + 1]]
  BY RemoveAtShape
<1> HIDE DEF w
<1>3. Range(w) \subseteq Range(s) \ {s[k]}
  BY <1>1, <1>2 DEF Range, IsInjective
<1>4. ASSUME NEW i \in DOMAIN s, i # k PROVE s[i] \in Range(w)
  <2>1. CASE i < k
    BY <1>1, <1>2, <2>1 DEF Range
  <2>2. CASE i > k
    <3>1. i - 1 \in DOMAIN w /\ w[i - 1] = s[i]
      BY <1>1, <1>2, <2>2
    <3> QED
      BY <3>1 DEF Range
  <2> QED
    BY <1>1, <1>4, <2>1, <2>2
<1>5. IsInjective(w)
  BY <1>1, <1>2 DEF IsInjective
<1>6. Range(s) \ {s[k]} \subseteq Range(w)
  BY <1>4 DEF Range
<1> QED
  BY <1>3, <1>5, <1>6 DEF w

(* A sequence of a set's elements is one of a larger set's.                *)
LEMMA SeqWider ==
  ASSUME NEW S, NEW T, S \subseteq T, NEW s \in Seq(S)
  PROVE  s \in Seq(T)
<1>1. s \in [1 .. Len(s) -> T] /\ Len(s) \in Nat
  BY LenProperties
<1> QED
  BY <1>1

(* What a list is after an element has been added at its end.              *)
LEMMA RangeAppend ==
  ASSUME NEW S, NEW s \in Seq(S), IsInjective(s), NEW e, e \notin S
  PROVE  /\ IsInjective(Append(s, e))
         /\ Range(Append(s, e)) = Range(s) \cup {e}
         /\ Append(s, e) \in Seq(S \cup {e})
<1>1. Len(s) \in Nat /\ DOMAIN s = 1 .. Len(s) /\ \A i \in DOMAIN s : s[i] \in S
  BY LenProperties, ElementOfSeq
<1>2. s \in Seq(S \cup {e})
  BY SeqWider
<1>3. /\ Append(s, e) \in Seq(S \cup {e})
      /\ Len(Append(s, e)) = Len(s) + 1
      /\ \A i \in 1 .. Len(s) : Append(s, e)[i] = s[i]
      /\ Append(s, e)[Len(s) + 1] = e
  BY <1>2, AppendProperties
<1>4. DOMAIN Append(s, e) = 1 .. Len(s) + 1
  BY <1>3, LenProperties
<1>5. IsInjective(Append(s, e))
  BY <1>1, <1>3, <1>4 DEF IsInjective
<1>6. Range(Append(s, e)) = Range(s) \cup {e}
  BY <1>1, <1>3, <1>4 DEF Range
<1> QED
  BY <1>3, <1>5, <1>6

-----------------------------------------------------------------------------
(* The nodes of a list have been allocated, and those of two lists differ. *)
LEMMA NodesShape ==
  ASSUME MapInv, NEW m \in Maps
  PROVE  /\ made \in Nat /\ list_[m] \in Seq(1 .. made) /\ IsInjective(list_[m])
         /\ NodesOf(m) \subseteq 1 .. made /\ 1 .. made \subseteq Nodes
         /\ \A o \in Maps \ {m} : NodesOf(m) \cap NodesOf(o) = {}
         /\ \A n \in NodesOf(m) : pair[n] \in Pairs
<1>1. list_ \in [Maps -> Seq(1 .. made)] /\ made \in 0 .. MaxNodes
  BY DEF MapInv, TypeOK
<1>2. made \in Nat /\ 1 .. made \subseteq Nodes
  BY <1>1, LinkedHashMapAssumption DEF Nodes
<1>3. list_[m] \in Seq(1 .. made)
  BY <1>1
<1>4. NodesOf(m) \subseteq 1 .. made
  BY <1>3, RangeOfSeq DEF NodesOf
<1> QED
  BY <1>2, <1>3, <1>4 DEF MapInv, NodeInv

(* Link adds a node of its own at the end of the list, for a new key.      *)
LEMMA LinkStep ==
  ASSUME MapInv, NEW m \in Maps \ thrown, NEW k \in Keys, NEW v \in Values,
         ~Found(m, k), Link(m, k, v), range' = range, thrown' = thrown
  PROVE  MapInv'
<1> DEFINE n == made + 1
<1>1. made' = n /\ made \in Nat /\ n \in Nat /\ n \in Nodes /\ n \notin 1 .. made /\ made' \in 0 .. MaxNodes
      /\ 1 .. made' = 1 .. made \cup {n}
  BY LinkedHashMapAssumption, NodesShape DEF Link, Nodes, MapInv, TypeOK
<1>2. /\ list_' = [list_ EXCEPT ![m] = Append(list_[m], n)]
      /\ pair' = [pair EXCEPT ![n] = <<k, v>>]
      /\ map_' = [map_ EXCEPT ![m] = [x \in DOMAIN map_[m] \cup {k} |-> IF x = k THEN n ELSE map_[m][x]]]
  BY <1>1 DEF Link, With
<1> HIDE DEF n
<1>3. /\ list_ \in [Maps -> Seq(1 .. made)] /\ pair \in [Nodes -> Pairs \cup {NoNode}]
      /\ DOMAIN map_ = Maps /\ thrown \subseteq Maps
      /\ \A o \in Maps : DOMAIN map_[o] \subseteq Keys /\ Range(map_[o]) \subseteq Nodes \cup {NoNode}
  BY DEF MapInv, TypeOK
<1>4. /\ list_'[m] = Append(list_[m], n) /\ DOMAIN list_' = Maps
      /\ \A o \in Maps \ {m} : list_'[o] = list_[o]
      /\ list_' = [o \in Maps |-> list_'[o]]
  BY <1>2, <1>3
<1>5. /\ IsInjective(list_'[m]) /\ NodesOf(m)' = NodesOf(m) \cup {n}
      /\ list_'[m] \in Seq(1 .. made')
  <2>1. list_[m] \in Seq(1 .. made) /\ IsInjective(list_[m])
    BY NodesShape
  <2>2. /\ IsInjective(Append(list_[m], n))
        /\ Range(Append(list_[m], n)) = Range(list_[m]) \cup {n}
        /\ Append(list_[m], n) \in Seq(1 .. made \cup {n})
    BY <1>1, <2>1, RangeAppend
  <2> QED
    BY <1>1, <1>4, <2>2 DEF NodesOf
<1>6. ASSUME NEW o \in Maps \ {m}
      PROVE  IsInjective(list_'[o]) /\ NodesOf(o)' = NodesOf(o) /\ list_'[o] \in Seq(1 .. made')
  <2>1. list_[o] \in Seq(1 .. made) /\ IsInjective(list_[o])
    BY NodesShape
  <2>2. list_[o] \in Seq(1 .. made')
    BY <1>1, <2>1, SeqWider
  <2> QED
    BY <1>4, <2>1, <2>2 DEF NodesOf
<1>7. /\ pair'[n] = <<k, v>> /\ pair' \in [Nodes -> Pairs \cup {NoNode}]
      /\ \A x \in 1 .. made : pair'[x] = pair[x]
  <2>1. <<k, v>> \in Pairs
    BY DEF Pairs
  <2> QED
    BY <1>1, <1>2, <1>3, <2>1, NodesShape
<1>8. /\ DOMAIN map_' = Maps /\ \A o \in Maps \ {m} : map_'[o] = map_[o]
      /\ map_'[m] = [x \in DOMAIN map_[m] \cup {k} |-> IF x = k THEN n ELSE map_[m][x]]
  BY <1>2, <1>3
<1>9. TypeOK'
  <2>1. list_' \in [Maps -> Seq(1 .. made')]
    BY <1>4, <1>5, <1>6
  <2>2. \A o \in Maps : DOMAIN map_'[o] \subseteq Keys /\ Range(map_'[o]) \subseteq Nodes \cup {NoNode}
    BY <1>1, <1>3, <1>8 DEF Range
  <2>3. range' \in [on : Maps \cup {NoNode}, first : Nodes \cup {End}, last : Nodes \cup {End}]
    BY DEF MapInv, TypeOK
  <2> QED
    BY <1>1, <1>3, <1>7, <1>8, <2>1, <2>2, <2>3 DEF TypeOK
<1>10. \A o \in Maps : NodesOf(o) \subseteq 1 .. made /\ \A x \in NodesOf(o) : pair[x] \in Pairs
  BY NodesShape
<1>11. NodeInv'
  <2>1. \A o \in Maps : IsInjective(list_'[o])
    BY <1>5, <1>6
  <2>2. \A a, b \in Maps : a # b => NodesOf(a)' \cap NodesOf(b)' = {}
    BY <1>1, <1>5, <1>6, <1>10 DEF MapInv, NodeInv
  <2>3. \A o \in Maps : \A x \in NodesOf(o)' : pair'[x] \in Pairs
    <3>1. pair'[n] \in Pairs /\ \A o \in Maps : \A x \in NodesOf(o) : pair'[x] \in Pairs
      BY <1>7, <1>10 DEF Pairs
    <3> QED
      BY <1>5, <1>6, <3>1
  <2> QED
    BY <2>1, <2>2, <2>3 DEF NodeInv
<1>12. KeyInv'
  <2>1. ASSUME NEW o \in Maps \ thrown, o # m
        PROVE  /\ DOMAIN map_'[o] = {pair'[x][1] : x \in NodesOf(o)'}
               /\ \A x \in NodesOf(o)' : map_'[o][pair'[x][1]] = x
    <3>1. NodesOf(o)' = NodesOf(o) /\ map_'[o] = map_[o] /\ \A x \in NodesOf(o) : pair'[x] = pair[x]
      BY <1>6, <1>7, <1>8, <1>10, <2>1
    <3> QED
      BY <2>1, <3>1 DEF MapInv, KeyInv
  <2>2. /\ DOMAIN map_'[m] = {pair'[x][1] : x \in NodesOf(m)'}
        /\ \A x \in NodesOf(m)' : map_'[m][pair'[x][1]] = x
    <3>1. /\ DOMAIN map_[m] = {pair[x][1] : x \in NodesOf(m)}
          /\ \A x \in NodesOf(m) : map_[m][pair[x][1]] = x
          /\ k \notin DOMAIN map_[m]
      BY DEF MapInv, KeyInv, Found
    <3>2. \A x \in NodesOf(m) : pair'[x] = pair[x] /\ pair[x][1] \in DOMAIN map_[m]
      BY <1>7, <1>10, <3>1
    <3>3. pair'[n][1] = k
      BY <1>7
    <3>4. DOMAIN map_'[m] = DOMAIN map_[m] \cup {k}
      BY <1>8
    <3>5. map_'[m][k] = n /\ \A x \in DOMAIN map_[m] : map_'[m][x] = map_[m][x]
      BY <1>8, <3>1
    <3> QED
      BY <1>5, <3>1, <3>2, <3>3, <3>4, <3>5
  <2> QED
    BY <2>1, <2>2 DEF KeyInv
<1>13. RangeInv'
  BY <1>5, <1>6 DEF MapInv, RangeInv, NoRange, NodesOf
<1> QED
  BY <1>9, <1>11, <1>12, <1>13 DEF MapInv

(* Destroying nodes leaves the pairs of the others alone.                  *)
LEMMA DestroyShape ==
  ASSUME MapInv, NEW nodes, Destroy(nodes)
  PROVE  /\ pair' \in [Nodes -> Pairs \cup {NoNode}]
         /\ \A x \in Nodes \ nodes : pair'[x] = pair[x]
<1>1. pair \in [Nodes -> Pairs \cup {NoNode}]
  BY DEF MapInv, TypeOK
<1> QED
  BY <1>1 DEF Destroy

(* The place of a node of the list.                                        *)
LEMMA PlaceShape ==
  ASSUME NEW m, NEW n \in NodesOf(m)
  PROVE  Place(m, n) \in DOMAIN list_[m] /\ list_[m][Place(m, n)] = n
<1>1. \E i \in DOMAIN list_[m] : list_[m][i] = n
  BY DEF NodesOf, Range
<1> QED
  BY <1>1 DEF Place

(* The first element of a list that has one.                               *)
LEMMA HeadShape ==
  ASSUME MapInv, NEW m \in Maps, list_[m] # <<>>
  PROVE  Head(list_[m]) \in NodesOf(m)
<1>1. list_[m] \in Seq(1 .. made)
  BY NodesShape
<1>2. 1 \in DOMAIN list_[m] /\ Head(list_[m]) = list_[m][1]
  BY <1>1, LenProperties, EmptySeq, HeadTailProperties
<1> QED
  BY <1>2 DEF NodesOf, Range

(* What erase(iterator) does to the list, the nodes and the map.           *)
LEMMA EraseShape ==
  ASSUME MapInv, NEW m \in Maps, NEW n \in NodesOf(m), EraseAt(m, n)
  PROVE  /\ list_' = [list_ EXCEPT ![m] = RemoveAt(list_[m], Place(m, n))]
         /\ list_'[m] = RemoveAt(list_[m], Place(m, n)) /\ DOMAIN list_' = Maps
         /\ \A o \in Maps \ {m} : list_'[o] = list_[o] /\ NodesOf(o)' = NodesOf(o)
         /\ list_'[m] \in Seq(1 .. made) /\ IsInjective(list_'[m])
         /\ NodesOf(m)' = NodesOf(m) \ {n}
         /\ pair' \in [Nodes -> Pairs \cup {NoNode}]
         /\ \A x \in Nodes \ {n} : pair'[x] = pair[x]
         /\ DOMAIN map_' = Maps /\ \A o \in Maps \ {m} : map_'[o] = map_[o]
         /\ map_'[m] = [x \in DOMAIN map_[m] \ {pair[n][1]} |-> map_[m][x]]
<1>1. list_ \in [Maps -> Seq(1 .. made)] /\ DOMAIN map_ = Maps
  BY DEF MapInv, TypeOK
<1>2. list_' = [list_ EXCEPT ![m] = RemoveAt(list_[m], Place(m, n))] /\ Destroy({n})
  BY DEF EraseAt, Unlink
<1>3. /\ list_'[m] = RemoveAt(list_[m], Place(m, n)) /\ DOMAIN list_' = Maps
      /\ \A o \in Maps \ {m} : list_'[o] = list_[o]
  BY <1>1, <1>2
<1>4. Place(m, n) \in DOMAIN list_[m] /\ list_[m][Place(m, n)] = n
  BY PlaceShape
<1>5. list_[m] \in Seq(1 .. made) /\ IsInjective(list_[m])
  BY NodesShape
<1>6. /\ RemoveAt(list_[m], Place(m, n)) \in Seq(1 .. made)
      /\ IsInjective(RemoveAt(list_[m], Place(m, n)))
      /\ Range(RemoveAt(list_[m], Place(m, n))) = Range(list_[m]) \ {n}
  BY <1>4, <1>5, RemoveAtShape, RangeRemoveAt
<1>7. list_'[m] \in Seq(1 .. made) /\ IsInjective(list_'[m]) /\ NodesOf(m)' = NodesOf(m) \ {n}
  BY <1>3, <1>6 DEF NodesOf
<1>8. \A o \in Maps \ {m} : NodesOf(o)' = NodesOf(o)
  BY <1>3 DEF NodesOf
<1>9. map_' = [map_ EXCEPT ![m] = [x \in DOMAIN map_[m] \ {pair[n][1]} |-> map_[m][x]]]
  BY DEF EraseAt, Without, Restrict
<1>10. /\ DOMAIN map_' = Maps /\ \A o \in Maps \ {m} : map_'[o] = map_[o]
       /\ map_'[m] = [x \in DOMAIN map_[m] \ {pair[n][1]} |-> map_[m][x]]
  BY <1>1, <1>9
<1>11. /\ pair' \in [Nodes -> Pairs \cup {NoNode}]
       /\ \A x \in Nodes \ {n} : pair'[x] = pair[x]
  BY <1>2, DestroyShape
<1> QED
  BY <1>2, <1>3, <1>7, <1>8, <1>10, <1>11

(* erase(iterator) takes the element and its key out together.             *)
LEMMA EraseStep ==
  ASSUME MapInv, NEW m \in Maps \ thrown, NEW n \in NodesOf(m), EraseAt(m, n),
         thrown' = thrown, RangeInv',
         range' \in [on : Maps \cup {NoNode}, first : Nodes \cup {End}, last : Nodes \cup {End}]
  PROVE  MapInv'
<1>1. /\ \A o \in Maps \ {m} : list_'[o] = list_[o] /\ NodesOf(o)' = NodesOf(o)
      /\ list_'[m] \in Seq(1 .. made) /\ IsInjective(list_'[m])
      /\ NodesOf(m)' = NodesOf(m) \ {n}
      /\ \A x \in Nodes \ {n} : pair'[x] = pair[x]
  BY EraseShape
<1>2. /\ DOMAIN map_' = Maps /\ \A o \in Maps \ {m} : map_'[o] = map_[o]
      /\ map_'[m] = [x \in DOMAIN map_[m] \ {pair[n][1]} |-> map_[m][x]]
  BY EraseShape
<1>3. \A o \in Maps : DOMAIN map_[o] \subseteq Keys /\ Range(map_[o]) \subseteq Nodes \cup {NoNode}
  BY DEF MapInv, TypeOK
<1>4. /\ \A o \in Maps : NodesOf(o) \subseteq Nodes /\ \A x \in NodesOf(o) : pair[x] \in Pairs
      /\ \A a, b \in Maps : a # b => NodesOf(a) \cap NodesOf(b) = {}
      /\ \A o \in Maps : list_[o] \in Seq(1 .. made) /\ IsInjective(list_[o])
  BY NodesShape
<1>5. made' = made /\ made \in 0 .. MaxNodes /\ thrown \subseteq Maps
  BY DEF EraseAt, MapInv, TypeOK
<1>6. \A o \in Maps : \A x \in NodesOf(o)' : x \in NodesOf(o) /\ pair'[x] = pair[x]
  BY <1>1, <1>4
<1>7. TypeOK'
  <2>1. list_' \in [Maps -> Seq(1 .. made')]
    <3>1. /\ list_' = [list_ EXCEPT ![m] = RemoveAt(list_[m], Place(m, n))]
          /\ list_'[m] = RemoveAt(list_[m], Place(m, n))
      BY EraseShape
    <3>2. list_ \in [Maps -> Seq(1 .. made)]
      BY DEF MapInv, TypeOK
    <3> QED
      BY <1>1, <1>5, <3>1, <3>2
  <2>2. \A o \in Maps : DOMAIN map_'[o] \subseteq Keys /\ Range(map_'[o]) \subseteq Nodes \cup {NoNode}
    BY <1>2, <1>3 DEF Range
  <2>3. pair' \in [Nodes -> Pairs \cup {NoNode}]
    BY EraseShape
  <2> QED
    BY <1>2, <1>5, <2>1, <2>2, <2>3 DEF TypeOK
<1>8. NodeInv'
  <2>1. \A o \in Maps : IsInjective(list_'[o])
    BY <1>1, <1>4
  <2>2. \A a, b \in Maps : a # b => NodesOf(a)' \cap NodesOf(b)' = {}
    BY <1>4, <1>6
  <2>3. \A o \in Maps : \A x \in NodesOf(o)' : pair'[x] \in Pairs
    BY <1>4, <1>6
  <2> QED
    BY <2>1, <2>2, <2>3 DEF NodeInv
<1>9. KeyInv'
  <2>1. ASSUME NEW o \in Maps \ thrown, o # m
        PROVE  /\ DOMAIN map_'[o] = {pair'[x][1] : x \in NodesOf(o)'}
               /\ \A x \in NodesOf(o)' : map_'[o][pair'[x][1]] = x
    <3>1. NodesOf(o)' = NodesOf(o) /\ map_'[o] = map_[o] /\ \A x \in NodesOf(o) : pair'[x] = pair[x]
      BY <1>1, <1>2, <1>6, <2>1
    <3> QED
      BY <2>1, <3>1 DEF MapInv, KeyInv
  <2>2. /\ DOMAIN map_'[m] = {pair'[x][1] : x \in NodesOf(m)'}
        /\ \A x \in NodesOf(m)' : map_'[m][pair'[x][1]] = x
    <3>1. /\ DOMAIN map_[m] = {pair[x][1] : x \in NodesOf(m)}
          /\ \A x \in NodesOf(m) : map_[m][pair[x][1]] = x
      BY DEF MapInv, KeyInv
    <3>2. \A x \in NodesOf(m) \ {n} : pair[x][1] # pair[n][1] /\ pair'[x] = pair[x]
      BY <1>1, <1>6, <3>1
    <3>3. DOMAIN map_'[m] = {pair[x][1] : x \in NodesOf(m) \ {n}}
      BY <1>2, <3>1, <3>2
    <3>4. \A x \in NodesOf(m) \ {n} : map_'[m][pair[x][1]] = x
      BY <1>2, <3>1, <3>2
    <3> QED
      BY <1>1, <3>2, <3>3, <3>4
  <2> QED
    BY <2>1, <2>2 DEF KeyInv
<1> QED
  BY <1>7, <1>8, <1>9 DEF MapInv

(* A step that leaves the lists, the nodes and the maps alone keeps their  *)
(* part of the invariant, if no map comes to be trusted again.             *)
LEMMA SameLists ==
  ASSUME MapInv, UNCHANGED <<list_, map_, pair, thrown>>, made' \in made .. MaxNodes, RangeInv',
         range' \in [on : Maps \cup {NoNode}, first : Nodes \cup {End}, last : Nodes \cup {End}]
  PROVE  MapInv'
<1>1. TypeOK'
  <2>1. list_ \in [Maps -> Seq(1 .. made)] /\ made \in 0 .. MaxNodes /\ MaxNodes \in Nat
    BY LinkedHashMapAssumption DEF MapInv, TypeOK
  <2>2. made' \in 0 .. MaxNodes /\ 1 .. made \subseteq 1 .. made'
    BY <2>1
  <2>3. \A m \in Maps : list_[m] \in Seq(1 .. made')
    BY <2>1, <2>2, SeqWider
  <2>4. list_' \in [Maps -> Seq(1 .. made')]
    BY <2>1, <2>3
  <2> QED
    BY <2>2, <2>4 DEF MapInv, TypeOK
<1>2. NodeInv'
  BY DEF MapInv, NodeInv, NodesOf
<1>3. KeyInv'
  BY DEF MapInv, KeyInv, NodesOf
<1> QED
  BY <1>1, <1>2, <1>3 DEF MapInv

(* The type of what an iterator pair over the elements of a map holds.     *)
LEMMA RangeShape ==
  ASSUME MapInv, NEW m \in Maps, NEW a \in NodesOf(m) \cup {End}, NEW b \in Nodes \cup {End}
  PROVE  [on |-> m, first |-> a, last |-> b]
           \in [on : Maps \cup {NoNode}, first : Nodes \cup {End}, last : Nodes \cup {End}]
  BY NodesShape

(* InsertThrows leaves a key without an element, in a map that nobody uses *)
(* before it is cleared.                                                   *)
LEMMA ThrowStep ==
  ASSUME MapInv, NEW m \in Maps, NEW k \in Keys, InsertThrows(m, k)
  PROVE  MapInv'
<1>1. /\ UNCHANGED <<list_, pair, made, range>> /\ thrown' = thrown \cup {m} /\ range = NoRange
      /\ map_' = [map_ EXCEPT ![m] = [x \in DOMAIN map_[m] \cup {k} |-> IF x = k THEN NoNode ELSE map_[m][x]]]
  BY DEF InsertThrows, MayCall, With
<1>2. /\ DOMAIN map_ = Maps
      /\ \A o \in Maps : DOMAIN map_[o] \subseteq Keys /\ Range(map_[o]) \subseteq Nodes \cup {NoNode}
  BY DEF MapInv, TypeOK
<1>3. /\ DOMAIN map_' = Maps /\ \A o \in Maps \ {m} : map_'[o] = map_[o]
      /\ map_'[m] = [x \in DOMAIN map_[m] \cup {k} |-> IF x = k THEN NoNode ELSE map_[m][x]]
  BY <1>1, <1>2
<1>4. \A o \in Maps : DOMAIN map_'[o] \subseteq Keys /\ Range(map_'[o]) \subseteq Nodes \cup {NoNode}
  BY <1>2, <1>3 DEF Range
<1>5. TypeOK'
  <2>1. UNCHANGED <<list_, pair, made, range>> /\ thrown' \subseteq Maps
    BY <1>1 DEF MapInv, TypeOK
  <2> QED
    BY <1>3, <1>4, <2>1 DEF MapInv, TypeOK
<1>6. NodeInv'
  BY <1>1 DEF MapInv, NodeInv, NodesOf
<1>7. KeyInv'
  <2>1. ASSUME NEW o \in Maps \ thrown'
        PROVE  /\ DOMAIN map_'[o] = {pair'[x][1] : x \in NodesOf(o)'}
               /\ \A x \in NodesOf(o)' : map_'[o][pair'[x][1]] = x
    <3>1. map_'[o] = map_[o] /\ NodesOf(o)' = NodesOf(o) /\ o \in Maps \ thrown /\ pair' = pair
      BY <1>1, <1>3 DEF NodesOf
    <3> QED
      BY <3>1 DEF MapInv, KeyInv
  <2> QED
    BY <2>1 DEF KeyInv
<1>8. RangeInv'
  BY <1>1 DEF RangeInv, NoRange
<1> QED
  BY <1>5, <1>6, <1>7, <1>8 DEF MapInv

(* A key that is found leads to the node that has it.                      *)
LEMMA FoundShape ==
  ASSUME MapInv, NEW m \in Maps \ thrown, NEW k, Found(m, k)
  PROVE  find(m, k) \in NodesOf(m) /\ find(m, k) \in Nodes /\ pair[find(m, k)][1] = k
<1>1. k \in {pair[n][1] : n \in NodesOf(m)} /\ \A n \in NodesOf(m) : map_[m][pair[n][1]] = n
  BY DEF MapInv, KeyInv, Found
<1>2. find(m, k) = map_[m][k]
  BY DEF find
<1> QED
  BY <1>1, <1>2, NodesShape

(* Erasing by key is erasing the element with that key.                    *)
LEMMA EraseKeyAt ==
  ASSUME MapInv, NEW m \in Maps, NEW k \in Keys, EraseKey(m, k)
  PROVE  /\ m \notin thrown /\ find(m, k) \in NodesOf(m) /\ pair[find(m, k)][1] = k
         /\ EraseAt(m, find(m, k))
<1>1. m \notin thrown /\ Found(m, k)
  BY DEF EraseKey, MayCall
<1>2. find(m, k) \in NodesOf(m) /\ pair[find(m, k)][1] = k
  BY <1>1, FoundShape
<1> QED
  BY <1>1, <1>2 DEF EraseKey, EraseAt

(* Assigning to the value of an element leaves its key alone.              *)
LEMMA AssignStep ==
  ASSUME MapInv, NEW m \in Maps \ thrown, NEW k \in Keys, NEW v \in Values, Found(m, k),
         pair' = [pair EXCEPT ![find(m, k)] = <<k, v>>],
         UNCHANGED <<list_, map_, made, range, thrown>>
  PROVE  MapInv'
<1>1. find(m, k) \in NodesOf(m) /\ find(m, k) \in Nodes /\ pair[find(m, k)][1] = k
  BY FoundShape
<1>2. pair \in [Nodes -> Pairs \cup {NoNode}] /\ <<k, v>> \in Pairs
  BY DEF MapInv, TypeOK, Pairs
<1>3. /\ pair' \in [Nodes -> Pairs \cup {NoNode}]
      /\ \A n \in Nodes : pair[n] \in Pairs => pair'[n] \in Pairs
      /\ \A n \in Nodes : pair'[n][1] = pair[n][1]
  BY <1>1, <1>2
<1>4. \A o \in Maps : NodesOf(o)' = NodesOf(o) /\ NodesOf(o) \subseteq Nodes
  <2>1. \A o \in Maps : NodesOf(o) \subseteq Nodes
    BY NodesShape
  <2>2. \A o \in Maps : NodesOf(o)' = NodesOf(o)
    BY DEF NodesOf
  <2> QED
    BY <2>1, <2>2
<1>5. TypeOK'
  BY <1>3 DEF MapInv, TypeOK
<1>6. NodeInv'
  BY <1>3, <1>4 DEF MapInv, NodeInv
<1>7. KeyInv'
  <2>1. \A o \in Maps : \A n \in NodesOf(o) : pair'[n][1] = pair[n][1]
    BY <1>3, <1>4
  <2> QED
    BY <1>4, <2>1 DEF MapInv, KeyInv
<1>8. RangeInv'
  <2>1. range.on \in Maps => NodesOf(range.on)' = NodesOf(range.on)
    BY DEF NodesOf
  <2> QED
    BY <2>1 DEF MapInv, RangeInv, NoRange, NodesOf
<1> QED
  BY <1>5, <1>6, <1>7, <1>8 DEF MapInv

(* clear, swap and the move assignment deal the lists and their maps out   *)
(* anew: the map a in keep gets those of from[a], the others are empty.    *)
Dealt(keep, from) ==
  /\ from \in [keep -> Maps] /\ IsInjective(from)
  /\ list_' = [a \in Maps |-> IF a \in keep THEN list_[from[a]] ELSE <<>>]
  /\ map_' = [a \in Maps |-> IF a \in keep THEN map_[from[a]] ELSE EmptyMap]
  /\ pair' \in [Nodes -> Pairs \cup {NoNode}]
  /\ \A a \in keep : \A n \in NodesOf(from[a]) : pair'[n] = pair[n]

(* Dealing them out keeps the invariant, if no list that was given up by a *)
(* failed insert comes to be trusted.                                      *)
LEMMA DealtStep ==
  ASSUME MapInv, NEW keep \in SUBSET Maps, NEW from, Dealt(keep, from),
         made' = made, range = NoRange, range' = range, thrown' \subseteq Maps,
         \A a \in keep \ thrown' : from[a] \notin thrown
  PROVE  MapInv'
<1>1. /\ \A a \in keep : from[a] \in Maps
      /\ \A a, b \in keep : a # b => from[a] # from[b]
  BY DEF Dealt, IsInjective
<1>2. /\ DOMAIN list_' = Maps /\ DOMAIN map_' = Maps
      /\ \A a \in keep : list_'[a] = list_[from[a]] /\ map_'[a] = map_[from[a]]
      /\ \A a \in Maps \ keep : list_'[a] = <<>> /\ map_'[a] = EmptyMap
  BY DEF Dealt
<1>3. /\ \A a \in keep : NodesOf(a)' = NodesOf(from[a])
      /\ \A a \in Maps \ keep : NodesOf(a)' = {}
  <2>1. Range(<<>>) = {}
    BY DEF Range
  <2> QED
    BY <1>2, <2>1 DEF NodesOf
<1>4. \A a \in keep : \A n \in NodesOf(from[a]) : pair'[n] = pair[n]
  BY DEF Dealt
<1>5. TypeOK'
  <2>1. \A a \in Maps : list_'[a] \in Seq(1 .. made)
    <3>1. \A a \in Maps : list_[a] \in Seq(1 .. made)
      BY NodesShape
    <3>2. <<>> \in Seq(1 .. made)
      BY EmptySeq
    <3> QED
      BY <1>1, <1>2, <3>1, <3>2
  <2>2. list_' \in [Maps -> Seq(1 .. made')]
    <3>1. list_' = [a \in Maps |-> list_'[a]]
      BY DEF Dealt
    <3> QED
      BY <2>1, <3>1
  <2>3. \A a \in Maps : DOMAIN map_'[a] \subseteq Keys /\ Range(map_'[a]) \subseteq Nodes \cup {NoNode}
    <3>1. \A a \in Maps : DOMAIN map_[a] \subseteq Keys /\ Range(map_[a]) \subseteq Nodes \cup {NoNode}
      BY DEF MapInv, TypeOK
    <3>2. DOMAIN EmptyMap = {} /\ Range(EmptyMap) = {}
      BY DEF EmptyMap, Range
    <3> QED
      BY <1>1, <1>2, <3>1, <3>2
  <2>4. /\ pair' \in [Nodes -> Pairs \cup {NoNode}] /\ made' \in 0 .. MaxNodes
        /\ range' \in [on : Maps \cup {NoNode}, first : Nodes \cup {End}, last : Nodes \cup {End}]
    BY DEF Dealt, MapInv, TypeOK
  <2> QED
    BY <1>2, <2>2, <2>3, <2>4 DEF TypeOK
<1>6. NodeInv'
  <2>1. /\ \A m \in Maps : IsInjective(list_[m])
        /\ \A a, b \in Maps : a # b => NodesOf(a) \cap NodesOf(b) = {}
        /\ \A m \in Maps : \A n \in NodesOf(m) : pair[n] \in Pairs
    BY DEF MapInv, NodeInv
  <2>2. \A a \in Maps : IsInjective(list_'[a])
    <3>1. IsInjective(<<>>)
      BY DEF IsInjective
    <3> QED
      BY <1>1, <1>2, <2>1, <3>1
  <2>3. \A a, b \in Maps : a # b => NodesOf(a)' \cap NodesOf(b)' = {}
    BY <1>1, <1>3, <2>1
  <2>4. \A a \in Maps : \A n \in NodesOf(a)' : pair'[n] \in Pairs
    BY <1>1, <1>3, <1>4, <2>1
  <2> QED
    BY <2>2, <2>3, <2>4 DEF NodeInv
<1>7. KeyInv'
  <2>1. ASSUME NEW a \in Maps \ thrown'
        PROVE  /\ DOMAIN map_'[a] = {pair'[x][1] : x \in NodesOf(a)'}
               /\ \A x \in NodesOf(a)' : map_'[a][pair'[x][1]] = x
    <3>1. CASE a \in keep
      <4>1. from[a] \in Maps \ thrown /\ map_'[a] = map_[from[a]] /\ NodesOf(a)' = NodesOf(from[a])
        BY <1>1, <1>2, <1>3, <3>1
      <4>2. \A x \in NodesOf(from[a]) : pair'[x] = pair[x]
        BY <1>4, <3>1
      <4>3. /\ DOMAIN map_[from[a]] = {pair[x][1] : x \in NodesOf(from[a])}
            /\ \A x \in NodesOf(from[a]) : map_[from[a]][pair[x][1]] = x
        BY <4>1 DEF MapInv, KeyInv
      <4> QED
        BY <4>1, <4>2, <4>3
    <3>2. CASE a \notin keep
      <4>1. map_'[a] = EmptyMap /\ NodesOf(a)' = {}
        BY <1>2, <1>3, <3>2
      <4> QED
        BY <4>1 DEF EmptyMap
    <3> QED
      BY <3>1, <3>2
  <2> QED
    BY <2>1 DEF KeyInv
<1>8. RangeInv'
  BY DEF RangeInv, NoRange
<1> QED
  BY <1>5, <1>6, <1>7, <1>8 DEF MapInv

(* clear: the map m is empty, the others keep what they have.              *)
LEMMA ClearDealt ==
  ASSUME MapInv, NEW m \in Maps, Clear(m)
  PROVE  Dealt(Maps \ {m}, [a \in Maps \ {m} |-> a])
<1>1. list_ \in [Maps -> Seq(1 .. made)] /\ DOMAIN map_ = Maps
  BY DEF MapInv, TypeOK
<1>2. Destroy(NodesOf(m))
  BY DEF Clear
<1>3. /\ pair' \in [Nodes -> Pairs \cup {NoNode}]
      /\ \A x \in Nodes \ NodesOf(m) : pair'[x] = pair[x]
  BY <1>2, DestroyShape
<1>4. \A a \in Maps \ {m} : NodesOf(a) \subseteq Nodes /\ NodesOf(a) \cap NodesOf(m) = {}
  BY NodesShape
<1>5. list_' = [a \in Maps |-> IF a \in Maps \ {m} THEN list_[a] ELSE <<>>]
  BY <1>1 DEF Clear
<1>6. map_' = [a \in Maps |-> IF a \in Maps \ {m} THEN map_[a] ELSE EmptyMap]
  BY <1>1 DEF Clear
<1> QED
  BY <1>3, <1>4, <1>5, <1>6 DEF Dealt, IsInjective

(* swap: each of the two has what was the other's.                         *)
LEMMA SwapDealt ==
  ASSUME MapInv, NEW m \in Maps, NEW o \in Maps \ {m}, Swap(m, o)
  PROVE  Dealt(Maps, [a \in Maps |-> IF a = m THEN o ELSE IF a = o THEN m ELSE a])
<1> DEFINE from == [a \in Maps |-> IF a = m THEN o ELSE IF a = o THEN m ELSE a]
<1>1. list_ \in [Maps -> Seq(1 .. made)] /\ DOMAIN map_ = Maps
  BY DEF MapInv, TypeOK
<1>2. list_' = [a \in Maps |-> list_[from[a]]]
  BY <1>1 DEF Swap
<1>3. map_' = [a \in Maps |-> map_[from[a]]]
  BY <1>1 DEF Swap
<1>4. pair' = pair /\ pair \in [Nodes -> Pairs \cup {NoNode}]
  BY DEF Swap, MapInv, TypeOK
<1>5. from \in [Maps -> Maps] /\ IsInjective(from)
  BY DEF IsInjective
<1> HIDE DEF from
<1>6. Dealt(Maps, from)
  BY <1>2, <1>3, <1>4, <1>5 DEF Dealt
<1> QED
  BY <1>6 DEF from

(* The move assignment: m has what was o's, and o is empty.                *)
LEMMA MoveDealt ==
  ASSUME MapInv, NEW m \in Maps, NEW o \in Maps \ {m}, Move(m, o)
  PROVE  Dealt(Maps \ {o}, [a \in Maps \ {o} |-> IF a = m THEN o ELSE a])
<1> DEFINE from == [a \in Maps \ {o} |-> IF a = m THEN o ELSE a]
<1>1. list_ \in [Maps -> Seq(1 .. made)] /\ DOMAIN map_ = Maps
  BY DEF MapInv, TypeOK
<1>2. list_' = [a \in Maps |-> IF a \in Maps \ {o} THEN list_[from[a]] ELSE <<>>]
  BY <1>1 DEF Move
<1>3. map_' = [a \in Maps |-> IF a \in Maps \ {o} THEN map_[from[a]] ELSE EmptyMap]
  BY <1>1 DEF Move
<1>4. Destroy(NodesOf(m))
  BY DEF Move
<1>5. /\ pair' \in [Nodes -> Pairs \cup {NoNode}]
      /\ \A x \in Nodes \ NodesOf(m) : pair'[x] = pair[x]
  BY <1>4, DestroyShape
<1>6. \A a \in Maps \ {o} : NodesOf(from[a]) \subseteq Nodes /\ NodesOf(from[a]) \cap NodesOf(m) = {}
  BY NodesShape
<1>7. from \in [Maps \ {o} -> Maps] /\ IsInjective(from)
  BY DEF IsInjective
<1> HIDE DEF from
<1>8. Dealt(Maps \ {o}, from)
  BY <1>2, <1>3, <1>5, <1>6, <1>7 DEF Dealt
<1> QED
  BY <1>8 DEF from

-----------------------------------------------------------------------------
(* Every call keeps list_ and map_ in parallel.                            *)
LEMMA MapStep == MapInv /\ [Next]_vars => MapInv'
<1> SUFFICES ASSUME MapInv, [Next]_vars PROVE MapInv'
  OBVIOUS
<1>r. /\ range \in [on : Maps \cup {NoNode}, first : Nodes \cup {End}, last : Nodes \cup {End}]
      /\ made \in Nat /\ made \in 0 .. MaxNodes /\ MaxNodes \in Nat
  BY LinkedHashMapAssumption DEF MapInv, TypeOK
<1>1. CASE EraseRangeStep
  <2>0. PICK m, n : m = range.on /\ n = range.first
    OBVIOUS
  <2>1. m \in Maps \ thrown /\ n \in NodesOf(m) /\ EraseAt(m, n) /\ thrown' = thrown
    BY <1>1, <2>0 DEF EraseRangeStep, MapInv, RangeInv
  <2>2. range' = [range EXCEPT !.first = After(m, n)]
    BY <1>1, <2>0 DEF EraseRangeStep
  <2>3. /\ list_[m] \in Seq(1 .. made) /\ IsInjective(list_[m]) /\ NodesOf(m) \subseteq Nodes
        /\ NodesOf(m)' = NodesOf(m) \ {n}
    BY <2>1, NodesShape, EraseShape
  <2>4. Place(m, n) \in DOMAIN list_[m] /\ list_[m][Place(m, n)] = n
    BY <2>1, PlaceShape
  <2>5. DOMAIN list_[m] = 1 .. Len(list_[m]) /\ Len(list_[m]) \in Nat
    BY <2>3, LenProperties
  <2>6. After(m, n) \in (NodesOf(m) \ {n}) \cup {End}
    <3>1. CASE Place(m, n) = Len(list_[m])
      BY <3>1 DEF After
    <3>2. CASE Place(m, n) # Len(list_[m])
      <4>1. Place(m, n) + 1 \in DOMAIN list_[m] /\ Place(m, n) + 1 # Place(m, n)
        BY <2>4, <2>5, <3>2
      <4>2. list_[m][Place(m, n) + 1] \in NodesOf(m) \ {n}
        BY <2>3, <2>4, <4>1 DEF NodesOf, Range, IsInjective
      <4> QED
        BY <3>2, <4>2 DEF After
    <3> QED
      BY <3>1, <3>2
  <2>7. range'.on = m /\ range'.first = After(m, n)
        /\ range' \in [on : Maps \cup {NoNode}, first : Nodes \cup {End}, last : Nodes \cup {End}]
    BY <1>r, <2>0, <2>2, <2>3, <2>6
  <2>8. RangeInv'
    <3>1. range'.on \in Maps \ thrown' /\ range'.first \in NodesOf(m)' \cup {End}
      BY <2>1, <2>3, <2>6, <2>7
    <3> QED
      BY <2>7, <3>1 DEF RangeInv, NodesOf, End
  <2> QED
    BY <2>1, <2>7, <2>8, EraseStep
<1>2. CASE EraseRangeEnds
  <2>1. range' = NoRange /\ UNCHANGED <<list_, map_, pair, made, thrown>>
    BY <1>2 DEF EraseRangeEnds
  <2>2. RangeInv'
    BY <2>1 DEF RangeInv, NoRange, End
  <2>3. NoRange \in [on : Maps \cup {NoNode}, first : Nodes \cup {End}, last : Nodes \cup {End}]
    BY DEF NoRange
  <2> QED
    BY <1>r, <2>1, <2>2, <2>3, SameLists
<1>3. ASSUME NEW m \in Maps, PopFront(m) PROVE MapInv'
  <2>1. m \notin thrown /\ list_[m] # <<>> /\ EraseAt(m, Head(list_[m])) /\ thrown' = thrown
        /\ range' = range /\ range = NoRange
    BY <1>3 DEF PopFront, MayCall
  <2>2. Head(list_[m]) \in NodesOf(m)
    BY <2>1, HeadShape
  <2>3. RangeInv'
    BY <2>1 DEF RangeInv, NoRange, End
  <2> QED
    BY <1>r, <2>1, <2>2, <2>3, EraseStep
<1>4. ASSUME NEW m \in Maps, Clear(m) PROVE MapInv'
  <2>1. made' = made /\ range = NoRange /\ range' = range /\ thrown' = thrown \ {m} /\ thrown \subseteq Maps
    BY <1>4 DEF Clear, MapInv, TypeOK
  <2> DEFINE from == [a \in Maps \ {m} |-> a]
  <2>2. Dealt(Maps \ {m}, from)
    BY <1>4, ClearDealt
  <2>3. \A a \in (Maps \ {m}) \ thrown' : from[a] \notin thrown
    BY <2>1
  <2> HIDE DEF from
  <2> QED
    BY <2>1, <2>2, <2>3, DealtStep
<1>5. ASSUME NEW m \in Maps, NEW o \in Maps \ {m}, Swap(m, o) PROVE MapInv'
  <2>1. /\ made' = made /\ range = NoRange /\ range' = range /\ thrown' = thrown /\ thrown \subseteq Maps
        /\ m \notin thrown /\ o \notin thrown
    BY <1>5 DEF Swap, MayCall, MapInv, TypeOK
  <2> DEFINE from == [a \in Maps |-> IF a = m THEN o ELSE IF a = o THEN m ELSE a]
  <2>2. Dealt(Maps, from)
    BY <1>5, SwapDealt
  <2>3. \A a \in Maps \ thrown' : from[a] \notin thrown
    BY <2>1
  <2> HIDE DEF from
  <2> QED
    BY <2>1, <2>2, <2>3, DealtStep
<1>6. ASSUME NEW m \in Maps, NEW o \in Maps \ {m}, Move(m, o) PROVE MapInv'
  <2>1. /\ made' = made /\ range = NoRange /\ range' = range /\ thrown' = thrown /\ thrown \subseteq Maps
        /\ m \notin thrown /\ o \notin thrown
    BY <1>6 DEF Move, MayCall, MapInv, TypeOK
  <2> DEFINE from == [a \in Maps \ {o} |-> IF a = m THEN o ELSE a]
  <2>2. Dealt(Maps \ {o}, from)
    BY <1>6, MoveDealt
  <2>3. \A a \in (Maps \ {o}) \ thrown' : from[a] \notin thrown
    BY <2>1
  <2> HIDE DEF from
  <2> QED
    BY <2>1, <2>2, <2>3, DealtStep
<1>7. ASSUME NEW m \in Maps, NEW n \in Nodes, EraseIterator(m, n) PROVE MapInv'
  <2>1. m \notin thrown /\ n \in NodesOf(m) /\ EraseAt(m, n) /\ thrown' = thrown
        /\ range' = range /\ range = NoRange
    BY <1>7 DEF EraseIterator, MayCall
  <2>2. RangeInv'
    BY <2>1 DEF RangeInv, NoRange, End
  <2> QED
    BY <1>r, <2>1, <2>2, EraseStep
<1>8. ASSUME NEW m \in Maps, NEW a \in Nodes, NEW b \in Nodes \cup {End}, EraseRange(m, a, b) PROVE MapInv'
  <2>1. /\ m \notin thrown /\ a \in NodesOf(m) /\ UNCHANGED <<list_, map_, pair, made, thrown>>
        /\ range' = [on |-> m, first |-> a, last |-> b]
    BY <1>8 DEF EraseRange, MayCall
  <2>2. RangeInv'
    <3>1. NodesOf(m)' = NodesOf(m) /\ range'.on = m /\ range'.first = a
      BY <2>1 DEF NodesOf
    <3> QED
      BY <2>1, <3>1 DEF RangeInv, NodesOf
  <2> QED
    BY <1>r, <2>1, <2>2, RangeShape, SameLists
<1>9. ASSUME NEW m \in Maps, NEW k \in Keys, EraseKey(m, k) PROVE MapInv'
  <2>1. EraseAt(m, find(m, k)) /\ find(m, k) \in NodesOf(m)
    BY <1>9, EraseKeyAt
  <2>2. m \notin thrown /\ thrown' = thrown /\ range' = range /\ range = NoRange
    BY <1>9 DEF EraseKey, MayCall
  <2>3. RangeInv'
    BY <2>2 DEF RangeInv, NoRange, End
  <2> QED
    BY <1>r, <2>1, <2>2, <2>3, EraseStep
<1>10. ASSUME NEW m \in Maps, NEW k \in Keys, InsertThrows(m, k) PROVE MapInv'
  BY <1>10, ThrowStep
<1>11. ASSUME NEW m \in Maps, NEW k \in Keys, NEW v \in Values, InsertInternal(m, k, v) PROVE MapInv'
  BY <1>11, LinkStep DEF InsertInternal, MayCall
<1>12. ASSUME NEW m \in Maps, NEW k \in Keys, NEW v \in Values, Emplace(m, k, v) PROVE MapInv'
  <2>1. m \notin thrown /\ made < MaxNodes /\ range = NoRange /\ UNCHANGED <<range, thrown>>
    BY <1>12 DEF Emplace, MayCall
  <2>2. CASE Found(m, k)
    <3>1. made' = made + 1 /\ UNCHANGED <<list_, map_, pair>>
      BY <1>12, <2>2 DEF Emplace
    <3>2. made' \in made .. MaxNodes
      BY <1>r, <2>1, <3>1
    <3>3. RangeInv'
      BY <2>1 DEF RangeInv, NoRange, End
    <3> QED
      BY <1>r, <2>1, <3>1, <3>2, <3>3, SameLists
  <2>3. CASE ~Found(m, k)
    BY <1>12, <2>1, <2>3, LinkStep DEF Emplace
  <2> QED
    BY <2>2, <2>3
<1>13. ASSUME NEW m \in Maps, NEW k \in Keys, NEW v \in Values, AssignAt(m, k, v) PROVE MapInv'
  <2>1. m \notin thrown /\ UNCHANGED <<range, thrown>>
    BY <1>13 DEF AssignAt, MayCall
  <2>2. CASE Found(m, k)
    BY <1>13, <2>1, <2>2, AssignStep DEF AssignAt
  <2>3. CASE ~Found(m, k)
    BY <1>13, <2>1, <2>3, LinkedHashMapAssumption, LinkStep DEF AssignAt
  <2> QED
    BY <2>2, <2>3
<1>14. CASE UNCHANGED vars
  <2>1. UNCHANGED <<list_, map_, pair, made, range, thrown>>
    BY <1>14 DEF vars
  <2>2. RangeInv'
    BY <2>1 DEF MapInv, RangeInv, NoRange, NodesOf
  <2> QED
    BY <1>r, <2>1, <2>2, SameLists
<1> QED
  BY <1>1, <1>2, <1>3, <1>4, <1>5, <1>6, <1>7, <1>8, <1>9, <1>10, <1>11, <1>12, <1>13, <1>14 DEF Next

(* Nodes, keys and iterators agree in every state, for any number of maps, *)
(* keys and values.                                                        *)
THEOREM MapInvCorrect == Spec => []MapInv
<1>1. Init => MapInv
  <2> SUFFICES ASSUME Init PROVE MapInv
    OBVIOUS
  <2>1. /\ made = 0 /\ range = NoRange /\ thrown = {} /\ DOMAIN map_ = Maps
        /\ \A m \in Maps : list_[m] = <<>> /\ map_[m] = EmptyMap
    BY DEF Init
  <2>2. DOMAIN EmptyMap = {} /\ Range(EmptyMap) = {} /\ Range(<<>>) = {} /\ IsInjective(<<>>)
    BY DEF EmptyMap, Range, IsInjective
  <2>3. \A m \in Maps : NodesOf(m) = {}
    BY <2>1, <2>2 DEF NodesOf
  <2>4. list_ \in [Maps -> Seq(1 .. made)] /\ pair \in [Nodes -> Pairs \cup {NoNode}]
    BY EmptySeq DEF Init
  <2>5. range \in [on : Maps \cup {NoNode}, first : Nodes \cup {End}, last : Nodes \cup {End}]
    BY <2>1 DEF NoRange
  <2>6. TypeOK
    BY <2>1, <2>2, <2>4, <2>5, LinkedHashMapAssumption DEF TypeOK
  <2>7. NodeInv
    BY <2>1, <2>2, <2>3 DEF NodeInv
  <2>8. KeyInv
    <3>1. ASSUME NEW m \in Maps
          PROVE  /\ DOMAIN map_[m] = {pair[n][1] : n \in NodesOf(m)}
                 /\ \A n \in NodesOf(m) : map_[m][pair[n][1]] = n
      <4>1. DOMAIN map_[m] = {} /\ NodesOf(m) = {}
        BY <2>1, <2>2, <2>3
      <4> QED
        BY <4>1
    <3> QED
      BY <3>1 DEF KeyInv
  <2>9. RangeInv
    BY <2>1 DEF RangeInv
  <2> QED
    BY <2>6, <2>7, <2>8, <2>9 DEF MapInv
<1> QED
  BY <1>1, MapStep, PTL DEF Spec

(* Every variable of LinkedHashMap holds a value of its kind.              *)
THEOREM MapTypeCorrect == Spec => []TypeOK
<1>1. MapInv => TypeOK
  BY DEF MapInv
<1> QED
  BY <1>1, MapInvCorrect, PTL

(* "We just keep a map and a list going in parallel": a key of map_ leads  *)
(* to the one element with it and every element has its key there, so that *)
(* the check in erase(iterator) passes and size() counts the elements.     *)
THEOREM InParallelCorrect == Spec => []InParallel
<1>1. MapInv => InParallel
  <2> SUFFICES ASSUME MapInv, NEW m \in Maps \ thrown
               PROVE  /\ \A o \in Maps \ {m} : NodesOf(m) \cap NodesOf(o) = {}
                      /\ DOMAIN map_[m] = {pair[n][1] : n \in NodesOf(m)}
                      /\ \A n \in NodesOf(m) : map_[m][pair[n][1]] = n
                      /\ Cardinality(DOMAIN map_[m]) = Len(list_[m])
    BY DEF InParallel
  <2>1. \A o \in Maps \ {m} : NodesOf(m) \cap NodesOf(o) = {}
    BY NodesShape
  <2>2. /\ DOMAIN map_[m] = {pair[n][1] : n \in NodesOf(m)}
        /\ \A n \in NodesOf(m) : map_[m][pair[n][1]] = n
    BY DEF MapInv, KeyInv
  <2>3. list_[m] \in Seq(1 .. made) /\ IsInjective(list_[m])
    BY NodesShape
  <2>4. DOMAIN list_[m] = 1 .. Len(list_[m]) /\ Len(list_[m]) \in Nat
    BY <2>3, LenProperties
  <2> DEFINE keyAt == [i \in 1 .. Len(list_[m]) |-> pair[list_[m][i]][1]]
  <2>5. \A i \in 1 .. Len(list_[m]) : list_[m][i] \in NodesOf(m) /\ map_[m][keyAt[i]] = list_[m][i]
    BY <2>2, <2>4 DEF NodesOf, Range
  <2>6. keyAt \in [1 .. Len(list_[m]) -> DOMAIN map_[m]]
    BY <2>2, <2>5
  <2>7. \A k \in DOMAIN map_[m] : \E i \in 1 .. Len(list_[m]) : keyAt[i] = k
    BY <2>2, <2>4 DEF NodesOf, Range
  <2> HIDE DEF keyAt
  <2>8. IsInjective(keyAt)
    BY <2>3, <2>4, <2>5, <2>6 DEF IsInjective
  <2>9. ExistsBijection(1 .. Len(list_[m]), DOMAIN map_[m])
    BY <2>6, <2>7, <2>8 DEF ExistsBijection, Bijection, Injection, Surjection
  <2>10. IsFiniteSet(1 .. Len(list_[m])) /\ Cardinality(1 .. Len(list_[m])) = Len(list_[m])
    BY <2>4, FS_Interval
  <2>11. Cardinality(DOMAIN map_[m]) = Len(list_[m])
    BY <2>9, <2>10, FS_Bijection
  <2> QED
    BY <2>1, <2>2, <2>11
<1> QED
  BY <1>1, MapInvCorrect, PTL

-----------------------------------------------------------------------------
(* What iterating over a map gives, element by element.                    *)
LEMMA ContentsShape ==
  ASSUME MapInv, NEW m \in Maps
  PROVE  /\ Contents[m] \in Seq(Pairs) /\ Len(Contents[m]) = Len(list_[m])
         /\ DOMAIN Contents[m] = 1 .. Len(list_[m]) /\ DOMAIN list_[m] = 1 .. Len(list_[m])
         /\ Len(list_[m]) \in Nat
         /\ \A i \in 1 .. Len(list_[m]) : Contents[m][i] = pair[list_[m][i]]
<1>1. list_[m] \in Seq(1 .. made) /\ \A n \in NodesOf(m) : pair[n] \in Pairs
  BY NodesShape
<1>2. DOMAIN list_[m] = 1 .. Len(list_[m]) /\ Len(list_[m]) \in Nat
  BY <1>1, LenProperties
<1>3. Contents[m] = [i \in 1 .. Len(list_[m]) |-> pair[list_[m][i]]]
  BY <1>2 DEF Contents
<1>4. \A i \in 1 .. Len(list_[m]) : pair[list_[m][i]] \in Pairs
  BY <1>1, <1>2 DEF NodesOf, Range
<1>5. Contents[m] \in Seq(Pairs) /\ Len(Contents[m]) = Len(list_[m])
  BY <1>2, <1>3, <1>4
<1> QED
  BY <1>2, <1>3, <1>5

(* A list that is handed on, with its nodes as they are, reads the same.   *)
LEMMA ContentsSame ==
  ASSUME NEW a \in Maps, NEW b \in Maps, list_'[a] = list_[b],
         \A n \in NodesOf(b) : pair'[n] = pair[n]
  PROVE  Contents'[a] = Contents[b]
<1>1. \A i \in DOMAIN list_[b] : pair'[list_[b][i]] = pair[list_[b][i]]
  BY DEF NodesOf, Range
<1>2. /\ Contents'[a] = [i \in DOMAIN list_'[a] |-> pair'[list_'[a][i]]]
      /\ Contents[b] = [i \in DOMAIN list_[b] |-> pair[list_[b][i]]]
  BY DEF Contents
<1> QED
  BY <1>1, <1>2

(* A step that changes what one map contains.                              *)
LEMMA ContentsExcept ==
  ASSUME NEW m \in Maps, \A o \in Maps \ {m} : Contents'[o] = Contents[o]
  PROVE  Contents' = [Contents EXCEPT ![m] = Contents'[m]]
<1>1. /\ Contents = [o \in Maps |-> Contents[o]] /\ DOMAIN Contents = Maps
      /\ Contents' = [o \in Maps |-> Contents'[o]]
  BY DEF Contents
<1> QED
  BY <1>1

(* Link is the insertion of a pair at the end.                             *)
LEMMA LinkInserts ==
  ASSUME MapInv, NEW m \in Maps \ thrown, NEW k \in Keys, NEW v \in Values,
         ~Found(m, k), Link(m, k, v)
  PROVE  Abstract!Insert(m, k, v)
<1> DEFINE n == made + 1
<1>1. made \in Nat /\ n \in Nodes /\ n \notin 1 .. made
  BY LinkedHashMapAssumption, NodesShape DEF Link, Nodes, MapInv, TypeOK
<1>2. list_' = [list_ EXCEPT ![m] = Append(list_[m], n)] /\ pair' = [pair EXCEPT ![n] = <<k, v>>]
  BY DEF Link
<1> HIDE DEF n
<1>3. list_ \in [Maps -> Seq(1 .. made)] /\ pair \in [Nodes -> Pairs \cup {NoNode}]
  BY DEF MapInv, TypeOK
<1>4. /\ list_'[m] = Append(list_[m], n) /\ \A o \in Maps \ {m} : list_'[o] = list_[o]
      /\ pair'[n] = <<k, v>> /\ \A x \in Nodes \ {n} : pair'[x] = pair[x]
  BY <1>1, <1>2, <1>3
<1>5. \A o \in Maps : NodesOf(o) \subseteq 1 .. made /\ \A x \in NodesOf(o) : pair'[x] = pair[x]
  BY <1>1, <1>4, NodesShape
<1>6. \A o \in Maps \ {m} : Contents'[o] = Contents[o]
  BY <1>4, <1>5, ContentsSame
<1>7. Contents'[m] = Append(Contents[m], <<k, v>>)
  <2> DEFINE s == list_[m]  t == Append(s, n)
  <2>1. /\ s \in Seq(1 .. made) /\ s \in Seq(Nodes)
        /\ Contents[m] \in Seq(Pairs) /\ Len(Contents[m]) = Len(s) /\ Len(s) \in Nat
        /\ \A i \in 1 .. Len(s) : Contents[m][i] = pair[s[i]]
    BY NodesShape, ContentsShape, SeqWider
  <2>2. /\ t \in Seq(Nodes) /\ Len(t) = Len(s) + 1 /\ t[Len(s) + 1] = n
        /\ \A i \in 1 .. Len(s) : t[i] = s[i]
    BY <1>1, <2>1, AppendProperties
  <2>3. \A i \in 1 .. Len(s) : pair'[s[i]] = pair[s[i]]
    BY <1>5, <2>1, LenProperties DEF NodesOf, Range
  <2>4. Contents'[m] = [i \in 1 .. Len(s) + 1 |-> pair'[t[i]]]
    <3>1. DOMAIN t = 1 .. Len(s) + 1
      BY <2>2, LenProperties
    <3> QED
      BY <1>4, <3>1 DEF Contents
  <2> DEFINE c == Append(Contents[m], <<k, v>>)
  <2>5. <<k, v>> \in Pairs
    BY DEF Pairs
  <2>6. /\ c \in Seq(Pairs) /\ Len(c) = Len(s) + 1 /\ c[Len(s) + 1] = <<k, v>>
        /\ \A i \in 1 .. Len(s) : c[i] = Contents[m][i]
    BY <2>1, <2>5, AppendProperties
  <2>7. \A i \in 1 .. Len(s) + 1 : pair'[t[i]] = c[i]
    <3>1. \A i \in 1 .. Len(s) : pair'[t[i]] = c[i]
      BY <2>1, <2>2, <2>3, <2>6
    <3>2. pair'[t[Len(s) + 1]] = c[Len(s) + 1]
      BY <1>4, <2>2, <2>6
    <3> QED
      BY <2>1, <3>1, <3>2
  <2>8. c = [i \in 1 .. Len(s) + 1 |-> c[i]]
    BY <2>6, LenProperties
  <2> HIDE DEF c, s, t
  <2>9. Contents'[m] = c
    BY <2>4, <2>7, <2>8
  <2> QED
    BY <2>9 DEF c
<1>8. k \notin Abstract!KeysOf(Contents[m])
  <2>1. \A x \in NodesOf(m) : pair[x][1] # k
    BY DEF MapInv, KeyInv, Found
  <2>2. \A i \in DOMAIN Contents[m] : Contents[m][i][1] # k
    BY <2>1, ContentsShape DEF NodesOf, Range
  <2> QED
    BY <2>2 DEF Abstract!KeysOf
<1> QED
  BY <1>6, <1>7, <1>8, ContentsExcept DEF Abstract!Insert

(* erase(iterator) takes out the pair at the element's place.              *)
LEMMA EraseErases ==
  ASSUME MapInv, NEW m \in Maps, NEW n \in NodesOf(m), EraseAt(m, n)
  PROVE  \E k \in Keys : Abstract!Erase(m, k)
<1>1. /\ list_'[m] = RemoveAt(list_[m], Place(m, n))
      /\ \A o \in Maps \ {m} : list_'[o] = list_[o]
      /\ \A x \in Nodes \ {n} : pair'[x] = pair[x]
  BY EraseShape
<1>2. Place(m, n) \in DOMAIN list_[m] /\ list_[m][Place(m, n)] = n
  BY PlaceShape
<1>3. \A o \in Maps \ {m} : \A x \in NodesOf(o) : pair'[x] = pair[x]
  BY <1>1, NodesShape
<1>4. \A o \in Maps \ {m} : Contents'[o] = Contents[o]
  BY <1>1, <1>3, ContentsSame
<1> DEFINE s == list_[m]  p == Place(m, n)  L == Len(s)
<1>5. s \in Seq(1 .. made) /\ IsInjective(s) /\ \A i \in DOMAIN s : s[i] \in Nodes
  BY NodesShape DEF NodesOf, Range
<1>6. /\ Contents[m] \in Seq(Pairs) /\ Len(Contents[m]) = L /\ L \in Nat
      /\ DOMAIN Contents[m] = 1 .. L /\ DOMAIN s = 1 .. L
      /\ \A i \in 1 .. L : Contents[m][i] = pair[s[i]]
  BY ContentsShape
<1>7. list_'[m] = [i \in 1 .. L - 1 |-> IF i < p THEN s[i] ELSE s[i + 1]]
  BY <1>1, <1>2, <1>5, RemoveAtShape
<1>8. RemoveAt(Contents[m], p) =
        [i \in 1 .. L - 1 |-> IF i < p THEN Contents[m][i] ELSE Contents[m][i + 1]]
  <2>1. p \in DOMAIN Contents[m] /\ Contents[m] \in Seq(Pairs)
    BY <1>2, <1>6
  <2>2. RemoveAt(Contents[m], p) =
          [i \in 1 .. Len(Contents[m]) - 1 |-> IF i < p THEN Contents[m][i] ELSE Contents[m][i + 1]]
    BY <2>1, RemoveAtShape
  <2> QED
    BY <1>6, <2>2
<1>9. Contents'[m] = [i \in 1 .. L - 1 |-> pair'[list_'[m][i]]]
  BY <1>7 DEF Contents
<1> HIDE DEF s, p, L
<1>10. \A i \in 1 .. L : i # p => pair'[s[i]] = pair[s[i]]
  BY <1>1, <1>2, <1>5, <1>6 DEF IsInjective, s, p
<1>11. \A i \in 1 .. L - 1 :
         pair'[list_'[m][i]] = IF i < p THEN Contents[m][i] ELSE Contents[m][i + 1]
  <2> SUFFICES ASSUME NEW i \in 1 .. L - 1
               PROVE  pair'[list_'[m][i]] = IF i < p THEN Contents[m][i] ELSE Contents[m][i + 1]
    OBVIOUS
  <2>1. p \in 1 .. L
    BY <1>2, <1>6 DEF p, s
  <2>2. i \in 1 .. L /\ i + 1 \in 1 .. L /\ (i < p => i # p) /\ (~(i < p) => i + 1 # p)
    BY <1>6, <2>1
  <2> QED
    BY <1>6, <1>7, <1>10, <2>2
<1>12. Contents'[m] = RemoveAt(Contents[m], p)
  BY <1>8, <1>9, <1>11
<1>13. Contents' = [Contents EXCEPT ![m] = RemoveAt(Contents[m], p)]
  BY <1>4, <1>12, ContentsExcept
<1>14. p \in DOMAIN Contents[m] /\ Contents[m][p] = pair[n] /\ pair[n][1] \in Keys
  <2>1. pair[n] \in Pairs
    BY NodesShape
  <2> QED
    BY <1>2, <1>6, <2>1 DEF p, s, Pairs
<1> QED
  BY <1>13, <1>14 DEF Abstract!Erase, Abstract!RemoveAt, RemoveAt

(* Assigning to the value of an element changes its pair in place.         *)
LEMMA AssignAssigns ==
  ASSUME MapInv, NEW m \in Maps \ thrown, NEW k \in Keys, NEW v \in Values, Found(m, k),
         pair' = [pair EXCEPT ![find(m, k)] = <<k, v>>], list_' = list_
  PROVE  Abstract!Assign(m, k, v)
<1>1. find(m, k) \in NodesOf(m) /\ find(m, k) \in Nodes /\ pair[find(m, k)][1] = k
  BY FoundShape
<1>2. pair \in [Nodes -> Pairs \cup {NoNode}]
  BY DEF MapInv, TypeOK
<1>3. pair'[find(m, k)] = <<k, v>> /\ \A x \in Nodes \ {find(m, k)} : pair'[x] = pair[x]
  BY <1>1, <1>2
<1>4. \A o \in Maps : NodesOf(o) \subseteq Nodes /\ (o # m => find(m, k) \notin NodesOf(o))
  BY <1>1, NodesShape
<1>5. \A o \in Maps \ {m} : Contents'[o] = Contents[o]
  BY <1>3, <1>4, ContentsSame
<1>6. \A x \in NodesOf(m) : pair'[x] = IF pair[x][1] = k THEN <<k, v>> ELSE pair[x]
  <2>1. \A x \in NodesOf(m) : pair[x][1] = k <=> x = find(m, k)
    BY <1>1 DEF MapInv, KeyInv
  <2> QED
    BY <1>3, <1>4, <2>1
<1>7. Contents'[m] = [i \in DOMAIN Contents[m] |->
                        IF Contents[m][i][1] = k THEN <<k, v>> ELSE Contents[m][i]]
  <2>1. /\ Contents'[m] = [i \in DOMAIN list_[m] |-> pair'[list_[m][i]]]
        /\ Contents[m] = [i \in DOMAIN list_[m] |-> pair[list_[m][i]]]
    BY DEF Contents
  <2>2. \A i \in DOMAIN list_[m] :
          pair'[list_[m][i]] = IF Contents[m][i][1] = k THEN <<k, v>> ELSE Contents[m][i]
    BY <1>6, <2>1 DEF NodesOf, Range
  <2> QED
    BY <2>1, <2>2
<1> QED
  BY <1>5, <1>7, ContentsExcept DEF Abstract!Assign

(* What the maps contain when the lists have been dealt out anew.          *)
LEMMA DealtContents ==
  ASSUME NEW keep \in SUBSET Maps, NEW from, Dealt(keep, from)
  PROVE  Contents' = [a \in Maps |-> IF a \in keep THEN Contents[from[a]] ELSE <<>>]
<1>1. /\ \A a \in keep : from[a] \in Maps /\ list_'[a] = list_[from[a]]
      /\ \A a \in keep : \A n \in NodesOf(from[a]) : pair'[n] = pair[n]
      /\ \A a \in Maps \ keep : list_'[a] = <<>>
  BY DEF Dealt
<1>2. \A a \in keep : Contents'[a] = Contents[from[a]]
  BY <1>1, ContentsSame
<1>3. \A a \in Maps \ keep : Contents'[a] = <<>>
  BY <1>1 DEF Contents
<1>4. Contents' = [a \in Maps |-> Contents'[a]]
  BY DEF Contents
<1> QED
  BY <1>2, <1>3, <1>4

(* Every step is a step of the insertion-ordered map, or none.             *)
LEMMA AbstractStep == MapInv /\ [Next]_vars => [Abstract!Next]_Contents
<1> SUFFICES ASSUME MapInv, [Next]_vars PROVE [Abstract!Next]_Contents
  OBVIOUS
<1>c. Contents = [a \in Maps |-> Contents[a]] /\ DOMAIN Contents = Maps
  BY DEF Contents
<1>e. ASSUME NEW m \in Maps, NEW n \in NodesOf(m), EraseAt(m, n) PROVE [Abstract!Next]_Contents
  <2>1. PICK k \in Keys : Abstract!Erase(m, k)
    BY <1>e, EraseErases
  <2> QED
    BY <2>1 DEF Abstract!Next
<1>l. ASSUME NEW m \in Maps \ thrown, NEW k \in Keys, NEW v \in Values, ~Found(m, k), Link(m, k, v)
      PROVE  [Abstract!Next]_Contents
  <2>1. Abstract!Insert(m, k, v)
    BY <1>l, LinkInserts
  <2> QED
    BY <2>1 DEF Abstract!Next
<1>u. ASSUME UNCHANGED <<list_, pair>> PROVE [Abstract!Next]_Contents
  BY <1>u DEF Contents
<1>1. CASE EraseRangeStep
  <2>1. range.on \in Maps /\ range.first \in NodesOf(range.on) /\ EraseAt(range.on, range.first)
    BY <1>1 DEF EraseRangeStep, MapInv, RangeInv
  <2>2. PICK m, n : m = range.on /\ n = range.first
    OBVIOUS
  <2> QED
    BY <1>e, <2>1, <2>2
<1>2. CASE EraseRangeEnds
  BY <1>2, <1>u DEF EraseRangeEnds
<1>3. ASSUME NEW m \in Maps, PopFront(m) PROVE [Abstract!Next]_Contents
  <2>1. list_[m] # <<>> /\ EraseAt(m, Head(list_[m]))
    BY <1>3 DEF PopFront
  <2>2. Head(list_[m]) \in NodesOf(m)
    BY <2>1, HeadShape
  <2> QED
    BY <1>e, <2>1, <2>2
<1>4. ASSUME NEW m \in Maps, Clear(m) PROVE [Abstract!Next]_Contents
  <2> DEFINE keep == Maps \ {m}  from == [a \in keep |-> a]
  <2>1. keep \in SUBSET Maps /\ Dealt(keep, from)
    BY <1>4, ClearDealt
  <2> HIDE DEF keep, from
  <2>2. Contents' = [a \in Maps |-> IF a \in keep THEN Contents[from[a]] ELSE <<>>]
    BY <2>1, DealtContents
  <2>3. Abstract!Clear(m)
    BY <1>c, <2>2 DEF Abstract!Clear, keep, from
  <2> QED
    BY <2>3 DEF Abstract!Next
<1>5. ASSUME NEW m \in Maps, NEW o \in Maps \ {m}, Swap(m, o) PROVE [Abstract!Next]_Contents
  <2> DEFINE from == [a \in Maps |-> IF a = m THEN o ELSE IF a = o THEN m ELSE a]
  <2>1. Dealt(Maps, from)
    BY <1>5, SwapDealt
  <2> HIDE DEF from
  <2>2. Contents' = [a \in Maps |-> IF a \in Maps THEN Contents[from[a]] ELSE <<>>]
    BY <2>1, DealtContents
  <2>3. Abstract!Swap(m, o)
    BY <1>c, <2>2 DEF Abstract!Swap, from
  <2> QED
    BY <2>3 DEF Abstract!Next
<1>6. ASSUME NEW m \in Maps, NEW o \in Maps \ {m}, Move(m, o) PROVE [Abstract!Next]_Contents
  <2> DEFINE from == [a \in Maps \ {o} |-> IF a = m THEN o ELSE a]
  <2>1. Dealt(Maps \ {o}, from)
    BY <1>6, MoveDealt
  <2> HIDE DEF from
  <2>2. Contents' = [a \in Maps |-> IF a \in Maps \ {o} THEN Contents[from[a]] ELSE <<>>]
    BY <2>1, DealtContents
  <2>3. Abstract!Move(m, o)
    BY <1>c, <2>2 DEF Abstract!Move, from
  <2> QED
    BY <2>3 DEF Abstract!Next
<1>7. ASSUME NEW m \in Maps, NEW n \in Nodes, EraseIterator(m, n) PROVE [Abstract!Next]_Contents
  BY <1>7, <1>e DEF EraseIterator
<1>8. ASSUME NEW m \in Maps, NEW a \in Nodes, NEW b \in Nodes \cup {End}, EraseRange(m, a, b)
      PROVE  [Abstract!Next]_Contents
  BY <1>8, <1>u DEF EraseRange
<1>9. ASSUME NEW m \in Maps, NEW k \in Keys, EraseKey(m, k) PROVE [Abstract!Next]_Contents
  BY <1>9, <1>e, EraseKeyAt
<1>10. ASSUME NEW m \in Maps, NEW k \in Keys, InsertThrows(m, k) PROVE [Abstract!Next]_Contents
  BY <1>10, <1>u DEF InsertThrows
<1>11. ASSUME NEW m \in Maps, NEW k \in Keys, NEW v \in Values, InsertInternal(m, k, v)
       PROVE  [Abstract!Next]_Contents
  BY <1>11, <1>l DEF InsertInternal, MayCall
<1>12. ASSUME NEW m \in Maps, NEW k \in Keys, NEW v \in Values, Emplace(m, k, v)
       PROVE  [Abstract!Next]_Contents
  <2>1. CASE Found(m, k)
    BY <1>12, <1>u, <2>1 DEF Emplace
  <2>2. CASE ~Found(m, k)
    BY <1>12, <1>l, <2>2 DEF Emplace, MayCall
  <2> QED
    BY <2>1, <2>2
<1>13. ASSUME NEW m \in Maps, NEW k \in Keys, NEW v \in Values, AssignAt(m, k, v)
       PROVE  [Abstract!Next]_Contents
  <2>1. CASE Found(m, k)
    <3>1. Abstract!Assign(m, k, v)
      BY <1>13, <2>1, AssignAssigns DEF AssignAt, MayCall
    <3> QED
      BY <3>1 DEF Abstract!Next
  <2>2. CASE ~Found(m, k)
    BY <1>13, <1>l, <2>2, LinkedHashMapAssumption DEF AssignAt, MayCall
  <2> QED
    BY <2>1, <2>2
<1>14. CASE UNCHANGED vars
  BY <1>14, <1>u DEF vars
<1> QED
  BY <1>1, <1>2, <1>3, <1>4, <1>5, <1>6, <1>7, <1>8, <1>9, <1>10, <1>11, <1>12, <1>13, <1>14 DEF Next

(* LinkedHashMap implements OrderedMap: whatever is inserted, assigned,    *)
(* erased, swapped and moved, iteration gives each key once, in the order  *)
(* of insertion.                                                           *)
THEOREM OrderedMapRefinement == Spec => ImplementsOrderedMap
<1>1. Init => Abstract!Init
  BY DEF Init, Contents, Abstract!Init
<1> QED
  BY <1>1, MapInvCorrect, AbstractStep, PTL DEF Spec, ImplementsOrderedMap, Abstract!Spec

=============================================================================
