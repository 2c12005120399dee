--------------------------- MODULE LinkedHashMap ----------------------------
(***************************************************************************)
(* The insertion-ordered map of linked_hash_map.h: a list of pairs, list_, *)
(* and a hash map from keys to iterators into it, map_. A node of the list *)
(* is a number, which is what an iterator to it holds; a new node has a    *)
(* number of its own. Calls are made by one thread, on valid iterators.    *)
(***************************************************************************)
EXTENDS Integers, SequencesExt

CONSTANTS
  Maps,      \* the maps: two of them can be swapped and moved
  Keys,
  Values,
  Default,   \* the value Value()
  MaxNodes,  \* bound: nodes allocated in one behaviour
  NoNode     \* the iterator try_emplace leaves in map_

ASSUME LinkedHashMapAssumption ==
  Default \in Values /\ MaxNodes \in Nat /\ NoNode \notin Nat

VARIABLES
  list_,    \* a map's nodes, in order
  map_,     \* its iterators by key
  pair,     \* what a node holds
  made,     \* the number of nodes allocated so far
  range,    \* the erase(first, last) in progress: its map and its iterators
  thrown    \* history: the maps in which an insert has thrown

vars == <<list_, map_, pair, made, range, thrown>>

Nodes == 1 .. MaxNodes
Pairs == Keys \X Values
NodesOf(m) == Range(list_[m])
EmptyMap == [k \in {} |-> NoNode]

(* The iterator end().                                                     *)
End == 0
NoRange == [on |-> NoNode, first |-> End, last |-> End]

Init ==
  /\ list_ = [m \in Maps |-> <<>>]
  /\ map_ = [m \in Maps |-> EmptyMap]
  /\ pair = [n \in Nodes |-> NoNode]
  /\ made = 0 /\ range = NoRange
  /\ thrown = {}

(* The callers leave a map alone in which an insert has thrown.            *)
MayCall(m) == range = NoRange /\ m \notin thrown

Found(m, k) == k \in DOMAIN map_[m]

find(m, k) == IF Found(m, k) THEN map_[m][k] ELSE End

Without(f, k) == Restrict(f, DOMAIN f \ {k})

Place(m, n) == CHOOSE i \in DOMAIN list_[m] : list_[m][i] = n

(* The iterator after n.                                                   *)
After(m, n) ==
  IF Place(m, n) = Len(list_[m]) THEN End ELSE list_[m][Place(m, n) + 1]

Destroy(nodes) == pair' = [n \in Nodes |-> IF n \in nodes THEN NoNode ELSE pair[n]]

Unlink(m, n) ==
  /\ list_' = [list_ EXCEPT ![m] = RemoveAt(@, Place(m, n))]
  /\ Destroy({n})

(* map_ with the iterator n for the key k.                                 *)
With(m, k, n) ==
  [map_ EXCEPT ![m] = [x \in DOMAIN @ \cup {k} |-> IF x = k THEN n ELSE @[x]]]

-----------------------------------------------------------------------------
(* A new node with the pair at the end of the list, and its iterator.      *)
Link(m, k, v) ==
  /\ made < MaxNodes
  /\ made' = made + 1
  /\ pair' = [pair EXCEPT ![made'] = <<k, v>>]
  /\ list_' = [list_ EXCEPT ![m] = Append(@, made')]
  /\ map_' = With(m, k, made')

(* Faulty: an element that is inserted again moves to the end.             *)
InsertInternalMoves(m, k, v) ==
  /\ MayCall(m)
  /\ IF Found(m, k)
       THEN /\ list_' = [list_ EXCEPT ![m] =
                  Append(RemoveAt(@, Place(m, find(m, k))), find(m, k))]
            /\ UNCHANGED <<map_, pair, made>>
       ELSE Link(m, k, v)
  /\ UNCHANGED <<range, thrown>>

(* InsertInternal, for both overloads of insert; with a key that is there  *)
(* it changes nothing.                                                     *)
InsertInternal(m, k, v) ==
  /\ MayCall(m) /\ ~Found(m, k)
  /\ Link(m, k, v)
  /\ UNCHANGED <<range, thrown>>

(* The allocation, or the copy of the pair, throws after try_emplace: the  *)
(* key is in map_ without an element.                                      *)
InsertThrows(m, k) ==
  /\ MayCall(m) /\ ~Found(m, k)
  /\ map_' = With(m, k, NoNode)
  /\ thrown' = thrown \cup {m}
  /\ UNCHANGED <<list_, pair, made, range>>

(* emplace makes the node in a list of its own; it is destroyed with that  *)
(* list if map_ has the key, or if map_ throws, and spliced otherwise.     *)
Emplace(m, k, v) ==
  /\ MayCall(m) /\ made < MaxNodes
  /\ IF Found(m, k)
       THEN /\ made' = made + 1
            /\ UNCHANGED <<list_, map_, pair>>
       ELSE Link(m, k, v)
  /\ UNCHANGED <<range, thrown>>

(* operator[] inserts Value() for a key that is missing; what it returns   *)
(* is then assigned to.                                                    *)
AssignAt(m, k, v) ==
  /\ MayCall(m)
  /\ IF Found(m, k)
       THEN /\ pair' = [pair EXCEPT ![find(m, k)] = <<k, v>>]
            /\ UNCHANGED <<list_, map_, made>>
       ELSE Link(m, k, Default)
  /\ UNCHANGED <<range, thrown>>

-----------------------------------------------------------------------------
EraseKey(m, k) ==
  /\ MayCall(m) /\ Found(m, k)
  /\ Unlink(m, find(m, k))
  /\ map_' = [map_ EXCEPT ![m] = Without(@, k)]
  /\ UNCHANGED <<made, range, thrown>>

(* What erase(iterator) does once its ABSL_CHECK has passed.               *)
EraseAt(m, n) ==
  /\ Unlink(m, n)
  /\ map_' = [map_ EXCEPT ![m] = Without(@, pair[n][1])]
  /\ UNCHANGED made

EraseIterator(m, n) ==
  /\ MayCall(m) /\ n \in NodesOf(m)
  /\ EraseAt(m, n)
  /\ UNCHANGED <<range, thrown>>

PopFront(m) ==
  /\ MayCall(m) /\ list_[m] # <<>>
  /\ EraseAt(m, Head(list_[m]))
  /\ UNCHANGED <<range, thrown>>

(* erase(first, last), for a last that is not before first ...             *)
EraseRange(m, first, last) ==
  LET lo == Place(m, first)
      hi == IF last = End THEN Len(list_[m]) + 1 ELSE Place(m, last)
  IN
  /\ MayCall(m) /\ first \in NodesOf(m) /\ last \in NodesOf(m) \cup {End} /\ lo <= hi
  /\ range' = [on |-> m, first |-> first, last |-> last]
  /\ UNCHANGED <<list_, map_, pair, made, thrown>>

(* ... goes from one element to what erase(iterator) returns ...           *)
EraseRangeStep ==
  /\ range # NoRange /\ range.first \notin {range.last, End}
  /\ EraseAt(range.on, range.first)
  /\ range' = [range EXCEPT !.first = After(range.on, range.first)]
  /\ UNCHANGED thrown

(* ... until it has reached last.                                          *)
EraseRangeEnds ==
  /\ range # NoRange /\ range.first \in {range.last, End}
  /\ range' = NoRange
  /\ UNCHANGED <<list_, map_, pair, made, thrown>>

(* clear makes a map usable again in which an insert has thrown.           *)
Clear(m) ==
  /\ range = NoRange
  /\ list_' = [list_ EXCEPT ![m] = <<>>]
  /\ map_' = [map_ EXCEPT ![m] = EmptyMap]
  /\ thrown' = thrown \ {m}
  /\ Destroy(NodesOf(m))
  /\ UNCHANGED <<made, range>>

-----------------------------------------------------------------------------
(* Faulty: only the lists change places.                                   *)
SwapListsOnly(m, o) ==
  /\ MayCall(m) /\ MayCall(o)
  /\ list_' = [list_ EXCEPT ![m] = list_[o], ![o] = list_[m]]
  /\ UNCHANGED <<map_, pair, made, range, thrown>>

Swap(m, o) ==
  /\ MayCall(m) /\ MayCall(o)
  /\ map_' = [map_ EXCEPT ![m] = map_[o], ![o] = map_[m]]
  /\ list_' = [list_ EXCEPT ![m] = list_[o], ![o] = list_[m]]
  /\ UNCHANGED <<pair, made, range, thrown>>

(* The defaulted move assignment: the elements of o, with their nodes, for *)
(* those of m.                                                             *)
Move(m, o) ==
  /\ MayCall(m) /\ MayCall(o)
  /\ map_' = [map_ EXCEPT ![m] = map_[o], ![o] = EmptyMap]
  /\ list_' = [list_ EXCEPT ![m] = list_[o], ![o] = <<>>]
  /\ Destroy(NodesOf(m))
  /\ UNCHANGED <<made, range, thrown>>

-----------------------------------------------------------------------------
Next ==
  \/ EraseRangeStep \/ EraseRangeEnds
  \/ \E m \in Maps :
       \/ PopFront(m) \/ Clear(m)
       \/ \E o \in Maps \ {m} : Swap(m, o) \/ Move(m, o)
       \/ \E n \in Nodes : EraseIterator(m, n)
       \/ \E n \in Nodes, l \in Nodes \cup {End} : EraseRange(m, n, l)
       \/ \E k \in Keys : EraseKey(m, k) \/ InsertThrows(m, k)
       \/ \E k \in Keys, v \in Values :
            InsertInternal(m, k, v) \/ Emplace(m, k, v) \/ AssignAt(m, k, v)

Spec == Init /\ [][Next]_vars

-----------------------------------------------------------------------------
(* Every variable holds a value of its kind.                               *)
TypeOK ==
  /\ list_ \in [Maps -> Seq(1 .. made)] /\ made \in 0 .. MaxNodes
  /\ DOMAIN map_ = Maps
  /\ \A m \in Maps : DOMAIN map_[m] \subseteq Keys /\ Range(map_[m]) \subseteq Nodes \cup {NoNode}
  /\ pair \in [Nodes -> Pairs \cup {NoNode}]
  /\ thrown \subseteq Maps
  /\ range \in [on : Maps \cup {NoNode}, first : Nodes \cup {End}, last : Nodes \cup {End}]

(* "We just keep a map and a list going in parallel": a key is in map_ if  *)
(* and only if the list has an element with it, and map_ leads to that     *)
(* element. It is what erase(iterator) checks and what lets size() be that *)
(* of map_. A key whose insert threw is the exception, until clear. And no *)
(* two maps share an element.                                              *)
InParallel ==
  \A m \in Maps \ thrown :
    /\ \A o \in Maps \ {m} : NodesOf(m) \cap NodesOf(o) = {}
    /\ DOMAIN map_[m] = {pair[n][1] : n \in NodesOf(m)}
    /\ \A n \in NodesOf(m) : map_[m][pair[n][1]] = n
    /\ Cardinality(DOMAIN map_[m]) = Len(list_[m])

(* What iterating over the maps, from begin() to end(), gives.             *)
Contents == [m \in Maps |-> [i \in DOMAIN list_[m] |-> pair[list_[m][i]]]]

Abstract == INSTANCE OrderedMap WITH contents <- Contents

(* The map is an insertion-ordered one: whatever is called, an element     *)
(* stays where it was inserted, a key is inserted once, and swapping and   *)
(* moving take the order along.                                            *)
ImplementsOrderedMap == Abstract!Spec

=============================================================================
