----------------------------- MODULE OrderedMap -----------------------------
(***************************************************************************)
(* What linked_hash_map.h promises: "a simplistic insertion-ordered map".  *)
(* A map is the sequence of its pairs in the order of their insertion; a   *)
(* key occurs once, and inserting one that is present changes nothing.     *)
(***************************************************************************)
EXTENDS Integers, SequencesExt

CONSTANTS Maps, Keys, Values

VARIABLE contents

KeysOf(c) == {c[i][1] : i \in DOMAIN c}

Init == contents = [m \in Maps |-> <<>>]

Insert(m, k, v) ==
  /\ k \notin KeysOf(contents[m])
  /\ contents' = [contents EXCEPT ![m] = Append(@, <<k, v>>)]

(* The value of an element is assigned to in place.                        *)
Assign(m, k, v) ==
  contents' = [contents EXCEPT ![m] =
       [i \in DOMAIN @ |-> IF @[i][1] = k THEN <<k, v>> ELSE @[i]]]

Erase(m, k) ==
  \E i \in DOMAIN contents[m] :
    /\ contents[m][i][1] = k
    /\ contents' = [contents EXCEPT ![m] = RemoveAt(@, i)]

Clear(m) == contents' = [contents EXCEPT ![m] = <<>>]

Swap(m, o) == contents' = [contents EXCEPT ![m] = contents[o], ![o] = contents[m]]

Move(m, o) == contents' = [contents EXCEPT ![m] = contents[o], ![o] = <<>>]

Next ==
  \E m \in Maps :
    \/ Clear(m)
    \/ \E o \in Maps \ {m} : Swap(m, o) \/ Move(m, o)
    \/ \E k \in Keys : Erase(m, k)
    \/ \E k \in Keys, v \in Values : Insert(m, k, v) \/ Assign(m, k, v)

Spec == Init /\ [][Next]_contents

=============================================================================
