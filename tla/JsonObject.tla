----------------------------- MODULE JsonObject -----------------------------
(***************************************************************************)
(* What a JSON object promises: a map from keys to values whose keys keep  *)
(* the order in which they were first set.  A set may fail for want of     *)
(* memory and then changes nothing.                                        *)
(***************************************************************************)
EXTENDS Integers, Sequences

CONSTANTS Keys, Values

VARIABLES
    map,      \* the values of the keys that are set
    order     \* these keys, in the order in which they were set

Init == map = <<>> /\ order = <<>>

Set(key, value) ==
    /\ map' = [k \in DOMAIN map \cup {key} |-> IF k = key THEN value ELSE map[k]]
    /\ order' = IF key \in DOMAIN map THEN order ELSE Append(order, key)

Del(key) ==
    /\ key \in DOMAIN map
    /\ map' = [k \in DOMAIN map \ {key} |-> map[k]]
    /\ \E i \in DOMAIN order :
         order[i] = key /\ order' = SubSeq(order, 1, i - 1) \o SubSeq(order, i + 1, Len(order))

Clear ==
    /\ map' = <<>>
    /\ order' = <<>>

Next ==
    \/ Clear
    \/ \E key \in Keys : Del(key) \/ \E value \in Values : Set(key, value)

Spec == Init /\ [][Next]_<<map, order>>
=============================================================================
