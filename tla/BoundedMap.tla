------------------------------ MODULE BoundedMap ------------------------------
(****************************************************************************)
(* What OrderBook expects of its order map: a finite map from order ids to  *)
(* orders that takes up to Limit of them.                                   *)
(****************************************************************************)
EXTENDS FiniteSets, Integers

CONSTANTS Keys, Reserved, Values, NoValue, Limit

VARIABLES map, ret      \* ret: what the last call returned

Stored == DOMAIN map

Init == map = [k \in {} |-> NoValue] /\ ret = FALSE

Insert(k, v) ==
    /\ k \notin Stored
    /\ IF k \in Reserved \/ Cardinality(Stored) >= Limit
       THEN ret' = FALSE /\ UNCHANGED map
       ELSE /\ ret' = TRUE
            /\ map' = [j \in Stored \cup {k} |-> IF j = k THEN v ELSE map[j]]

Find(k) ==
    /\ ret' = IF k \in Stored THEN map[k] ELSE NoValue
    /\ UNCHANGED map

Update(k, v) ==
    /\ k \in Stored
    /\ map' = [map EXCEPT ![k] = v]
    /\ UNCHANGED ret

Erase(k) ==
    /\ ret' = (k \in Stored)
    /\ map' = [j \in Stored \ {k} |-> map[j]]

Next == \E k \in Keys :
    \/ \E v \in Values : Insert(k, v) \/ Update(k, v)
    \/ Find(k)
    \/ Erase(k)

Spec == Init /\ [][Next]_<<map, ret>>
=============================================================================
