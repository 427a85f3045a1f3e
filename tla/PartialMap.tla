----------------------------- MODULE PartialMap -----------------------------
(***************************************************************************)
(* A map from some keys to values: what the users of SparseMap expect.     *)
(***************************************************************************)
CONSTANTS Keys, Values

VARIABLE map   \* a function from the keys present

Without(k) == [j \in DOMAIN map \ {k} |-> map[j]]
With(k, v) == [j \in DOMAIN map \cup {k} |-> IF j = k THEN v ELSE map[j]]

Init == map = [k \in {} |-> CHOOSE v \in Values : TRUE]

Put(k, v) == map' = With(k, v)
Drop(k) == k \in DOMAIN map /\ map' = Without(k)
Clear == map' = [k \in {} |-> CHOOSE v \in Values : TRUE]

Next == Clear \/ \E k \in Keys : Drop(k) \/ \E v \in Values : Put(k, v)

Spec == Init /\ [][Next]_map
=============================================================================
