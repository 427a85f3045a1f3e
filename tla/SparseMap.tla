------------------------------ MODULE SparseMap ------------------------------
(***************************************************************************)
(* A map from ids to values (src/src/sparse_map.h): a sparse set of keys   *)
(* and, at the position of every key, its value.  Component instances,     *)
(* components and input actions are kept in such maps.                     *)
(***************************************************************************)
EXTENDS SparseSet

CONSTANTS Values, MaxKey   \* bound: the largest key

ASSUME SparseMapAssumption == MaxKey \in Nat

VARIABLES
  keys,     \* sparse_ and dense_
  values    \* dense_values_

mapVars == <<keys, values>>

Keys == 0 .. MaxKey

\* Mutants: erase() leaves the value of the last key where it was; clear() of
\* the dense part only.
ValuesShifted(i) == PopBack(values)
EmptiedDense == [keys EXCEPT !.dense = <<>>]

\* dense_values_ after the value at position i has been erased.
ValuesWithout(i) == PopBack([values EXCEPT ![i + 1] = Back(values)])

Emptied == Cleared

\* operator[] of a key that is present.
ValueAt(k) == values[keys.sparse[k] + 1]
-----------------------------------------------------------------------------
Init == keys = NewSet /\ values = <<>>

\* insert() of a key that is absent: operator[] makes sure of that, and so do
\* the callers of insert().
InsertKey(k, v) ==
  /\ ~HasKey(keys, k)
  /\ keys' = Insert(keys, k)
  /\ values' = Append(values, v)

\* map[k] = v, for a key that is present.
Assign(k, v) ==
  /\ HasKey(keys, k)
  /\ values' = [values EXCEPT ![keys.sparse[k] + 1] = v]
  /\ UNCHANGED keys

EraseKey(k) ==
  /\ HasKey(keys, k)
  /\ values' = ValuesWithout(keys.sparse[k])
  /\ keys' = Erase(keys, k)

Clear ==
  /\ keys' = Emptied
  /\ values' = <<>>

Next ==
  \/ \E k \in Keys : EraseKey(k) \/ \E v \in Values : InsertKey(k, v) \/ Assign(k, v)
  \/ Clear

Spec == Init /\ [][Next]_mapVars
-----------------------------------------------------------------------------
\* The three vectors stay aligned: one position for each key and value.
VectorsAligned == Consistent(keys) /\ Len(values) = SizeOf(keys)

Map == INSTANCE PartialMap WITH map <- [k \in Members(keys) |-> ValueAt(k)]

\* The values follow their keys while erasures move the last entry into the
\* gap: an id never gets the value of another.
ImplementsPartialMap == Map!Spec
=============================================================================
