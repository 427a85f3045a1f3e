------------------------------ MODULE SparseSet ------------------------------
(***************************************************************************)
(* The container of entity ids, and of the keys of a SparseMap:            *)
(* src/src/sparse_set.h.                                                   *)
(*                                                                         *)
(* A set is a record: sparse, the vector that maps a key to its position,  *)
(* and dense, the vector of the keys present.  Positions count from 0, as  *)
(* in the code.                                                            *)
(* insert of a key that is present corrupts the set, and erase of one that *)
(* is not writes outside dense: the code guards against neither, so it is  *)
(* for its users to keep these operators within their preconditions.       *)
(***************************************************************************)
EXTENDS Integers, Sequences

CONSTANT InitialSize   \* length of a new sparse_ vector: 16 in the code

ASSUME SparseSetAssumption == InitialSize \in Nat

Absent == -1

NewSet == [sparse |-> [k \in 0 .. InitialSize - 1 |-> Absent], dense |-> <<>>]

SizeOf(s) == Len(s.dense)
Back(q) == q[Len(q)]
PopBack(q) == SubSeq(q, 1, Len(q) - 1)

\* has()
HasKey(s, k) == k \in DOMAIN s.sparse /\ s.sparse[k] # Absent

\* sparse_.resize(k + 1, -1), when k is beyond its end.
Grown(sparse, k) ==
  IF k \in DOMAIN sparse THEN sparse
  ELSE [j \in 0 .. k |-> IF j \in DOMAIN sparse THEN sparse[j] ELSE Absent]

\* insert()
Insert(s, k) ==
  [sparse |-> [Grown(s.sparse, k) EXCEPT ![k] = SizeOf(s)],
   dense |-> Append(s.dense, k)]

\* erase() of a key that is present: the last key takes its position.
Erase(s, k) ==
  LET i == s.sparse[k]
      last == Back(s.dense)
  IN  [sparse |-> [s.sparse EXCEPT ![last] = i, ![k] = Absent],
       dense |-> PopBack([s.dense EXCEPT ![i + 1] = last])]

\* clear(): has() is false of every key, as sparse_ is empty.
Cleared == [sparse |-> [k \in {} |-> Absent], dense |-> <<>>]

Members(s) == {k \in DOMAIN s.sparse : s.sparse[k] # Absent}
-----------------------------------------------------------------------------
\* sparse and dense are inverse to each other: what every operation of the
\* containers relies on.
Consistent(s) ==
  /\ DOMAIN s.sparse \subseteq Nat
  /\ \A k \in DOMAIN s.sparse : 0 .. k \subseteq DOMAIN s.sparse
  /\ s.sparse \in [DOMAIN s.sparse -> Int]
  /\ s.dense \in Seq(DOMAIN s.sparse)
  /\ \A k \in Members(s) :
       s.sparse[k] \in 0 .. SizeOf(s) - 1 /\ s.dense[s.sparse[k] + 1] = k
  /\ \A i \in 1 .. SizeOf(s) : s.sparse[s.dense[i]] = i - 1
=============================================================================
