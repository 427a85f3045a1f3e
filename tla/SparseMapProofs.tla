--------------------------- MODULE SparseMapProofs ---------------------------
(***************************************************************************)
(* A SparseMap is a map, for every size and every range of keys.           *)
(***************************************************************************)
EXTENDS SparseMap, SparseSetProofs

IInv == VectorsAligned /\ values \in Seq(Values)

Contents == [k \in Members(keys) |-> ValueAt(k)]

\* What insert() and erase() do to the positions of the other keys.
LEMMA InsertPositions ==
  ASSUME NEW s, Consistent(s), NEW k \in Nat, ~HasKey(s, k)
  PROVE  /\ SizeOf(Insert(s, k)) = SizeOf(s) + 1
         /\ Insert(s, k).sparse[k] = SizeOf(s)
         /\ \A j \in Members(s) : Insert(s, k).sparse[j] = s.sparse[j]
<1> DEFINE g == Grown(s.sparse, k)
<1>1. /\ k \in DOMAIN g /\ DOMAIN s.sparse \subseteq DOMAIN g
      /\ \A j \in DOMAIN g : g[j] = IF j \in DOMAIN s.sparse THEN s.sparse[j] ELSE Absent
  BY GrownDomain
<1>2. Insert(s, k).sparse = [g EXCEPT ![k] = SizeOf(s)] /\ Insert(s, k).dense = Append(s.dense, k)
  BY DEF Insert
<1>3. \A j \in Members(s) : j \in DOMAIN s.sparse /\ j # k
  BY DEF Members, HasKey
<1> HIDE DEF g
<1>4. SizeOf(Insert(s, k)) = SizeOf(s) + 1
  BY <1>2 DEF SizeOf, Consistent
<1>. QED
  BY <1>1, <1>2, <1>3, <1>4

LEMMA ErasePositions ==
  ASSUME NEW s, Consistent(s), NEW k, HasKey(s, k)
  PROVE  /\ SizeOf(Erase(s, k)) = SizeOf(s) - 1
         /\ \A j \in Members(s) \ {k} :
              Erase(s, k).sparse[j] =
                IF s.sparse[j] = SizeOf(s) - 1 THEN s.sparse[k] ELSE s.sparse[j]
<1> DEFINE n == SizeOf(s)
           p == s.sparse[k]
           last == Back(s.dense)
           d == [s.dense EXCEPT ![p + 1] = last]
<1>1. n \in Nat /\ s.dense \in Seq(DOMAIN s.sparse) /\ DOMAIN s.dense = 1 .. n
  BY DEF Consistent, SizeOf
<1>2. k \in Members(s) /\ p \in 0 .. n - 1
  BY DEF HasKey, Members, Consistent
<1>3. last = s.dense[n] /\ last \in DOMAIN s.sparse /\ s.sparse[last] = n - 1
  <2>1. \A i \in 1 .. n : s.dense[i] \in DOMAIN s.sparse /\ s.sparse[s.dense[i]] = i - 1
    BY <1>1 DEF Consistent, SizeOf
  <2>2. n \in 1 .. n /\ last = s.dense[n]
    BY <1>1, <1>2 DEF Back, SizeOf
  <2>. QED
    BY <2>1, <2>2
<1>4. Erase(s, k).sparse = [s.sparse EXCEPT ![last] = p, ![k] = Absent] /\ Erase(s, k).dense = PopBack(d)
  BY DEF Erase
<1>5. d \in Seq(DOMAIN s.sparse) /\ Len(d) = n
  BY <1>1, <1>2, <1>3 DEF SizeOf
<1>6. SizeOf(Erase(s, k)) = n - 1
  BY <1>1, <1>2, <1>4, <1>5, PopBackElements DEF SizeOf
<1>7. ASSUME NEW j \in Members(s) \ {k}
      PROVE  Erase(s, k).sparse[j] = IF s.sparse[j] = n - 1 THEN p ELSE s.sparse[j]
  <2>1. j \in DOMAIN s.sparse /\ s.dense[s.sparse[j] + 1] = j /\ s.sparse[j] \in 0 .. n - 1
    BY DEF Members, Consistent, SizeOf
  <2>2. j = last <=> s.sparse[j] = n - 1
    BY <1>1, <1>3, <2>1
  <2>. QED
    BY <1>3, <1>4, <2>1, <2>2
<1>. QED
  BY <1>6, <1>7

\* Each key of a map has a position in its vectors.
LEMMA ValuesTyped ==
  ASSUME IInv
  PROVE  /\ Consistent(keys) /\ Len(values) = SizeOf(keys) /\ Len(values) \in Nat
         /\ values \in Seq(Values)
         /\ \A k \in Members(keys) : keys.sparse[k] \in 0 .. Len(values) - 1
         /\ \A j, k \in Members(keys) : keys.sparse[j] = keys.sparse[k] => j = k
<1>1. /\ Consistent(keys) /\ Len(values) = SizeOf(keys) /\ values \in Seq(Values)
  BY DEF IInv, VectorsAligned
<1>2. /\ Len(values) \in Nat
      /\ \A k \in Members(keys) : /\ keys.sparse[k] \in 0 .. SizeOf(keys) - 1
                                 /\ keys.dense[keys.sparse[k] + 1] = k
  BY <1>1 DEF Consistent
<1>3. \A j, k \in Members(keys) : keys.sparse[j] = keys.sparse[k] => j = k
  BY <1>2
<1>. QED
  BY <1>1, <1>2, <1>3

LEMMA InsertStep ==
  ASSUME IInv, NEW k \in Keys, NEW v \in Values, InsertKey(k, v)
  PROVE  /\ IInv'
         /\ Contents' = [j \in Members(keys) \cup {k} |-> IF j = k THEN v ELSE Contents[j]]
<1>1. ~HasKey(keys, k) /\ keys' = Insert(keys, k) /\ values' = Append(values, v) /\ k \in Nat
  BY DEF InsertKey, Keys
<1>2. /\ Consistent(keys) /\ Len(values) = SizeOf(keys) /\ Len(values) \in Nat
      /\ values \in Seq(Values)
      /\ \A j \in Members(keys) : keys.sparse[j] \in 0 .. Len(values) - 1
  BY ValuesTyped
<1>3. Consistent(keys') /\ Members(keys') = Members(keys) \cup {k}
  BY <1>1, <1>2, InsertAdds
<1>4. /\ SizeOf(keys') = SizeOf(keys) + 1 /\ keys'.sparse[k] = SizeOf(keys)
      /\ \A j \in Members(keys) : keys'.sparse[j] = keys.sparse[j]
  BY <1>1, <1>2, InsertPositions
<1>5. /\ values' \in Seq(Values) /\ Len(values') = Len(values) + 1
      /\ values'[Len(values) + 1] = v
      /\ \A i \in 1 .. Len(values) : values'[i] = values[i]
  BY <1>1, <1>2
<1>6. k \notin Members(keys)
  BY <1>1 DEF HasKey, Members
<1>7. \A j \in Members(keys) : ValueAt(j)' = ValueAt(j) /\ ValueAt(k)' = v
  BY <1>2, <1>4, <1>5 DEF ValueAt
<1>8. ValueAt(k)' = v
  BY <1>2, <1>4, <1>5 DEF ValueAt
<1>. QED
  BY <1>2, <1>3, <1>4, <1>5, <1>6, <1>7, <1>8 DEF IInv, VectorsAligned, Contents

LEMMA AssignStep ==
  ASSUME IInv, NEW k \in Keys, NEW v \in Values, Assign(k, v)
  PROVE  /\ IInv'
         /\ Contents' = [j \in Members(keys) \cup {k} |-> IF j = k THEN v ELSE Contents[j]]
<1>1. HasKey(keys, k) /\ keys' = keys /\ values' = [values EXCEPT ![keys.sparse[k] + 1] = v]
  BY DEF Assign
<1>2. /\ Consistent(keys) /\ Len(values) = SizeOf(keys) /\ Len(values) \in Nat
      /\ values \in Seq(Values)
      /\ \A j \in Members(keys) : keys.sparse[j] \in 0 .. Len(values) - 1
      /\ \A i, j \in Members(keys) : keys.sparse[i] = keys.sparse[j] => i = j
  BY ValuesTyped
<1>3. k \in Members(keys)
  BY <1>1 DEF HasKey, Members
<1>4. /\ values' \in Seq(Values) /\ Len(values') = Len(values)
      /\ values'[keys.sparse[k] + 1] = v
      /\ \A i \in 1 .. Len(values) : i # keys.sparse[k] + 1 => values'[i] = values[i]
  BY <1>1, <1>2, <1>3
<1>5. ValueAt(k)' = v
  BY <1>1, <1>4 DEF ValueAt
<1>6. \A j \in Members(keys) : j # k => ValueAt(j)' = ValueAt(j)
  BY <1>1, <1>2, <1>3, <1>4 DEF ValueAt
<1>. QED
  BY <1>1, <1>2, <1>3, <1>4, <1>5, <1>6 DEF IInv, VectorsAligned, Contents

LEMMA EraseStep ==
  ASSUME IInv, NEW k \in Keys, EraseKey(k)
  PROVE  /\ IInv' /\ k \in Members(keys)
         /\ Contents' = [j \in Members(keys) \ {k} |-> Contents[j]]
<1> DEFINE p == keys.sparse[k]
           n == Len(values)
           moved == [values EXCEPT ![p + 1] = Back(values)]
<1>1. HasKey(keys, k) /\ keys' = Erase(keys, k) /\ values' = PopBack(moved)
  BY DEF EraseKey, ValuesWithout
<1>2. /\ Consistent(keys) /\ n = SizeOf(keys) /\ n \in Nat
      /\ values \in Seq(Values)
      /\ \A j \in Members(keys) : keys.sparse[j] \in 0 .. n - 1
      /\ \A i, j \in Members(keys) : keys.sparse[i] = keys.sparse[j] => i = j
  BY ValuesTyped
<1>3. k \in Members(keys) /\ p \in 0 .. n - 1
  BY <1>1, <1>2 DEF HasKey, Members
<1>4. Consistent(keys') /\ Members(keys') = Members(keys) \ {k}
  BY <1>1, <1>2, EraseRemoves
<1>5. /\ SizeOf(keys') = n - 1
      /\ \A j \in Members(keys) \ {k} :
           keys'.sparse[j] = IF keys.sparse[j] = n - 1 THEN p ELSE keys.sparse[j]
  BY <1>1, <1>2, ErasePositions
<1>6. Back(values) = values[n] /\ values[n] \in Values
  BY <1>2, <1>3 DEF Back
<1>7. /\ moved \in Seq(Values) /\ Len(moved) = n
      /\ moved[p + 1] = values[n]
      /\ \A i \in 1 .. n : i # p + 1 => moved[i] = values[i]
  BY <1>2, <1>3, <1>6
<1> HIDE DEF moved
<1>8. /\ values' \in Seq(Values) /\ Len(values') = n - 1
      /\ \A i \in 1 .. n - 1 : values'[i] = moved[i]
  <2>1. Len(moved) # 0
    BY <1>2, <1>3, <1>7
  <2>. QED
    BY <1>1, <1>7, <2>1, PopBackElements
<1>9. ASSUME NEW j \in Members(keys) \ {k}
      PROVE  ValueAt(j)' = ValueAt(j)
  <2>1. keys.sparse[j] \in 0 .. n - 1 /\ keys.sparse[j] # p
    BY <1>2, <1>3
  <2>2. CASE keys.sparse[j] = n - 1
    <3>1. keys'.sparse[j] = p /\ p + 1 \in 1 .. n - 1
      BY <1>2, <1>3, <1>5, <2>1, <2>2
    <3>2. values'[p + 1] = values[n] /\ n - 1 + 1 = n
      BY <1>2, <1>7, <1>8, <3>1
    <3>. QED
      BY <2>2, <3>1, <3>2 DEF ValueAt
  <2>3. CASE keys.sparse[j] # n - 1
    <3>1. keys'.sparse[j] = keys.sparse[j] /\ keys.sparse[j] + 1 \in 1 .. n - 1
          /\ keys.sparse[j] + 1 # p + 1
      BY <1>2, <1>3, <1>5, <2>1, <2>3
    <3>2. values'[keys.sparse[j] + 1] = values[keys.sparse[j] + 1]
      BY <1>2, <1>7, <1>8, <3>1
    <3>. QED
      BY <3>1, <3>2 DEF ValueAt
  <2>. QED
    BY <2>2, <2>3
<1>10. IInv'
  BY <1>4, <1>5, <1>8 DEF IInv, VectorsAligned
<1>. QED
  BY <1>3, <1>4, <1>9, <1>10 DEF Contents

LEMMA EmptySets ==
  /\ Consistent(NewSet) /\ SizeOf(NewSet) = 0 /\ Members(NewSet) = {}
  /\ Consistent(Cleared) /\ SizeOf(Cleared) = 0 /\ Members(Cleared) = {}
  BY SparseSetAssumption DEF NewSet, Cleared, Consistent, SizeOf, Members, Absent

LEMMA InitIInv == Init => IInv /\ Contents = [k \in {} |-> CHOOSE v \in Values : TRUE]
  BY EmptySets DEF Init, IInv, VectorsAligned, Contents

LEMMA ClearStep ==
  ASSUME Clear
  PROVE  IInv' /\ Contents' = [k \in {} |-> CHOOSE v \in Values : TRUE]
  BY EmptySets DEF Clear, Emptied, IInv, VectorsAligned, Contents

LEMMA NextStep == IInv /\ [Next]_mapVars => IInv' /\ [Map!Next]_Contents
<1> SUFFICES ASSUME IInv, [Next]_mapVars
             PROVE  IInv' /\ [Map!Next]_Contents
  OBVIOUS
<1>1. ASSUME NEW k \in Keys, NEW v \in Values, InsertKey(k, v) \/ Assign(k, v)
      PROVE  IInv' /\ Map!Next
  <2>1. IInv' /\ Contents' = [j \in Members(keys) \cup {k} |-> IF j = k THEN v ELSE Contents[j]]
    BY <1>1, InsertStep, AssignStep
  <2>2. Map!Put(k, v)
    BY <2>1 DEF Map!Put, Map!With, Contents
  <2>. QED
    BY <2>1, <2>2 DEF Map!Next
<1>2. ASSUME NEW k \in Keys, EraseKey(k)
      PROVE  IInv' /\ Map!Next
  <2>1. IInv' /\ k \in Members(keys) /\ Contents' = [j \in Members(keys) \ {k} |-> Contents[j]]
    BY <1>2, EraseStep
  <2>2. Map!Drop(k)
    BY <2>1 DEF Map!Drop, Map!Without, Contents
  <2>. QED
    BY <2>1, <2>2 DEF Map!Next
<1>3. CASE Clear
  BY <1>3, ClearStep DEF Map!Next, Map!Clear, Contents
<1>4. CASE UNCHANGED mapVars
  BY <1>4 DEF mapVars, IInv, VectorsAligned, Contents, ValueAt
<1>. QED
  BY <1>1, <1>2, <1>3, <1>4 DEF Next

LEMMA Invariance == Spec => []IInv
BY InitIInv, NextStep, PTL DEF Spec

\* Keys, positions and values stay aligned.
THEOREM VectorsStayAligned == Spec => []VectorsAligned
<1>1. IInv => VectorsAligned
  BY DEF IInv
<1>. QED
  BY <1>1, Invariance, PTL

\* SparseMap implements PartialMap: an id never gets the value of another.
THEOREM SparseMapIsMap == Spec => ImplementsPartialMap
<1>1. Init => Map!Init
  BY InitIInv DEF Map!Init, Contents
<1>2. IInv /\ [Next]_mapVars => [Map!Next]_([k \in Members(keys) |-> ValueAt(k)])
  BY NextStep DEF Contents
<1>. QED
  BY <1>1, <1>2, Invariance, PTL DEF Spec, ImplementsPartialMap, Map!Spec
=============================================================================
