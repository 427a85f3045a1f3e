--------------------------- MODULE SparseSetProofs ---------------------------
(***************************************************************************)
(* What the operations of the sparse containers return, for every size:    *)
(* sparse and dense stay inverse to each other, and the container is the   *)
(* set of keys (the map of values) its operations say it is.               *)
(***************************************************************************)
EXTENDS SparseSet, SequenceTheorems, TLAPS

LEMMA PopBackElements ==
  ASSUME NEW S, NEW q \in Seq(S), Len(q) # 0
  PROVE  /\ PopBack(q) \in Seq(S)
         /\ Len(PopBack(q)) = Len(q) - 1
         /\ \A i \in 1 .. Len(q) - 1 : PopBack(q)[i] = q[i]
<1>1. PopBack(q) = SubSeq(q, 1, Len(q) - 1) /\ Len(q) - 1 \in Nat
  BY DEF PopBack
<1>2. \A i \in 1 .. Len(q) - 1 : SubSeq(q, 1, Len(q) - 1)[i] = q[i]
  OBVIOUS
<1>3. /\ SubSeq(q, 1, Len(q) - 1) \in Seq(S)
      /\ Len(SubSeq(q, 1, Len(q) - 1)) = Len(q) - 1
  OBVIOUS
<1>. QED
  BY <1>1, <1>2, <1>3

\* The domain of sparse is an initial segment of Nat.
IsVector(f) == DOMAIN f \subseteq Nat /\ \A k \in DOMAIN f : 0 .. k \subseteq DOMAIN f

LEMMA GrownDomain ==
  ASSUME NEW s, Consistent(s), NEW k \in Nat
  PROVE  /\ IsVector(Grown(s.sparse, k))
         /\ k \in DOMAIN Grown(s.sparse, k)
         /\ DOMAIN s.sparse \subseteq DOMAIN Grown(s.sparse, k)
         /\ \A j \in DOMAIN Grown(s.sparse, k) :
              Grown(s.sparse, k)[j] = IF j \in DOMAIN s.sparse THEN s.sparse[j] ELSE Absent
         /\ Grown(s.sparse, k) \in [DOMAIN Grown(s.sparse, k) -> Int]
<1>1. CASE k \in DOMAIN s.sparse
  BY <1>1 DEF Consistent, Grown, IsVector
<1>2. CASE k \notin DOMAIN s.sparse
  <2>1. Grown(s.sparse, k) = [j \in 0 .. k |-> IF j \in DOMAIN s.sparse THEN s.sparse[j] ELSE Absent]
    BY <1>2 DEF Grown
  <2>2. \A j \in DOMAIN s.sparse : j \in 0 .. k /\ s.sparse[j] \in Int
    BY <1>2 DEF Consistent
  <2>3. Grown(s.sparse, k) \in [0 .. k -> Int]
    BY <2>1, <2>2 DEF Absent
  <2>. QED
    BY <2>1, <2>2, <2>3 DEF IsVector
<1>. QED
  BY <1>1, <1>2

\* insert() of a key that is absent keeps the vectors inverse and adds the key.
THEOREM InsertAdds ==
  ASSUME NEW s, Consistent(s), NEW k \in Nat, ~HasKey(s, k)
  PROVE  /\ Consistent(Insert(s, k))
         /\ Members(Insert(s, k)) = Members(s) \cup {k}
<1> DEFINE t == Insert(s, k)
           g == Grown(s.sparse, k)
           n == SizeOf(s)
<1>1. /\ IsVector(g)
      /\ k \in DOMAIN g
      /\ DOMAIN s.sparse \subseteq DOMAIN g
      /\ \A j \in DOMAIN g : g[j] = IF j \in DOMAIN s.sparse THEN s.sparse[j] ELSE Absent
      /\ g \in [DOMAIN g -> Int]
  BY GrownDomain
<1>2. n \in Nat /\ s.dense \in Seq(DOMAIN s.sparse)
  BY DEF Consistent, SizeOf
<1>3. t.sparse = [g EXCEPT ![k] = n] /\ t.dense = Append(s.dense, k)
  BY DEF Insert
<1>4. /\ DOMAIN t.sparse = DOMAIN g
      /\ t.sparse \in [DOMAIN g -> Int]
      /\ t.sparse[k] = n
      /\ \A j \in DOMAIN g : j # k => t.sparse[j] = g[j]
  BY <1>1, <1>2, <1>3
<1>5. s.dense \in Seq(DOMAIN g)
  BY <1>1, <1>2
<1>6. /\ t.dense \in Seq(DOMAIN g)
      /\ Len(t.dense) = n + 1
      /\ t.dense[n + 1] = k
      /\ \A i \in 1 .. n : t.dense[i] = s.dense[i]
  BY <1>1, <1>3, <1>5 DEF SizeOf
<1>7. \A i \in 1 .. n : s.dense[i] \in DOMAIN s.sparse /\ s.sparse[s.dense[i]] = i - 1
  BY <1>2 DEF Consistent, SizeOf
<1>8. \A i \in 1 .. n : s.dense[i] # k
  BY <1>2, <1>7 DEF HasKey, Absent
<1>9. Members(t) = Members(s) \cup {k}
  BY <1>1, <1>2, <1>4 DEF Members, Absent
<1>10. ASSUME NEW j \in Members(t)
       PROVE  t.sparse[j] \in 0 .. SizeOf(t) - 1 /\ t.dense[t.sparse[j] + 1] = j
  <2>1. CASE j = k
    BY <1>2, <1>4, <1>6, <2>1 DEF SizeOf
  <2>2. CASE j # k
    <3>1. j \in Members(s) /\ j \in DOMAIN s.sparse /\ t.sparse[j] = s.sparse[j]
      BY <1>1, <1>4, <1>9, <2>2 DEF Members
    <3>2. s.sparse[j] \in 0 .. n - 1 /\ s.dense[s.sparse[j] + 1] = j
      BY <3>1 DEF Consistent
    <3>. QED
      BY SMTT(60), <1>2, <1>6, <3>1, <3>2 DEF SizeOf
  <2>. QED
    BY <2>1, <2>2
<1>11. ASSUME NEW i \in 1 .. SizeOf(t)
       PROVE  t.sparse[t.dense[i]] = i - 1
  <2>1. CASE i = n + 1
    BY <1>2, <1>4, <1>6, <2>1
  <2>2. CASE i # n + 1
    <3>1. i \in 1 .. n
      BY <1>2, <1>6, <2>2 DEF SizeOf
    <3>2. /\ t.dense[i] = s.dense[i] /\ s.dense[i] # k
          /\ s.dense[i] \in DOMAIN s.sparse /\ s.sparse[s.dense[i]] = i - 1
      BY <1>6, <1>7, <1>8, <3>1
    <3>3. s.dense[i] \in DOMAIN g /\ g[s.dense[i]] = s.sparse[s.dense[i]]
      BY <1>1, <3>2
    <3>. QED
      BY <1>4, <3>2, <3>3
  <2>. QED
    BY <2>1, <2>2
<1>12. Consistent(t)
  BY <1>1, <1>4, <1>6, <1>10, <1>11 DEF Consistent, IsVector
<1>. QED
  BY <1>9, <1>12

\* erase() of a key that is present keeps the vectors inverse and removes it,
\* also when it is the last one, which then takes its own position.
THEOREM EraseRemoves ==
  ASSUME NEW s, Consistent(s), NEW k, HasKey(s, k)
  PROVE  /\ Consistent(Erase(s, k))
         /\ Members(Erase(s, k)) = Members(s) \ {k}
<1> DEFINE t == Erase(s, k)
           n == SizeOf(s)
           p == s.sparse[k]
           last == Back(s.dense)
           d == [s.dense EXCEPT ![p + 1] = last]
<1>1. n \in Nat /\ s.dense \in Seq(DOMAIN s.sparse) /\ DOMAIN s.dense = 1 .. n
  BY DEF Consistent, SizeOf
<1>2. k \in Members(s) /\ p \in 0 .. n - 1 /\ s.dense[p + 1] = k
  BY DEF HasKey, Members, Consistent
<1>3. \A i \in 1 .. n : s.dense[i] \in DOMAIN s.sparse /\ s.sparse[s.dense[i]] = i - 1
  BY <1>1 DEF Consistent, SizeOf
<1>4. n \in 1 .. n /\ last = s.dense[n] /\ last \in DOMAIN s.sparse /\ s.sparse[last] = n - 1
  BY <1>1, <1>2, <1>3 DEF Back, SizeOf
<1>5. /\ d \in Seq(DOMAIN s.sparse) /\ Len(d) = n
      /\ \A i \in 1 .. n : d[i] = IF i = p + 1 THEN last ELSE s.dense[i]
  BY <1>1, <1>2, <1>4 DEF SizeOf
<1>6. /\ t.dense \in Seq(DOMAIN s.sparse) /\ Len(t.dense) = n - 1
      /\ \A i \in 1 .. n - 1 : t.dense[i] = d[i]
  <2>1. t.dense = PopBack(d)
    BY DEF Erase
  <2>. QED
    <3>1. d \in Seq(DOMAIN s.sparse) /\ Len(d) = n /\ Len(d) # 0
      BY <1>1, <1>4, <1>5
    <3>. HIDE DEF d, n, t
    <3>2. /\ PopBack(d) \in Seq(DOMAIN s.sparse) /\ Len(PopBack(d)) = Len(d) - 1
          /\ \A i \in 1 .. Len(d) - 1 : PopBack(d)[i] = d[i]
      BY <3>1, PopBackElements
    <3>. QED
      BY <2>1, <3>1, <3>2
<1>7. /\ DOMAIN t.sparse = DOMAIN s.sparse
      /\ t.sparse \in [DOMAIN s.sparse -> Int]
      /\ t.sparse[k] = Absent
      /\ last # k => t.sparse[last] = p
      /\ \A j \in DOMAIN s.sparse : j # k /\ j # last => t.sparse[j] = s.sparse[j]
  <2>1. t.sparse = [[s.sparse EXCEPT ![last] = p] EXCEPT ![k] = Absent]
    BY DEF Erase
  <2>2. s.sparse \in [DOMAIN s.sparse -> Int] /\ k \in DOMAIN s.sparse /\ p \in Int /\ Absent \in Int
    BY <1>2 DEF Consistent, Members, Absent
  <2>3. last \in DOMAIN s.sparse
    BY <1>4
  <2>. HIDE DEF t, last, p
  <2>. QED
    BY <2>1, <2>2, <2>3
<1>8. Members(t) = Members(s) \ {k}
  BY <1>2, <1>4, <1>7 DEF Members, Absent
<1>9. ASSUME NEW j \in Members(t)
      PROVE  t.sparse[j] \in 0 .. SizeOf(t) - 1 /\ t.dense[t.sparse[j] + 1] = j
  <2>1. j \in Members(s) /\ j # k /\ s.sparse[j] \in 0 .. n - 1 /\ s.dense[s.sparse[j] + 1] = j
    BY <1>8 DEF Consistent
  <2>2. CASE j = last
    <3>1. t.sparse[j] = p
      BY <1>7, <2>1, <2>2
    <3>2. p # n - 1 /\ p \in 0 .. n - 2
      BY <1>1, <1>2, <1>4, <2>1, <2>2
    <3>3. t.dense[p + 1] = last
      BY SMTT(60), <1>1, <1>5, <1>6, <3>2
    <3>. QED
      BY <1>1, <1>6, <2>2, <3>1, <3>2, <3>3 DEF SizeOf
  <2>3. CASE j # last
    <3>1. s.sparse[j] # n - 1
      BY <1>4, <2>1, <2>3
    <3>2. t.sparse[j] = s.sparse[j] /\ s.sparse[j] \in 0 .. n - 2
      BY <1>1, <1>7, <2>1, <2>3, <3>1 DEF Members
    <3>3. s.sparse[j] # p
      BY <1>2, <2>1
    <3>4. s.sparse[j] + 1 \in 1 .. n - 1 /\ s.sparse[j] + 1 \in 1 .. n /\ s.sparse[j] + 1 # p + 1
      BY <1>1, <1>2, <3>2, <3>3
    <3>5. t.dense[s.sparse[j] + 1] = s.dense[s.sparse[j] + 1]
      BY <1>5, <1>6, <3>4
    <3>. QED
      BY <1>1, <1>6, <2>1, <3>2, <3>5 DEF SizeOf
  <2>. QED
    BY <2>2, <2>3
<1>10. ASSUME NEW i \in 1 .. SizeOf(t)
       PROVE  t.sparse[t.dense[i]] = i - 1
  <2>1. i \in 1 .. n - 1 /\ i \in 1 .. n /\ t.dense[i] = d[i]
    BY <1>1, <1>6 DEF SizeOf
  <2>2. CASE i = p + 1
    BY SMTT(60), <1>2, <1>4, <1>5, <1>7, <2>1, <2>2
  <2>3. CASE i # p + 1
    <3>1. t.dense[i] = s.dense[i] /\ s.dense[i] \in DOMAIN s.sparse /\ s.sparse[s.dense[i]] = i - 1
      BY <1>3, <1>5, <2>1, <2>3
    <3>2. s.dense[i] # k /\ s.dense[i] # last
      BY <1>2, <1>4, <2>1, <2>3, <3>1
    <3>. QED
      BY <1>7, <3>1, <3>2
  <2>. QED
    BY <2>2, <2>3
<1>. QED
  BY <1>6, <1>7, <1>8, <1>9, <1>10 DEF Consistent
=============================================================================
