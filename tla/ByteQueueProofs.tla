--------------------------- MODULE ByteQueueProofs ---------------------------
(***************************************************************************)
(* ByteQueue is a queue, for every initial capacity and every amount of    *)
(* growth and overflow.                                                    *)
(***************************************************************************)
EXTENDS ByteQueue, SequenceTheorems, TLAPS

\* The positions wrap at the size of the ring's memory unless there is
\* overflow, and no message of the ring is lost when it grows.
IInv ==
  /\ TypeOK
  /\ IndicesAgree
  /\ overflowLength = 0 => capacity = Len(ring)
  /\ \A i \in 1 .. length : RingContents[i] \in Messages

Left == SubSeq(overflow, overflowBegin + 1, Len(overflow))

\* A position wraps at most once.
LEMMA Wrap ==
  ASSUME NEW c \in Nat \ {0}, NEW b \in 0 .. c - 1, NEW n \in 0 .. c
  PROVE  /\ (b + n) % c = IF b + n < c THEN b + n ELSE b + n - c
         /\ (b + n) % c \in 0 .. c - 1
<1>1. CASE b + n < c
  BY <1>1
<1>2. CASE b + n >= c
  <2>1. b + n = 1 * c + (b + n - c) /\ b + n - c \in 0 .. c - 1
    BY <1>2
  <2>. QED
    BY <1>2, <2>1
<1>. QED
  BY <1>1, <1>2

LEMMA TailOfConcat ==
  ASSUME NEW S, NEW q \in Seq(S), NEW r \in Seq(S), q # <<>>
  PROVE  q \o r # <<>> /\ Head(q \o r) = Head(q) /\ Tail(q \o r) = Tail(q) \o r
  OBVIOUS

LEMMA TailOfSubSeq ==
  ASSUME NEW S, NEW q \in Seq(S), NEW n \in Nat, n < Len(q)
  PROVE  /\ SubSeq(q, n + 1, Len(q)) # <<>>
         /\ Head(SubSeq(q, n + 1, Len(q))) = q[n + 1] /\ q[n + 1] \in S
         /\ Tail(SubSeq(q, n + 1, Len(q))) = SubSeq(q, n + 2, Len(q))
<1>1. SubSeq(q, n + 1, Len(q)) # <<>>
  <2> DEFINE t == SubSeq(q, n + 1, Len(q))
  <2>1. t \in Seq(S) /\ Len(t) \in Nat \ {0}
    OBVIOUS
  <2> HIDE DEF t
  <2>2. t # <<>>
    BY <2>1
  <2>. QED
    BY <2>2 DEF t
<1>2. Head(SubSeq(q, n + 1, Len(q))) = q[n + 1]
  OBVIOUS
<1>3. Tail(SubSeq(q, n + 1, Len(q))) = SubSeq(q, n + 2, Len(q))
  OBVIOUS
<1>4. q[n + 1] \in S
  OBVIOUS
<1>. QED
  BY <1>1, <1>2, <1>3, <1>4

LEMMA SubSeqOfAppend ==
  ASSUME NEW S, NEW q \in Seq(S), NEW m \in S, NEW n \in 0 .. Len(q)
  PROVE  SubSeq(Append(q, m), n + 1, Len(q) + 1) = Append(SubSeq(q, n + 1, Len(q)), m)
<1> DEFINE l == SubSeq(Append(q, m), n + 1, Len(q) + 1)
           r == Append(SubSeq(q, n + 1, Len(q)), m)
<1>1. Append(q, m) \in Seq(S) /\ Len(Append(q, m)) = Len(q) + 1 /\ Len(q) \in Nat
  OBVIOUS
<1>2. l \in Seq(S) /\ Len(l) = Len(q) + 1 - n
  BY <1>1
<1>3. SubSeq(q, n + 1, Len(q)) \in Seq(S) /\ Len(SubSeq(q, n + 1, Len(q))) = Len(q) - n
  OBVIOUS
<1>4. r \in Seq(S) /\ Len(r) = Len(q) + 1 - n
  BY <1>1, <1>3
<1>5. ASSUME NEW i \in 1 .. Len(q) + 1 - n
      PROVE  l[i] = r[i]
  <2>1. l[i] = Append(q, m)[n + i]
    BY <1>1
  <2>2. CASE i = Len(q) + 1 - n
    BY <1>1, <1>3, <2>1, <2>2
  <2>3. CASE i # Len(q) + 1 - n
    BY <1>1, <1>3, <2>1, <2>3
  <2>. QED
    BY <2>2, <2>3
<1> HIDE DEF l, r
<1>6. l = r
  BY <1>1, <1>2, <1>4, <1>5, SeqEqual
<1>. QED
  BY <1>6 DEF l, r

\* Where the i-th message of the ring is.
LEMMA Position ==
  ASSUME IInv, NEW i \in 1 .. length
  PROVE  /\ (begin + i - 1) % capacity \in 0 .. capacity - 1
         /\ (begin + i - 1) % capacity =
              IF begin + i - 1 < capacity THEN begin + i - 1 ELSE begin + i - 1 - capacity
<1>1. /\ capacity \in Nat \ {0} /\ begin \in 0 .. capacity - 1 /\ i - 1 \in 0 .. capacity
      /\ begin + (i - 1) = begin + i - 1
  BY DEF IInv, TypeOK
<1>. QED
  BY <1>1, Wrap

\* The position after the ring's last message.
LEMMA EndPosition ==
  ASSUME IInv
  PROVE  end = IF begin + length < capacity THEN begin + length ELSE begin + length - capacity
<1>1. /\ capacity \in Nat \ {0} /\ begin \in 0 .. capacity - 1 /\ length \in 0 .. capacity
      /\ end = (begin + length) % capacity
  BY DEF IInv, TypeOK, IndicesAgree
<1>. QED
  BY <1>1, Wrap

LEMMA ContentsType ==
  ASSUME IInv
  PROVE  /\ RingContents \in Seq(Messages) /\ Len(RingContents) = length
         /\ Left \in Seq(Messages) /\ Len(Left) = overflowLength
         /\ Contents = RingContents \o Left
<1>1. length \in Nat /\ DOMAIN RingContents = 1 .. length
  BY DEF IInv, TypeOK, RingContents
<1>2. RingContents \in [1 .. length -> Messages]
  BY <1>1 DEF IInv, RingContents
<1>3. RingContents \in Seq(Messages) /\ Len(RingContents) = length
  BY <1>1, <1>2
<1>4. /\ overflow \in Seq(Messages) /\ overflowBegin \in Nat /\ overflowLength \in Nat
      /\ overflowBegin + overflowLength = Len(overflow)
  BY DEF IInv, TypeOK, IndicesAgree
<1>5. Left \in Seq(Messages) /\ Len(Left) = overflowLength
  BY <1>4 DEF Left
<1>. QED
  BY <1>3, <1>5 DEF Contents, Left

LEMMA PushToRingStep ==
  ASSUME IInv, NEW m \in Messages, PushToRing(m)
  PROVE  IInv' /\ Contents' = Append(Contents, m) /\ taken' = taken
<1>1. /\ length < capacity /\ overflowLength = 0
      /\ ring' = [ring EXCEPT ![end + 1] = m]
      /\ end' = (end + 1) % capacity /\ length' = length + 1
      /\ UNCHANGED <<ringCount, begin, capacity, overflow, overflowBegin, overflowLength, taken>>
  BY DEF PushToRing, HasRoom
<1>2. /\ capacity \in Nat \ {0} /\ begin \in 0 .. capacity - 1 /\ length \in 0 .. capacity
      /\ end \in 0 .. capacity - 1 /\ ring \in Seq(Messages \cup {Nothing})
      /\ capacity <= Len(ring) /\ Len(ring) \in Nat
  BY DEF IInv, TypeOK
<1>3. /\ ring' \in Seq(Messages \cup {Nothing}) /\ Len(ring') = Len(ring)
      /\ ring'[end + 1] = m
      /\ \A j \in 1 .. Len(ring) : j # end + 1 => ring'[j] = ring[j]
  BY <1>1, <1>2
<1>4. end' = (begin + length') % capacity /\ end' \in 0 .. capacity - 1
  <2>1. /\ (end + 1) % capacity = IF end + 1 < capacity THEN end + 1 ELSE end + 1 - capacity
        /\ (end + 1) % capacity \in 0 .. capacity - 1
    BY <1>1, <1>2, Wrap
  <2>2. length + 1 \in 0 .. capacity
    BY <1>1, <1>2
  <2>3. (begin + (length + 1)) % capacity =
          IF begin + (length + 1) < capacity THEN begin + (length + 1)
          ELSE begin + (length + 1) - capacity
    BY <1>2, <2>2, Wrap
  <2>4. (end + 1) % capacity = (begin + (length + 1)) % capacity
    BY <1>1, <1>2, <2>1, <2>3, EndPosition
  <2>. QED
    BY <1>1, <2>1, <2>4
<1>5. \A i \in 1 .. length : RingContents'[i] = RingContents[i]
  <2> TAKE i \in 1 .. length
  <2> DEFINE p == (begin + i - 1) % capacity
  <2>1. p # end
    BY <1>1, <1>2, Position, EndPosition
  <2>2. p \in 0 .. capacity - 1
    BY Position
  <2>3. RingContents[i] = ring[p + 1] /\ RingContents'[i] = ring'[p + 1]
    BY <1>1, <1>2 DEF RingContents
  <2> HIDE DEF p
  <2>4. p + 1 \in 1 .. Len(ring) /\ p + 1 # end + 1
    BY <1>2, <2>1, <2>2
  <2>5. ring'[p + 1] = ring[p + 1]
    BY <1>3, <2>4
  <2>. QED
    BY <2>3, <2>5
<1>6. RingContents'[length + 1] = m
  <2>1. RingContents'[length + 1] = ring'[((begin + length) % capacity) + 1]
    BY <1>1, <1>2 DEF RingContents
  <2>. QED
    BY <1>3, <2>1 DEF IInv, IndicesAgree
<1>7. \A i \in 1 .. length' : RingContents'[i] \in Messages
  BY <1>1, <1>2, <1>5, <1>6 DEF IInv
<1>8. IInv'
  <2>1. TypeOK'
    BY <1>1, <1>2, <1>3, <1>4 DEF IInv, TypeOK
  <2>2. IndicesAgree'
    BY <1>1, <1>4 DEF IInv, IndicesAgree
  <2>. QED
    BY <1>1, <1>3, <1>7, <2>1, <2>2 DEF IInv
<1>9. RingContents' = Append(RingContents, m)
  <2>1. RingContents \in Seq(Messages) /\ Len(RingContents) = length
    BY ContentsType
  <2>2. RingContents' \in Seq(Messages) /\ Len(RingContents') = length + 1
    <3>1. DOMAIN RingContents' = 1 .. length + 1
      BY <1>1 DEF RingContents
    <3>. QED
      BY <1>1, <1>2, <1>7, <3>1 DEF RingContents
  <2>. QED
    BY <1>2, <1>5, <1>6, <2>1, <2>2
<1>10. Left = <<>> /\ Left' = <<>>
  <2>1. Left' = Left
    BY <1>1 DEF Left
  <2>2. Left \in Seq(Messages) /\ Len(Left) = 0
    BY <1>1, ContentsType
  <2>. QED
    BY <2>1, <2>2
<1>11. Contents = RingContents /\ Contents' = RingContents'
  <2>1. RingContents \in Seq(Messages) /\ RingContents' \in Seq(Messages)
    BY <1>9, ContentsType
  <2>2. Contents = RingContents \o Left /\ Contents' = RingContents' \o Left'
    BY DEF Contents, Left
  <2>. QED
    BY <1>10, <2>1, <2>2
<1>. QED
  BY <1>1, <1>8, <1>9, <1>11

LEMMA GrownRingKeeps ==
  ASSUME IInv
  PROVE  /\ GrownRing \in Seq(Messages \cup {Nothing})
         /\ Len(GrownRing) >= Len(ring) /\ Len(GrownRing) \in Nat
         /\ \A j \in 1 .. Len(ring) : GrownRing[j] = ring[j]
<1>1. ring \in Seq(Messages \cup {Nothing}) /\ Len(ring) \in Nat
  BY DEF IInv, TypeOK
<1> DEFINE more == [i \in 1 .. Len(ring) |-> Nothing]
<1>2. more \in Seq(Messages \cup {Nothing}) /\ Len(more) = Len(ring)
  BY <1>1
<1>3. /\ ring \o more \in Seq(Messages \cup {Nothing})
      /\ Len(ring \o more) = Len(ring) + Len(ring)
      /\ \A j \in 1 .. Len(ring) : (ring \o more)[j] = ring[j]
  BY <1>1, <1>2
<1>. QED
  BY <1>1, <1>3 DEF GrownRing

LEMMA PushToOverflowStep ==
  ASSUME IInv, NEW m \in Messages, PushToOverflow(m)
  PROVE  IInv' /\ Contents' = Append(Contents, m) /\ taken' = taken
<1>1. /\ overflow' = Append(overflow, m) /\ overflowLength' = overflowLength + 1
      /\ ring' = GrownRing /\ ringCount' = ringCount + 1
      /\ UNCHANGED <<begin, end, length, capacity, overflowBegin, taken>>
  BY DEF PushToOverflow
<1>2. /\ capacity \in Nat \ {0} /\ capacity <= Len(ring) /\ Len(ring) \in Nat
      /\ length \in 0 .. capacity
      /\ overflow \in Seq(Messages) /\ overflowBegin \in Nat /\ overflowLength \in Nat
      /\ ringCount \in Nat /\ overflowBegin + overflowLength = Len(overflow)
  BY DEF IInv, TypeOK, IndicesAgree
<1>3. \A i \in 1 .. length : ring'[((begin + i - 1) % capacity) + 1] = ring[((begin + i - 1) % capacity) + 1]
  <2> TAKE i \in 1 .. length
  <2> DEFINE p == (begin + i - 1) % capacity
  <2>1. p \in 0 .. capacity - 1
    BY Position
  <2> HIDE DEF p
  <2>2. p + 1 \in 1 .. Len(ring)
    BY <1>2, <2>1
  <2>3. ring'[p + 1] = ring[p + 1]
    BY <1>1, <2>2, GrownRingKeeps
  <2>. QED
    BY <2>3 DEF p
<1>4. RingContents' = RingContents
  BY <1>1, <1>3 DEF RingContents
<1>5. overflow' \in Seq(Messages) /\ Len(overflow') = Len(overflow) + 1
  BY <1>1, <1>2
<1>6. IInv'
  <2>1. TypeOK'
    BY <1>1, <1>2, <1>5, GrownRingKeeps DEF IInv, TypeOK
  <2>2. IndicesAgree'
    BY <1>1, <1>2, <1>5 DEF IInv, IndicesAgree
  <2>. QED
    BY <1>1, <1>2, <1>4, <2>1, <2>2 DEF IInv
<1>7. Left' = Append(Left, m)
  <2>1. overflowBegin \in 0 .. Len(overflow)
    BY <1>2
  <2>2. SubSeq(Append(overflow, m), overflowBegin + 1, Len(overflow) + 1) = Append(Left, m)
    BY <1>2, <2>1, SubSeqOfAppend DEF Left
  <2>. QED
    BY <1>1, <1>5, <2>2 DEF Left
<1>8. Contents' = RingContents' \o Left'
  BY DEF Contents, Left
<1>9. Contents' = Append(Contents, m)
  BY <1>4, <1>7, <1>8, ContentsType
<1>. QED
  BY <1>1, <1>6, <1>9

LEMMA PopFromRingStep ==
  ASSUME IInv, PopFromRing
  PROVE  IInv' /\ Contents # <<>> /\ taken' = Head(Contents) /\ Contents' = Tail(Contents)
<1>1. /\ length > 0 /\ taken' = ring[begin + 1]
      /\ begin' = (begin + 1) % capacity /\ length' = length - 1
      /\ capacity' = IF overflowLength = 0 THEN Len(ring) ELSE capacity
      /\ UNCHANGED <<ring, ringCount, end, overflowLength>>
  BY DEF PopFromRing, Front, NextCapacity
<1>2. /\ capacity \in Nat \ {0} /\ begin \in 0 .. capacity - 1 /\ length \in 0 .. capacity
      /\ end \in 0 .. capacity - 1 /\ ring \in Seq(Messages \cup {Nothing})
      /\ capacity <= Len(ring) /\ Len(ring) \in Nat
      /\ overflow \in Seq(Messages) /\ overflowBegin \in Nat /\ overflowLength \in Nat
      /\ ringCount \in Nat /\ overflowBegin + overflowLength = Len(overflow)
  BY DEF IInv, TypeOK, IndicesAgree
<1>3. capacity' = capacity
  BY <1>1 DEF IInv
<1>4. begin' = (IF begin + 1 < capacity THEN begin + 1 ELSE 0) /\ begin' \in 0 .. capacity - 1
  <2>1. /\ (begin + 1) % capacity = IF begin + 1 < capacity THEN begin + 1 ELSE begin + 1 - capacity
        /\ (begin + 1) % capacity \in 0 .. capacity - 1
    BY <1>1, <1>2, Wrap
  <2>. QED
    BY <1>1, <1>2, <2>1
<1>5. ASSUME NEW i \in 0 .. length - 1
      PROVE  (begin' + i) % capacity = (begin + i + 1) % capacity
  <2>1. i \in 0 .. capacity /\ i + 1 \in 0 .. capacity /\ begin + (i + 1) = begin + i + 1
    BY <1>2
  <2>2. (begin' + i) % capacity = IF begin' + i < capacity THEN begin' + i ELSE begin' + i - capacity
    BY <1>2, <1>4, <2>1, Wrap
  <2>3. (begin + (i + 1)) % capacity =
          IF begin + (i + 1) < capacity THEN begin + (i + 1) ELSE begin + (i + 1) - capacity
    BY <1>2, <2>1, Wrap
  <2>4. (begin' + i) % capacity = (begin + (i + 1)) % capacity
    BY <1>2, <1>4, <2>1, <2>2, <2>3
  <2>. QED
    BY <2>1, <2>4
<1>6. end' = (begin' + length') % capacity'
  <2>1. length - 1 \in 0 .. length - 1 /\ begin + (length - 1) + 1 = begin + length
    BY <1>1, <1>2
  <2>2. (begin' + (length - 1)) % capacity = (begin + length) % capacity
    BY <1>5, <2>1
  <2>. QED
    BY <1>1, <1>3, <2>2 DEF IInv, IndicesAgree
<1>7. RingContents \in Seq(Messages) /\ Len(RingContents) = length
  BY ContentsType
<1>8. RingContents' = Tail(RingContents)
  <2>1. ASSUME NEW i \in 1 .. length - 1
        PROVE  ring[((begin' + i - 1) % capacity) + 1] = RingContents[i + 1]
    <3>1. i - 1 \in 0 .. length - 1 /\ begin' + i - 1 = begin' + (i - 1) /\ begin + (i - 1) + 1 = begin + i
      BY <1>2, <1>4
    <3>2. (begin' + i - 1) % capacity = (begin + i) % capacity
      BY <1>5, <3>1
    <3>3. RingContents[i + 1] = ring[((begin + i) % capacity) + 1]
      BY <1>2 DEF RingContents
    <3>. QED
      BY <3>2, <3>3
  <2>2. RingContents' = [i \in 1 .. length - 1 |-> RingContents[i + 1]]
    BY <1>1, <1>3, <2>1 DEF RingContents
  <2>3. RingContents # <<>> /\ Tail(RingContents) \in Seq(Messages)
        /\ Len(Tail(RingContents)) = length - 1
        /\ \A i \in 1 .. length - 1 : Tail(RingContents)[i] = RingContents[i + 1]
    BY <1>1, <1>2, <1>7
  <2>4. RingContents' \in Seq(Messages) /\ Len(RingContents') = length - 1
        /\ \A i \in 1 .. length - 1 : RingContents'[i] = RingContents[i + 1]
    <3>1. \A i \in 1 .. length - 1 : RingContents[i + 1] \in Messages
      BY <1>2, <1>7
    <3>2. length - 1 \in Nat
      BY <1>1, <1>2
    <3>. QED
      BY <2>2, <3>1, <3>2
  <2>. QED
    BY <1>2, <2>3, <2>4, SeqEqual
<1>9. Left' = Left /\ overflow' \in Seq(Messages) /\ overflowBegin' \in Nat
      /\ overflowBegin' + overflowLength' = Len(overflow')
  <2>1. CASE overflowLength = 0
    <3>1. overflow' = <<>> /\ overflowBegin' = 0
      BY <2>1 DEF PopFromRing
    <3>2. Left \in Seq(Messages) /\ Len(Left) = 0
      BY <2>1, ContentsType
    <3>3. Left' = <<>>
      BY <3>1 DEF Left
    <3>. QED
      BY <1>1, <2>1, <3>1, <3>2, <3>3
  <2>2. CASE overflowLength # 0
    BY <1>1, <1>2, <2>2 DEF PopFromRing, Left
  <2>. QED
    BY <2>1, <2>2
<1>10. RingContents[1] = ring[begin + 1] /\ RingContents[1] \in Messages
  <2>1. 1 \in 1 .. length
    BY <1>1, <1>2
  <2>2. RingContents[1] = ring[((begin + 1 - 1) % capacity) + 1]
    BY <2>1 DEF RingContents
  <2>3. (begin + 1 - 1) % capacity = begin
    BY <1>2, <2>1, Position
  <2>. QED
    BY <2>1, <2>2, <2>3 DEF IInv
<1>11. IInv'
  <2>1. TypeOK'
    BY <1>1, <1>2, <1>3, <1>4, <1>9, <1>10 DEF IInv, TypeOK
  <2>2. IndicesAgree'
    BY <1>6, <1>9 DEF IndicesAgree
  <2>3. \A i \in 1 .. length' : RingContents'[i] \in Messages
    BY <1>1, <1>2, <1>7, <1>8
  <2>. QED
    BY <1>1, <1>3, <2>1, <2>2, <2>3 DEF IInv
<1>12. Contents = RingContents \o Left /\ Contents' = RingContents' \o Left'
  BY DEF Contents, Left
<1>13. /\ RingContents # <<>> /\ Left \in Seq(Messages)
       /\ Head(RingContents) = RingContents[1]
  BY <1>1, <1>2, <1>7, ContentsType
<1>14. /\ Contents # <<>> /\ Head(Contents) = Head(RingContents)
       /\ Tail(Contents) = Tail(RingContents) \o Left
  BY <1>7, <1>12, <1>13, TailOfConcat
<1>. QED
  BY <1>1, <1>8, <1>9, <1>10, <1>11, <1>12, <1>13, <1>14

LEMMA PopFromOverflowStep ==
  ASSUME IInv, PopFromOverflow
  PROVE  IInv' /\ Contents # <<>> /\ taken' = Head(Contents) /\ Contents' = Tail(Contents)
<1>1. /\ length = 0 /\ overflowLength > 0 /\ taken' = overflow[overflowBegin + 1]
      /\ overflowLength' = overflowLength - 1
      /\ capacity' = IF overflowLength - 1 = 0 THEN Len(ring) ELSE capacity
      /\ UNCHANGED <<ring, ringCount, begin, end, length>>
  BY DEF PopFromOverflow, Front, NextCapacity
<1>2. /\ capacity \in Nat \ {0} /\ begin \in 0 .. capacity - 1
      /\ end \in 0 .. capacity - 1 /\ ring \in Seq(Messages \cup {Nothing})
      /\ capacity <= Len(ring) /\ Len(ring) \in Nat
      /\ overflow \in Seq(Messages) /\ overflowBegin \in Nat /\ overflowLength \in Nat
      /\ ringCount \in Nat /\ overflowBegin + overflowLength = Len(overflow)
      /\ end = (begin + length) % capacity
  BY DEF IInv, TypeOK, IndicesAgree
<1>3. end = begin /\ end' = (begin' + length') % capacity'
  <2>1. end = begin
    BY <1>1, <1>2, EndPosition
  <2>2. begin \in 0 .. Len(ring) - 1 /\ Len(ring) \in Nat \ {0} /\ begin + 0 = begin
    BY <1>2
  <2>3. 0 \in 0 .. Len(ring) /\ begin + 0 < Len(ring)
    BY <1>2
  <2>4. (begin + 0) % Len(ring) = begin + 0
    BY <2>2, <2>3, Wrap
  <2>. QED
    BY <1>1, <1>2, <2>1, <2>2, <2>4
<1>4. RingContents = <<>> /\ RingContents' = <<>>
  BY <1>1 DEF RingContents
<1>5. /\ Left \in Seq(Messages) /\ Left # <<>> /\ Head(Left) = overflow[overflowBegin + 1]
      /\ Tail(Left) = SubSeq(overflow, overflowBegin + 2, Len(overflow))
      /\ overflow[overflowBegin + 1] \in Messages
  <2>1. overflowBegin < Len(overflow)
    BY <1>1, <1>2
  <2>. QED
    BY SMTT(60), <1>2, <2>1, TailOfSubSeq DEF Left
<1>6. /\ Left' = Tail(Left) /\ overflow' \in Seq(Messages) /\ overflowBegin' \in Nat
      /\ overflowBegin' + overflowLength' = Len(overflow')
  <2>1. CASE overflowLength = 1
    <3>1. overflow' = <<>> /\ overflowBegin' = 0
      BY <2>1 DEF PopFromOverflow
    <3>2. Left' = <<>>
      BY <3>1 DEF Left
    <3>3. Tail(Left) = <<>>
      BY <1>2, <1>5, <2>1
    <3>. QED
      BY <1>1, <2>1, <3>1, <3>2, <3>3
  <2>2. CASE overflowLength # 1
    <3>1. overflow' = overflow /\ overflowBegin' = overflowBegin + 1
      BY <2>2 DEF PopFromOverflow
    <3>2. Left' = SubSeq(overflow, overflowBegin + 2, Len(overflow))
      BY <1>2, <3>1 DEF Left
    <3>3. overflowBegin' \in Nat /\ overflowBegin' + overflowLength' = Len(overflow')
      BY <1>1, <1>2, <3>1
    <3>. QED
      BY <1>2, <1>5, <3>1, <3>2, <3>3
  <2>. QED
    BY <2>1, <2>2
<1>7. IInv'
  <2>1. TypeOK'
    <3>1. overflowLength' \in Nat /\ capacity' \in 1 .. Len(ring)
          /\ begin \in 0 .. capacity' - 1 /\ end \in 0 .. capacity' - 1 /\ length \in 0 .. capacity'
      BY <1>1, <1>2
    <3>. QED
      BY <1>1, <1>2, <1>5, <1>6, <3>1 DEF TypeOK
  <2>2. IndicesAgree'
    BY <1>3, <1>6 DEF IndicesAgree
  <2>. QED
    BY <1>1, <1>2, <2>1, <2>2 DEF IInv
<1>8. Contents = Left /\ Contents' = Left'
  <2>1. Contents = RingContents \o Left /\ Contents' = RingContents' \o Left'
    BY DEF Contents, Left
  <2>2. Left' \in Seq(Messages)
    BY <1>5, <1>6
  <2>. QED
    BY <1>4, <1>5, <2>1, <2>2
<1>. QED
  BY <1>1, <1>5, <1>6, <1>7, <1>8

LEMMA InitIInv == Init => IInv /\ Contents = <<>>
<1> SUFFICES ASSUME Init
             PROVE  IInv /\ Contents = <<>>
  OBVIOUS
<1>1. /\ ring = [i \in 1 .. InitialCapacity |-> Nothing] /\ ringCount = 0
      /\ begin = 0 /\ end = 0 /\ length = 0 /\ capacity = InitialCapacity
      /\ overflow = <<>> /\ overflowBegin = 0 /\ overflowLength = 0 /\ taken = Nothing
  BY DEF Init
<1>2. ring \in Seq(Messages \cup {Nothing}) /\ Len(ring) = InitialCapacity
  BY <1>1, ByteQueueAssumption
<1>3. (begin + length) % capacity = end
  BY <1>1, ByteQueueAssumption, Wrap
<1>4. IInv
  BY <1>1, <1>2, <1>3, ByteQueueAssumption DEF IInv, TypeOK, IndicesAgree
<1>5. Contents = <<>>
  BY <1>1 DEF Contents, RingContents
<1>. QED
  BY <1>4, <1>5

LEMMA NextStep == IInv /\ [Next]_queueVars => IInv' /\ [Queue!Next]_<<Contents, taken>>
<1> SUFFICES ASSUME IInv, [Next]_queueVars
             PROVE  IInv' /\ [Queue!Next]_<<Contents, taken>>
  OBVIOUS
<1>1. ASSUME NEW m \in Messages, PushToRing(m) \/ PushToOverflow(m)
      PROVE  IInv' /\ Queue!Next
  BY <1>1, PushToRingStep, PushToOverflowStep DEF Queue!Next, Queue!Push
<1>2. CASE PopFromRing \/ PopFromOverflow
  BY <1>2, PopFromRingStep, PopFromOverflowStep DEF Queue!Next, Queue!Pop
<1>3. CASE UNCHANGED queueVars
  BY <1>3 DEF queueVars, IInv, TypeOK, IndicesAgree, RingContents, Contents
<1>. QED
  BY <1>1, <1>2, <1>3 DEF Next

LEMMA Invariance == Spec => []IInv
BY InitIInv, NextStep, PTL DEF Spec

\* The indices always describe the messages held.
THEOREM IndicesStayInAgreement == Spec => []IndicesAgree
<1>1. IInv => IndicesAgree
  BY DEF IInv
<1>. QED
  BY <1>1, Invariance, PTL

\* ByteQueue implements Fifo.
THEOREM ByteQueueIsFifo == Spec => ImplementsFifo
<1>1. Init => Queue!Init
  BY InitIInv DEF Queue!Init, Init
<1>2. IInv /\ [Next]_queueVars => [Queue!Next]_Queue!fifoVars
  BY NextStep DEF Queue!fifoVars
<1>. QED
  BY <1>1, <1>2, Invariance, PTL DEF Spec, ImplementsFifo, Queue!Spec
=============================================================================
