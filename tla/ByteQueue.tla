------------------------------ MODULE ByteQueue ------------------------------
(***************************************************************************)
(* The message queue of a program (src/src/byte_queue.h): a ring and a     *)
(* vector for what the ring has no room for.  While there is overflow the  *)
(* ring's memory grows with it, but its indices keep to the capacity it    *)
(* had; the new capacity is taken up when the overflow has been emptied.   *)
(***************************************************************************)
EXTENDS Naturals, Sequences

CONSTANTS
  Messages,
  Nothing,          \* an element never written
  InitialCapacity,  \* of a ByteVector: 16 in the code
  MaxCapacity,      \* bound: memory of the ring
  MaxOverflow       \* bound: elements of the overflow vector

ASSUME ByteQueueAssumption ==
  /\ Nothing \notin Messages
  /\ InitialCapacity \in Nat \ {0}
  /\ MaxCapacity \in Nat /\ MaxOverflow \in Nat

VARIABLES
  ring,           \* the memory of ring_: ring_.capacity() elements
  ringCount,      \* ring_.size(), which nothing reads but its growth
  begin, end,     \* begin_, end_: positions in the ring, from 0
  length,         \* length_
  capacity,       \* capacity_: what the positions wrap at
  overflow,       \* overflow_
  overflowBegin,  \* overflow_begin_
  overflowLength, \* overflow_length_
  taken           \* the message FlushAll copied from front() before its last pop

queueVars ==
  <<ring, ringCount, begin, end, length, capacity, overflow, overflowBegin,
    overflowLength, taken>>

Empty == length = 0 /\ overflowLength = 0

Front == IF length > 0 THEN ring[begin + 1] ELSE overflow[overflowBegin + 1]

\* ring_.push_back(nullptr): the memory doubles, old elements where they were.
GrownRing ==
  IF ringCount + 1 >= Len(ring)
  THEN ring \o [i \in 1 .. Len(ring) |-> Nothing]
  ELSE ring

\* Mutants: a message goes to the ring as soon as it has room, ahead of the
\* overflow; the new capacity is taken up at any pop.
HasRoomUnordered == length < capacity
NextCapacityAlways(n) == Len(ring)

HasRoom == length < capacity /\ overflowLength = 0

\* capacity_ after a pop that leaves n elements in the overflow.
NextCapacity(n) == IF n = 0 THEN Len(ring) ELSE capacity
-----------------------------------------------------------------------------
Init ==
  /\ ring = [i \in 1 .. InitialCapacity |-> Nothing]
  /\ ringCount = 0
  /\ begin = 0 /\ end = 0 /\ length = 0
  /\ capacity = InitialCapacity
  /\ overflow = <<>> /\ overflowBegin = 0 /\ overflowLength = 0
  /\ taken = Nothing

PushToRing(m) ==
  /\ HasRoom
  /\ ring' = [ring EXCEPT ![end + 1] = m]
  /\ end' = (end + 1) % capacity
  /\ length' = length + 1
  /\ UNCHANGED <<ringCount, begin, capacity, overflow, overflowBegin, overflowLength, taken>>

PushToOverflow(m) ==
  /\ ~HasRoom
  /\ Len(overflow) < MaxOverflow
  /\ Len(GrownRing) <= MaxCapacity
  /\ overflow' = Append(overflow, m)
  /\ overflowLength' = overflowLength + 1
  /\ ring' = GrownRing
  /\ ringCount' = ringCount + 1
  /\ UNCHANGED <<begin, end, length, capacity, overflowBegin, taken>>

\* front() and pop(), as EventRegistry::FlushAll calls them.
PopFromRing ==
  /\ length > 0
  /\ taken' = Front
  /\ begin' = (begin + 1) % capacity
  /\ length' = length - 1
  /\ capacity' = NextCapacity(overflowLength)
  /\ IF overflowLength = 0
     THEN overflow' = <<>> /\ overflowBegin' = 0
     ELSE UNCHANGED <<overflow, overflowBegin>>
  /\ UNCHANGED <<ring, ringCount, end, overflowLength>>

PopFromOverflow ==
  /\ length = 0 /\ overflowLength > 0
  /\ taken' = Front
  /\ overflowLength' = overflowLength - 1
  /\ capacity' = NextCapacity(overflowLength - 1)
  /\ IF overflowLength = 1
     THEN overflow' = <<>> /\ overflowBegin' = 0
     ELSE overflowBegin' = overflowBegin + 1 /\ UNCHANGED overflow
  /\ UNCHANGED <<ring, ringCount, begin, end, length>>

Next ==
  \/ \E m \in Messages : PushToRing(m) \/ PushToOverflow(m)
  \/ PopFromRing \/ PopFromOverflow

Spec == Init /\ [][Next]_queueVars
-----------------------------------------------------------------------------
TypeOK ==
  /\ ring \in Seq(Messages \cup {Nothing})
  /\ capacity \in 1 .. Len(ring)
  /\ begin \in 0 .. capacity - 1 /\ end \in 0 .. capacity - 1
  /\ length \in 0 .. capacity
  /\ overflow \in Seq(Messages)
  /\ overflowBegin \in Nat /\ overflowLength \in Nat /\ ringCount \in Nat
  /\ taken \in Messages \cup {Nothing}

\* The indices agree: length_ elements lie between begin_ and end_, and what is
\* left of the overflow is its tail.
IndicesAgree ==
  /\ end = (begin + length) % capacity
  /\ overflowBegin + overflowLength = Len(overflow)

\* The messages in the queue, first the ring's, then the overflow's.
RingContents == [i \in 1 .. length |-> ring[((begin + i - 1) % capacity) + 1]]
Contents == RingContents \o SubSeq(overflow, overflowBegin + 1, Len(overflow))

Queue == INSTANCE Fifo WITH queue <- Contents

\* Messages come out once and in the order in which they went in, while the
\* ring wraps, fills, overflows, grows under a live overflow and takes up its
\* new capacity.
ImplementsFifo == Queue!Spec
=============================================================================
