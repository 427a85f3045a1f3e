---------------------------- MODULE BarrierProofs ----------------------------
(***************************************************************************)
(* TLAPS proofs about Barrier, for every number of tickets that the        *)
(* uint8_t order_ can tell apart.                                          *)
(*                                                                         *)
(* TicketOrder and FrameReset are not inductive: both follow from the      *)
(* relation between serving_ and the set of tickets already through, which *)
(* is what Served says.                                                    *)
(***************************************************************************)
EXTENDS Barrier, TLAPS

\* serving_ counts the tickets that have been through in this frame, and they
\* are the first ones; after the last of them it is zero again.
Served ==
  \/ \A j \in Made : Past(j) <=> j < serving
  \/ serving = 0 /\ \A j \in Made : Past(j)

\* serving_ stays below queue_size_ once a ticket exists.
ServingRange == serving = 0 \/ serving < queueSize

\* A ticket holds mu_ exactly while its system is inside, and a system inside
\* has seen its turn come.
OwnerInside == \A k \in Made : (owner = k <=> pc[k] = "in") /\ (pc[k] = "in" => MyTurn(k))

\* Before the first ticket, and for tickets not yet made, nothing has happened.
UnmadeIdle == \A k \in Tickets \ Made : pc[k] = "idle" /\ owner # k

IInv == TypeOK /\ Served /\ ServingRange /\ OwnerInside /\ UnmadeIdle
-----------------------------------------------------------------------------
\* While order_ does not wrap, a ticket's order is its index.
LEMMA OrderIsIndex ==
  ASSUME MaxTickets <= OrderSpan, NEW k \in Tickets
  PROVE  Order(k) = k
BY BarrierAssumption DEF Order, Tickets

\* The initial state satisfies the inductive invariant.
LEMMA InitIInv == Init => IInv
BY BarrierAssumption
   DEF Init, IInv, TypeOK, Served, ServingRange, OwnerInside, UnmadeIdle,
       Made, Tickets, Places, Past

\* Every step preserves the inductive invariant.
LEMMA NextIInv ==
  ASSUME MaxTickets <= OrderSpan, IInv, [Next]_vars
  PROVE  IInv'
<1> USE BarrierAssumption
<1>0. \A k \in Tickets : Order(k) = k
  BY OrderIsIndex
<1> USE DEF IInv, TypeOK, Made, Tickets, Places
<1>1. CASE MakeTicket
  BY <1>0, <1>1
  DEF MakeTicket, Served, ServingRange, OwnerInside, UnmadeIdle, Past, MyTurn
<1>2. ASSUME NEW k \in Made, Arrive(k) PROVE IInv'
  BY <1>2 DEF Arrive, Served, ServingRange, OwnerInside, UnmadeIdle, Past, MyTurn
<1>3. ASSUME NEW k \in Made, Enter(k) PROVE IInv'
  BY <1>3 DEF Enter, Served, ServingRange, OwnerInside, UnmadeIdle, Past, MyTurn
<1>4. ASSUME NEW k \in Made, Sleep(k) PROVE IInv'
  BY <1>4 DEF Sleep, Served, ServingRange, OwnerInside, UnmadeIdle, Past, MyTurn
<1>5. ASSUME NEW k \in Made, SpuriousWakeup(k) PROVE IInv'
  BY <1>5
  DEF SpuriousWakeup, Served, ServingRange, OwnerInside, UnmadeIdle, Past, MyTurn
<1>6. ASSUME NEW k \in Made, Release(k) PROVE IInv'
  <2> USE <1>6 DEF Release
  <2>1. TypeOK' /\ ServingRange' /\ UnmadeIdle'
    BY DEF NextServing, ServingRange, UnmadeIdle
  <2>2. k = serving
    \* k is inside, so it is not past and its turn has come.
    BY <1>0 DEF Served, OwnerInside, MyTurn, Past
  <2>3. Served'
    \* If k is the last ticket, all are past now and serving_ is reset.
    BY <2>2 DEF NextServing, Served, Past
  <2>4. OwnerInside'
    BY DEF OwnerInside
  <2> QED
    BY <2>1, <2>3, <2>4
<1>7. ASSUME NEW k \in Made, NotifyAll(k) PROVE IInv'
  <2> USE <1>7 DEF NotifyAll, Woken
  <2>1. TypeOK' /\ ServingRange' /\ UnmadeIdle'
    BY DEF ServingRange, UnmadeIdle
  <2>2. \A j \in Made : Past(j)' <=> Past(j)
    BY DEF Past
  <2>3. Served'
    BY <2>2 DEF Served
  <2>4. OwnerInside'
    BY DEF OwnerInside, MyTurn
  <2> QED
    BY <2>1, <2>3, <2>4
<1>8. CASE NextFrame
  BY <1>0, <1>8
  DEF NextFrame, Served, ServingRange, OwnerInside, UnmadeIdle, Past, MyTurn
<1>9. CASE UNCHANGED vars
  BY <1>9 DEF vars, Served, ServingRange, OwnerInside, UnmadeIdle, Past, MyTurn
<1> QED
  BY <1>1, <1>2, <1>3, <1>4, <1>5, <1>6, <1>7, <1>8, <1>9 DEF Next

\* The inductive invariant gives the two properties of the runs.
LEMMA IInvImplies ==
  ASSUME MaxTickets <= OrderSpan, IInv
  PROVE  TicketOrder /\ FrameReset
<1> USE BarrierAssumption
<1>1. \A k \in Tickets : Order(k) = k
  BY OrderIsIndex
<1> USE DEF IInv, TypeOK, Made, Tickets, Places, Served, Past
<1>2. TicketOrder
  \* The ticket inside is the one whose index is serving_.
  BY <1>1 DEF TicketOrder, OwnerInside, MyTurn
<1>3. FrameReset
  BY DEF FrameReset, ServingRange
<1> QED
  BY <1>2, <1>3

\* The inductive invariant holds in every reachable state.
LEMMA Invariance ==
  ASSUME MaxTickets <= OrderSpan
  PROVE  Spec => []IInv
<1>1. IInv /\ [Next]_vars => IInv'
  BY NextIInv
<1> QED
  BY <1>1, InitIInv, PTL DEF Spec

\* Type correctness, for every number of tickets up to OrderSpan.
THEOREM TypeCorrect ==
  ASSUME MaxTickets <= OrderSpan
  PROVE  Spec => []TypeOK
<1>1. IInv => TypeOK
  BY DEF IInv
<1> QED
  BY <1>1, Invariance, PTL

\* Systems pass the barrier one at a time and in ticket order, in every frame
\* and for every number of tickets that a uint8_t order_ can number.
THEOREM OrderedPassage ==
  ASSUME MaxTickets <= OrderSpan
  PROVE  Spec => []TicketOrder
<1>1. IInv => TicketOrder
  BY IInvImplies
<1> QED
  BY <1>1, Invariance, PTL

\* The barrier is reset at the start of every frame.
THEOREM ResetEveryFrame ==
  ASSUME MaxTickets <= OrderSpan
  PROVE  Spec => []FrameReset
<1>1. IInv => FrameReset
  BY IInvImplies
<1> QED
  BY <1>1, Invariance, PTL
-----------------------------------------------------------------------------
\* Wakeups need less than the order: types, and sleepers that own a ticket
\* already made.  This part holds even when order_ wraps.
WakeInv ==
  /\ TypeOK
  /\ serving <= queueSize
  /\ UnmadeIdle
  /\ NoLostWakeup

\* Every step preserves WakeInv.
LEMMA NextWakeInv ==
  ASSUME WakeInv, [Next]_vars
  PROVE  WakeInv'
<1> USE BarrierAssumption
<1> USE DEF WakeInv, TypeOK, Made, Tickets, Places, NoLostWakeup, UnmadeIdle, MyTurn, Order
<1>1. CASE MakeTicket
  BY <1>1 DEF MakeTicket
<1>2. ASSUME NEW k \in Made, Arrive(k) PROVE WakeInv'
  BY <1>2 DEF Arrive
<1>3. ASSUME NEW k \in Made, Enter(k) PROVE WakeInv'
  BY <1>3 DEF Enter
<1>4. ASSUME NEW k \in Made, Sleep(k) PROVE WakeInv'
  BY <1>4 DEF Sleep
<1>5. ASSUME NEW k \in Made, SpuriousWakeup(k) PROVE WakeInv'
  BY <1>5 DEF SpuriousWakeup
<1>6. ASSUME NEW k \in Made, Release(k) PROVE WakeInv'
  BY <1>6 DEF Release, NextServing
<1>7. ASSUME NEW k \in Made, NotifyAll(k) PROVE WakeInv'
  BY <1>7 DEF NotifyAll, Woken
<1>8. CASE NextFrame
  BY <1>8 DEF NextFrame
<1>9. CASE UNCHANGED vars
  BY <1>9 DEF vars
<1> QED
  BY <1>1, <1>2, <1>3, <1>4, <1>5, <1>6, <1>7, <1>8, <1>9 DEF Next

\* No wakeup is lost between unlock() and notify_all(), for any number of
\* tickets and any width of order_.
THEOREM NoWakeupIsLost == Spec => []NoLostWakeup
<1>1. Init => WakeInv
  BY BarrierAssumption
  DEF Init, WakeInv, TypeOK, Made, Tickets, Places, NoLostWakeup, UnmadeIdle
<1>2. WakeInv /\ [Next]_vars => WakeInv'
  BY NextWakeInv
<1>3. WakeInv => NoLostWakeup
  BY DEF WakeInv
<1> QED
  BY <1>1, <1>2, <1>3, PTL DEF Spec
=============================================================================
