------------------------------- MODULE Barrier -------------------------------
(***************************************************************************)
(* The ticket barrier that orders systems of different programs            *)
(* (src/src/barrier.cpp, src/src/barrier.h).                               *)
(*                                                                         *)
(* qb_systemattr_addbarrier makes a ticket of the barrier; a system that   *)
(* holds a ticket locks it before its transform and unlocks it after       *)
(* (SystemImpl::Run).  Ticket k is the k-th one made.  The model has one   *)
(* thread of control per ticket: the system that owns it, run once in each *)
(* frame.  How programs bring systems to their tickets, and what happens   *)
(* when one is skipped, is the subject of module FrameRun, which           *)
(* implements this specification.                                          *)
(***************************************************************************)
EXTENDS Naturals

CONSTANTS
  MaxTickets,  \* bound: the most tickets made of the barrier
  OrderSpan,   \* number of values of Ticket::order_, a uint8_t: 256 in the code
  NoTicket     \* no ticket holds mu_

ASSUME BarrierAssumption ==
  /\ MaxTickets \in Nat \ {0}
  /\ OrderSpan \in Nat \ {0}
  /\ NoTicket \notin Nat

VARIABLES
  queueSize,   \* Barrier::queue_size_, the number of tickets made
  serving,     \* Barrier::serving_
  owner,       \* the ticket whose wait_lock_ owns mu_
  pc           \* where the system that owns each ticket is

vars == <<queueSize, serving, owner, pc>>

Tickets == 0 .. MaxTickets - 1
Made == {k \in Tickets : k < queueSize}

\* "idle": has not reached its ticket in this frame; "want": in lock(), about
\* to take mu_; "asleep": blocked on condition_; "in": owns mu_ and runs its
\* transform; "notify": released mu_, about to notify; "served": returned from
\* unlock() in this frame.
Places == {"idle", "want", "asleep", "in", "notify", "served"}

\* order_ is the uint8_t image of the int queue_size_.
Order(k) == k % OrderSpan

Past(k) == pc[k] \in {"notify", "served"}

\* Plausible slips, used as mutants: an off-by-one in the predicate, a strict
\* comparison in the reset, and notify_one in place of notify_all.
MyTurnOffByOne(k) == serving + 1 >= Order(k)
NextServingStrict == IF serving + 1 > queueSize THEN 0 ELSE serving + 1
WokenOne(p) ==
  [k \in Tickets |->
     IF p[k] = "asleep" /\ \A j \in Tickets : p[j] = "asleep" => j <= k
     THEN "want" ELSE p[k]]

\* The predicate of condition_->wait.
MyTurn(k) == serving >= Order(k)

\* ++serving, then reset once every ticket has been served.
NextServing == IF serving + 1 >= queueSize THEN 0 ELSE serving + 1

Woken(p) == [k \in Tickets |-> IF p[k] = "asleep" THEN "want" ELSE p[k]]
-----------------------------------------------------------------------------
Init ==
  /\ queueSize = 0
  /\ serving = 0
  /\ owner = NoTicket
  /\ pc = [k \in Tickets |-> "idle"]

\* Barrier::MakeTicket.  Systems are created between two frames.
MakeTicket ==
  /\ queueSize < MaxTickets
  /\ \A k \in Made : pc[k] = "idle"
  /\ queueSize' = queueSize + 1
  /\ UNCHANGED <<serving, owner, pc>>

\* SystemImpl::Run of the owner reaches t->lock().
Arrive(k) ==
  /\ pc[k] = "idle"
  /\ pc' = [pc EXCEPT ![k] = "want"]
  /\ UNCHANGED <<queueSize, serving, owner>>

\* lock() takes mu_ and the predicate holds: the ticket keeps mu_ locked.
Enter(k) ==
  /\ pc[k] = "want"
  /\ owner = NoTicket
  /\ MyTurn(k)
  /\ owner' = k
  /\ pc' = [pc EXCEPT ![k] = "in"]
  /\ UNCHANGED <<queueSize, serving>>

\* lock() takes mu_, the predicate fails: wait releases mu_ and blocks.
Sleep(k) ==
  /\ pc[k] = "want"
  /\ owner = NoTicket
  /\ ~MyTurn(k)
  /\ pc' = [pc EXCEPT ![k] = "asleep"]
  /\ UNCHANGED <<queueSize, serving, owner>>

\* A condition variable may wake a waiter for no reason.
SpuriousWakeup(k) ==
  /\ pc[k] = "asleep"
  /\ pc' = [pc EXCEPT ![k] = "want"]
  /\ UNCHANGED <<queueSize, serving, owner>>

\* unlock(), up to wait_lock_.unlock().
Release(k) ==
  /\ pc[k] = "in"
  /\ serving' = NextServing
  /\ owner' = NoTicket
  /\ pc' = [pc EXCEPT ![k] = "notify"]
  /\ UNCHANGED queueSize

\* condition_->notify_all(), after mu_ has been released.
NotifyAll(k) ==
  /\ pc[k] = "notify"
  /\ pc' = Woken([pc EXCEPT ![k] = "served"])
  /\ UNCHANGED <<queueSize, serving, owner>>

\* The frame ends when every program has run its systems, and the next begins.
NextFrame ==
  /\ Made # {}
  /\ \A k \in Made : pc[k] = "served"
  /\ pc' = [k \in Tickets |-> "idle"]
  /\ UNCHANGED <<queueSize, serving, owner>>

Lock(k) == Enter(k) \/ Sleep(k)

Next ==
  \/ MakeTicket
  \/ \E k \in Made :
       \/ Arrive(k) \/ Enter(k) \/ Sleep(k) \/ SpuriousWakeup(k)
       \/ Release(k) \/ NotifyAll(k)
  \/ NextFrame

\* A running thread keeps running; a frame starts every program.  Nothing is
\* assumed of spurious wakeups, nor that tickets are made or frames follow.
Fairness ==
  \A k \in Tickets :
    /\ WF_vars(k \in Made /\ Arrive(k))
    /\ WF_vars(k \in Made /\ Lock(k))
    /\ WF_vars(k \in Made /\ Release(k))
    /\ WF_vars(k \in Made /\ NotifyAll(k))

Spec == Init /\ [][Next]_vars
FairSpec == Spec /\ Fairness
-----------------------------------------------------------------------------
TypeOK ==
  /\ queueSize \in 0 .. MaxTickets
  /\ serving \in 0 .. MaxTickets - 1
  /\ owner \in Tickets \cup {NoTicket}
  /\ pc \in [Tickets -> Places]

\* Systems pass the barrier in the order in which their tickets were made:
\* when one is inside, exactly the earlier ones have been through in this
\* frame.  In particular no two transforms run inside at the same time, and a
\* serving_ left over from the frame before lets nobody in early.  It is what
\* lock() and unlock() are for; it needs order_ not to wrap.
TicketOrder ==
  \A k \in Made : pc[k] = "in" => \A j \in Made : Past(j) <=> j < k

\* serving_ is zero whenever a frame starts: the "barrier is reset every loop"
\* of README.md, obtained by the last unlock() of the frame and nothing else.
FrameReset == (\A k \in Made : pc[k] = "idle") => serving = 0

\* Nobody sleeps through its turn: a ticket asleep on condition_ whose turn
\* has come is about to be notified, although unlock() lets mu_ go before it
\* notifies and lock() tests the predicate before it sleeps.
NoLostWakeup ==
  \A k \in Made :
    pc[k] = "asleep" /\ MyTurn(k) => \E j \in Made : pc[j] = "notify"

\* A system that reaches its ticket gets past it, whatever the order in which
\* the programs arrive and however the waiters are woken.
EveryTicketServed == \A k \in Tickets : (pc[k] = "want") ~> (pc[k] = "served")
=============================================================================
