----------------------------- MODULE EventsProofs -----------------------------
(***************************************************************************)
(* The events of a program, for any events and systems, any number of      *)
(* messages and any depth of synchronous calls: slots are never shared,    *)
(* every message runs each of its systems once and in order, and the queue *)
(* of messages implements Fifo.                                            *)
(***************************************************************************)
EXTENDS Events, SequenceTheorems, TLAPS

ContentAt(i) == memory[queue[i].event][queue[i].index + 1]

\* Calls of Event::Flush and of SendMessageSync.
Flushes == [event : EventIds, sync : {FALSE}, index : Nat, next : Nat]
SyncCalls == [event : EventIds, sync : {TRUE}, value : Sends, next : Nat]

\* A message of the queue is being handled: the call of Flush is the outermost.
Flushing == stack # <<>> /\ ~stack[1].sync

\* What SlotsPartition says, slot by slot.
SlotsInv ==
  /\ \A i \in 1 .. Len(queue) : queue[i].index < Len(memory[queue[i].event])
  /\ \A e \in EventIds : \A j \in 1 .. Len(freeMem[e]) : freeMem[e][j] < Len(memory[e])
  /\ \A e \in EventIds : \A i, j \in 1 .. Len(freeMem[e]) :
       freeMem[e][i] = freeMem[e][j] => i = j
  /\ \A i, j \in 1 .. Len(queue) : queue[i] = queue[j] => i = j
  /\ \A i \in 1 .. Len(queue) : \A j \in 1 .. Len(freeMem[queue[i].event]) :
       queue[i].index # freeMem[queue[i].event][j]
  /\ \A e \in EventIds : \A n \in 0 .. Len(memory[e]) - 1 :
       \/ \E i \in 1 .. Len(queue) : queue[i] = [event |-> e, index |-> n]
       \/ \E j \in 1 .. Len(freeMem[e]) : freeMem[e][j] = n

\* The messages of the queue were sent with SendMessage, in the order they
\* stand in.
OrderInv ==
  /\ queued \subseteq 1 .. sent
  /\ \A i \in 1 .. Len(queue) : ContentAt(i) \in queued
  /\ \A i, j \in 1 .. Len(queue) : i < j => ContentAt(i) < ContentAt(j)

\* Only the outermost call may be one of Flush, and then of the first message.
StackInv ==
  /\ stack \in Seq(Flushes \cup SyncCalls)
  /\ \A e \in EventIds : \A i, j \in 1 .. Len(handlers[e]) :
       handlers[e][i] = handlers[e][j] => i = j
  /\ \A k \in 1 .. Len(stack) : stack[k].next \in 1 .. Len(handlers[stack[k].event]) + 1
  /\ \A k \in 1 .. Len(stack) : stack[k].sync => stack[k].value \in (1 .. sent) \ queued
  /\ \A k \in 1 .. Len(stack) : ~stack[k].sync =>
       /\ k = 1 /\ at = "flush" /\ queue # <<>>
       /\ stack[k].event = queue[1].event /\ stack[k].index = queue[1].index
  /\ at = "frame" => stack = <<>>
  /\ at = "flush" /\ stack # <<>> => ~stack[1].sync
  /\ \A k, l \in 1 .. Len(stack) :
       stack[k].sync /\ stack[l].sync /\ stack[k].value = stack[l].value => k = l

\* A system is due and has not run just while it is ahead in a call.  What is
\* due of the queued messages is not after any message of the queue.
DueInv ==
  /\ \A x \in due : x[2] \in 1 .. sent
  /\ \A x \in due : x[2] \in queued =>
       \A i \in 1 .. Len(queue) :
         x[2] <= ContentAt(i) /\ (x[2] = ContentAt(i) => Flushing)
  /\ \A i \in 1 .. Len(ran) : ran[i] \in due
  /\ \A x \in due :
       \/ \E i \in 1 .. Len(ran) : ran[i] = x
       \/ \E k \in 1 .. Len(stack) :
            \E j \in stack[k].next .. Len(handlers[stack[k].event]) :
              x = <<handlers[stack[k].event][j], Content(stack[k])>>
  /\ \A k \in 1 .. Len(stack) :
       \A j \in stack[k].next .. Len(handlers[stack[k].event]) :
         LET x == <<handlers[stack[k].event][j], Content(stack[k])>>
         IN  x \in due /\ \A i \in 1 .. Len(ran) : ran[i] # x
  /\ \A i, j \in 1 .. Len(ran) : ran[i] = ran[j] => i = j
  /\ HandledInOrder

EventsInv == TypeOK /\ SlotsInv /\ OrderInv /\ StackInv /\ DueInv
-----------------------------------------------------------------------------
(* Sequences.                                                              *)

LEMMA FrontOfSeq ==
  ASSUME NEW S, NEW s \in Seq(S), s # <<>>
  PROVE  /\ Front(s) \in Seq(S) /\ Len(Front(s)) = Len(s) - 1
         /\ \A i \in 1 .. Len(s) - 1 : Front(s)[i] = s[i]
<1>1. Len(s) - 1 \in Nat /\ \A i \in 1 .. Len(s) - 1 : s[i] \in S
  OBVIOUS
<1>2. PICK k \in Nat : k = Len(s) - 1
  BY <1>1
<1>3. /\ k \in Int /\ 1 \in Int /\ \A i \in 1 .. k : s[i] \in S
  BY <1>1, <1>2
<1>4. Len(SubSeq(s, 1, k)) = IF 1 <= k THEN k - 1 + 1 ELSE 0
  BY ONLY <1>3, SubSeqProperties
<1>5. Len(Front(s)) = Len(s) - 1
  BY <1>1, <1>2, <1>4 DEF Front
<1>6. Front(s) \in Seq(S)
  BY DEF Front
<1>7. \A i \in 1 .. Len(s) - 1 : Front(s)[i] = s[i]
  BY DEF Front
<1>. QED
  BY <1>5, <1>6, <1>7

\* What is erased from a list of distinct elements leaves one.
LEMMA RemovedAt ==
  ASSUME NEW S, NEW s \in Seq(S), NEW n \in 1 .. Len(s),
         \A i, j \in 1 .. Len(s) : s[i] = s[j] => i = j
  PROVE  /\ RemoveAt(s, n) \in Seq(S)
         /\ \A i, j \in 1 .. Len(RemoveAt(s, n)) :
              RemoveAt(s, n)[i] = RemoveAt(s, n)[j] => i = j
<1> DEFINE a == SubSeq(s, 1, n - 1)
           b == SubSeq(s, n + 1, Len(s))
<1>1. PICK m \in Nat, k \in Nat, l \in Nat : m = n - 1 /\ k = n + 1 /\ l = Len(s)
  OBVIOUS
<1>2. /\ \A i \in 1 .. m : s[i] \in S
      /\ \A i \in k .. l : s[i] \in S
      /\ 1 \in Int /\ m \in Int /\ k \in Int /\ l \in Int
  BY <1>1
<1>3. /\ SubSeq(s, 1, m) \in Seq(S)
      /\ Len(SubSeq(s, 1, m)) = IF 1 <= m THEN m - 1 + 1 ELSE 0
      /\ \A i \in 1 .. m - 1 + 1 : SubSeq(s, 1, m)[i] = s[1 + i - 1]
  BY ONLY <1>2, SubSeqProperties
<1>4. /\ SubSeq(s, k, l) \in Seq(S)
      /\ Len(SubSeq(s, k, l)) = IF k <= l THEN l - k + 1 ELSE 0
      /\ \A i \in 1 .. l - k + 1 : SubSeq(s, k, l)[i] = s[k + i - 1]
  BY ONLY <1>2, SubSeqProperties
<1>5. /\ a \in Seq(S) /\ Len(a) = m /\ \A i \in 1 .. m : a[i] = s[i]
  BY <1>1, <1>3
<1>6. /\ b \in Seq(S) /\ Len(b) = l - m - 1 /\ \A i \in 1 .. l - m - 1 : b[i] = s[m + 1 + i]
  BY <1>1, <1>4
<1>. HIDE DEF a, b
<1>7. /\ a \o b \in Seq(S) /\ Len(a \o b) = l - 1
      /\ \A i \in 1 .. l - 1 : (a \o b)[i] = IF i <= m THEN s[i] ELSE s[i + 1]
  <2>1. /\ a \o b \in Seq(S) /\ Len(a \o b) = Len(a) + Len(b)
        /\ \A i \in 1 .. Len(a) + Len(b) : (a \o b)[i] = IF i <= Len(a) THEN a[i] ELSE b[i - Len(a)]
    BY SMTT(60), <1>5, <1>6, ConcatProperties
  <2>2. Len(a) + Len(b) = l - 1 /\ Len(a) = m
    BY <1>1, <1>5, <1>6
  <2>3. ASSUME NEW i \in 1 .. l - 1, i > m
        PROVE  b[i - m] = s[i + 1]
    <3>1. i - m \in 1 .. l - m - 1 /\ m + 1 + (i - m) = i + 1
      BY <1>1, <2>3
    <3>. QED
      BY <1>6, <3>1
  <2>4. ASSUME NEW i \in 1 .. l - 1, i <= m
        PROVE  a[i] = s[i]
    BY <1>5, <2>4
  <2>. QED
    BY <2>1, <2>2, <2>3, <2>4
<1>8. RemoveAt(s, n) = a \o b
  BY DEF RemoveAt, a, b
<1>9. ASSUME NEW i \in 1 .. l - 1, NEW j \in 1 .. l - 1, (a \o b)[i] = (a \o b)[j]
      PROVE  i = j
  <2>1. PICK x \in 1 .. l, y \in 1 .. l :
          /\ x = IF i <= m THEN i ELSE i + 1
          /\ y = IF j <= m THEN j ELSE j + 1
    BY <1>1
  <2>2. s[x] = s[y]
    BY <1>7, <1>9, <2>1
  <2>3. x = y
    BY <1>1, <2>2
  <2>. QED
    BY <1>1, <2>1, <2>3
<1>. QED
  BY <1>1, <1>7, <1>8, <1>9
-----------------------------------------------------------------------------
(* Steps between two flushes.                                              *)

LEMMA InitEventsInv == Init => EventsInv
<1> SUFFICES ASSUME Init
             PROVE  EventsInv
  OBVIOUS
<1>. USE DEF Init
<1>1. TypeOK
  BY EventsAssumption DEF TypeOK, Places
<1>2. SlotsInv /\ OrderInv
  BY DEF SlotsInv, OrderInv
<1>3. StackInv /\ DueInv
  BY DEF StackInv, DueInv, HandledInOrder
<1>. QED
  BY <1>1, <1>2, <1>3 DEF EventsInv

\* Without a call in progress the program may go on to any part of Run.
LEMMA IdleKeeps ==
  ASSUME EventsInv, stack = <<>>, UNCHANGED <<dataVars, stack, runVars>>, at' \in Places,
         handlers' \in [EventIds -> Seq(Systems)],
         \A e \in EventIds : \A i, j \in 1 .. Len(handlers'[e]) :
           handlers'[e][i] = handlers'[e][j] => i = j
  PROVE  EventsInv'
<1>. USE DEF EventsInv, dataVars, runVars
<1>1. TypeOK'
  BY DEF TypeOK
<1>2. SlotsInv' /\ OrderInv'
  BY DEF SlotsInv, OrderInv, ContentAt
<1>3. StackInv'
  BY DEF StackInv
<1>4. DueInv'
  BY DEF DueInv, HandledInOrder, ContentAt, Flushing
<1>. QED
  BY <1>1, <1>2, <1>3, <1>4

LEMMA SubscribeKeeps ==
  ASSUME EventsInv, NEW e \in EventIds, NEW s \in Systems, Subscribe(e, s)
  PROVE  EventsInv'
<1>1. /\ stack = <<>> /\ at' \in Places /\ UNCHANGED <<dataVars, stack, runVars>>
      /\ handlers \in [EventIds -> Seq(Systems)]
      /\ handlers' = [handlers EXCEPT ![e] = Append(handlers[e], s)]
  BY DEF Subscribe, EventsInv, TypeOK
<1>2. \A i \in 1 .. Len(handlers[e]) : handlers[e][i] # s
  BY <1>1 DEF Subscribe, Subscribers, ToSet
<1>3. \A i, j \in 1 .. Len(handlers'[e]) : handlers'[e][i] = handlers'[e][j] => i = j
  BY <1>1, <1>2 DEF EventsInv, StackInv
<1>4. \A f \in EventIds : \A i, j \in 1 .. Len(handlers'[f]) :
        handlers'[f][i] = handlers'[f][j] => i = j
  BY SMTT(60), <1>1, <1>3 DEF EventsInv, StackInv
<1>. QED
  BY <1>1, <1>4, IdleKeeps

LEMMA UnsubscribeKeeps ==
  ASSUME EventsInv, NEW e \in EventIds, NEW s \in Systems, Unsubscribe(e, s)
  PROVE  EventsInv'
<1>1. /\ stack = <<>> /\ at' \in Places /\ UNCHANGED <<dataVars, stack, runVars>>
      /\ handlers \in [EventIds -> Seq(Systems)] /\ handlers[e] \in Seq(Systems)
  BY DEF Unsubscribe, EventsInv, TypeOK
<1>2. PICK n \in DOMAIN handlers[e] : handlers' = [handlers EXCEPT ![e] = RemoveAt(handlers[e], n)]
  BY DEF Unsubscribe
<1>3. \A i, j \in 1 .. Len(handlers[e]) : handlers[e][i] = handlers[e][j] => i = j
  BY DEF EventsInv, StackInv
<1>4. /\ RemoveAt(handlers[e], n) \in Seq(Systems)
      /\ \A i, j \in 1 .. Len(RemoveAt(handlers[e], n)) :
           RemoveAt(handlers[e], n)[i] = RemoveAt(handlers[e], n)[j] => i = j
  <2>1. n \in 1 .. Len(handlers[e])
    BY <1>1
  <2>. QED
    BY <1>1, <1>3, <2>1, RemovedAt
<1>5. /\ handlers' \in [EventIds -> Seq(Systems)]
      /\ \A f \in EventIds : handlers'[f] = IF f = e THEN RemoveAt(handlers[e], n) ELSE handlers[f]
  BY <1>1, <1>2, <1>4
<1>6. \A f \in EventIds : \A i, j \in 1 .. Len(handlers'[f]) :
        handlers'[f][i] = handlers'[f][j] => i = j
  BY <1>4, <1>5 DEF EventsInv, StackInv
<1>. QED
  BY <1>1, <1>5, <1>6, IdleKeeps
-----------------------------------------------------------------------------
(* Sending.                                                                *)

\* AllocMessage: a slot n that no message of the queue has, and what becomes of
\* the others.
SentTo(e, n) ==
  /\ sent' = sent + 1 /\ sent' \in Sends /\ n \in Nat
  /\ queue' = Append(queue, [event |-> e, index |-> n])
  /\ \A i \in 1 .. Len(queue) : queue[i] # [event |-> e, index |-> n]
  /\ memory' \in [EventIds -> Seq(Sends)]
  /\ n < Len(memory'[e]) /\ memory'[e][n + 1] = sent'
  /\ \A k \in 0 .. Len(memory'[e]) - 1 : k = n \/ k < Len(memory[e])
  /\ \A f \in EventIds : Len(memory[f]) <= Len(memory'[f])
  /\ \A f \in EventIds : f # e => memory'[f] = memory[f]
  /\ \A k \in 0 .. Len(memory[e]) - 1 : k # n => memory'[e][k + 1] = memory[e][k + 1]
  /\ freeMem' \in [EventIds -> Seq(Nat)]
  /\ \A f \in EventIds : f # e => freeMem'[f] = freeMem[f]
  /\ Len(freeMem'[e]) <= Len(freeMem[e])
  /\ \A j \in 1 .. Len(freeMem'[e]) : freeMem'[e][j] = freeMem[e][j] /\ freeMem[e][j] # n
  /\ \A j \in 1 .. Len(freeMem[e]) : freeMem[e][j] = n \/ j \in 1 .. Len(freeMem'[e])

LEMMA SendShape ==
  ASSUME EventsInv, NEW e \in EventIds, SendMessage(e)
  PROVE  \E n : SentTo(e, n)
<1>. SUFFICES ASSUME NEW n, n = AllocSlot(e)
              PROVE  SentTo(e, n)
  OBVIOUS
<1>1. /\ sent \in 0 .. MaxSends /\ sent < MaxSends /\ sent' = sent + 1 /\ MaxSends \in Nat
      /\ memory \in [EventIds -> Seq(Sends)] /\ freeMem \in [EventIds -> Seq(Nat)]
      /\ queue \in Seq(Messages)
      /\ queue' = Append(queue, [event |-> e, index |-> n])
  BY EventsAssumption DEF SendMessage, EventsInv, TypeOK
<1>2. sent' \in Sends
  BY <1>1 DEF Sends
<1>3. CASE freeMem[e] = <<>>
  <2>1. /\ n = Len(memory[e])
        /\ memory' = [memory EXCEPT ![e] = Append(memory[e], sent')]
        /\ freeMem' = [freeMem EXCEPT ![e] = <<>>]
    BY <1>1, <1>3 DEF SendMessage, AllocSlot, PoppedSlots
  <2>2. \A i \in 1 .. Len(queue) : queue[i] # [event |-> e, index |-> n]
    BY <1>1, <2>1 DEF EventsInv, SlotsInv
  <2>3. /\ memory'[e] = Append(memory[e], sent') /\ memory' \in [EventIds -> Seq(Sends)]
        /\ \A f \in EventIds : f # e => memory'[f] = memory[f]
    BY <1>1, <1>2, <2>1
  <2>4. /\ freeMem'[e] = <<>> /\ freeMem' \in [EventIds -> Seq(Nat)]
        /\ \A f \in EventIds : f # e => freeMem'[f] = freeMem[f]
    BY <1>1, <1>3, <2>1
  <2>5. /\ Len(memory'[e]) = n + 1 /\ n \in Nat /\ memory'[e][n + 1] = sent'
        /\ \A k \in 0 .. Len(memory[e]) - 1 : memory'[e][k + 1] = memory[e][k + 1]
    BY <1>1, <1>2, <2>1, <2>3
  <2>6. \A f \in EventIds : Len(memory[f]) <= Len(memory'[f])
    BY <1>1, <2>1, <2>3, <2>5
  <2>7. /\ n < Len(memory'[e])
        /\ \A k \in 0 .. Len(memory'[e]) - 1 : k = n \/ k < Len(memory[e])
    BY <2>1, <2>5
  <2>8. Len(freeMem'[e]) = 0 /\ Len(freeMem[e]) = 0
    BY <1>3, <2>4
  <2>. QED
    BY <1>1, <1>2, <2>2, <2>3, <2>4, <2>5, <2>6, <2>7, <2>8 DEF SentTo
<1>4. CASE freeMem[e] # <<>>
  <2> DEFINE l == Len(freeMem[e])
  <2>1. /\ l \in Nat \ {0} /\ n = freeMem[e][l] /\ freeMem[e] \in Seq(Nat) /\ n \in Nat
        /\ memory' = [memory EXCEPT ![e] = [memory[e] EXCEPT ![n + 1] = sent']]
        /\ freeMem' = [freeMem EXCEPT ![e] = Front(freeMem[e])]
    BY <1>1, <1>4 DEF SendMessage, AllocSlot, PoppedSlots, Last
  <2>. HIDE DEF l
  <2>15. l = Len(freeMem[e]) /\ l \in 1 .. Len(freeMem[e])
    BY <2>1 DEF l
  <2>2. n < Len(memory[e])
    BY <2>1, <2>15 DEF EventsInv, SlotsInv
  <2>3. ASSUME NEW i \in 1 .. Len(queue)
        PROVE  queue[i] # [event |-> e, index |-> n]
    <3>1. \A j \in 1 .. Len(freeMem[queue[i].event]) :
             queue[i].index # freeMem[queue[i].event][j]
      BY DEF EventsInv, SlotsInv
    <3>. QED
      BY SMTT(60), <2>1, <2>15, <3>1
  <2>4. n + 1 \in 1 .. Len(memory[e]) /\ memory[e] \in Seq(Sends)
    BY <1>1, <2>1, <2>2
  <2>5. /\ [memory[e] EXCEPT ![n + 1] = sent'] \in Seq(Sends)
        /\ Len([memory[e] EXCEPT ![n + 1] = sent']) = Len(memory[e])
        /\ \A j \in 1 .. Len(memory[e]) :
             [memory[e] EXCEPT ![n + 1] = sent'][j] = IF j = n + 1 THEN sent' ELSE memory[e][j]
    BY <1>2, <2>4, ExceptSeq
  <2>6. /\ memory'[e] = [memory[e] EXCEPT ![n + 1] = sent'] /\ memory' \in [EventIds -> Seq(Sends)]
        /\ \A f \in EventIds : f # e => memory'[f] = memory[f]
    BY <1>1, <2>1, <2>5
  <2>7. /\ Len(memory'[e]) = Len(memory[e]) /\ memory'[e][n + 1] = sent'
        /\ \A k \in 0 .. Len(memory[e]) - 1 : k # n => memory'[e][k + 1] = memory[e][k + 1]
    BY SMTT(60), <2>1, <2>4, <2>5, <2>6
  <2>8. /\ Front(freeMem[e]) \in Seq(Nat) /\ Len(Front(freeMem[e])) = l - 1
        /\ \A i \in 1 .. l - 1 : Front(freeMem[e])[i] = freeMem[e][i]
    BY <1>4, <2>1, <2>15, FrontOfSeq
  <2>9. /\ freeMem'[e] = Front(freeMem[e]) /\ freeMem' \in [EventIds -> Seq(Nat)]
        /\ \A f \in EventIds : f # e => freeMem'[f] = freeMem[f]
    BY <1>1, <2>1, <2>8
  <2>10. ASSUME NEW j \in 1 .. l - 1
         PROVE  freeMem[e][j] # n
    <3>1. j \in 1 .. Len(freeMem[e]) /\ j # l
      BY <2>1, <2>15
    <3>. QED
      BY <2>1, <2>15, <3>1 DEF EventsInv, SlotsInv
  <2>11. \A f \in EventIds : Len(memory[f]) <= Len(memory'[f])
    <3>1. ASSUME NEW f \in EventIds
          PROVE  Len(memory'[f]) = Len(memory[f]) /\ Len(memory[f]) \in Nat
      <4>1. memory[f] \in Seq(Sends) /\ Len(memory[f]) \in Nat
        BY <1>1
      <4>2. CASE f = e
        BY <2>7, <4>1, <4>2
      <4>3. CASE f # e
        BY <2>6, <4>1, <4>3
      <4>. QED
        BY <4>2, <4>3
    <3>. QED
      BY <3>1
  <2>12. Len(memory[e]) \in Nat
    BY <2>4
  <2>13. /\ Len(freeMem'[e]) = l - 1
         /\ \A j \in 1 .. l - 1 : freeMem'[e][j] = freeMem[e][j]
         /\ \A j \in 1 .. l : freeMem[e][j] = n \/ j \in 1 .. l - 1
    BY <2>1, <2>8, <2>9, <2>15
  <2>14. /\ Len(freeMem'[e]) <= l
         /\ \A j \in 1 .. Len(freeMem'[e]) : freeMem'[e][j] = freeMem[e][j] /\ freeMem[e][j] # n
         /\ \A j \in 1 .. l : freeMem[e][j] = n \/ j \in 1 .. Len(freeMem'[e])
    BY <2>1, <2>10, <2>13
  <2>. QED
    BY SMTT(60), <1>1, <1>2, <2>1, <2>2, <2>3, <2>6, <2>7, <2>9, <2>11, <2>12, <2>14 DEF l, SentTo
<1>. QED
  BY <1>3, <1>4
\* A new message goes to the end, and the others stay what they are.
LEMMA SentContents ==
  ASSUME EventsInv, NEW e \in EventIds, SendMessage(e)
  PROVE  /\ queue' \in Seq(Messages) /\ queue \in Seq(Messages)
         /\ Len(queue') = Len(queue) + 1 /\ Len(queue) \in Nat
         /\ \A i \in 1 .. Len(queue) : queue'[i] = queue[i]
         /\ \A i \in 1 .. Len(queue) : ContentAt(i)' = ContentAt(i)
         /\ ContentAt(Len(queue))' = sent'
<1>1. PICK n : SentTo(e, n)
  BY SendShape
<1>2. /\ n \in Nat /\ queue' = Append(queue, [event |-> e, index |-> n])
      /\ queue \in Seq(Messages) /\ [event |-> e, index |-> n] \in Messages
  BY <1>1 DEF SentTo, EventsInv, TypeOK, Messages
<1>3. /\ queue' \in Seq(Messages) /\ Len(queue') = Len(queue) + 1 /\ Len(queue) \in Nat
      /\ \A i \in 1 .. Len(queue) : queue'[i] = queue[i]
      /\ queue'[Len(queue) + 1] = [event |-> e, index |-> n]
  BY <1>2
<1>4. ContentAt(Len(queue))' = sent'
  <2>1. memory'[e][n + 1] = sent'
    BY <1>1 DEF SentTo
  <2>2. queue'[Len(queue')].event = e /\ queue'[Len(queue')].index = n
    BY <1>3
  <2>. QED
    BY <2>1, <2>2 DEF ContentAt
<1>5. ASSUME NEW i \in 1 .. Len(queue)
      PROVE  ContentAt(i)' = ContentAt(i)
  <2>1. /\ queue[i] \in Messages /\ queue[i] # [event |-> e, index |-> n]
        /\ queue[i].index < Len(memory[queue[i].event])
    BY <1>1, <1>2 DEF SentTo, EventsInv, SlotsInv
  <2>2. CASE queue[i].event # e
    <3>1. queue[i].event \in EventIds /\ queue'[i] = queue[i]
      BY <1>3, <2>1 DEF Messages
    <3>2. memory'[queue[i].event] = memory[queue[i].event]
      BY <1>1, <2>2, <3>1 DEF SentTo
    <3>. QED
      BY <3>1, <3>2 DEF ContentAt
  <2>3. CASE queue[i].event = e
    <3>1. queue[i].index \in Nat /\ queue[i].index # n
      BY <2>1, <2>3 DEF Messages
    <3>2. memory[e] \in Seq(Sends)
      BY DEF EventsInv, TypeOK
    <3>3. queue[i].index \in 0 .. Len(memory[e]) - 1
      BY <2>1, <2>3, <3>1, <3>2
    <3>4. memory'[e][queue[i].index + 1] = memory[e][queue[i].index + 1]
      BY <1>1, <3>1, <3>3 DEF SentTo
    <3>. QED
      BY <1>3, <2>3, <3>4 DEF ContentAt
  <2>. QED
    BY <2>2, <2>3
<1>. QED
  BY <1>2, <1>3, <1>4, <1>5

LEMMA SendKeepsSlots ==
  ASSUME EventsInv, NEW e \in EventIds, SendMessage(e)
  PROVE  SlotsInv'
<1>1. PICK n : SentTo(e, n)
  BY SendShape
<1>2. /\ queue' \in Seq(Messages) /\ queue \in Seq(Messages)
      /\ Len(queue') = Len(queue) + 1 /\ Len(queue) \in Nat
      /\ \A i \in 1 .. Len(queue) : queue'[i] = queue[i]
  BY SentContents
<1>3. /\ queue'[Len(queue) + 1] = [event |-> e, index |-> n] /\ n \in Nat
      /\ \A i \in 1 .. Len(queue) : queue[i] # [event |-> e, index |-> n]
  BY <1>1, <1>2 DEF SentTo
<1>4. /\ memory \in [EventIds -> Seq(Sends)] /\ freeMem \in [EventIds -> Seq(Nat)]
      /\ memory' \in [EventIds -> Seq(Sends)] /\ freeMem' \in [EventIds -> Seq(Nat)]
  BY <1>1 DEF SentTo, EventsInv, TypeOK
<1>5. \A f \in EventIds : /\ Len(memory[f]) \in Nat /\ Len(memory'[f]) \in Nat
                          /\ Len(freeMem[f]) \in Nat /\ Len(freeMem'[f]) \in Nat
                          /\ Len(memory[f]) <= Len(memory'[f])
                          /\ \A j \in 1 .. Len(freeMem[f]) : freeMem[f][j] \in Nat
                          /\ \A j \in 1 .. Len(freeMem'[f]) :
                               j \in 1 .. Len(freeMem[f]) /\ freeMem'[f][j] = freeMem[f][j]
  <2>1. ASSUME NEW f \in EventIds
        PROVE  /\ Len(memory[f]) \in Nat /\ Len(memory'[f]) \in Nat
               /\ Len(freeMem[f]) \in Nat /\ Len(freeMem'[f]) \in Nat
               /\ \A j \in 1 .. Len(freeMem[f]) : freeMem[f][j] \in Nat
    BY <1>4
  <2>2. \A f \in EventIds : Len(memory[f]) <= Len(memory'[f])
    BY <1>1 DEF SentTo
  <2>3. /\ \A f \in EventIds : f # e => freeMem'[f] = freeMem[f]
        /\ Len(freeMem'[e]) <= Len(freeMem[e])
        /\ \A j \in 1 .. Len(freeMem'[e]) : freeMem'[e][j] = freeMem[e][j]
    BY <1>1 DEF SentTo
  <2>. QED
    BY <2>1, <2>2, <2>3
<1>6. \A i \in 1 .. Len(queue) : queue[i] \in Messages /\ queue[i].event \in EventIds /\ queue[i].index \in Nat
  <2>1. \A i \in 1 .. Len(queue) : queue[i] \in Messages
    BY <1>2
  <2>. QED
    BY <2>1 DEF Messages
<1>7. \A i \in 1 .. Len(queue') : i \in 1 .. Len(queue) \/ i = Len(queue) + 1
  BY <1>2
<1>8. \A i \in 1 .. Len(queue') : queue'[i].index < Len(memory'[queue'[i].event])
  <2>1. n < Len(memory'[e])
    BY <1>1 DEF SentTo
  <2>2. ASSUME NEW i \in 1 .. Len(queue)
        PROVE  queue'[i].index < Len(memory'[queue'[i].event])
    <3>1. queue[i].index < Len(memory[queue[i].event])
      BY DEF EventsInv, SlotsInv
    <3>. QED
      BY <1>2, <1>5, <1>6, <3>1
  <2>. QED
    BY <1>3, <1>7, <2>1, <2>2
<1>9. \A f \in EventIds : \A j \in 1 .. Len(freeMem'[f]) : freeMem'[f][j] < Len(memory'[f])
  <2>1. ASSUME NEW f \in EventIds, NEW j \in 1 .. Len(freeMem'[f])
        PROVE  freeMem'[f][j] < Len(memory'[f])
    <3>1. /\ j \in 1 .. Len(freeMem[f]) /\ freeMem'[f][j] = freeMem[f][j] /\ freeMem[f][j] \in Nat
          /\ Len(memory[f]) <= Len(memory'[f]) /\ Len(memory[f]) \in Nat /\ Len(memory'[f]) \in Nat
      BY <1>5
    <3>2. freeMem[f][j] < Len(memory[f])
      BY <3>1 DEF EventsInv, SlotsInv
    <3>. QED
      BY <3>1, <3>2
  <2>. QED
    BY <2>1
<1>10. \A f \in EventIds : \A i, j \in 1 .. Len(freeMem'[f]) :
         freeMem'[f][i] = freeMem'[f][j] => i = j
  BY <1>5 DEF EventsInv, SlotsInv
<1>11. \A i, j \in 1 .. Len(queue') : queue'[i] = queue'[j] => i = j
  BY <1>2, <1>3, <1>7 DEF EventsInv, SlotsInv
<1>12. \A i \in 1 .. Len(queue') : \A j \in 1 .. Len(freeMem'[queue'[i].event]) :
         queue'[i].index # freeMem'[queue'[i].event][j]
  <2>1. \A j \in 1 .. Len(freeMem'[e]) : n # freeMem'[e][j]
    BY <1>1 DEF SentTo
  <2>2. ASSUME NEW i \in 1 .. Len(queue)
        PROVE  \A j \in 1 .. Len(freeMem'[queue[i].event]) :
                 queue[i].index # freeMem'[queue[i].event][j]
    <3>1. \A j \in 1 .. Len(freeMem[queue[i].event]) :
             queue[i].index # freeMem[queue[i].event][j]
      BY DEF EventsInv, SlotsInv
    <3>2. queue[i].event \in EventIds
      BY <1>6
    <3>. QED
      BY <1>5, <3>1, <3>2
  <2>. QED
    BY SMTT(60), <1>2, <1>3, <1>7, <2>1, <2>2
<1>13. ASSUME NEW f \in EventIds, NEW k \in 0 .. Len(memory'[f]) - 1
       PROVE  \/ \E i \in 1 .. Len(queue') : queue'[i] = [event |-> f, index |-> k]
              \/ \E j \in 1 .. Len(freeMem'[f]) : freeMem'[f][j] = k
  <2>1. CASE f = e /\ k = n
    <3>1. Len(queue) + 1 \in 1 .. Len(queue')
      BY <1>2
    <3>. QED
      BY <1>3, <2>1, <3>1
  <2>2. CASE ~(f = e /\ k = n)
    <3>1. k \in 0 .. Len(memory[f]) - 1
      <4>1. \A l \in 0 .. Len(memory'[e]) - 1 : l = n \/ l < Len(memory[e])
        BY <1>1 DEF SentTo
      <4>2. \A g \in EventIds : g # e => memory'[g] = memory[g]
        BY <1>1 DEF SentTo
      <4>3. k \in Nat /\ Len(memory[f]) \in Nat
        BY <1>5
      <4>4. k < Len(memory[f])
        BY <1>5, <2>2, <4>1, <4>2
      <4>. QED
        BY <4>3, <4>4
    <3>2. CASE \E i \in 1 .. Len(queue) : queue[i] = [event |-> f, index |-> k]
      BY <1>2, <3>2
    <3>3. CASE \E j \in 1 .. Len(freeMem[f]) : freeMem[f][j] = k
      <4>1. PICK j \in 1 .. Len(freeMem[f]) : freeMem[f][j] = k
        BY <3>3
      <4>2. f = e => freeMem[e][j] # n
        BY <2>2, <4>1
      <4>3. /\ \A i \in 1 .. Len(freeMem[e]) : freeMem[e][i] = n \/ i \in 1 .. Len(freeMem'[e])
            /\ \A g \in EventIds : g # e => freeMem'[g] = freeMem[g]
        BY <1>1 DEF SentTo
      <4>4. j \in 1 .. Len(freeMem'[f])
        BY <4>1, <4>2, <4>3
      <4>. QED
        BY <1>5, <4>1, <4>4
    <3>. QED
      BY <3>1, <3>2, <3>3 DEF EventsInv, SlotsInv
  <2>. QED
    BY <2>1, <2>2
<1>. QED
  BY <1>8, <1>9, <1>10, <1>11, <1>12, <1>13 DEF SlotsInv
LEMMA SendKeepsOrder ==
  ASSUME EventsInv, NEW e \in EventIds, SendMessage(e)
  PROVE  OrderInv'
<1>1. /\ Len(queue') = Len(queue) + 1 /\ Len(queue) \in Nat
      /\ \A i \in 1 .. Len(queue) : ContentAt(i)' = ContentAt(i)
      /\ ContentAt(Len(queue))' = sent'
  BY SentContents
<1>2. /\ sent' = sent + 1 /\ queued' = queued \cup {sent'} /\ sent \in Nat
      /\ queued \subseteq 1 .. sent
      /\ \A i \in 1 .. Len(queue) : ContentAt(i) \in queued
      /\ \A i, j \in 1 .. Len(queue) : i < j => ContentAt(i) < ContentAt(j)
  BY DEF SendMessage, EventsInv, TypeOK, OrderInv
<1>3. PICK l : l = Len(queue')
  OBVIOUS
<1>4. /\ l = Len(queue) + 1 /\ ContentAt(l)' = sent'
      /\ \A i \in 1 .. l : i = l \/ i \in 1 .. Len(queue)
  BY <1>1, <1>3
<1>5. \A i \in 1 .. l : ContentAt(i)' \in queued'
  BY <1>1, <1>2, <1>4
<1>6. ASSUME NEW i \in 1 .. l, NEW j \in 1 .. l, i < j
      PROVE  ContentAt(i)' < ContentAt(j)'
  <2>1. i \in 1 .. Len(queue) /\ ContentAt(i)' = ContentAt(i) /\ ContentAt(i) \in 1 .. sent
    <3>1. i \in 1 .. Len(queue)
      BY <1>1, <1>4, <1>6
    <3>. QED
      BY <1>1, <1>2, <3>1
  <2>2. CASE j = l
    BY <1>2, <1>4, <2>1, <2>2
  <2>3. CASE j \in 1 .. Len(queue)
    BY <1>1, <1>2, <1>6, <2>1, <2>3
  <2>. QED
    BY <1>4, <2>2, <2>3
<1>7. queued' \subseteq 1 .. sent'
  BY <1>2
<1>. QED
  BY <1>3, <1>5, <1>6, <1>7 DEF OrderInv

\* The contents of the calls in progress do not change.
LEMMA SendKeepsCalls ==
  ASSUME EventsInv, NEW e \in EventIds, SendMessage(e)
  PROVE  /\ StackInv'
         /\ \A k \in 1 .. Len(stack) : Content(stack[k])' = Content(stack[k])
<1>1. /\ UNCHANGED <<handlers, at, stack>>
      /\ sent' = sent + 1 /\ queued' = queued \cup {sent'} /\ sent \in Nat
      /\ queued \subseteq 1 .. sent
  BY DEF SendMessage, EventsInv, TypeOK, OrderInv
<1>2. /\ queue' \in Seq(Messages) /\ queue \in Seq(Messages)
      /\ Len(queue') = Len(queue) + 1 /\ Len(queue) \in Nat
      /\ \A i \in 1 .. Len(queue) : queue'[i] = queue[i]
      /\ \A i \in 1 .. Len(queue) : ContentAt(i)' = ContentAt(i)
  BY SentContents
<1>3. queue # <<>> => queue' # <<>> /\ 1 \in 1 .. Len(queue) /\ queue'[1] = queue[1]
  BY <1>2
<1>4. \A k \in 1 .. Len(stack) : stack[k].sync => stack[k].value \in (1 .. sent') \ queued'
  BY <1>1 DEF EventsInv, StackInv
<1>5. StackInv'
  BY <1>1, <1>3, <1>4 DEF EventsInv, StackInv
<1>6. ASSUME NEW k \in 1 .. Len(stack)
      PROVE  Content(stack[k])' = Content(stack[k])
  <2>1. CASE stack[k].sync
    BY <1>1, <2>1 DEF Content
  <2>2. CASE ~stack[k].sync
    <3>1. /\ queue # <<>> /\ stack[k].event = queue[1].event /\ stack[k].index = queue[1].index
      BY <2>2 DEF EventsInv, StackInv
    <3>2. Content(stack[k]) = ContentAt(1)
      BY <2>2, <3>1 DEF Content, ContentAt
    <3>3. Content(stack[k])' = ContentAt(1)'
      BY <1>1, <1>3, <2>2, <3>1 DEF Content, ContentAt
    <3>. QED
      BY <1>2, <1>3, <3>1, <3>2, <3>3
  <2>. QED
    BY <2>1, <2>2
<1>. QED
  BY <1>5, <1>6

LEMMA SendKeeps ==
  ASSUME EventsInv, NEW e \in EventIds, SendMessage(e)
  PROVE  EventsInv'
<1>6. PICK n : SentTo(e, n)
  BY SendShape
<1>1. /\ UNCHANGED <<handlers, at, stack, runVars>>
      /\ sent' = sent + 1 /\ sent' \in Sends /\ queued' = queued \cup {sent'} /\ sent \in Nat
  BY <1>6 DEF SendMessage, EventsInv, TypeOK, SentTo
<1>2. TypeOK'
  <2>1. /\ memory' \in [EventIds -> Seq(Sends)] /\ freeMem' \in [EventIds -> Seq(Nat)]
    BY <1>6 DEF SentTo
  <2>2. queue' \in Seq(Messages)
    BY SentContents
  <2>3. sent' \in 0 .. MaxSends
    BY <1>1 DEF Sends
  <2>. QED
    BY <1>1, <2>1, <2>2, <2>3 DEF EventsInv, TypeOK, runVars
<1>3. /\ Len(queue') = Len(queue) + 1 /\ Len(queue) \in Nat
      /\ \A i \in 1 .. Len(queue) : ContentAt(i)' = ContentAt(i)
      /\ ContentAt(Len(queue))' = sent'
  BY SentContents
<1>4. /\ StackInv'
      /\ \A k \in 1 .. Len(stack) : Content(stack[k])' = Content(stack[k])
  BY SendKeepsCalls
<1>5. DueInv'
  <2>1. \A x \in due : x[2] \in 1 .. sent /\ x[2] \in 1 .. sent' /\ x[2] # sent'
    BY <1>1 DEF EventsInv, DueInv
  <2>2. ASSUME NEW x \in due', x[2] \in queued', NEW i \in 1 .. Len(queue')
        PROVE  x[2] <= ContentAt(i)' /\ (x[2] = ContentAt(i)' => Flushing')
    <3>1. x \in due /\ x[2] \in queued
      BY <1>1, <2>1, <2>2 DEF runVars
    <3>2. CASE i \in 1 .. Len(queue)
      BY <1>1, <1>3, <3>1, <3>2 DEF EventsInv, DueInv, Flushing
    <3>3. CASE i = Len(queue')
      <4>1. ContentAt(i)' = sent'
        BY <1>3, <3>3
      <4>. QED
        BY <1>1, <2>1, <3>1, <4>1
    <3>. QED
      BY <1>3, <3>2, <3>3
  <2>3. UNCHANGED <<due, ran, stack, handlers>>
    BY <1>1 DEF runVars
  <2>4. /\ \A x \in due :
             \/ \E i \in 1 .. Len(ran) : ran[i] = x
             \/ \E k \in 1 .. Len(stack) :
                  \E j \in stack[k].next .. Len(handlers[stack[k].event]) :
                    x = <<handlers[stack[k].event][j], Content(stack[k])'>>
        /\ \A k \in 1 .. Len(stack) :
             \A j \in stack[k].next .. Len(handlers[stack[k].event]) :
               LET x == <<handlers[stack[k].event][j], Content(stack[k])'>>
               IN  x \in due /\ \A i \in 1 .. Len(ran) : ran[i] # x
    <3>1. ASSUME NEW x \in due, ~ \E i \in 1 .. Len(ran) : ran[i] = x
          PROVE  \E k \in 1 .. Len(stack) :
                   \E j \in stack[k].next .. Len(handlers[stack[k].event]) :
                     x = <<handlers[stack[k].event][j], Content(stack[k])'>>
      <4>1. PICK k \in 1 .. Len(stack) :
              \E j \in stack[k].next .. Len(handlers[stack[k].event]) :
                x = <<handlers[stack[k].event][j], Content(stack[k])>>
        BY <3>1 DEF EventsInv, DueInv
      <4>2. Content(stack[k])' = Content(stack[k])
        BY <1>4
      <4>. QED
        BY <4>1, <4>2
    <3>2. ASSUME NEW k \in 1 .. Len(stack),
                 NEW j \in stack[k].next .. Len(handlers[stack[k].event]),
                 NEW x, x = <<handlers[stack[k].event][j], Content(stack[k])'>>
          PROVE  x \in due /\ \A i \in 1 .. Len(ran) : ran[i] # x
      <4>1. Content(stack[k])' = Content(stack[k])
        BY <1>4
      <4>. QED
        BY <3>2, <4>1 DEF EventsInv, DueInv
    <3>. QED
      BY <3>1, <3>2
  <2>5. HandledInOrder'
    <3>1. ASSUME NEW i \in 1 .. Len(ran), ran[i][2] \in queued'
          PROVE  ran[i][2] \in queued
      BY <1>1, <2>1, <3>1 DEF EventsInv, DueInv
    <3>. QED
      BY <2>3, <3>1 DEF HandledInOrder, EventsInv, DueInv
  <2>6. /\ \A x \in due' : x[2] \in 1 .. sent'
        /\ \A i \in 1 .. Len(ran') : ran'[i] \in due'
        /\ \A i, j \in 1 .. Len(ran') : ran'[i] = ran'[j] => i = j
    BY <2>1, <2>3 DEF EventsInv, DueInv
  <2>. QED
    BY SMTT(60), <2>2, <2>3, <2>4, <2>5, <2>6 DEF DueInv
<1>. QED
  BY <1>2, <1>4, <1>5, SendKeepsSlots, SendKeepsOrder DEF EventsInv
\* What the calls in progress hand to their handlers.
LEMMA CallContents ==
  ASSUME EventsInv
  PROVE  /\ Len(stack) \in Nat
         /\ \A k \in 1 .. Len(stack) :
              /\ stack[k] \in Flushes \cup SyncCalls
              /\ stack[k].event \in EventIds /\ stack[k].sync \in BOOLEAN
              /\ stack[k].next \in 1 .. Len(handlers[stack[k].event]) + 1
              /\ Content(stack[k]) \in 1 .. sent
              /\ stack[k].sync => Content(stack[k]) \notin queued
              /\ ~stack[k].sync => /\ k = 1 /\ queue # <<>> /\ 1 \in 1 .. Len(queue)
                                   /\ Content(stack[k]) = ContentAt(1)
                                   /\ Content(stack[k]) \in queued
         /\ \A k, l \in 1 .. Len(stack) : Content(stack[k]) = Content(stack[l]) => k = l
<1>1. stack \in Seq(Flushes \cup SyncCalls) /\ queue \in Seq(Messages) /\ queued \subseteq 1 .. sent
  BY DEF EventsInv, StackInv, TypeOK, OrderInv
<1>2. ASSUME NEW k \in 1 .. Len(stack)
      PROVE  /\ stack[k] \in Flushes \cup SyncCalls
             /\ stack[k].event \in EventIds /\ stack[k].sync \in BOOLEAN
             /\ stack[k].next \in 1 .. Len(handlers[stack[k].event]) + 1
             /\ Content(stack[k]) \in 1 .. sent
             /\ stack[k].sync => Content(stack[k]) \notin queued /\ Content(stack[k]) = stack[k].value
             /\ ~stack[k].sync => /\ k = 1 /\ queue # <<>> /\ 1 \in 1 .. Len(queue)
                                  /\ Content(stack[k]) = ContentAt(1)
                                  /\ Content(stack[k]) \in queued
  <2>1. stack[k] \in Flushes \cup SyncCalls
    BY <1>1
  <2>2. stack[k].event \in EventIds /\ stack[k].sync \in BOOLEAN
    BY <2>1 DEF Flushes, SyncCalls
  <2>3. stack[k].next \in 1 .. Len(handlers[stack[k].event]) + 1
    BY DEF EventsInv, StackInv
  <2>4. CASE stack[k].sync
    <3>1. Content(stack[k]) = stack[k].value
      BY <2>4 DEF Content
    <3>2. stack[k].value \in (1 .. sent) \ queued
      BY <2>4 DEF EventsInv, StackInv
    <3>. QED
      BY <2>1, <2>2, <2>3, <2>4, <3>1, <3>2
  <2>5. CASE ~stack[k].sync
    <3>1. /\ k = 1 /\ queue # <<>>
          /\ stack[k].event = queue[1].event /\ stack[k].index = queue[1].index
      BY <2>5 DEF EventsInv, StackInv
    <3>2. 1 \in 1 .. Len(queue)
      BY <1>1, <3>1
    <3>3. Content(stack[k]) = ContentAt(1)
      BY <2>5, <3>1 DEF Content, ContentAt
    <3>4. ContentAt(1) \in queued
      BY <3>2 DEF EventsInv, OrderInv
    <3>. QED
      BY <1>1, <2>1, <2>2, <2>3, <2>5, <3>1, <3>2, <3>3, <3>4
  <2>. QED
    BY <2>4, <2>5
<1>3. ASSUME NEW k \in 1 .. Len(stack), NEW l \in 1 .. Len(stack),
             Content(stack[k]) = Content(stack[l])
      PROVE  k = l
  <2>1. CASE stack[k].sync /\ stack[l].sync
    <3>1. stack[k].value = stack[l].value
      BY <1>2, <1>3, <2>1
    <3>. QED
      BY <2>1, <3>1 DEF EventsInv, StackInv
  <2>2. CASE ~stack[k].sync /\ ~stack[l].sync
    BY <1>2, <2>2
  <2>. QED
    BY <1>2, <1>3, <2>1, <2>2
<1>. QED
  BY <1>1, <1>2, <1>3
-----------------------------------------------------------------------------
(* Calls and handlers.                                                     *)

LEMMA SendSyncKeeps ==
  ASSUME EventsInv, NEW e \in EventIds, SendMessageSync(e)
  PROVE  EventsInv'
<1> DEFINE a == [event |-> e, sync |-> TRUE, value |-> sent', next |-> 1]
<1>1. /\ UNCHANGED <<queue, memory, freeMem, queued, handlers, at, ran, taken>>
      /\ sent' = sent + 1 /\ sent \in Nat /\ sent' \in Sends /\ sent' \in 0 .. MaxSends
      /\ stack' = Append(stack, a) /\ due' = due \cup Due(e, sent')
      /\ InSystem /\ Len(stack) < MaxDepth /\ MaxDepth \in Nat
  BY EventsAssumption DEF SendMessageSync, EventsInv, TypeOK, Sends, FirstHandler
<1>2. stack \in Seq(Flushes \cup SyncCalls) /\ a \in Flushes \cup SyncCalls
  BY <1>1 DEF EventsInv, StackInv, SyncCalls
<1>4. a.event = e /\ a.sync /\ a.value = sent' /\ a.next = 1
  OBVIOUS
<1>. HIDE DEF a
<1>0. PICK n : n = Len(stack) + 1
  OBVIOUS
<1>3. /\ stack' \in Seq(Flushes \cup SyncCalls) /\ Len(stack') = n /\ n \in Nat /\ n > 0
      /\ \A k \in 1 .. Len(stack) : stack'[k] = stack[k]
      /\ stack'[n] = a /\ Len(stack) \in Nat
  BY <1>0, <1>1, <1>2
<1>5. /\ \A k \in 1 .. n : k = n \/ k \in 1 .. Len(stack)
      /\ handlers \in [EventIds -> Seq(Systems)] /\ handlers[e] \in Seq(Systems)
      /\ queued \subseteq 1 .. sent
  BY <1>0, <1>3 DEF EventsInv, TypeOK, OrderInv
<1>6. /\ \A k \in 1 .. Len(stack) : Content(stack[k]) \in 1 .. sent
      /\ \A k \in 1 .. Len(stack) : Content(stack[k])' = Content(stack[k])
      /\ Content(stack[n])' = sent'
  <2>1. \A k \in 1 .. Len(stack) : Content(stack[k]) \in 1 .. sent
    BY CallContents
  <2>2. ASSUME NEW k \in 1 .. Len(stack)
        PROVE  Content(stack[k])' = Content(stack[k])
    BY <1>1, <1>3 DEF Content
  <2>3. Content(stack[n])' = sent'
    BY <1>3, <1>4 DEF Content
  <2>. QED
    BY <2>1, <2>2, <2>3
<1>7. TypeOK'
  <2>1. Due(e, sent') \subseteq Systems \X Sends
    BY <1>1, <1>5 DEF Due, Subscribers, ToSet
  <2>2. Len(stack') <= MaxDepth
    BY <1>0, <1>1, <1>3
  <2>. QED
    BY <1>1, <2>1, <2>2 DEF EventsInv, TypeOK
<1>8. SlotsInv' /\ OrderInv'
  BY SMTT(60), <1>1 DEF EventsInv, SlotsInv, OrderInv, ContentAt
<1>9. StackInv'
  <2>1. at = "flush" => stack # <<>> /\ 1 \in 1 .. Len(stack) /\ ~stack[1].sync
    <3>1. at = "flush" => stack # <<>>
      BY <1>1 DEF InSystem
    <3>. QED
      BY <1>3, <3>1 DEF EventsInv, StackInv
  <2>2. at # "frame"
    <3>1. at = "frame" => stack = <<>>
      BY DEF EventsInv, StackInv
    <3>. QED
      BY <1>1, <3>1 DEF InSystem
  <2>3. \A k \in 1 .. n : stack'[k].next \in 1 .. Len(handlers[stack'[k].event]) + 1
    <3>1. 1 \in 1 .. Len(handlers[e]) + 1
      BY <1>5
    <3>. QED
      BY ZenonT(60), <1>3, <1>4, <1>5, <3>1 DEF EventsInv, StackInv
  <2>4. \A k \in 1 .. n : stack'[k].sync => stack'[k].value \in (1 .. sent') \ queued
    <3>1. sent' \in (1 .. sent') \ queued
      BY <1>1, <1>5
    <3>2. ASSUME NEW k \in 1 .. Len(stack), stack[k].sync
          PROVE  stack[k].value \in (1 .. sent') \ queued
      BY <1>1, <3>2 DEF EventsInv, StackInv
    <3>. QED
      BY <1>3, <1>4, <1>5, <3>1, <3>2
  <2>5. \A k \in 1 .. n : ~stack'[k].sync =>
          /\ k = 1 /\ at = "flush" /\ queue # <<>>
          /\ stack'[k].event = queue[1].event /\ stack'[k].index = queue[1].index
    <3>1. ASSUME NEW k \in 1 .. Len(stack), ~stack[k].sync
          PROVE  /\ k = 1 /\ at = "flush" /\ queue # <<>>
                 /\ stack[k].event = queue[1].event /\ stack[k].index = queue[1].index
      BY <3>1 DEF EventsInv, StackInv
    <3>. QED
      BY <1>3, <1>4, <1>5, <3>1
  <2>6. ASSUME NEW k \in 1 .. n, NEW l \in 1 .. n, stack'[k].sync, stack'[l].sync,
               stack'[k].value = stack'[l].value
        PROVE  k = l
    <3>1. \A m \in 1 .. Len(stack) : stack[m].sync => stack[m].value # sent'
      BY <1>1 DEF EventsInv, StackInv
    <3>2. \A i, j \in 1 .. Len(stack) :
            stack[i].sync /\ stack[j].sync /\ stack[i].value = stack[j].value => i = j
      BY DEF EventsInv, StackInv
    <3>3. stack'[n].value = sent' /\ n \in Nat
      BY <1>3, <1>4
    <3>4. CASE k = n /\ l # n
      BY <1>3, <1>5, <2>6, <3>1, <3>3, <3>4
    <3>5. CASE k # n /\ l = n
      BY <1>3, <1>5, <2>6, <3>1, <3>3, <3>5
    <3>6. CASE k # n /\ l # n
      <4>1. k \in 1 .. Len(stack) /\ l \in 1 .. Len(stack)
        BY <1>5, <3>6
      <4>2. stack'[k] = stack[k] /\ stack'[l] = stack[l]
        BY <1>3, <4>1
      <4>. QED
        BY <2>6, <3>2, <4>1, <4>2
    <3>. QED
      BY <3>4, <3>5, <3>6
  <2>7. at = "flush" => ~stack'[1].sync
    BY <1>3, <2>1
  <2>. QED
    BY <1>1, <1>3, <2>2, <2>3, <2>4, <2>5, <2>6, <2>7 DEF EventsInv, StackInv
<1>10. DueInv'
  <2>1. \A x \in due : x[2] \in 1 .. sent /\ x[2] # sent' /\ x[2] \in 1 .. sent'
    BY <1>1 DEF EventsInv, DueInv
  <2>2. Due(e, sent') = {<<handlers[e][j], sent'>> : j \in 1 .. Len(handlers[e])}
    BY <1>5 DEF Due, Subscribers, ToSet
  <2>3. \A x \in due' : x[2] \in 1 .. sent'
    BY <1>1, <2>1, <2>2
  <2>4. Flushing => Flushing'
    BY <1>3 DEF Flushing
  <2>5. ASSUME NEW x \in due', x[2] \in queued', NEW i \in 1 .. Len(queue')
        PROVE  x[2] <= ContentAt(i)' /\ (x[2] = ContentAt(i)' => Flushing')
    <3>1. x \in due /\ x[2] \in queued
      BY <1>1, <1>5, <2>2, <2>5
    <3>. QED
      BY <1>1, <2>4, <3>1 DEF EventsInv, DueInv, ContentAt
  <2>6. ASSUME NEW x \in due', ~ \E i \in 1 .. Len(ran) : ran[i] = x
        PROVE  \E k \in 1 .. n :
                 \E j \in stack'[k].next .. Len(handlers[stack'[k].event]) :
                   x = <<handlers[stack'[k].event][j], Content(stack[k])'>>
    <3>1. CASE x \in due
      <4>1. PICK k \in 1 .. Len(stack) :
              \E j \in stack[k].next .. Len(handlers[stack[k].event]) :
                x = <<handlers[stack[k].event][j], Content(stack[k])>>
        BY <2>6, <3>1 DEF EventsInv, DueInv
      <4>2. k \in 1 .. n /\ stack'[k] = stack[k] /\ Content(stack[k])' = Content(stack[k])
        BY <1>0, <1>3, <1>6
      <4>. QED
        BY <4>1, <4>2
    <3>2. CASE x \in Due(e, sent')
      <4>1. PICK j \in 1 .. Len(handlers[e]) : x = <<handlers[e][j], sent'>>
        BY <2>2, <3>2
      <4>2. /\ n \in 1 .. n /\ stack'[n].event = e /\ stack'[n].next = 1
            /\ Content(stack[n])' = sent'
        BY <1>3, <1>4, <1>6
      <4>. QED
        BY <4>1, <4>2
    <3>. QED
      BY <1>1, <3>1, <3>2
  <2>7. ASSUME NEW k \in 1 .. n, NEW j \in stack'[k].next .. Len(handlers[stack'[k].event]),
               NEW x, x = <<handlers[stack'[k].event][j], Content(stack[k])'>>
        PROVE  x \in due' /\ \A i \in 1 .. Len(ran) : ran[i] # x
    <3>1. CASE k \in 1 .. Len(stack)
      <4>1. stack'[k] = stack[k] /\ Content(stack[k])' = Content(stack[k])
        BY <1>3, <1>6, <3>1
      <4>2. x \in due /\ \A i \in 1 .. Len(ran) : ran[i] # x
        BY <2>7, <3>1, <4>1 DEF EventsInv, DueInv
      <4>. QED
        BY <1>1, <4>2
    <3>2. CASE k = n
      <4>1. x = <<handlers[e][j], sent'>> /\ j \in 1 .. Len(handlers[e])
        BY <1>3, <1>4, <1>6, <2>7, <3>2
      <4>2. x \in Due(e, sent')
        BY <2>2, <4>1
      <4>3. \A i \in 1 .. Len(ran) : ran[i] # x
        BY <2>1, <4>1 DEF EventsInv, DueInv
      <4>. QED
        BY <1>1, <4>2, <4>3
    <3>. QED
      BY <1>5, <3>1, <3>2
  <2>10. \A x \in due' :
           \/ \E i \in 1 .. Len(ran') : ran'[i] = x
           \/ \E k \in 1 .. Len(stack') :
                \E j \in stack'[k].next .. Len(handlers'[stack'[k].event]) :
                  x = <<handlers'[stack'[k].event][j], Content(stack[k])'>>
    <3>1. ran' = ran /\ handlers' = handlers /\ Len(stack') = n
      BY <1>1, <1>3
    <3>. QED
      BY <2>6, <3>1
  <2>11. \A k \in 1 .. Len(stack') :
           \A j \in stack'[k].next .. Len(handlers'[stack'[k].event]) :
             LET x == <<handlers'[stack'[k].event][j], Content(stack[k])'>>
             IN  x \in due' /\ \A i \in 1 .. Len(ran') : ran'[i] # x
    <3>1. ran' = ran /\ handlers' = handlers /\ Len(stack') = n
      BY <1>1, <1>3
    <3>. QED
      BY <2>7, <3>1
  <2>8. HandledInOrder'
    BY <1>1 DEF EventsInv, DueInv, HandledInOrder
  <2>9. /\ \A i \in 1 .. Len(ran') : ran'[i] \in due'
        /\ \A i, j \in 1 .. Len(ran') : ran'[i] = ran'[j] => i = j
    BY <1>1 DEF EventsInv, DueInv
  <2>. QED
    BY <2>3, <2>5, <2>8, <2>9, <2>10, <2>11 DEF DueInv
<1>. QED
  BY <1>7, <1>8, <1>9, <1>10 DEF EventsInv
LEMMA TakeKeeps ==
  ASSUME EventsInv, TakeMessage
  PROVE  EventsInv'
<1> DEFINE e == queue[1].event
           a == [event |-> e, sync |-> FALSE, index |-> queue[1].index, next |-> 1]
<1>1. /\ at = "flush" /\ stack = <<>> /\ queue # <<>> /\ queue \in Seq(Messages)
      /\ 1 \in 1 .. Len(queue) /\ queue[1] \in Messages
      /\ UNCHANGED <<queue, memory, freeMem, sent, queued, handlers, at, ran, taken>>
  BY DEF TakeMessage, EventsInv, TypeOK, dataVars
<1>2. e \in EventIds /\ a \in Flushes
  BY <1>1 DEF Messages, Flushes
<1>14. NextMessage = queue[1]
  BY <1>1 DEF NextMessage
<1>3. stack' = <<a>> /\ due' = due \cup Due(e, ContentAt(1))
  BY <1>14 DEF TakeMessage, FirstHandler, ContentAt
<1>4. a.event = e /\ ~a.sync /\ a.index = queue[1].index /\ a.next = 1
  OBVIOUS
<1>5. /\ ContentAt(1) \in queued /\ queued \subseteq 1 .. sent /\ sent \in Nat
      /\ ContentAt(1) \in 1 .. sent /\ ContentAt(1) \in Sends
  <2>1. ContentAt(1) \in queued /\ queued \subseteq 1 .. sent
    BY <1>1 DEF EventsInv, OrderInv
  <2>2. sent \in 0 .. MaxSends /\ MaxSends \in Nat
    BY EventsAssumption DEF EventsInv, TypeOK
  <2>3. ContentAt(1) \in 1 .. sent
    BY <2>1
  <2>4. sent \in Nat /\ sent <= MaxSends
    BY <2>2
  <2>. QED
    BY <2>1, <2>2, <2>3, <2>4 DEF Sends
<1>6. handlers \in [EventIds -> Seq(Systems)] /\ handlers[e] \in Seq(Systems)
  BY <1>2 DEF EventsInv, TypeOK
<1>7. Due(e, ContentAt(1)) = {<<handlers[e][j], ContentAt(1)>> : j \in 1 .. Len(handlers[e])}
  BY <1>6 DEF Due, Subscribers, ToSet
<1>. HIDE DEF a, e
<1>8. /\ stack' \in Seq(Flushes \cup SyncCalls) /\ Len(stack') = 1 /\ stack'[1] = a
      /\ \A k \in 1 .. Len(stack') : k = 1
      /\ stack' # <<>>
  BY <1>2, <1>3
<1>9. Content(stack[1])' = ContentAt(1)
  BY <1>1, <1>4, <1>8 DEF Content, ContentAt, e
<1>10. TypeOK'
  <2>1. Due(e, ContentAt(1)) \subseteq Systems \X Sends
    BY <1>5, <1>6, <1>7
  <2>2. Len(stack') <= MaxDepth
    BY <1>8, EventsAssumption
  <2>. QED
    BY <1>1, <1>3, <2>1, <2>2 DEF EventsInv, TypeOK
<1>11. SlotsInv' /\ OrderInv'
  BY SMTT(60), <1>1 DEF EventsInv, SlotsInv, OrderInv, ContentAt
<1>12. StackInv'
  <2>1. stack'[1].next \in 1 .. Len(handlers[e]) + 1
    BY <1>4, <1>6, <1>8
  <2>. QED
    BY <1>1, <1>4, <1>8, <2>1 DEF EventsInv, StackInv, e
<1>13. DueInv'
  <2>1. \A x \in due' : x[2] \in 1 .. sent'
    <3>1. \A x \in Due(e, ContentAt(1)) : x[2] = ContentAt(1)
      BY <1>7
    <3>2. \A x \in due : x[2] \in 1 .. sent
      BY DEF EventsInv, DueInv
    <3>. QED
      BY <1>1, <1>3, <1>5, <3>1, <3>2
  <2>2. Flushing'
    BY <1>4, <1>8 DEF Flushing
  <2>3. ASSUME NEW x \in due', x[2] \in queued', NEW i \in 1 .. Len(queue')
        PROVE  x[2] <= ContentAt(i)'
    <3>1. ContentAt(i)' = ContentAt(i) /\ i \in 1 .. Len(queue) /\ x[2] \in queued
      BY <1>1, <2>3 DEF ContentAt
    <3>2. CASE x \in due
      BY <3>1, <3>2 DEF EventsInv, DueInv
    <3>3. CASE x \in Due(e, ContentAt(1))
      <4>1. x[2] = ContentAt(1)
        BY <1>7, <3>3
      <4>2. ContentAt(i) \in queued /\ (1 < i => ContentAt(1) < ContentAt(i))
        BY <1>1, <3>1 DEF EventsInv, OrderInv
      <4>3. ContentAt(i) \in Nat /\ ContentAt(1) \in Nat
        <5>1. ContentAt(i) \in 1 .. sent
          BY <1>5, <4>2
        <5>. QED
          BY <1>5, <5>1
      <4>4. i = 1 \/ 1 < i
        BY <3>1
      <4>. QED
        BY <3>1, <4>1, <4>2, <4>3, <4>4
    <3>. QED
      BY <1>3, <3>2, <3>3
  <2>4. ASSUME NEW x \in due', ~ \E i \in 1 .. Len(ran) : ran[i] = x
        PROVE  \E k \in 1 .. 1 :
                 \E j \in stack'[k].next .. Len(handlers[stack'[k].event]) :
                   x = <<handlers[stack'[k].event][j], Content(stack[k])'>>
    <3>1. x \notin due
      BY <1>1, <2>4 DEF EventsInv, DueInv
    <3>2. PICK j \in 1 .. Len(handlers[e]) : x = <<handlers[e][j], ContentAt(1)>>
      BY <1>3, <1>7, <3>1
    <3>. QED
      BY <1>4, <1>8, <1>9, <3>2
  <2>5. ASSUME NEW j \in stack'[1].next .. Len(handlers[stack'[1].event]),
               NEW x, x = <<handlers[stack'[1].event][j], Content(stack[1])'>>
        PROVE  x \in due' /\ \A i \in 1 .. Len(ran) : ran[i] # x
    <3>1. x = <<handlers[e][j], ContentAt(1)>> /\ j \in 1 .. Len(handlers[e])
      BY <1>4, <1>8, <1>9, <2>5
    <3>2. x \in due' /\ x[2] = ContentAt(1)
      BY <1>3, <1>7, <3>1
    <3>3. x \notin due
      BY <1>1, <1>5, <3>2 DEF EventsInv, DueInv, Flushing
    <3>. QED
      BY <3>2, <3>3 DEF EventsInv, DueInv
  <2>6. HandledInOrder'
    BY <1>1 DEF EventsInv, DueInv, HandledInOrder
  <2>7. /\ \A i \in 1 .. Len(ran') : ran'[i] \in due'
        /\ \A i, j \in 1 .. Len(ran') : ran'[i] = ran'[j] => i = j
    BY <1>1, <1>3 DEF EventsInv, DueInv
  <2>8. ran' = ran /\ handlers' = handlers /\ Len(stack') = 1
    BY <1>1, <1>8
  <2>9. \A x \in due' :
          \/ \E i \in 1 .. Len(ran') : ran'[i] = x
          \/ \E k \in 1 .. Len(stack') :
               \E j \in stack'[k].next .. Len(handlers'[stack'[k].event]) :
                 x = <<handlers'[stack'[k].event][j], Content(stack[k])'>>
    BY <2>4, <2>8
  <2>10. \A k \in 1 .. Len(stack') :
           \A j \in stack'[k].next .. Len(handlers'[stack'[k].event]) :
             LET x == <<handlers'[stack'[k].event][j], Content(stack[k])'>>
             IN  x \in due' /\ \A i \in 1 .. Len(ran') : ran'[i] # x
    BY <1>8, <2>5, <2>8
  <2>. QED
    BY <2>1, <2>2, <2>3, <2>6, <2>7, <2>9, <2>10 DEF DueInv
<1>. QED
  BY <1>10, <1>11, <1>12, <1>13 DEF EventsInv

\* The innermost call.
LEMMA TopCall ==
  ASSUME EventsInv, stack # <<>>
  PROVE  /\ Len(stack) \in Nat /\ Len(stack) \in 1 .. Len(stack)
         /\ Top = stack[Len(stack)] /\ Top \in Flushes \cup SyncCalls
         /\ stack \in Seq(Flushes \cup SyncCalls)
         /\ Front(stack) \in Seq(Flushes \cup SyncCalls)
         /\ Len(Front(stack)) = Len(stack) - 1
         /\ \A k \in 1 .. Len(stack) - 1 : Front(stack)[k] = stack[k]
<1>1. stack \in Seq(Flushes \cup SyncCalls)
  BY DEF EventsInv, StackInv
<1>2. Len(stack) \in Nat /\ Len(stack) \in 1 .. Len(stack) /\ Top = stack[Len(stack)]
  BY <1>1 DEF Top, Last
<1>. QED
  BY <1>1, <1>2, FrontOfSeq

LEMMA NextHandler ==
  ASSUME NEW t \in Flushes \cup SyncCalls, NEW b, b = [t EXCEPT !.next = t.next + 1]
  PROVE  /\ b \in Flushes \cup SyncCalls /\ b.event = t.event /\ b.sync = t.sync
         /\ b.next = t.next + 1
         /\ t.sync => b.value = t.value
         /\ ~t.sync => b.index = t.index
         /\ t.event \in EventIds /\ t.next \in Nat /\ t.sync \in BOOLEAN
<1>1. CASE t \in Flushes
  <2>1. /\ t = [event |-> t.event, sync |-> FALSE, index |-> t.index, next |-> t.next]
        /\ t.event \in EventIds /\ t.index \in Nat /\ t.next \in Nat /\ t.sync = FALSE
    BY <1>1 DEF Flushes
  <2>2. b = [event |-> t.event, sync |-> FALSE, index |-> t.index, next |-> t.next + 1]
    BY <2>1
  <2>3. b \in Flushes
    <3>1. t.event \in EventIds /\ t.index \in Nat /\ t.next + 1 \in Nat
      BY <2>1
    <3>. QED
      BY ONLY <2>2, <3>1 DEF Flushes
  <2>4. b.event = t.event /\ b.sync = FALSE /\ b.next = t.next + 1 /\ b.index = t.index
    BY <2>2
  <2>. QED
    BY <2>1, <2>3, <2>4
<1>2. CASE t \in SyncCalls
  <2>1. /\ t = [event |-> t.event, sync |-> TRUE, value |-> t.value, next |-> t.next]
        /\ t.event \in EventIds /\ t.value \in Sends /\ t.next \in Nat /\ t.sync = TRUE
    BY <1>2 DEF SyncCalls
  <2>2. b = [event |-> t.event, sync |-> TRUE, value |-> t.value, next |-> t.next + 1]
    BY <2>1
  <2>3. b \in SyncCalls
    <3>1. t.event \in EventIds /\ t.value \in Sends /\ t.next + 1 \in Nat
      BY <2>1
    <3>. QED
      BY ONLY <2>2, <3>1 DEF SyncCalls
  <2>4. b.event = t.event /\ b.sync = TRUE /\ b.next = t.next + 1 /\ b.value = t.value
    BY <2>2
  <2>. QED
    BY <2>1, <2>3, <2>4
<1>. QED
  BY <1>1, <1>2

LEMMA RunHandlerKeeps ==
  ASSUME EventsInv, RunHandler
  PROVE  EventsInv'
<1>1. PICK n : n = Len(stack)
  OBVIOUS
<1> DEFINE t == stack[n]
           e == t.event
           b == [t EXCEPT !.next = t.next + 1]
           h == <<handlers[e][t.next], Content(t)>>
<1>2. /\ stack # <<>> /\ n \in Nat /\ n \in 1 .. n /\ n \in 1 .. Len(stack) /\ Top = t
      /\ t \in Flushes \cup SyncCalls
      /\ stack \in Seq(Flushes \cup SyncCalls)
      /\ Front(stack) \in Seq(Flushes \cup SyncCalls) /\ Len(Front(stack)) = n - 1
      /\ \A k \in 1 .. n - 1 : Front(stack)[k] = stack[k]
  BY <1>1, TopCall DEF RunHandler
<1>3. /\ t.next <= Len(handlers[e]) /\ ran' = Append(ran, h)
      /\ stack' = Append(Front(stack), b)
      /\ UNCHANGED <<queue, memory, freeMem, sent, queued, handlers, at, due, taken>>
  BY <1>2 DEF RunHandler, WithTop, dataVars
<1>4. /\ b \in Flushes \cup SyncCalls /\ b.event = e /\ b.sync = t.sync /\ b.next = t.next + 1
      /\ t.sync => b.value = t.value
      /\ ~t.sync => b.index = t.index
      /\ e \in EventIds /\ t.next \in Nat /\ t.sync \in BOOLEAN
  BY <1>2, NextHandler
<1>5. /\ Content(t) \in 1 .. sent /\ t.next \in 1 .. Len(handlers[e]) /\ Len(handlers[e]) \in Nat
      /\ handlers \in [EventIds -> Seq(Systems)] /\ handlers[e][t.next] \in Systems
      /\ sent \in 0 .. MaxSends /\ MaxSends \in Nat
  <2>1. t.next \in 1 .. Len(handlers[e]) + 1 /\ Content(t) \in 1 .. sent
    BY <1>2, CallContents
  <2>2. handlers \in [EventIds -> Seq(Systems)] /\ handlers[e] \in Seq(Systems)
    BY <1>4 DEF EventsInv, TypeOK
  <2>3. sent \in 0 .. MaxSends /\ MaxSends \in Nat
    BY EventsAssumption DEF EventsInv, TypeOK
  <2>4. t.next \in 1 .. Len(handlers[e]) /\ Len(handlers[e]) \in Nat
    BY <1>3, <2>1, <2>2
  <2>. QED
    BY <2>1, <2>2, <2>3, <2>4
<1>6. /\ h \in due /\ \A i \in 1 .. Len(ran) : ran[i] # h
  <2>1. t.next \in t.next .. Len(handlers[e])
    BY <1>5
  <2>. QED
    BY <1>1, <1>2, <2>1 DEF EventsInv, DueInv
<1>7. h[1] = handlers[e][t.next] /\ h[2] = Content(t) /\ h \in Systems \X Sends
  BY <1>5 DEF Sends
<1>. HIDE DEF b, h
<1>8. /\ stack' \in Seq(Flushes \cup SyncCalls) /\ Len(stack') = n /\ stack'[n] = b
      /\ \A k \in 1 .. n - 1 : stack'[k] = stack[k]
      /\ \A k \in 1 .. n : k = n \/ k \in 1 .. n - 1
  BY <1>2, <1>3, <1>4
<1>9. /\ ran \in Seq(Systems \X Sends) /\ ran' \in Seq(Systems \X Sends)
      /\ Len(ran') = Len(ran) + 1 /\ Len(ran) \in Nat
      /\ \A i \in 1 .. Len(ran) : ran'[i] = ran[i]
      /\ ran'[Len(ran) + 1] = h
      /\ \A i \in 1 .. Len(ran') : i = Len(ran) + 1 \/ i \in 1 .. Len(ran)
  BY <1>3, <1>7 DEF EventsInv, TypeOK
<1>10. /\ \A k \in 1 .. n : stack'[k].event = stack[k].event /\ stack'[k].sync = stack[k].sync
       /\ \A k \in 1 .. n : stack[k].sync => stack'[k].value = stack[k].value
       /\ \A k \in 1 .. n : ~stack[k].sync => stack'[k].index = stack[k].index
       /\ \A k \in 1 .. n : stack'[k].next = IF k = n THEN stack[k].next + 1 ELSE stack[k].next
  BY <1>2, <1>4, <1>8
<1>11. \A k \in 1 .. n : Content(stack[k])' = Content(stack[k])
  BY <1>3, <1>10 DEF Content
<1>12. TypeOK' /\ SlotsInv' /\ OrderInv'
  <2>1. Len(stack') = Len(stack)
    BY <1>1, <1>8
  <2>2. TypeOK'
    BY <1>3, <1>9, <2>1 DEF EventsInv, TypeOK
  <2>. QED
    BY <1>3, <2>2 DEF EventsInv, SlotsInv, OrderInv, ContentAt
<1>13. StackInv'
  <2>1. \A k \in 1 .. n : stack'[k].next \in 1 .. Len(handlers[stack'[k].event]) + 1
    <3>1. t.next + 1 \in 1 .. Len(handlers[e]) + 1
      BY SMTT(60), <1>5
    <3>2. \A k \in 1 .. n : stack[k].next \in 1 .. Len(handlers[stack[k].event]) + 1
      BY <1>1 DEF EventsInv, StackInv
    <3>3. stack'[n].next = t.next + 1 /\ stack'[n].event = e
      BY <1>4, <1>8
    <3>. QED
      BY SMTT(60), <1>8, <1>10, <3>1, <3>2, <3>3
  <2>2. stack' # <<>> /\ 1 \in 1 .. n
    BY <1>2, <1>8
  <2>3. \A k \in 1 .. n : stack'[k].sync => stack'[k].value \in (1 .. sent) \ queued
    BY <1>1, <1>10 DEF EventsInv, StackInv
  <2>4. \A k \in 1 .. n : ~stack'[k].sync =>
          /\ k = 1 /\ at = "flush" /\ queue # <<>>
          /\ stack'[k].event = queue[1].event /\ stack'[k].index = queue[1].index
    BY <1>1, <1>10 DEF EventsInv, StackInv
  <2>5. \A k, l \in 1 .. n :
          stack'[k].sync /\ stack'[l].sync /\ stack'[k].value = stack'[l].value => k = l
    BY <1>1, <1>10 DEF EventsInv, StackInv
  <2>6. /\ at # "frame"
        /\ at = "flush" => ~stack'[1].sync
    BY <1>2, <1>10, <2>2 DEF EventsInv, StackInv
  <2>. QED
    BY <1>3, <1>8, <2>1, <2>2, <2>3, <2>4, <2>5, <2>6 DEF EventsInv, StackInv
<1>14. DueInv'
  <2>1. Flushing' = Flushing
    <3>1. 1 \in 1 .. n /\ stack' # <<>>
      BY <1>2, <1>8
    <3>. QED
      BY <1>2, <1>10, <3>1 DEF Flushing
  <2>2. /\ \A x \in due' : x[2] \in 1 .. sent'
        /\ \A x \in due' : x[2] \in queued' =>
             \A i \in 1 .. Len(queue') :
               x[2] <= ContentAt(i)' /\ (x[2] = ContentAt(i)' => Flushing')
    BY <1>3, <2>1 DEF EventsInv, DueInv, ContentAt
  <2>3. \A i \in 1 .. Len(ran') : ran'[i] \in due'
    BY <1>3, <1>6, <1>9 DEF EventsInv, DueInv
  <2>4. \A i, j \in 1 .. Len(ran') : ran'[i] = ran'[j] => i = j
    BY <1>6, <1>9 DEF EventsInv, DueInv
  <2>5. ASSUME NEW x \in due, ~ \E i \in 1 .. Len(ran') : ran'[i] = x
        PROVE  \E k \in 1 .. n :
                 \E j \in stack'[k].next .. Len(handlers[stack'[k].event]) :
                   x = <<handlers[stack'[k].event][j], Content(stack[k])'>>
    <3>1. x # h /\ ~ \E i \in 1 .. Len(ran) : ran[i] = x
      <4>1. Len(ran) + 1 \in 1 .. Len(ran') /\ \A i \in 1 .. Len(ran) : i \in 1 .. Len(ran')
        BY <1>9
      <4>. QED
        BY <1>9, <2>5, <4>1
    <3>2. PICK k \in 1 .. n :
            \E j \in stack[k].next .. Len(handlers[stack[k].event]) :
              x = <<handlers[stack[k].event][j], Content(stack[k])>>
      BY <1>1, <3>1 DEF EventsInv, DueInv
    <3>3. PICK j \in stack[k].next .. Len(handlers[stack[k].event]) :
            x = <<handlers[stack[k].event][j], Content(stack[k])>>
      BY <3>2
    <3>4. k = n => j # t.next
      BY <3>1, <3>3 DEF h
    <3>5. stack[k].next \in Nat /\ Len(handlers[stack[k].event]) \in Nat
      <4>1. stack[k].next \in 1 .. Len(handlers[stack[k].event]) + 1 /\ stack[k].event \in EventIds
        BY <1>1, CallContents
      <4>2. handlers[stack[k].event] \in Seq(Systems)
        BY <1>5, <4>1
      <4>. QED
        BY <4>1, <4>2
    <3>6. j \in stack'[k].next .. Len(handlers[stack'[k].event])
      BY <1>10, <3>4, <3>5
    <3>7. x = <<handlers[stack'[k].event][j], Content(stack[k])'>>
      BY <1>10, <1>11, <3>3
    <3>. QED
      BY <3>6, <3>7
  <2>6. ASSUME NEW k \in 1 .. n, NEW j \in stack'[k].next .. Len(handlers[stack'[k].event]),
               NEW x, x = <<handlers[stack'[k].event][j], Content(stack[k])'>>
        PROVE  x \in due /\ \A i \in 1 .. Len(ran') : ran'[i] # x
    <3>1. x = <<handlers[stack[k].event][j], Content(stack[k])>>
      BY <1>10, <1>11, <2>6
    <3>2. stack[k].next \in Nat /\ Len(handlers[stack[k].event]) \in Nat
      <4>1. stack[k].next \in 1 .. Len(handlers[stack[k].event]) + 1 /\ stack[k].event \in EventIds
        BY <1>1, CallContents
      <4>2. handlers[stack[k].event] \in Seq(Systems)
        BY <1>5, <4>1
      <4>. QED
        BY <4>1, <4>2
    <3>3. j \in stack[k].next .. Len(handlers[stack[k].event]) /\ (k = n => j > t.next)
      BY <1>10, <3>2
    <3>4. x \in due /\ \A i \in 1 .. Len(ran) : ran[i] # x
      BY <1>1, <3>1, <3>3 DEF EventsInv, DueInv
    <3>5. x # h
      <4>1. CASE k = n
        <5>1. j \in 1 .. Len(handlers[e]) /\ t.next \in 1 .. Len(handlers[e]) /\ j # t.next
          BY <1>5, <3>3, <4>1
        <5>2. handlers[e][j] # handlers[e][t.next]
          BY <1>4, <5>1 DEF EventsInv, StackInv
        <5>. QED
          BY <1>7, <3>1, <4>1, <5>2
      <4>2. CASE k # n
        <5>1. Content(stack[k]) # Content(t)
          BY <1>1, <1>2, <4>2, CallContents
        <5>. QED
          BY <1>7, <3>1, <5>1
      <4>. QED
        BY <4>1, <4>2
    <3>. QED
      BY <1>9, <3>4, <3>5
  <2>7. HandledInOrder'
    <3>1. ASSUME NEW i \in 1 .. Len(ran), ran[i][1] = h[1], ran[i][2] \in queued, h[2] \in queued
          PROVE  ran[i][2] < h[2]
      <4>1. ~t.sync
        BY <1>1, <1>2, <1>7, <3>1, CallContents
      <4>2. h[2] = ContentAt(1) /\ 1 \in 1 .. Len(queue)
        BY <1>1, <1>2, <1>7, <4>1, CallContents
      <4>3. ran[i] \in due /\ ran[i] # h
        BY <1>6 DEF EventsInv, DueInv
      <4>4. ran[i][2] <= h[2]
        BY <3>1, <4>2, <4>3 DEF EventsInv, DueInv
      <4>5. ran[i] \in Systems \X Sends
        BY <1>9
      <4>6. ran[i][2] # h[2]
        BY <1>7, <3>1, <4>3, <4>5
      <4>7. ran[i][2] \in Nat /\ h[2] \in Nat
        BY <1>7, <4>5 DEF Sends
      <4>. QED
        BY <4>4, <4>6, <4>7
    <3>2. ASSUME NEW i \in 1 .. Len(ran'), NEW j \in 1 .. Len(ran'), i < j,
                 ran'[i][1] = ran'[j][1], ran'[i][2] \in queued, ran'[j][2] \in queued
          PROVE  ran'[i][2] < ran'[j][2]
      <4>1. i \in 1 .. Len(ran) /\ ran'[i] = ran[i]
        BY <1>9, <3>2
      <4>2. CASE j = Len(ran) + 1
        BY <1>9, <3>1, <3>2, <4>1, <4>2
      <4>3. CASE j \in 1 .. Len(ran)
        <5>1. ran'[j] = ran[j]
          BY <1>9, <4>3
        <5>. QED
          BY <3>2, <4>1, <4>3, <5>1 DEF EventsInv, DueInv, HandledInOrder
      <4>. QED
        BY <1>9, <4>2, <4>3
    <3>. QED
      BY <1>3, <3>2 DEF HandledInOrder
  <2>8. handlers' = handlers /\ due' = due /\ Len(stack') = n
    BY <1>3, <1>8
  <2>9. \A x \in due' :
          \/ \E i \in 1 .. Len(ran') : ran'[i] = x
          \/ \E k \in 1 .. Len(stack') :
               \E j \in stack'[k].next .. Len(handlers'[stack'[k].event]) :
                 x = <<handlers'[stack'[k].event][j], Content(stack[k])'>>
    BY <2>5, <2>8
  <2>10. \A k \in 1 .. Len(stack') :
           \A j \in stack'[k].next .. Len(handlers'[stack'[k].event]) :
             LET x == <<handlers'[stack'[k].event][j], Content(stack[k])'>>
             IN  x \in due' /\ \A i \in 1 .. Len(ran') : ran'[i] # x
    BY <2>6, <2>8
  <2>. QED
    BY <2>2, <2>3, <2>4, <2>7, <2>9, <2>10 DEF DueInv
<1>. QED
  BY <1>12, <1>13, <1>14 DEF EventsInv
\* A call whose handlers have all run has nothing ahead of it.
LEMMA NothingAhead ==
  ASSUME EventsInv, HandlersDone, NEW n, n = Len(stack)
  PROVE  /\ \A x \in due :
              \/ \E i \in 1 .. Len(ran) : ran[i] = x
              \/ \E k \in 1 .. n - 1 :
                   \E j \in stack[k].next .. Len(handlers[stack[k].event]) :
                     x = <<handlers[stack[k].event][j], Content(stack[k])>>
         /\ \A k \in 1 .. n - 1 :
              \A j \in stack[k].next .. Len(handlers[stack[k].event]) :
                LET x == <<handlers[stack[k].event][j], Content(stack[k])>>
                IN  x \in due /\ \A i \in 1 .. Len(ran) : ran[i] # x
         /\ n \in Nat /\ n \in 1 .. Len(stack) /\ stack # <<>> /\ Top = stack[n]
         /\ stack[n].next > Len(handlers[stack[n].event])
<1>1. /\ stack # <<>> /\ n \in Nat /\ n \in 1 .. Len(stack) /\ Top = stack[n]
      /\ stack[n].next > Len(handlers[stack[n].event])
  BY TopCall DEF HandlersDone
<1>2. stack[n].next \in Nat /\ Len(handlers[stack[n].event]) \in Nat
  <2>1. stack[n].next \in 1 .. Len(handlers[stack[n].event]) + 1 /\ stack[n].event \in EventIds
    BY <1>1, CallContents
  <2>2. handlers[stack[n].event] \in Seq(Systems)
    BY <2>1 DEF EventsInv, TypeOK
  <2>. QED
    BY <2>1, <2>2
<1>3. stack[n].next .. Len(handlers[stack[n].event]) = {}
  BY <1>1, <1>2
<1>4. ASSUME NEW x \in due, ~ \E i \in 1 .. Len(ran) : ran[i] = x
      PROVE  \E k \in 1 .. n - 1 :
               \E j \in stack[k].next .. Len(handlers[stack[k].event]) :
                 x = <<handlers[stack[k].event][j], Content(stack[k])>>
  <2>1. PICK k \in 1 .. n :
          \E j \in stack[k].next .. Len(handlers[stack[k].event]) :
            x = <<handlers[stack[k].event][j], Content(stack[k])>>
    BY <1>4 DEF EventsInv, DueInv
  <2>2. k # n
    BY <1>3, <2>1
  <2>3. k \in 1 .. n - 1
    BY <1>1, <2>1, <2>2
  <2>. QED
    BY <2>1, <2>3
<1>5. ASSUME NEW k \in 1 .. n - 1
      PROVE  k \in 1 .. Len(stack)
  BY <1>1
<1>. QED
  BY <1>1, <1>4, <1>5 DEF EventsInv, DueInv

LEMMA SyncReturnsKeeps ==
  ASSUME EventsInv, SyncReturns
  PROVE  EventsInv'
<1>1. PICK n : n = Len(stack)
  OBVIOUS
<1>2. /\ n \in Nat /\ n \in 1 .. n /\ stack # <<>> /\ stack[n].sync
      /\ UNCHANGED <<queue, memory, freeMem, sent, queued, handlers, at, due, ran, taken>>
      /\ stack' = Front(stack)
  BY <1>1, NothingAhead DEF SyncReturns, dataVars, runVars
<1>3. /\ stack' \in Seq(Flushes \cup SyncCalls) /\ Len(stack') = n - 1
      /\ \A k \in 1 .. n - 1 : stack'[k] = stack[k]
      /\ \A k \in 1 .. n - 1 : k \in 1 .. Len(stack)
  BY <1>1, <1>2, TopCall
<1>4. stack' # <<>> => 1 \in 1 .. n - 1 /\ stack'[1] = stack[1]
  BY <1>2, <1>3
<1>5. Flushing' = Flushing
  <2>1. CASE n = 1
    BY <1>2, <1>3, <2>1 DEF Flushing
  <2>2. CASE n # 1
    <3>1. 1 \in 1 .. n - 1 /\ stack' # <<>>
      BY <1>2, <1>3, <2>2
    <3>. QED
      BY <1>2, <1>3, <3>1 DEF Flushing
  <2>. QED
    BY <2>1, <2>2
<1>6. TypeOK'
  BY <1>1, <1>2, <1>3, EventsAssumption DEF EventsInv, TypeOK
<1>7. SlotsInv' /\ OrderInv'
  BY <1>2 DEF EventsInv, SlotsInv, OrderInv, ContentAt
<1>8. StackInv'
  <2>1. /\ \A k \in 1 .. n - 1 : stack'[k].next \in 1 .. Len(handlers[stack'[k].event]) + 1
        /\ \A k \in 1 .. n - 1 : stack'[k].sync => stack'[k].value \in (1 .. sent) \ queued
        /\ \A k \in 1 .. n - 1 : ~stack'[k].sync =>
             /\ k = 1 /\ at = "flush" /\ queue # <<>>
             /\ stack'[k].event = queue[1].event /\ stack'[k].index = queue[1].index
        /\ \A k, l \in 1 .. n - 1 :
             stack'[k].sync /\ stack'[l].sync /\ stack'[k].value = stack'[l].value => k = l
    BY <1>3 DEF EventsInv, StackInv
  <2>2. at # "frame" /\ (at = "flush" /\ stack' # <<>> => ~stack'[1].sync)
    BY <1>2, <1>4 DEF EventsInv, StackInv
  <2>. QED
    BY <1>2, <1>3, <2>1, <2>2 DEF EventsInv, StackInv
<1>9. DueInv'
  <2>1. \A k \in 1 .. n - 1 : Content(stack[k])' = Content(stack[k])
    BY <1>2, <1>3 DEF Content
  <2>2. /\ \A x \in due' : x[2] \in 1 .. sent'
        /\ \A x \in due' : x[2] \in queued' =>
             \A i \in 1 .. Len(queue') :
               x[2] <= ContentAt(i)' /\ (x[2] = ContentAt(i)' => Flushing')
        /\ \A i \in 1 .. Len(ran') : ran'[i] \in due'
        /\ \A i, j \in 1 .. Len(ran') : ran'[i] = ran'[j] => i = j
        /\ HandledInOrder'
    BY <1>2, <1>5 DEF EventsInv, DueInv, ContentAt, HandledInOrder
  <2>3. ASSUME NEW x \in due, ~ \E i \in 1 .. Len(ran) : ran[i] = x
        PROVE  \E k \in 1 .. n - 1 :
                 \E j \in stack'[k].next .. Len(handlers[stack'[k].event]) :
                   x = <<handlers[stack'[k].event][j], Content(stack[k])'>>
    <3>1. PICK k \in 1 .. n - 1 :
            \E j \in stack[k].next .. Len(handlers[stack[k].event]) :
              x = <<handlers[stack[k].event][j], Content(stack[k])>>
      BY <1>1, <2>3, NothingAhead DEF SyncReturns
    <3>2. stack'[k] = stack[k] /\ Content(stack[k])' = Content(stack[k])
      BY <1>3, <2>1
    <3>. QED
      BY <3>1, <3>2
  <2>4. ASSUME NEW k \in 1 .. n - 1, NEW j \in stack'[k].next .. Len(handlers[stack'[k].event]),
               NEW x, x = <<handlers[stack'[k].event][j], Content(stack[k])'>>
        PROVE  x \in due /\ \A i \in 1 .. Len(ran) : ran[i] # x
    <3>1. stack'[k] = stack[k] /\ Content(stack[k])' = Content(stack[k])
      BY <1>3, <2>1
    <3>. QED
      BY <1>1, <2>4, <3>1, NothingAhead DEF SyncReturns
  <2>5. handlers' = handlers /\ ran' = ran /\ due' = due /\ Len(stack') = n - 1
    BY <1>2, <1>3
  <2>6. \A x \in due' :
          \/ \E i \in 1 .. Len(ran') : ran'[i] = x
          \/ \E k \in 1 .. Len(stack') :
               \E j \in stack'[k].next .. Len(handlers'[stack'[k].event]) :
                 x = <<handlers'[stack'[k].event][j], Content(stack[k])'>>
    BY <2>3, <2>5
  <2>7. \A k \in 1 .. Len(stack') :
          \A j \in stack'[k].next .. Len(handlers'[stack'[k].event]) :
            LET x == <<handlers'[stack'[k].event][j], Content(stack[k])'>>
            IN  x \in due' /\ \A i \in 1 .. Len(ran') : ran'[i] # x
    BY <2>4, <2>5
  <2>. QED
    BY <2>2, <2>6, <2>7 DEF DueInv
<1>. QED
  BY <1>6, <1>7, <1>8, <1>9 DEF EventsInv

\* The first message goes, and the others move up.
LEMMA PoppedContents ==
  ASSUME EventsInv, FlushReturns, NEW e, NEW x, e = queue[1].event, x = queue[1].index
  PROVE  /\ stack # <<>> /\ Len(stack) = 1 /\ ~stack[1].sync /\ stack' = <<>>
         /\ at = "flush" /\ queue # <<>> /\ e \in EventIds /\ x \in Nat
         /\ queue \in Seq(Messages) /\ queue' \in Seq(Messages)
         /\ Len(queue) \in Nat /\ Len(queue') = Len(queue) - 1 /\ 1 \in 1 .. Len(queue)
         /\ \A i \in 1 .. Len(queue') : i + 1 \in 2 .. Len(queue) /\ queue'[i] = queue[i + 1]
         /\ \A i \in 1 .. Len(queue') : ContentAt(i)' = ContentAt(i + 1)
         /\ freeMem' = [freeMem EXCEPT ![e] = Append(freeMem[e], x)]
         /\ taken' = ContentAt(1) /\ queue' = Tail(queue)
         /\ UNCHANGED <<memory, sent, queued, handlers, at, due, ran>>
<1>1. /\ stack # <<>> /\ Len(stack) \in 1 .. Len(stack) /\ Top = stack[Len(stack)]
      /\ Len(Front(stack)) = Len(stack) - 1 /\ Front(stack) \in Seq(Flushes \cup SyncCalls)
      /\ ~Top.sync
  BY TopCall DEF FlushReturns, HandlersDone
<1>2. /\ Len(stack) = 1 /\ at = "flush" /\ queue # <<>>
      /\ Top.event = e /\ Top.index = x /\ Top = stack[1]
  BY <1>1 DEF EventsInv, StackInv
<1>3. stack' = <<>>
  BY <1>1, <1>2 DEF FlushReturns
<1>4. queue \in Seq(Messages) /\ Len(queue) \in Nat /\ 1 \in 1 .. Len(queue) /\ queue[1] \in Messages
  BY <1>2 DEF EventsInv, TypeOK
<1>5. e \in EventIds /\ x \in Nat
  BY <1>4 DEF Messages
<1>6. /\ UNCHANGED <<memory, sent, queued, handlers, at, due, ran>>
      /\ queue' = Tail(queue) /\ freeMem' = [freeMem EXCEPT ![e] = Append(freeMem[e], x)]
      /\ taken' = ContentAt(1)
  BY <1>1, <1>2 DEF FlushReturns, Content, ContentAt
<1>7. /\ queue' \in Seq(Messages) /\ Len(queue') = Len(queue) - 1
      /\ \A i \in 1 .. Len(queue') : queue'[i] = queue[i + 1]
  BY <1>2, <1>4, <1>6, HeadTailProperties
<1>8. \A i \in 1 .. Len(queue') : i + 1 \in 2 .. Len(queue)
  BY <1>4, <1>7
<1>9. ASSUME NEW i \in 1 .. Len(queue')
      PROVE  ContentAt(i)' = ContentAt(i + 1)
  BY <1>6, <1>7 DEF ContentAt
<1>. QED
  BY <1>1, <1>2, <1>3, <1>4, <1>5, <1>6, <1>7, <1>8, <1>9
LEMMA FlushReturnsKeeps ==
  ASSUME EventsInv, FlushReturns
  PROVE  EventsInv'
<1>1. PICK e, x : e = queue[1].event /\ x = queue[1].index
  OBVIOUS
<1>2. /\ stack # <<>> /\ Len(stack) = 1 /\ stack' = <<>>
      /\ at = "flush" /\ e \in EventIds /\ x \in Nat
      /\ UNCHANGED <<memory, sent, queued, handlers, at, due, ran>>
  BY <1>1, PoppedContents
<1>3. /\ queue \in Seq(Messages) /\ queue' \in Seq(Messages) /\ 1 \in 1 .. Len(queue)
      /\ Len(queue) \in Nat /\ Len(queue') = Len(queue) - 1
      /\ \A i \in 1 .. Len(queue') : i + 1 \in 2 .. Len(queue) /\ queue'[i] = queue[i + 1]
      /\ \A i \in 1 .. Len(queue') : ContentAt(i)' = ContentAt(i + 1)
  BY <1>1, PoppedContents
<1>4. /\ freeMem \in [EventIds -> Seq(Nat)] /\ freeMem[e] \in Seq(Nat)
      /\ freeMem' = [freeMem EXCEPT ![e] = Append(freeMem[e], x)]
      /\ memory \in [EventIds -> Seq(Sends)]
  BY <1>1, <1>2, PoppedContents DEF EventsInv, TypeOK
<1>5. /\ freeMem' \in [EventIds -> Seq(Nat)] /\ Len(freeMem'[e]) = Len(freeMem[e]) + 1
      /\ Len(freeMem[e]) \in Nat
      /\ \A j \in 1 .. Len(freeMem[e]) : freeMem'[e][j] = freeMem[e][j]
      /\ freeMem'[e][Len(freeMem[e]) + 1] = x
      /\ \A f \in EventIds : f # e => freeMem'[f] = freeMem[f]
      /\ \A j \in 1 .. Len(freeMem'[e]) : j = Len(freeMem[e]) + 1 \/ j \in 1 .. Len(freeMem[e])
  BY <1>2, <1>4
<1>6. TypeOK'
  <2>1. taken' \in Sends
    <3>1. taken' = ContentAt(1)
      BY <1>1, PoppedContents
    <3>2. ContentAt(1) \in queued /\ queued \subseteq Sends
      BY <1>3 DEF EventsInv, OrderInv, TypeOK
    <3>. QED
      BY <3>1, <3>2
  <2>2. Len(stack') <= MaxDepth
    <3>1. Len(stack') = 0
      BY <1>2
    <3>. QED
      BY <3>1, EventsAssumption
  <2>. QED
    BY <1>2, <1>3, <1>5, <2>1, <2>2 DEF EventsInv, TypeOK
<1>7. SlotsInv'
  <2>0. x < Len(memory[e]) /\ \A j \in 1 .. Len(freeMem[e]) : x # freeMem[e][j]
    BY <1>1, <1>3 DEF EventsInv, SlotsInv
  <2>1. \A i \in 1 .. Len(queue') : queue'[i].index < Len(memory[queue'[i].event])
    <3>1. ASSUME NEW i \in 1 .. Len(queue')
          PROVE  i + 1 \in 1 .. Len(queue) /\ queue'[i] = queue[i + 1]
      BY <1>3
    <3>. QED
      BY <3>1 DEF EventsInv, SlotsInv
  <2>2. ASSUME NEW f \in EventIds, NEW j \in 1 .. Len(freeMem'[f])
        PROVE  freeMem'[f][j] < Len(memory[f])
    BY <1>5, <2>0 DEF EventsInv, SlotsInv
  <2>3. ASSUME NEW f \in EventIds, NEW i \in 1 .. Len(freeMem'[f]), NEW j \in 1 .. Len(freeMem'[f]),
               freeMem'[f][i] = freeMem'[f][j]
        PROVE  i = j
    <3>1. CASE f # e
      <4>1. freeMem'[f] = freeMem[f]
        BY <1>5, <3>1
      <4>. QED
        BY <2>3, <4>1 DEF EventsInv, SlotsInv
    <3>2. CASE f = e /\ i \in 1 .. Len(freeMem[e]) /\ j \in 1 .. Len(freeMem[e])
      <4>1. freeMem[e][i] = freeMem[e][j]
        BY <1>5, <2>3, <3>2
      <4>. QED
        BY <1>2, <3>2, <4>1 DEF EventsInv, SlotsInv
    <3>3. CASE f = e /\ (i = Len(freeMem[e]) + 1 \/ j = Len(freeMem[e]) + 1)
      BY <1>5, <2>0, <2>3, <3>3
    <3>. QED
      BY <1>5, <3>1, <3>2, <3>3
  <2>4. ASSUME NEW i \in 1 .. Len(queue'), NEW j \in 1 .. Len(queue'), queue'[i] = queue'[j]
        PROVE  i = j
    <3>1. /\ i + 1 \in 1 .. Len(queue) /\ j + 1 \in 1 .. Len(queue)
          /\ queue[i + 1] = queue[j + 1]
      BY <1>3, <2>4
    <3>2. i + 1 = j + 1
      BY <3>1 DEF EventsInv, SlotsInv
    <3>. QED
      BY <3>2
  <2>5. ASSUME NEW i \in 1 .. Len(queue'), NEW j \in 1 .. Len(freeMem'[queue'[i].event])
        PROVE  queue'[i].index # freeMem'[queue'[i].event][j]
    <3>1. /\ i + 1 \in 1 .. Len(queue) /\ queue'[i] = queue[i + 1] /\ queue[i + 1] \in Messages
          /\ i + 1 # 1
      BY <1>3
    <3>2. \A k \in 1 .. Len(freeMem[queue[i + 1].event]) :
            queue[i + 1].index # freeMem[queue[i + 1].event][k]
      BY <3>1 DEF EventsInv, SlotsInv
    <3>3. CASE queue[i + 1].event # e
      <4>1. freeMem'[queue[i + 1].event] = freeMem[queue[i + 1].event]
        BY <1>5, <3>1, <3>3 DEF Messages
      <4>. QED
        BY <3>1, <3>2, <4>1
    <3>4. CASE queue[i + 1].event = e
      <4>1. queue[i + 1] # queue[1]
        BY <1>3, <3>1 DEF EventsInv, SlotsInv
      <4>2. queue[i + 1].index # x
        <5>1. queue[1] \in Messages
          BY <1>3
        <5>. QED
          BY <1>1, <3>1, <3>4, <4>1, <5>1 DEF Messages
      <4>. QED
        <5>1. queue'[i].event = e /\ queue'[i].index = queue[i + 1].index
          BY <3>1, <3>4
        <5>2. j \in 1 .. Len(freeMem'[e])
          BY <5>1
        <5>3. \A k \in 1 .. Len(freeMem[e]) : queue[i + 1].index # freeMem[e][k]
          BY <3>2, <3>4
        <5>4. queue[i + 1].index # freeMem'[e][j]
          BY <1>5, <4>2, <5>2, <5>3
        <5>. QED
          BY <5>1, <5>4
    <3>. QED
      BY <3>3, <3>4
  <2>6. ASSUME NEW f \in EventIds, NEW k \in 0 .. Len(memory[f]) - 1
        PROVE  \/ \E i \in 1 .. Len(queue') : queue'[i] = [event |-> f, index |-> k]
               \/ \E j \in 1 .. Len(freeMem'[f]) : freeMem'[f][j] = k
    <3>1. CASE f = e /\ k = x
      <4>1. Len(freeMem[e]) + 1 \in 1 .. Len(freeMem'[e])
        BY <1>5
      <4>. QED
        BY <1>5, <3>1, <4>1
    <3>2. CASE \E j \in 1 .. Len(freeMem[f]) : freeMem[f][j] = k
      <4>1. \A j \in 1 .. Len(freeMem[f]) : j \in 1 .. Len(freeMem'[f]) /\ freeMem'[f][j] = freeMem[f][j]
        BY <1>5
      <4>. QED
        BY <3>2, <4>1
    <3>3. ASSUME ~(f = e /\ k = x), NEW i \in 1 .. Len(queue), queue[i] = [event |-> f, index |-> k]
          PROVE  \E l \in 1 .. Len(queue') : queue'[l] = [event |-> f, index |-> k]
      <4>1. i # 1
        BY <1>1, <3>3
      <4>2. i - 1 \in 1 .. Len(queue') /\ i - 1 + 1 = i
        BY <1>3, <4>1
      <4>3. queue'[i - 1] = queue[i]
        BY <1>3, <4>2
      <4>. QED
        BY <3>3, <4>2, <4>3
    <3>. QED
      BY <3>1, <3>2, <3>3 DEF EventsInv, SlotsInv
  <2>. QED
    BY <1>2, <2>1, <2>2, <2>3, <2>4, <2>5, <2>6 DEF SlotsInv
<1>8. OrderInv'
  <2>1. \A i \in 1 .. Len(queue') : i + 1 \in 1 .. Len(queue) /\ ContentAt(i)' = ContentAt(i + 1)
    BY <1>3
  <2>2. \A i \in 1 .. Len(queue') : ContentAt(i)' \in queued
    BY <2>1 DEF EventsInv, OrderInv
  <2>3. ASSUME NEW i \in 1 .. Len(queue'), NEW j \in 1 .. Len(queue'), i < j
        PROVE  ContentAt(i)' < ContentAt(j)'
    <3>1. i + 1 < j + 1
      BY <2>3
    <3>2. ContentAt(i + 1) < ContentAt(j + 1)
      BY <2>1, <3>1 DEF EventsInv, OrderInv
    <3>. QED
      BY <2>1, <3>2
  <2>. QED
    BY <1>2, <2>2, <2>3 DEF EventsInv, OrderInv
<1>9. StackInv'
  BY <1>2 DEF EventsInv, StackInv
<1>10. DueInv'
  <2>1. ASSUME NEW y \in due, y[2] \in queued, NEW i \in 1 .. Len(queue')
        PROVE  y[2] < ContentAt(i)'
    <3>1. i + 1 \in 1 .. Len(queue) /\ ContentAt(i)' = ContentAt(i + 1) /\ 1 < i + 1
      BY <1>3
    <3>2. y[2] <= ContentAt(1)
      BY <1>3, <2>1 DEF EventsInv, DueInv
    <3>3. ContentAt(1) < ContentAt(i + 1)
      BY <1>3, <3>1 DEF EventsInv, OrderInv
    <3>4. ContentAt(1) \in 1 .. sent /\ ContentAt(i + 1) \in 1 .. sent /\ y[2] \in 1 .. sent
      BY <1>3, <2>1, <3>1 DEF EventsInv, OrderInv
    <3>. QED
      BY <3>1, <3>2, <3>3, <3>4
  <2>2. ASSUME NEW y \in due, y[2] \in queued, NEW i \in 1 .. Len(queue')
        PROVE  y[2] <= ContentAt(i)' /\ y[2] # ContentAt(i)'
    <3>1. y[2] \in 1 .. sent /\ ContentAt(i)' \in 1 .. sent
      BY <1>2, <1>8, <2>2 DEF EventsInv, OrderInv
    <3>. QED
      BY <2>1, <2>2, <3>1
  <2>3. \A y \in due : \E i \in 1 .. Len(ran) : ran[i] = y
    BY <1>2, NothingAhead DEF FlushReturns
  <2>4. /\ \A y \in due : y[2] \in 1 .. sent
        /\ \A i \in 1 .. Len(ran) : ran[i] \in due
        /\ \A i, j \in 1 .. Len(ran) : ran[i] = ran[j] => i = j
        /\ HandledInOrder'
    BY <1>2 DEF EventsInv, DueInv, HandledInOrder
  <2>5. Len(stack') = 0
    BY <1>2
  <2>. QED
    BY <1>2, <2>2, <2>3, <2>4, <2>5 DEF DueInv
<1>. QED
  BY <1>6, <1>7, <1>8, <1>9, <1>10 DEF EventsInv
-----------------------------------------------------------------------------

LEMMA NextEventsInv == EventsInv /\ [Next]_eventVars => EventsInv'
<1> SUFFICES ASSUME EventsInv, [Next]_eventVars
             PROVE  EventsInv'
  OBVIOUS
<1>1. ASSUME NEW e \in EventIds, NEW s \in Systems, Subscribe(e, s) \/ Unsubscribe(e, s)
      PROVE  EventsInv'
  BY <1>1, SubscribeKeeps, UnsubscribeKeeps
<1>2. ASSUME NEW e \in EventIds, SendMessage(e) \/ SendMessageSync(e)
      PROVE  EventsInv'
  BY <1>2, SendKeeps, SendSyncKeeps
<1>3. CASE RunProgram \/ FlushInSystem \/ FlushDone \/ EndFrame
  <2>1. /\ stack = <<>> /\ UNCHANGED <<dataVars, handlers, stack, runVars>> /\ at' \in Places
    BY <1>3 DEF RunProgram, FlushInSystem, FlushDone, EndFrame, Places, EventsInv, StackInv
  <2>. QED
    BY <2>1, IdleKeeps DEF EventsInv, TypeOK, StackInv
<1>4. CASE TakeMessage \/ RunHandler \/ SyncReturns \/ FlushReturns
  BY <1>4, TakeKeeps, RunHandlerKeeps, SyncReturnsKeeps, FlushReturnsKeeps
<1>5. CASE UNCHANGED eventVars
  <2>1. UNCHANGED <<queue, memory, freeMem, handlers, at, stack, sent, queued, due, ran, taken>>
    BY <1>5 DEF eventVars, dataVars, runVars
  <2>2. TypeOK'
    BY <2>1 DEF EventsInv, TypeOK
  <2>3. SlotsInv' /\ OrderInv'
    BY <2>1 DEF EventsInv, SlotsInv, OrderInv, ContentAt
  <2>4. StackInv'
    BY <2>1 DEF EventsInv, StackInv
  <2>5. \A k \in 1 .. Len(stack) : Content(stack[k])' = Content(stack[k])
    BY <2>1 DEF Content
  <2>6. /\ \A x \in due' : x[2] \in 1 .. sent'
        /\ \A x \in due' : x[2] \in queued' =>
             \A i \in 1 .. Len(queue') :
               x[2] <= ContentAt(i)' /\ (x[2] = ContentAt(i)' => Flushing')
        /\ \A i \in 1 .. Len(ran') : ran'[i] \in due'
        /\ \A i, j \in 1 .. Len(ran') : ran'[i] = ran'[j] => i = j
        /\ HandledInOrder'
    BY <2>1 DEF EventsInv, DueInv, ContentAt, Flushing, HandledInOrder
  <2>7. ASSUME NEW x \in due, ~ \E i \in 1 .. Len(ran) : ran[i] = x
        PROVE  \E k \in 1 .. Len(stack) :
                 \E j \in stack[k].next .. Len(handlers[stack[k].event]) :
                   x = <<handlers[stack[k].event][j], Content(stack[k])'>>
    BY <2>5, <2>7 DEF EventsInv, DueInv
  <2>8. ASSUME NEW k \in 1 .. Len(stack),
               NEW j \in stack[k].next .. Len(handlers[stack[k].event]),
               NEW x, x = <<handlers[stack[k].event][j], Content(stack[k])'>>
        PROVE  x \in due /\ \A i \in 1 .. Len(ran) : ran[i] # x
    <3>1. x = <<handlers[stack[k].event][j], Content(stack[k])>>
      BY <2>5, <2>8
    <3>. QED
      BY SMTT(60), <3>1 DEF EventsInv, DueInv
  <2>9. DueInv'
    BY SMTT(60), <2>1, <2>6, <2>7, <2>8 DEF DueInv
  <2>. QED
    BY <2>2, <2>3, <2>4, <2>9 DEF EventsInv
<1>. QED
  BY <1>1, <1>2, <1>3, <1>4, <1>5 DEF Next, FlushStep

LEMMA Invariance == Spec => []EventsInv
BY InitEventsInv, NextEventsInv, PTL DEF Spec
\* For any number of messages and whatever handlers send: no slot of an event's
\* memory is lost, free twice, or given to a second message while its own is
\* being handled (Event::AllocMessage, FreeMessage).
THEOREM SlotsArePartitioned == Spec => []SlotsPartition
<1>1. EventsInv => SlotsPartition
  <2> SUFFICES ASSUME EventsInv, NEW e \in EventIds
               PROVE  LET held == {queue[i].index : i \in Pending(e)}
                      IN  /\ held \cup ToSet(freeMem[e]) = 0 .. Len(memory[e]) - 1
                          /\ held \cap ToSet(freeMem[e]) = {}
                          /\ IsInjective(freeMem[e])
                          /\ \A i, j \in Pending(e) : queue[i].index = queue[j].index => i = j
    BY DEF SlotsPartition
  <2> DEFINE held == {queue[i].index : i \in Pending(e)}
             free == {freeMem[e][j] : j \in 1 .. Len(freeMem[e])}
  <2>1. /\ queue \in Seq(Messages) /\ freeMem[e] \in Seq(Nat) /\ memory[e] \in Seq(Sends)
    BY DEF EventsInv, TypeOK
  <2>2. /\ DOMAIN freeMem[e] = 1 .. Len(freeMem[e]) /\ Len(memory[e]) \in Nat
        /\ ToSet(freeMem[e]) = free
    BY <2>1 DEF ToSet
  <2>3. ASSUME NEW i \in Pending(e)
        PROVE  /\ i \in 1 .. Len(queue) /\ queue[i].event = e
               /\ queue[i] = [event |-> e, index |-> queue[i].index]
               /\ queue[i].index \in 0 .. Len(memory[e]) - 1
    <3>1. i \in 1 .. Len(queue) /\ queue[i] \in Messages /\ queue[i].event = e
      BY <2>1 DEF Pending
    <3>2. queue[i].index \in Nat /\ queue[i].index < Len(memory[e])
      BY <3>1 DEF EventsInv, SlotsInv, Messages
    <3>. QED
      BY <2>2, <3>1, <3>2 DEF Messages
  <2>4. ASSUME NEW j \in 1 .. Len(freeMem[e])
        PROVE  freeMem[e][j] \in 0 .. Len(memory[e]) - 1
    <3>1. freeMem[e][j] \in Nat /\ freeMem[e][j] < Len(memory[e])
      BY <2>1 DEF EventsInv, SlotsInv
    <3>. QED
      BY <2>2, <3>1
  <2>5. \A n \in 0 .. Len(memory[e]) - 1 : n \in held \/ n \in free
    <3>1. ASSUME NEW n \in 0 .. Len(memory[e]) - 1,
                 NEW i \in 1 .. Len(queue), queue[i] = [event |-> e, index |-> n]
          PROVE  n \in held
      <4>1. queue[i].event = e /\ queue[i].index = n
        BY <3>1
      <4>2. i \in Pending(e)
        BY <4>1 DEF Pending
      <4>. QED
        BY <4>1, <4>2
    <3>2. ASSUME NEW n \in 0 .. Len(memory[e]) - 1
          PROVE  \/ \E i \in 1 .. Len(queue) : queue[i] = [event |-> e, index |-> n]
                 \/ n \in free
      BY DEF EventsInv, SlotsInv
    <3>. HIDE DEF held, free
    <3>. QED
      BY <3>1, <3>2
  <2>6. held \cup free = 0 .. Len(memory[e]) - 1
    BY <2>3, <2>4, <2>5
  <2>7. held \cap free = {}
    <3>1. ASSUME NEW i \in Pending(e), NEW j \in 1 .. Len(freeMem[e])
          PROVE  queue[i].index # freeMem[e][j]
      <4>1. i \in 1 .. Len(queue) /\ queue[i].event = e
        BY <2>3
      <4>2. \A k \in 1 .. Len(freeMem[queue[i].event]) :
              queue[i].index # freeMem[queue[i].event][k]
        BY <4>1 DEF EventsInv, SlotsInv
      <4>. QED
        BY <4>1, <4>2
    <3>. QED
      BY <3>1
  <2>8. IsInjective(freeMem[e])
    BY <2>2 DEF IsInjective, EventsInv, SlotsInv
  <2>9. \A i, j \in Pending(e) : queue[i].index = queue[j].index => i = j
    <3>1. ASSUME NEW i \in Pending(e), NEW j \in Pending(e), queue[i].index = queue[j].index
          PROVE  i = j
      <4>1. /\ i \in 1 .. Len(queue) /\ j \in 1 .. Len(queue)
            /\ queue[i] = [event |-> e, index |-> queue[i].index]
            /\ queue[j] = [event |-> e, index |-> queue[j].index]
        BY <2>3
      <4>2. queue[i] = queue[j]
        BY <3>1, <4>1
      <4>. QED
        BY <4>1, <4>2 DEF EventsInv, SlotsInv
    <3>. QED
      BY <3>1
  <2>. QED
    BY <2>2, <2>6, <2>7, <2>8, <2>9
<1>. QED
  BY <1>1, Invariance, PTL

\* For any depth of synchronous calls: each message runs every system that is
\* subscribed when its turn comes once, and no other.
THEOREM HandlersRunOnce == Spec => []EveryHandlerOnce
<1>1. EventsInv => EveryHandlerOnce
  <2> SUFFICES ASSUME EventsInv
               PROVE  EveryHandlerOnce
    OBVIOUS
  <2>1. /\ ran \in Seq(Systems \X Sends) /\ DOMAIN ran = 1 .. Len(ran)
        /\ ToSet(ran) = {ran[i] : i \in 1 .. Len(ran)}
    BY DEF EventsInv, TypeOK, ToSet
  <2>2. IsInjective(ran) /\ ToSet(ran) \subseteq due
    BY <2>1 DEF EventsInv, DueInv, IsInjective
  <2>3. ASSUME stack = <<>>
        PROVE  due \subseteq ToSet(ran)
    BY <2>1, <2>3 DEF EventsInv, DueInv
  <2>. QED
    BY <2>2, <2>3 DEF EveryHandlerOnce
<1>. QED
  BY <1>1, Invariance, PTL

\* For any number of events and systems: a system gets the queued messages in
\* the order in which they were sent.
THEOREM HandlersRunInOrder == Spec => []HandledInOrder
<1>1. EventsInv => HandledInOrder
  BY DEF EventsInv, DueInv
<1>. QED
  BY <1>1, Invariance, PTL

LEMMA ContentsInit == Init => Mailbox!Init
<1> SUFFICES ASSUME Init
             PROVE  Contents = <<>> /\ taken = Nothing
  BY DEF Mailbox!Init
<1>. QED
  BY DEF Init, Contents

LEMMA ContentsNext ==
  ASSUME EventsInv, [Next]_eventVars
  PROVE  [Mailbox!Next]_(Mailbox!fifoVars)
<1>0. queue \in Seq(Messages) /\ Len(queue) \in Nat
  BY DEF EventsInv, TypeOK
<1>1. Contents = [i \in 1 .. Len(queue) |-> ContentAt(i)]
  BY DEF Contents, ContentAt
<1>2. Contents' = [i \in 1 .. Len(queue') |-> ContentAt(i)']
  BY DEF Contents, ContentAt
<1>3. /\ Contents \in Seq(Sends) /\ Len(Contents) = Len(queue)
      /\ \A i \in 1 .. Len(queue) : Contents[i] = ContentAt(i)
  <2>1. \A i \in 1 .. Len(queue) : ContentAt(i) \in Sends
    BY DEF EventsInv, TypeOK, OrderInv
  <2>. QED
    BY <1>0, <1>1, <2>1
<1>4. ASSUME NEW e \in EventIds, SendMessage(e)
      PROVE  Mailbox!Push(sent')
  <2>1. /\ Len(queue') = Len(queue) + 1
        /\ \A i \in 1 .. Len(queue) : ContentAt(i)' = ContentAt(i)
        /\ ContentAt(Len(queue))' = sent'
    BY <1>4, SentContents
  <2>2. sent' \in Sends /\ taken' = taken
    <3>1. PICK n : SentTo(e, n)
      BY <1>4, SendShape
    <3>. QED
      BY <1>4, <3>1 DEF SentTo, SendMessage, runVars
  <2>3. PICK l : l = Len(queue')
    OBVIOUS
  <2>4. l = Len(queue) + 1 /\ ContentAt(l)' = sent'
    BY <2>1, <2>3
  <2>5. /\ Append(Contents, sent') \in Seq(Sends) /\ Len(Append(Contents, sent')) = l
        /\ \A i \in 1 .. Len(queue) : Append(Contents, sent')[i] = ContentAt(i)
        /\ Append(Contents, sent')[l] = sent'
    BY <1>0, <1>3, <2>2, <2>4
  <2>6. \A i \in 1 .. l : Append(Contents, sent')[i] = ContentAt(i)'
    BY <1>0, <2>1, <2>4, <2>5
  <2>7. Contents' = Append(Contents, sent')
    <3>1. Append(Contents, sent') = [i \in 1 .. l |-> Append(Contents, sent')[i]]
      <4>1. Append(Contents, sent') \in [1 .. l -> Sends]
        BY <2>5, LenProperties
      <4>. QED
        BY <4>1
    <3>2. @ = [i \in 1 .. l |-> ContentAt(i)']
      BY <2>6
    <3>. QED
      BY <1>2, <2>3, <3>1, <3>2
  <2>. QED
    BY <2>2, <2>7 DEF Mailbox!Push
<1>5. ASSUME FlushReturns
      PROVE  Mailbox!Pop
  <2>1. /\ queue # <<>> /\ 1 \in 1 .. Len(queue)
        /\ Len(queue') = Len(queue) - 1 /\ taken' = ContentAt(1)
        /\ \A i \in 1 .. Len(queue') : ContentAt(i)' = ContentAt(i + 1)
    BY <1>5, PoppedContents
  <2>2. Contents # <<>> /\ Head(Contents) = ContentAt(1)
    BY <1>3, <2>1
  <2>3. /\ Tail(Contents) \in Seq(Sends) /\ Len(Tail(Contents)) = Len(queue')
        /\ \A i \in 1 .. Len(Tail(Contents)) : Tail(Contents)[i] = Contents[i + 1]
    BY <1>3, <2>1, <2>2, HeadTailProperties
  <2>4. \A i \in 1 .. Len(queue') : i + 1 \in 1 .. Len(queue) /\ Tail(Contents)[i] = ContentAt(i)'
    BY <1>0, <1>3, <2>1, <2>3
  <2>5. Contents' = Tail(Contents)
    <3>1. Tail(Contents) = [i \in 1 .. Len(queue') |-> Tail(Contents)[i]]
      <4>1. Tail(Contents) \in [1 .. Len(queue') -> Sends]
        BY <2>3, LenProperties
      <4>. QED
        BY <4>1
    <3>2. @ = [i \in 1 .. Len(queue') |-> ContentAt(i)']
      BY <2>4
    <3>. QED
      BY <1>2, <3>1, <3>2
  <2>. QED
    BY <2>1, <2>2, <2>5 DEF Mailbox!Pop
<1>6. ASSUME UNCHANGED <<queue, memory, taken>>
      PROVE  UNCHANGED Mailbox!fifoVars
  BY <1>6 DEF Mailbox!fifoVars, Contents
<1>7. CASE \E e \in EventIds, s \in Systems : Subscribe(e, s) \/ Unsubscribe(e, s)
  BY <1>6, <1>7 DEF Subscribe, Unsubscribe, dataVars, runVars
<1>8. CASE \E e \in EventIds : SendMessageSync(e)
  BY <1>6, <1>8 DEF SendMessageSync
<1>9. CASE RunProgram \/ FlushInSystem \/ FlushDone \/ EndFrame
  BY <1>6, <1>9 DEF RunProgram, FlushInSystem, FlushDone, EndFrame, dataVars, runVars
<1>10. CASE TakeMessage \/ RunHandler \/ SyncReturns
  BY <1>6, <1>10 DEF TakeMessage, RunHandler, SyncReturns, dataVars, runVars
<1>11. CASE UNCHANGED eventVars
  BY <1>6, <1>11 DEF eventVars, dataVars, runVars
<1>12. ASSUME NEW e \in EventIds, SendMessage(e)
       PROVE  Mailbox!Next
  <2>1. sent' \in Sends
    <3>1. PICK n : SentTo(e, n)
      BY <1>12, SendShape
    <3>. QED
      BY <3>1 DEF SentTo
  <2>. QED
    BY <1>4, <1>12, <2>1 DEF Mailbox!Next
<1>13. CASE FlushReturns
  BY <1>5, <1>13 DEF Mailbox!Next
<1>. QED
  BY <1>7, <1>8, <1>9, <1>10, <1>11, <1>12, <1>13 DEF Next, FlushStep

\* The events of a program are the queue that systems expect of them: for any
\* number of events, a message is, until its last handler has returned, what was
\* sent, and messages leave in the order of sending.
THEOREM EventsRefineFifo == Spec => ImplementsFifo
<1>1. EventsInv /\ [Next]_eventVars => [Mailbox!Next]_(Mailbox!fifoVars)
  BY ContentsNext
<1>. QED
  BY <1>1, ContentsInit, Invariance, PTL DEF Spec, ImplementsFifo, Mailbox!Spec
=============================================================================
