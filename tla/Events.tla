-------------------------------- MODULE Events --------------------------------
(***************************************************************************)
(* The events of one program (src/src/event.cpp, event_registry.cpp) and   *)
(* the part of ProgramImpl::Run that flushes them before the systems run.  *)
(*                                                                         *)
(* A message is copied into a slot of its event's memory and the slot's    *)
(* index is queued; the queue is a sequence here, as ByteQueue implements  *)
(* one.  A handler runs with the address of the slot and may itself send   *)
(* messages, queued or synchronous, on any event.  The content of a        *)
(* message is the number of the call that sent it.                         *)
(***************************************************************************)
EXTENDS Naturals, Sequences, SequencesExt

CONSTANTS
  EventIds, Systems,
  MaxSends,   \* bound: messages sent in a behaviour
  MaxDepth    \* bound: activations on the thread's stack

ASSUME EventsAssumption == MaxSends \in Nat /\ MaxDepth \in Nat \ {0}

VARIABLES
  queue,      \* message_queue_: records of an event and a slot
  memory,     \* mem_buffer_ of each event
  freeMem,    \* free_mem_ of each event
  handlers,   \* handlers_ of each event
  at,         \* where the program is in Run
  stack,      \* calls of Event::Flush and SendMessageSync, the innermost last
  sent,       \* history: how many messages have been sent
  queued,     \* history: those of them sent with SendMessage
  due,        \* history: pairs of a system subscribed to a message when its
              \* turn came, and the message
  ran,        \* history: runs of handlers, in order: pairs of system and message
  taken       \* history: the message last popped

dataVars == <<queue, memory, freeMem, sent, queued>>
runVars == <<due, ran, taken>>
eventVars == <<dataVars, handlers, at, stack, runVars>>

Places == {"frame", "flush", "systems"}
Sends == 1 .. MaxSends
Nothing == 0

\* Mutants: a slot that is handed out and stays free; the newest message; all
\* handlers but the first.
KeptSlots(q) == q
Newest == Last(queue)
SecondHandler == 2

\* The slot of a new message: the one last freed, or a new one at the end.
AllocSlot(e) == IF freeMem[e] = <<>> THEN Len(memory[e]) ELSE Last(freeMem[e])
PoppedSlots(q) == IF q = <<>> THEN q ELSE Front(q)

NextMessage == Head(queue)
FirstHandler == 1

Top == Last(stack)
WithTop(a) == Append(Front(stack), a)

\* Where a handler finds its message: its slot, or what SendMessageSync was
\* given.
Content(a) == IF a.sync THEN a.value ELSE memory[a.event][a.index + 1]

\* Code of the program runs: a loop system outside of a flush, or a handler.
InSystem == IF stack = <<>> THEN at = "systems" ELSE Top.next > 1

Subscribers(e) == ToSet(handlers[e])
Due(e, n) == {<<s, n>> : s \in Subscribers(e)}
-----------------------------------------------------------------------------
Init ==
  /\ queue = <<>>
  /\ memory = [e \in EventIds |-> <<>>]
  /\ freeMem = [e \in EventIds |-> <<>>]
  /\ handlers = [e \in EventIds |-> <<>>]
  /\ at = "frame"
  /\ stack = <<>>
  /\ sent = 0 /\ queued = {}
  /\ due = {} /\ ran = <<>>
  /\ taken = Nothing

\* Programs subscribe outside of handlers, and once; the code checks neither.
Subscribe(e, s) ==
  /\ stack = <<>> /\ at # "flush"
  /\ s \notin Subscribers(e)
  /\ handlers' = [handlers EXCEPT ![e] = Append(@, s)]
  /\ UNCHANGED <<dataVars, at, stack, runVars>>

Unsubscribe(e, s) ==
  /\ stack = <<>> /\ at # "flush"
  /\ \E i \in DOMAIN handlers[e] :
       /\ handlers[e][i] = s
       /\ handlers' = [handlers EXCEPT ![e] = RemoveAt(@, i)]
  /\ UNCHANGED <<dataVars, at, stack, runVars>>

\* AllocMessage and the push.
SendMessage(e) ==
  /\ InSystem
  /\ sent < MaxSends
  /\ sent' = sent + 1
  /\ queued' = queued \cup {sent'}
  /\ memory' = [memory EXCEPT ![e] =
                  IF freeMem[e] = <<>> THEN Append(@, sent')
                  ELSE [@ EXCEPT ![AllocSlot(e) + 1] = sent']]
  /\ freeMem' = [freeMem EXCEPT ![e] = PoppedSlots(@)]
  /\ queue' = Append(queue, [event |-> e, index |-> AllocSlot(e)])
  /\ UNCHANGED <<handlers, at, stack, runVars>>

SendMessageSync(e) ==
  /\ InSystem
  /\ sent < MaxSends /\ Len(stack) < MaxDepth
  /\ sent' = sent + 1
  /\ stack' = Append(stack, [event |-> e, sync |-> TRUE, value |-> sent', next |-> FirstHandler])
  /\ due' = due \cup Due(e, sent')
  /\ UNCHANGED <<queue, memory, freeMem, queued, handlers, at, ran, taken>>

\* ProgramImpl::Run calls FlushAll; so may a system (qb_event_flushall).
RunProgram ==
  /\ at = "frame"
  /\ at' = "flush"
  /\ UNCHANGED <<dataVars, handlers, stack, runVars>>

FlushInSystem ==
  /\ at = "systems" /\ stack = <<>>
  /\ at' = "flush"
  /\ UNCHANGED <<dataVars, handlers, stack, runVars>>

\* message_queue_->front() and the call of Event::Flush.
TakeMessage ==
  /\ at = "flush" /\ stack = <<>>
  /\ queue # <<>>
  /\ LET m == NextMessage
     IN  /\ stack' = <<[event |-> m.event, sync |-> FALSE, index |-> m.index, next |-> FirstHandler]>>
         /\ due' = due \cup Due(m.event, memory[m.event][m.index + 1])
  /\ UNCHANGED <<dataVars, handlers, at, ran, taken>>

RunHandler ==
  /\ stack # <<>>
  /\ Top.next <= Len(handlers[Top.event])
  /\ ran' = Append(ran, <<handlers[Top.event][Top.next], Content(Top)>>)
  /\ stack' = WithTop([Top EXCEPT !.next = @ + 1])
  /\ UNCHANGED <<dataVars, handlers, at, due, taken>>

HandlersDone == stack # <<>> /\ Top.next > Len(handlers[Top.event])

SyncReturns ==
  /\ HandlersDone /\ Top.sync
  /\ stack' = Front(stack)
  /\ UNCHANGED <<dataVars, handlers, at, runVars>>

\* FreeMessage, and pop() in FlushAll.
FlushReturns ==
  /\ HandlersDone /\ ~Top.sync
  /\ taken' = Content(Top)
  /\ freeMem' = [freeMem EXCEPT ![Top.event] = Append(@, Top.index)]
  /\ queue' = Tail(queue)
  /\ stack' = Front(stack)
  /\ UNCHANGED <<memory, sent, queued, handlers, at, due, ran>>

FlushDone ==
  /\ at = "flush" /\ stack = <<>>
  /\ queue = <<>>
  /\ at' = "systems"
  /\ UNCHANGED <<dataVars, handlers, stack, runVars>>

\* The last loop system returns, and with it ProgramImpl::Run.
EndFrame ==
  /\ at = "systems" /\ stack = <<>>
  /\ at' = "frame"
  /\ UNCHANGED <<dataVars, handlers, stack, runVars>>

FlushStep == TakeMessage \/ RunHandler \/ SyncReturns \/ FlushReturns \/ FlushDone

Next ==
  \/ \E e \in EventIds, s \in Systems : Subscribe(e, s) \/ Unsubscribe(e, s)
  \/ \E e \in EventIds : SendMessage(e) \/ SendMessageSync(e)
  \/ RunProgram \/ FlushInSystem \/ FlushStep \/ EndFrame

Spec == Init /\ [][Next]_eventVars

\* The host keeps calling qb_loop, systems return, and FlushAll goes on until
\* the queue is empty.
FairSpec ==
  /\ Spec
  /\ WF_eventVars(RunProgram) /\ WF_eventVars(FlushStep) /\ WF_eventVars(EndFrame)
-----------------------------------------------------------------------------
Messages == [event : EventIds, index : Nat]

TypeOK ==
  /\ queue \in Seq(Messages)
  /\ memory \in [EventIds -> Seq(Sends)]
  /\ freeMem \in [EventIds -> Seq(Nat)]
  /\ handlers \in [EventIds -> Seq(Systems)]
  /\ at \in Places
  /\ sent \in 0 .. MaxSends /\ queued \subseteq Sends
  /\ Len(stack) <= MaxDepth
  /\ due \subseteq Systems \X Sends /\ ran \in Seq(Systems \X Sends)
  /\ taken \in Sends \cup {Nothing}

Pending(e) == {i \in 1 .. Len(queue) : queue[i].event = e}

\* Every slot of an event's memory is either free, once, or held by exactly one
\* message of the queue, the one being handled included: handlers that send
\* while their message is being flushed cannot be given its slot.
SlotsPartition ==
  \A e \in EventIds :
    LET held == {queue[i].index : i \in Pending(e)}
    IN  /\ held \cup ToSet(freeMem[e]) = 0 .. Len(memory[e]) - 1
        /\ held \cap ToSet(freeMem[e]) = {}
        /\ IsInjective(freeMem[e])
        /\ \A i, j \in Pending(e) : queue[i].index = queue[j].index => i = j

\* A message runs every system that is subscribed when its turn comes exactly
\* once, and no other, whatever the handlers send meanwhile.
EveryHandlerOnce ==
  /\ IsInjective(ran)
  /\ ToSet(ran) \subseteq due
  /\ stack = <<>> => due = ToSet(ran)

\* Each system gets the queued messages, of all events, in the order in which
\* they were sent.  (Synchronous ones overtake them.)
HandledInOrder ==
  \A i, j \in 1 .. Len(ran) :
    i < j /\ ran[i][1] = ran[j][1] /\ {ran[i][2], ran[j][2]} \subseteq queued
      => ran[i][2] < ran[j][2]

\* What the messages of the queue say.
Contents == [i \in 1 .. Len(queue) |-> memory[queue[i].event][queue[i].index + 1]]

Mailbox == INSTANCE Fifo WITH Messages <- Sends, queue <- Contents

\* Slots are reused at once, yet the content of a message is what was sent until
\* its last handler has returned, and messages leave in the order of sending.
ImplementsFifo == Mailbox!Spec

\* Every message sent is flushed.
EveryMessageFlushed == \A n \in Sends : (n \in ToSet(Contents)) ~> (taken = n)
=============================================================================
