-------------------------------- MODULE Fifo --------------------------------
(***************************************************************************)
(* A queue of messages: what EventRegistry expects of ByteQueue.           *)
(***************************************************************************)
EXTENDS Sequences

CONSTANTS Messages, Nothing

VARIABLES
  queue,   \* the messages pushed and not popped
  taken    \* the message last popped

fifoVars == <<queue, taken>>

Init == queue = <<>> /\ taken = Nothing

Push(m) == queue' = Append(queue, m) /\ UNCHANGED taken

Pop ==
  /\ queue # <<>>
  /\ taken' = Head(queue)
  /\ queue' = Tail(queue)

Next == Pop \/ \E m \in Messages : Push(m)

Spec == Init /\ [][Next]_fifoVars
=============================================================================
