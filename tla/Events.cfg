SPECIFICATION FairSpec
CONSTANTS
  EventIds = {e1, e2}
  Systems = {s1, s2}
  MaxSends = 3
  MaxDepth = 2
INVARIANTS
  SlotsPartition
  EveryHandlerOnce
  HandledInOrder
PROPERTIES
  ImplementsFifo
  EveryMessageFlushed
