SPECIFICATION FairSpec
CONSTANTS
  MaxTickets = 4
  OrderSpan = 4
  NoTicket = NoTicket
INVARIANTS
  TicketOrder
  FrameReset
  NoLostWakeup
PROPERTY
  EveryTicketServed
