SPECIFICATION FairFrameSpec
CONSTANTS
  NumTasks = 2
  States = {s1, s2}
  NoState = NoState
  Nobody = Nobody
  Systems <- ChainSystems
  Barriers <- TwoBarriers
  ProgramOf <- ChainProgramOf
  TicketsOf <- ChainTicketsOf
  Conditional <- TickTock
  Switched <- TickOnly
  Components <- PosAndVel
  Shared <- PosOnly
  ComponentsOf <- ChainComponentsOf
INVARIANTS
  SystemsTypeOK
  FrameJoined
  OnFrameState
  NobodyOverslept
  TransformsInTicketOrder
  GuardedExclude
PROPERTIES
  ImplementsFrameSync
  ImplementsBarrier
  FrameEnds
