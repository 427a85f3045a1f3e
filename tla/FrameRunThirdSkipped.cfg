SPECIFICATION FrameSpec
CONSTANTS
  NumTasks = 2
  States = {s1}
  NoState = NoState
  Nobody = Nobody
  Systems <- ThreeSystems
  Barriers <- OneTicketBarrier
  ProgramOf <- ThreeProgramOf
  TicketsOf <- ThreeTicketsOf
  Conditional <- ThirdOnly
  Switched = {}
  Components = {}
  Shared = {}
  ComponentsOf <- NoComponents
INVARIANT
  FirstRunsFirst
CHECK_DEADLOCK FALSE
