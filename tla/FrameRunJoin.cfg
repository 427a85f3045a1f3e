SPECIFICATION FrameSpec
CONSTANTS
  NumTasks = 1
  States = {s1}
  NoState = NoState
  Nobody = Nobody
  Systems <- WalkAndJoin
  Barriers = {}
  ProgramOf <- JoinProgramOf
  TicketsOf <- NoTickets
  Conditional = {}
  Switched = {}
  Components <- PosAndVel
  Shared <- PosOnly
  ComponentsOf <- JoinComponentsOf
INVARIANT
  SharedExclude
