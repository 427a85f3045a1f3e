SPECIFICATION FairProgramsSpec
CONSTANTS
  Scenes = {global, menu, level}
  Global = global
  MaxCalls = 2
  Progs = {p0, p1, p2}
  MainProgram = p0
  None = None
INVARIANTS
  CurrentScenesLive
  OneRunner
PROPERTIES
  RunOnLiveScenes
  ProgramsKeepRunning
