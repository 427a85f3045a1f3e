SPECIFICATION FairCoroSpec
CONSTANTS
  c1 = c1
  c2 = c2
  c3 = c3
  Coros = {c1, c2, c3}
  Main = Main
  Workers = {w1, w2}
  Sync = Sync
  Nobody = Nobody
  AwaitOrder <- SecondOnFirst
  MaxSteps = 1
INVARIANTS
  NoneRunsAfterEnd
  SafeToDestroy
PROPERTIES
  ImplementsFuture
  NoOvertaking
  EveryCoroutineEnds
