SPECIFICATION MCSpec
CONSTANTS
  Producers = {p1, p2}
  Consumers = {c1, c2}
  Main = main
  BUFFER_SIZE = 2
  MaxItems = 4
  max = 2
  Data = {0, 1}
  Chapters = {30, 31}
INVARIANTS TotalsAgree NoLostWakeup StopReachesAll NoWakeupOrPermitLost
PROPERTIES ImplementsQueue StopEndsProgram ItemsAreConsumed ProdConsImplementsQueue Flow
