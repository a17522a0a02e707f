SPECIFICATION MCSpec
CONSTANTS
  numThreads = 3
  Sleepers = {a, b}
  MainThread = m
  Nobody = n
  MaxPeriod = 2
  count = 2
  NALLOC = 3
  HeaderBytes = 2
  Requests = {0, 2, 6}
  MaxBreak = 8
  Processes = {p1, p2, p3}
  MAX_RETRIES = 1
  MaxSets = 2
  CounterPrograms = {"ThreadCount", "ThreadLock1", "ThreadLock2", "bad", "hoisted",
                     "safe", "session", "shared"}
  CounterThreads = {t1, t2, t3}
  Parent = t1
  Child = t2
  limit = 2
  iterations = 2
  RangeChapters = {30, 31}
  Incrementers = {i1, i2}
  Decrementers = {d1, d2}
  max = 2
  Clients = {c1, c2}
  Server = s
  MaxLines = 2
  Drivers = {"example3", "example4"}
  Callers = {q1, q2}
  Lines <- TypedLines
  MaxTyped = 3
  Directories <- SomeDirectories
  Sizes = {3, 8, 11}
  Exponents = {0, 1, 2, 3}
INVARIANTS SavedWhileStopped OneSavePerCall MemoryOwned OnePermitPerSet CountsRight OutputRight
PROPERTIES ProgramsGoOn AlarmsRing EchoGoesOn
CHECK_DEADLOCK FALSE
