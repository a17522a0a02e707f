SPECIFICATION MCSpec
CONSTANTS
  Threads = {t1, t2, t3}
  NoThread = none
  Builds <- AllBuilds
  Last = 1
  Readers = {r1, r2, r3}
  Writers = {w1, w2}
  Words = {a, b}
  Null = null
  Torn = torn
INVARIANTS MutualExclusion SleeperHasWaker PrintedInOrder WritersAlone
PROPERTIES ImplementsMutex LockPrintsAll ImplementsSharedWord WritersGoOn
