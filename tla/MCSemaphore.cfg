SPECIFICATION FairSpec
CONSTANTS
  Threads = {t1, t2, t3}
  Atomics <- BothKinds
  InitialValues = {0, 1}
  MaxCalls = 2
  Half = 16
INVARIANT ExactHandOff
PROPERTIES ImplementsCounting PermitsAreUsed PostReturns
CHECK_DEADLOCK FALSE
