SPECIFICATION Spec
CONSTANTS
  Threads = {t1, t2, t3}
  Atomics <- OnlyXadd
  InitialValues = {0, 1}
  MaxCalls = 2
  Half = 16
INVARIANT ReleasesLockedHold
CHECK_DEADLOCK FALSE
