SPECIFICATION FairSpec
CONSTANTS
  Threads = {t1, t2, t3}
  NoThread = none
  Builds <- OnlyXadd
  Last = 1
PROPERTY PrintsAll
