SPECIFICATION MCSpec
CONSTANTS
  Programs = {"sem", "dbl", "flag"}
  FileBlocks = 4
  FIFO_LEN = 2
  Data = {0, 1}
  MaxCount = 3
  Readers = {r1, r2}
  Writers = {w1, w2}
  MonitorPrograms = {"BoxMon", "TryBox", "PC"}
  maxSize = 2
  Messages = {1, 2}
  BoxThreads = {t1, t2, t3}
  Producers = {p1, p2}
  Consumers = {c1, c2}
  MaxSize = 2
  Garbage = garbage
  None = none
  Clients = {h1, h2}
  Workers = {v1, v2}
  Nobody = n
  MaxParts = 1
  MaxWrites = 2
INVARIANTS CopyFaithful MonitorWaits KeyInOnePlace
PROPERTIES JobsRestored TransfersImplementQueue FifoSleepersServed TransfersGoOn
CHECK_DEADLOCK FALSE
