SPECIFICATION FairSpec
CONSTANTS
  FIFO_LEN = 2
  Data = {0, 1}
  MaxCount = 3
  Readers = {r1}
  Writers = {w1}
PROPERTIES ReadReturns
