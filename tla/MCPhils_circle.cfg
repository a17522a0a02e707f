SPECIFICATION FairSpec
CONSTANTS
  size = 3
  cycles = 2
  Orders <- OrderOfTheCode
PROPERTY EverybodyDines
CHECK_DEADLOCK FALSE
