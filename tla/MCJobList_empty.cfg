SPECIFICATION Spec
CONSTANTS
  MaxSize = 3
  Garbage = garbage
  None = none
PROPERTY RestoresCheckpoint
