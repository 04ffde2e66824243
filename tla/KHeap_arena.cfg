SPECIFICATION Spec
CONSTANTS
  HeapBase = 1
  HeapBytes = 20
  HeaderSize = 2
  Sizes <- SmallSizes
INVARIANT
  InArena
CHECK_DEADLOCK FALSE
