\* wild is a state without successors: what memory then holds is undefined.
SPECIFICATION Spec
CONSTANTS
  HeapBase = 1
  HeapBytes = 20
  HeaderSize = 2
  Sizes <- SmallSizes
INVARIANTS
  TypeOK
  BlocksDisjoint
  ListThreadsLive
  Accounting
PROPERTY
  Allocates
CHECK_DEADLOCK FALSE
