\* Three calls and three packets, on a heap that some of them fill up.
SPECIFICATION FairSpec
CONSTANTS
  Hosts = {h1, h2}
  Noise = Noise
  Messages <- SomeMessages
  HeapBytes = 230
  Patience = 1
  MaxCalls = 3
  MaxPackets = 3
INVARIANTS
  TypeOK
  AddressedRight
  LeaksOnly
  SumRight
PROPERTY
  CallsReturn
CHECK_DEADLOCK FALSE
\* The machine rests when no more calls are made or the heap is full.
