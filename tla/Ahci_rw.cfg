\* Every start the firmware can leave, two ports, two requests in a row.
SPECIFICATION FairSpec
CONSTANTS
  Ports = {0, 1}
  HwSlots = 3
  Requests <- Overlapping
  NoRequest = NoRequest
  WholeCount = 3
  DiskSize = 3
  MemSize = 4
  MaxCalls = 2
INVARIANTS
  TypeOK
  OwnsHba
PROPERTIES
  EngineStopped
  SlotIdle
  Carried
  Progress
CHECK_DEADLOCK FALSE
\* The machine rests when every request is made, or a drive has failed.
