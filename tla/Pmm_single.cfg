\* Every caller asks for one frame at a time.
SPECIFICATION Spec
CONSTANTS
  PageSize = 2
  MemMaps <- SomeMaps
  Requests = {1}
  Callers = {a, b, c, d}
INVARIANTS
  TypeOK
  BitmapReserved
  PoolConserved
  ScanStable
  OnlyTopLost
PROPERTY
  Allocates
