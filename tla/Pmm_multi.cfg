\* The callers that ask for several frames (RX buffer, kernel heap).
SPECIFICATION Spec
CONSTANTS
  PageSize = 2
  MemMaps <- SomeMaps
  Requests = {1, 2}
  Callers = {a, b, c, d}
INVARIANT
  GrantsDisjoint
