\* The machine may halt: there is no deadlock to look for.
SPECIFICATION Spec
CHECK_DEADLOCK FALSE
CONSTANTS
  Firmwares <- SomeFirmwares
  Entries = 24
  Buses = 5
  HeapBytes <- SomeHeapBytes
  NPorts = 4
  Populations <- SomePopulations
  Radix = 2
  Paths <- SomePaths
  Stems <- SomeStems
  MaxOpen = 1
  Configs <- SomeConfigs
  AhciClass <- Class16
  NicIds <- Ids
  Modes = {"r", "w"}
  Nothing = Nothing
  None = None
INVARIANTS
  TypeOK
  GatesRight
  LinesOpen
  PowersOff
  DevicesRight
  DrivesRegistered
  NamesRight
PROPERTY
  EnableKeepsRest
