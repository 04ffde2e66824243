\* Four keys, chains of two slots, tables of up to sixteen.
SPECIFICATION FairSpec
CONSTANTS
  a = a
  b = b
  c = c
  d = d
  Keys = {a, b, c, d}
  Values = {v, w}
  Hashes <- SomeHashes
  Callbacks <- SomeCallbacks
  Chain = 2
  InitialSizes = {1, 3, 4}
  MaxTable = 16
  Hole = Hole
  NoCall = NoCall
  Null = Null
  Done = Done
  Failed = Failed
INVARIANTS
  TypeOK
  TablesSound
PROPERTIES
  Promises
  PutEnds
