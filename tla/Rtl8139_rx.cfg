\* Mixed traffic, from before the driver listens, with two descriptors, so that
\* the ring fills, wraps and overflows and both descriptors are busy at times.
SPECIFICATION FairSpec
CONSTANTS
  RxBufferSize = 32
  PacketMin = 2
  PacketMax = 9
  Length <- MixedTraffic
  TxCount = 2
  Early = TRUE
  MaxFrames = 5
INVARIANTS
  TypeOK
  NoPhantomRead
  EdgeLatched
PROPERTIES
  Delivers
  IsrReturns
  SentLeaves
CHECK_DEADLOCK FALSE
\* The machine rests when the wire has no more frames.
