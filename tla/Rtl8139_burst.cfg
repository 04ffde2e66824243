\* Two frames after a quiet boot.
SPECIFICATION FairSpec
CONSTANTS
  RxBufferSize = 32
  PacketMin = 2
  PacketMax = 9
  Length <- Requests
  TxCount = 2
  Early = FALSE
  MaxFrames = 2
PROPERTY
  PacketsIdentified
CHECK_DEADLOCK FALSE
\* The machine rests when the wire has no more frames.
