\* Two replies in quick succession.
SPECIFICATION Spec
CONSTANTS
  RxBufferSize = 32
  PacketMin = 2
  PacketMax = 9
  Length <- Requests
  TxCount = 2
  Early = FALSE
  MaxFrames = 2
INVARIANT
  SentIntact
CHECK_DEADLOCK FALSE
\* The machine rests when the wire has no more frames.
