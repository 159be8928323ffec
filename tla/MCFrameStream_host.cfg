SPECIFICATION FairSpec
CONSTANTS
  MaxPayloadLen = 2
  Payloads <- MCPayloads
  Crc16 <- MCCrc16
  Sends = {"OutRequest", "SignedPsbt", "Status"}
  Reader = "host"
  BufLen = 7
  ReadChunk = 8
  MaxFrames = 2
  Stale <- NothingStale
  NoiseBytes = {}
  MaxNoise = 0
INVARIANTS
  FramesInOrder
  NoFramingError
  BytesAccounted
PROPERTIES
  ImplementsChannel
CHECK_DEADLOCK FALSE
