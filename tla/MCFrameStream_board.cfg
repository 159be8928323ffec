SPECIFICATION FairSpec
CONSTANTS
  MaxPayloadLen = 2
  Payloads <- MCPayloads
  Crc16 <- MCCrc16
  Sends = {"OriginalPsbt", "InResponse"}
  Reader = "board"
  BufLen = 7
  ReadChunk = 8
  MaxFrames = 2
  Stale <- NothingStale
  NoiseBytes = {}
  MaxNoise = 0
INVARIANTS
  TypeOK
  FramesInOrder
  NoFramingError
  BytesAccounted
  NoEmptyRead
PROPERTIES
  ImplementsChannel
CHECK_DEADLOCK FALSE
