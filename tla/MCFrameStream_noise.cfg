SPECIFICATION Spec
CONSTANTS
  MaxPayloadLen = 3
  Payloads <- MCShortPayloads
  Crc16 <- MCCrc16
  Sends = {"OriginalPsbt"}
  Reader = "board"
  BufLen = 7
  ReadChunk = 8
  MaxFrames = 2
  Stale <- NothingOrStale
  NoiseBytes <- MCNoiseBytes
  MaxNoise = 1
PROPERTIES
  ImplementsLossyChannel
  NoFrameAfterFramingError
CHECK_DEADLOCK FALSE
