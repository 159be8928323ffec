SPECIFICATION LoopSpec
CONSTANTS
  MaxPayloadLen = 2
  Payloads <- MCPayloads
  Crc16 <- CrcCcittFalse
  FedBytes = {0, 1, 2, 6, 128, 255}
  AlteredBytes = {0, 1, 6, 16, 128, 254}
  MaxLen = 5
INVARIANTS
  RegisterIsRemainder
  DamagedFramesRefused
CHECK_DEADLOCK FALSE
