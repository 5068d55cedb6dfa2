SPECIFICATION DscSpec
CONSTANTS
  Calls <- MCCalls
  Distress = 112
  Alerting = {112, 116}
  IdLen = 2
  PosLen = 2
  UtcLen = 1
  EndSymbols = {117, 122, 127}
  WordBits = 3
  DscByteBits = 2
  ChunkBits = 42
  DscMinBits = 8
  MinWords = 3
  ValidRatio = 60
  MinEosRepeats = 2
  Interval = 2
  Window = 13
  Second = 5
  MaxPerSecond = 3
  CallBound = 3
  Pauses = {1, 2, 3}
PROPERTY WholeCallTold
CHECK_DEADLOCK FALSE
