SPECIFICATION MCSpec
CONSTANTS
  Configs <- MCConfigs
  Modulations <- MCModulations
  Switched <- MCSwitched
  ClientBound = 2
  Branches = {1, 2, 3}
  Dual = {1, 2}
  Kind <- MCKind
  Payloads <- MCPayloads
  Training <- MCTraining
  Noises <- MCNoises
  Silences = {0, 5}
  Attack = 1
  Hold = 4
  ByteBits = 3
  StuffAfter = 1
  MinFrame = 2
  MaxFrame = 3
  MaxBits = 21
  MinBits = 3
  Block = 8
  BurstBound = 2
  ResetBound = 1
  Calls <- MCCalls
  Distress = 112
  Alerting = {112, 116}
  IdLen = 2
  PosLen = 2
  UtcLen = 1
  EndSymbols = {117, 122, 127}
  WordBits = 3
  DscByteBits = 2
  ChunkBits = 42
  DscMinBits = 8
  MinWords = 3
  ValidRatio = 60
  MinEosRepeats = 0
  Interval = 2
  Window = 13
  Second = 5
  MaxPerSecond = 3
  CallBound = 3
  Pauses = {1, 2, 3}
  Aircraft = {1, 3}
  FrameSize = 2
  Overlap = 3
  CacheSize = 2
  MaxAge = 2
  BlockSizes = {2, 5}
  Gaps = {0}
  Delays = {1, 3}
  AheadBound = 1
  FrameBound = 3
  UwLen = 2
  Lockout = 2
  VdesMaxBits = 28
  VdesMinBits = 5
  VdesByteBits = 4
  StreamMax = 72
  TailKeep = 24
  Backup = 6
  CandMin = 6
  CandDefault = 8
  Candidates = {6, 9, 14}
  Lengths = {3, 9}
  Quiets = {0, 1, 4, 9}
  VdesBound = 4
  ParamBound = 1
  Types <- MCTypes
  Sizes <- MCSizes
  Functions = {11, 13, 16, 17, 22, 26, 27, 28, 29, 31, 32, 40}
  FrameLimit = 1
  Receivers <- MCReceivers
  Nobody = 0
  MaxBlocks = 2
  FileBound = 2
  BlockBound = 3
  ClientCalls = 4
  SyncWord <- MCSyncWord
  TuneWords <- MCTuneWords
  TuneWeight <- MCTuneWeight
  SyncNoises <- MCSyncNoises
  SyncData <- MCSyncData
  SyncParams <- MCSyncParams
  StreamBits = 60
  KeepBits = 20
  LeastCand = 6
  DefaultCand = 18
  TuneBits = 32
  TuneLeast = 16
  TuneCap = 1
  TuneStride = 2
  TuneEvery = 2
  TuneScore = 8
  OffsetsPerHit = 4
  SyncBlocks = {5, 40}
  SyncBound = 2
  SyncCalls = 1
INVARIANTS HandedOnce WholeBurstsDecoded FramesTold BurstsFoundOnce FieldsSound RecordingsWhole SyncWordsTold
PROPERTIES ChainOfBlock ChainSettles WholeCallTold
CHECK_DEADLOCK FALSE
