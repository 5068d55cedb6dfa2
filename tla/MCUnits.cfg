SPECIFICATION UnitsSpec
CONSTANTS
  low = low
  high = high
  Samples <- MCSamples
  Silence = low
  LargestCall = 4
  Capacity = 3
  WriteBound = 6
  UnderrunBound = 2
  a = a
  b = b
  blank = blank
  Channels <- MCChannels
  Blank = blank
  Files <- MCFiles
  DefaultScan <- MCScan
  DefaultRadar <- MCRadar
  Loops = 2
  LengthBound = 3
  WireBound = 1
  EditBound = 3
  Rates <- MCRates
  NoDevice = 0
  Prefill = 2
  PrefillWait = 1
  PendingMax = 3
  SinkSize = 2
  FrameBound = 5
  StartNumbers <- MCStart
  SwitchBound = 2
  Streams <- MCStreams
  Optional <- MCOptional
  Depth = 2
  PublishBound = 3
  BreakBound = 2
  HourBound = 2
  MaxLines = 2
  MaxFiles = 1
  LogBound = 12
  KillBound = 2
  Blocks <- MCBlocks
  LevelMin = 1
  LevelMax = 3
  SnrMin = 1
  StableWindows = 2
  OnWindows = 2
  OffWindows = 2
  WindowBound = 5
  SessionBound = 1
  Settings <- MCSettings
  MaxRate = 2
  AdsbRate = 4
  MaxHz = 3
  FilePpms <- MCFilePpms
  ChangeBound = 2
  FaultBound = 2
  IngestBound = 2
  VoiceRates <- MCVoice
  BlockSizes <- MCSizes
  FrameSize = 3
  ListLength = 2
  VoiceBound = 4
  ToggleBound = 2
INVARIANTS
  LockedOnFrozen
  NothingMissed
  WeatherShown
  LogIsSuffix
  VerdictJustified
  BlockAsTuned
  BlendSound
PROPERTIES
  ImplementsFifo
  AudioPlayed
  CalibrationEnds
  StreamsEndOrResume
CHECK_DEADLOCK FALSE
