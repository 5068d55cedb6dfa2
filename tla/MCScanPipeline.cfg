SPECIFICATION PipeFairSpec
CONSTANTS
  Configs <- MCMixed
  MaxChannels = 2
  DwellTicks = 1
  TailTicks = 1
  ClientBound = 1
  MaxQueueDepth = 1
  Capacity = 1
  BlockSamples = 1
  FrameSamples = 1
  Prefill = 1
  MaxAttempts = 1
INVARIANTS RingOfAudioIdx
PROPERTIES WriteEnds AudioFollows
