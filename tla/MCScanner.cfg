SPECIFICATION FairSpec
CONSTANTS
  Configs <- MCConfigs
  MaxChannels = 3
  DwellTicks = 2
  TailTicks = 3
  ClientBound = 2
INVARIANTS OpenIsHeard
PROPERTIES HangTime ScansOn
