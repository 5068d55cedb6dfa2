SPECIFICATION Spec
CONSTANTS
  Configs <- MCConfigs
  MaxChannels = 3
  DwellTicks = 2
  TailTicks = 3
  ClientBound = 3
INVARIANT ListReadInRange
