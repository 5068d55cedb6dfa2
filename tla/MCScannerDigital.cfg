SPECIFICATION FairSpec
CONSTANTS
  Configs <- MCDigital
  MaxChannels = 2
  DwellTicks = 2
  TailTicks = 3
  ClientBound = 2
PROPERTY DigitalScansOn
