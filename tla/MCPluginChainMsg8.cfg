SPECIFICATION Spec
CONSTANTS
  Configs <- MCConfigs
  Modulations <- MCModulations
  Switched <- MCSwitched
  ClientBound = 2
PROPERTY Msg8HandedOver
