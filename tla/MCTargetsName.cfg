SPECIFICATION Spec
CONSTANTS
  w1 = w1
  w2 = w2
  c1 = c1
  c2 = c2
  p1 = p1
  p2 = p2
  Workers <- MCWorkers
  Clients <- MCClients
  Inputs <- MCInputs
  Nobody = Nobody
  NoMessage = NoMessage
  Ids <- MCIds
  ShipNames <- MCShipNames
  Callsigns <- MCCallsigns
  Places <- MCPlaces
  NoPlace = NoPlace
  Speeds <- MCSpeeds
  NoSpeed = NoSpeed
  Tables <- MCTables
  MaxInterval = 1
  AirStale = 1
  SeaStale = 1
  ClockBound = 2
  MessageBound = 2
  RestartBound = 1
PROPERTY NameKept
