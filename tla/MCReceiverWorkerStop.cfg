SPECIFICATION FairSpec
CONSTANTS
  c1 = c1
  c2 = c2
  Callers <- MCCallers
  NoCaller = NoCaller
  MaxQueueDepth = 2
  CallBound = 3
  BlockBound = 3
PROPERTY StopReturns
CHECK_DEADLOCK FALSE
