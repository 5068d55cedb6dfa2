SPECIFICATION PartSpec
CONSTANTS
  c1 = c1
  c2 = c2
  Callers <- MCCallers
  NoCaller = NoCaller
  MaxQueueDepth = 2
  CallBound = 3
  BlockBound = 3
  r1 = r1
  r2 = r2
  none = none
  unknown = unknown
  Receivers <- MCReceivers
  FirstReceiver = r1
  NoReceiver = none
  Unknown = unknown
  Values <- MCValues
  Default = 0
  VisitedTabs <- MCTabs
  PressBound = 2
  p1 = p1
  p2 = p2
  s1 = s1
  k1 = k1
  k2 = k2
  NoMessage = NoMessage
  Publishers <- MCPublishers
  Subscribers <- MCSubscribers
  Classes <- MCClasses
  MaxMessages = 2
  PublishBound = 5
INVARIANTS
  BufferOutlivesThreads
  QueueSound
  CopiesAgree
  NoLostWakeup
PROPERTIES
  StopMeansStopped
  ReturnsOrHangs
  StartsAsShown
  PressEnds
  ImplementsFeed
  StreamsServed
CHECK_DEADLOCK FALSE
