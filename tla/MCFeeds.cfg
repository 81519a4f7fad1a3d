SPECIFICATION FeedsSpec
CONSTANTS
  o1 = o1
  o2 = o2
  o3 = o3
  A = A
  B = B
  Orders = {o1, o2, o3}
  Failing = {o3}
  SendPing = TRUE
  MaxRefusals = 2
  MaxDrops = 1
  Symbols = {A, B}
  MaxBar = 2
  MaxWire = 2
  MaxChannelDrops = 2
  MaxChannelRefusals = 1
INVARIANTS
  OneSessionPerConnection
  FiresClosedBarsOnce
PROPERTIES
  PolledWhileLooping
  EventuallySubscribed
  Recovers
  PushedBarsSettle
