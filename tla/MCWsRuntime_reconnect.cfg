SPECIFICATION FairSpec
CONSTANTS
  o1 = o1
  Orders = {o1}
  Failing = {o1}
  SendPing = FALSE
  MaxRefusals = 1
  MaxDrops = 1
PROPERTIES
  Reconnects
