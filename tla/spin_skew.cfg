SPECIFICATION MCSpec
CONSTANTS
  Robots = {1, 2}
  First = {1}
  LeaderTimeout = 3
  SyncPause = 2
  TurnDeadline = 6
  CardGap = 2
  HandoverTurn = TRUE
  MaxDelay = 1
  Cards = 3
  RunOrders = 1
  Settings = 0
  Faults = 0
  Hasty = TRUE
  BootRole <- MCBootRole
INVARIANT SameSpeed
