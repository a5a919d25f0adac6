SPECIFICATION MCSpec
CONSTANTS
  Robots = {1, 2}
  First = {1}
  LeaderTimeout = 3
  SyncPause = 2
  TurnDeadline = 3
  CardGap = 4
  HandoverTurn = TRUE
  MaxDelay = 1
  Cards = 1
  RunOrders = 3
  Settings = 0
  Faults = 0
  Hasty = FALSE
  BootRole <- MCBootRole
INVARIANT AgreeAtRest
