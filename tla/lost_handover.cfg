SPECIFICATION MCFairSpec
CONSTANTS
  Robots = {1, 2}
  First = {1}
  LeaderTimeout = 2
  SyncPause = 1
  TurnDeadline = 2
  CardGap = 1
  HandoverTurn = TRUE
  MaxDelay = 0
  Cards = 1
  RunOrders = 1
  Settings = 0
  Faults = 1
  Hasty = TRUE
  BootRole <- MCBootRole
INVARIANTS ParkedUnlessDriving
PROPERTIES LeaderSettles
