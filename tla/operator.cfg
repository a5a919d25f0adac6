SPECIFICATION MCSpec
CONSTANTS
  Robots = {1, 2}
  First = {1}
  LeaderTimeout = 1
  SyncPause = 1
  TurnDeadline = 2
  CardGap = 1
  HandoverTurn = TRUE
  MaxDelay = 0
  Cards = 1
  RunOrders = 2
  Settings = 1
  Faults = 0
  Hasty = TRUE
  BootRole <- MCBootRole
INVARIANTS ParkedUnlessDriving
PROPERTIES ImplementsLead
