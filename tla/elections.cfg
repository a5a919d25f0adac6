SPECIFICATION MCFairSpec
CONSTANTS
  Robots = {1, 2}
  First = {}
  LeaderTimeout = 2
  SyncPause = 1
  TurnDeadline = 2
  CardGap = 1
  HandoverTurn = TRUE
  MaxDelay = 0
  Cards = 0
  RunOrders = 0
  Settings = 0
  Faults = 3
  Hasty = TRUE
  BootRole <- MCBootRole
INVARIANTS TakesOver
PROPERTIES YieldsToRealClaim ImplementsLead LeaderSettles
