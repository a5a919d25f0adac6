SPECIFICATION MCSpec
CONSTANTS
  Robots = {1, 2}
  First = {1}
  LeaderTimeout = 3
  SyncPause = 2
  TurnDeadline = 3
  CardGap = 2
  HandoverTurn = TRUE
  MaxDelay = 0
  Cards = 1
  RunOrders = 1
  Settings = 0
  Faults = 1
  Hasty = TRUE
  BootRole <- MCBootRole
INVARIANT HeadingsAgree
