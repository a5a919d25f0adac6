SPECIFICATION FairSpec
CONSTANTS
  CmdTimeout = 2
  SearchTimeout = 2
  SyncPause = 1
  TurnDeadline = 3
  HandoverTurn = TRUE
  Count = 5
  White = 100
  Levels = {0, 5, 50}
  Threshold = 10
INVARIANT KeyTimesOut
