SPECIFICATION FairSpec
CONSTANTS
  CmdTimeout = 2
  SearchTimeout = 2
  SyncPause = 3
  TurnDeadline = 3
  HandoverTurn = TRUE
  Count = 6
  White = 100
  Levels = {0, 5, 50}
  Threshold = 10
INVARIANTS WheelsTypeOK OneOwner SilentSourceStops SearchGivesUp SightSound
PROPERTY ComesToRest
