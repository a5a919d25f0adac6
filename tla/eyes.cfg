SPECIFICATION Spec
CONSTANTS
  SyncPause = 3
  SyncGo = 1
  SyncBlink = 1
  Flash = 1
  HandoverTurn = TRUE
  SpeedCards = {"yellow"}
INVARIANTS EyesTypeOK PauseOwnsEyes LostPeerKnown
PROPERTIES EyesTell
