SPECIFICATION Spec
CONSTANTS
  Full = 4
  Channels = {0, 1, 2, 3, 4, 5}
  LineFollowerReady = FALSE
  Param <- MCParam
  Whole = 100
  NaN = NaN
  IntHalf = 8
  ReadEvery = 2
  Misses = 1
  Start <- MCStart
  MinSaturation = 25
  MinClear = 1
  Requests = 1
  MaxCount = 3
  MaxAge = 6
INVARIANTS FilterTypeOK SettingsUsable SightsAlike
PROPERTIES AllOrNothing CardsSpaced NoEcho
