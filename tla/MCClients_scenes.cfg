SPECIFICATION AllFairSpec
CONSTANTS
  Dimensions = 2
  Readings = {0, 2, 5}
  Paired = {hub, other}
  Names = {hub, other, null}
  NoDevice = NoDevice
  MaxReadings = 3
  MaxTaps = 2
  Arguments = {"address", "name"}
  Kinds = {"accelerometer", "up", "down", "other", "malformed"}
  MaxTexts = 3
  BufferTexts = 2
CHECK_DEADLOCK FALSE
INVARIANTS
  OneOpenSocket
  MovementConserved
  KeysFollowTexts
  EndsWithCause
PROPERTIES
  DeadLinkStaysDead
  LoopMovesOn
