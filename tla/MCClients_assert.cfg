SPECIFICATION AllSpec
CONSTANTS
  Dimensions = 2
  Readings = {0, 2, 5}
  Paired = {hub, other}
  Names = {hub, other, null}
  NoDevice = NoDevice
  MaxReadings = 1
  MaxTaps = 1
  Arguments = {"address"}
  Kinds = {"accelerometer", "up", "down", "other", "malformed"}
  MaxTexts = 3
  BufferTexts = 2
CHECK_DEADLOCK FALSE
INVARIANTS
  ClientExists
