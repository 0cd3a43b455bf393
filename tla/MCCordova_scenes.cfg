SPECIFICATION AllFairSpec
CONSTANTS
  None = None
  MaxCalls = 2
  MaxMessages = 3
  ChunkSize = 1
  MayReenter = TRUE
  Throwing = {2}
  MaxSwitches = 1
  Modules <- Plugins
  Waits <- WaitsFor
  PageHandlers = {"onDeviceReadyBT", "app"}
  MaxPageChanges = 2
  Devices = {"device"}
  Serials = {"emulator1", "emulator2"}
  Avds = {"image"}
  Levels = {19}
  ProjectTarget = 19
  Targets = {"device", "emulator1", "image", None, "--device", "--emulator"}
  MaxDeviceChanges = 1
CHECK_DEADLOCK FALSE
INVARIANTS
  BridgeSafe
  HandledInOrder
  StartsInOrder
  InstalledAsAsked
PROPERTIES
  MessagesProcessed
  ReadyComes
