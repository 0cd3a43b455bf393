SPECIFICATION FairSpec
CONSTANTS
  None = None
  Limit <- Limits
  Bindings <- BindingLimits
CHECK_DEADLOCK FALSE
INVARIANTS
  HistoryFollows
  PagesFit
  OneLoopPolls
  PopupsFit
PROPERTIES
  MovesAreTrue
  LockIsReleased
  ChangesAreSeen
  PopupsClose
