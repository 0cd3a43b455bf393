SPECIFICATION Spec
CONSTANTS
  Urls = {"home", "a"}
  Home = "home"
  Paths = {"home"}
  None = None
  Events = "hashchange"
  HashFires = TRUE
  LoadFires = "never"
  Revisits = TRUE
  Stays = TRUE
  MaxMoves = 3
CHECK_DEADLOCK FALSE
INVARIANT FlagHasItsEvent
