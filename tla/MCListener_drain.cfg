SPECIFICATION FairSpec
CONSTANTS
  LISTENER_MAX_SERVERS = 2
  LISTENER_MAX_CLIENTS = 1
  MAX_SIZE_QUEUE = 1
  FirstFd = 5
  NONE = NONE
  c1 = c1
  c2 = c2
  Conns = {c1, c2}
  Senders = {c1, c2}
  MaxSend = 1
  Targets = {0}
  Available = {"tcp"}
  Fallible = {}
  Quitters = {c1}
  Stallers = {}
  MaySignal = FALSE
CHECK_DEADLOCK FALSE
PROPERTIES
  BrokenClientIsReaped
  QueuesDrain
