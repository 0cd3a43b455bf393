SPECIFICATION Spec
CONSTANTS
  LISTENER_MAX_SERVERS = 2
  LISTENER_MAX_CLIENTS = 1
  MAX_SIZE_QUEUE = 1
  FirstFd = 5
  NONE = NONE
  c1 = c1
  Conns = {c1}
  Senders = {c1}
  MaxSend = 1
  Targets = {0, 5}
  Available = {"tcp"}
  Fallible = {}
  Quitters = {}
  Stallers = {}
  MaySignal = TRUE
CHECK_DEADLOCK FALSE
INVARIANTS
  QueueExists
