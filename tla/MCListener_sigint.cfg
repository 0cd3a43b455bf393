SPECIFICATION FairSpec
CONSTANTS
  LISTENER_MAX_SERVERS = 2
  LISTENER_MAX_CLIENTS = 1
  MAX_SIZE_QUEUE = 1
  FirstFd = 5
  NONE = NONE
  c1 = c1
  Conns = {c1}
  Senders = {c1}
  MaxSend = 1
  Targets = {0}
  Available = {"tcp", "bt"}
  Fallible = {}
  Quitters = {c1}
  Stallers = {c1}
  MaySignal = TRUE
CHECK_DEADLOCK FALSE
PROPERTIES
  SigintEndsProgram
