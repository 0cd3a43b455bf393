SPECIFICATION Spec
CONSTANTS
  LISTENER_MAX_SERVERS = 2
  LISTENER_MAX_CLIENTS = 2
  MAX_SIZE_QUEUE = 2
  FirstFd = 5
  NONE = NONE
  c1 = c1
  c2 = c2
  Conns = {c1, c2}
  Senders = {c1}
  MaxSend = 1
  Targets = {0}
  Available = {"tcp", "bt"}
  Fallible = {"tcp"}
  Quitters = {c2}
  Stallers = {}
  MaySignal = FALSE
CHECK_DEADLOCK FALSE
INVARIANTS
  ClientLife
  ClientsOfOpenServers
PROPERTIES
  OnlyBrokenClientsDropped
  OnlyReaperRaces
