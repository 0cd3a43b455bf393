SPECIFICATION Spec
CONSTANTS
  LISTENER_MAX_SERVERS = 1
  LISTENER_MAX_CLIENTS = 2
  MAX_SIZE_QUEUE = 2
  FirstFd = 5
  NONE = NONE
  c1 = c1
  c2 = c2
  Conns = {c1, c2}
  Senders = {c1, c2}
  MaxSend = 2
  Targets = {0, 5}
  Available = {"tcp"}
  Fallible = {}
  Quitters = {}
  Stallers = {}
  MaySignal = FALSE
CONSTRAINT TwoTexts
PROPERTIES
  ImplementsRelay
