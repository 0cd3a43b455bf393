SPECIFICATION FairSpec
CONSTANTS
  p1 = p1  p2 = p2  c1 = c1  c2 = c2  v1 = v1  v2 = v2
  Producers = {p1, p2}
  Consumers = {c1, c2}
  Values = {v1, v2}
  MAX_SIZE_QUEUE = 3
  NULL = NULL
  Nobody = Nobody
INVARIANTS
  QueueSafe
PROPERTIES
  ImplementsFifo
  ElementsAreTaken
