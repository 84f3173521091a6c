\* Subscriptions against deliveries: one event id besides EVENT_ID_ALL, three
\* nodes, two callbacks.
CONSTANTS
  Producers = {p1}
  Sources = {1}
  MAX_DISPATCHER = 2
  DISPATCH_QUEUE_LIMIT = 2
  EventIds = {5}
  Callbacks = {c1, c2}
  Nodes = {n1, n2, n3}
  FastEvents = {}
  NULL = NULL
  SHUTDOWN_TRIES = 1
  MaxFired = 2
SYMMETRY SubscriberSym
SPECIFICATION Spec
INVARIANTS WalkOnLiveNode SubscriptionLists
CHECK_DEADLOCK FALSE
