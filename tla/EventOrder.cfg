\* Ordering, ownership, shutdown and liveness: queues of one, so that pushes block; source 1 and
\* the null source share dispatchers.
CONSTANTS
  Producers = {p1}
  Sources = {1}
  MAX_DISPATCHER = 2
  DISPATCH_QUEUE_LIMIT = 1
  EventIds = {}
  Callbacks = {}
  Nodes = {}
  FastEvents = {f1}
  NULL = NULL
  SHUTDOWN_TRIES = 2
  MaxFired = 3
SPECIFICATION FairSpec
INVARIANTS ExactlyOnce ShutdownQuiesces
PROPERTY ImplementsFifo EventuallyTaken ShutdownEnds
CHECK_DEADLOCK FALSE
