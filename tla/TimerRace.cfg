\* An owner that adds its timer again and again, and one that deletes and may be too late; what
\* follows once one is too late is explored while the tree is empty.
CONSTANTS
  Node = {p1, o1}
  Sentinel = Sentinel
  NULL = NULL
  KEY_SPACE = 5
  Delays = {1}
  MaxLag = 1
  OneShot = {o1}
  Cancelled = {o1}
SPECIFICATION FairSpec
CHECK_DEADLOCK FALSE
CONSTRAINT Unraced
INVARIANT CrashOnlyByRace
PROPERTIES FiresWhenDue EventuallyFires ShutdownStops
