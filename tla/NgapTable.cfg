\* The tables under every interleaving of handlers, timers and resets: one id, so that it is used again.
CONSTANTS
  Threads = {t1, t2}
  MAX_NGAP_SESSIONS = 2
  Gnbs = {g1}
  Amfs = {m1}
  Resets = {g1}
  Sessions = {s1, s2}
  Timers = {c1, c2}
  NULL = NULL
  Timely = TRUE
SPECIFICATION FairSpec
INVARIANTS SessionListSound TimerListSound SessionFindable 
PROPERTY CheckedOrReleased
CHECK_DEADLOCK FALSE
