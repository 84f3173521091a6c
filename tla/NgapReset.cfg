\* A gNB with a session resets.
CONSTANTS
  Threads = {t1, t2}
  MAX_NGAP_SESSIONS = 3
  Gnbs = {g1}
  Amfs = {m1}
  Resets = {g1}
  Sessions = {s1}
  Timers = {c1}
  NULL = NULL
  Timely = TRUE
SPECIFICATION FairSpec
PROPERTY GnbResetFinishes
CHECK_DEADLOCK FALSE
