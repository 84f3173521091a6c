\* Procedures overlap, ids of NGAP and PDU sessions collide, answers come late or never.
CONSTANTS
  MAX_PDU_SESSIONS = 3
  NgapIds = {1, 2}
  Pdus = {r1, r2}
  Objects = {o1, o2}
  MediaIds = {i1}
  GnbEnds = {g1}
  MaxMsg = 2
  Handovers = 0
  NULL = NULL
  OneAtATime = FALSE
  Failures = FALSE
SYMMETRY Sym
SPECIFICATION Spec
PROPERTIES EarlyOnlyByStray LostOnlyByNamesake
CHECK_DEADLOCK FALSE
