\* Procedures of one UE follow each other, two UEs interleave; the ids of NGAP and PDU sessions are apart.
CONSTANTS
  MAX_PDU_SESSIONS = 3
  NgapIds = {3, 4}
  Pdus = {r1, r2}
  Objects = {o1, o2}
  MediaIds = {i1, i2}
  GnbEnds = {g1, g2}
  MaxMsg = 3
  Handovers = 1
  NULL = NULL
  OneAtATime = TRUE
  Failures = TRUE
SYMMETRY Sym
SPECIFICATION Spec
INVARIANTS SentWhenAnswered UpdateFindsSession MediaFollows MapLeadsHome
CHECK_DEADLOCK FALSE
