\* Three gNBs and two UEs that use one number after each other, two messages under way.
CONSTANTS
  Gnbs = {g1, g2, g3}
  Amfs = {m1}
  Ues = {u1, u2}
  Ids = {i1}
  MaxNet = 2
  NULL = NULL
SYMMETRY Sym
CONSTRAINT Certain
SPECIFICATION Spec
INVARIANTS ReachesOwnUe SidesAgree 
CHECK_DEADLOCK FALSE
