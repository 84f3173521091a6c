\* Eight nodes: black height three and every branch of both re-balancing loops.
\* Keys 12 13 0 1 modulo 14, each shared by two nodes.
CONSTANTS
  Node = {0, 1, 2, 3, 4, 5, 6, 7}
  Sentinel = Sentinel
  NULL = NULL
  KEY_SPACE = 14
SPECIFICATION TreeSpec
INVARIANTS Balanced 
