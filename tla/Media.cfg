SPECIFICATION Spec
CONSTANTS
    None = None
    n3 = n3
    n3upf = n3upf
    n3v6 = n3v6
    Sigs = {s1, s2}
    Workers = {w1, w2}
    MaxId = 2
    StartIds = {1}
    UpfPeers = {u1}
    NewUpfPeers = {u1, u2}
    GnbPeers = {g1, g2}
    Peers6 = {x}
    LocalOf <- Locals
    MaxSock = 6
    MaxRequests = 2
    Dests = {d}
SYMMETRY Symmetric
CONSTRAINT Orderly
INVARIANTS  ForwardsToPeer TeidsLeadHome
CHECK_DEADLOCK FALSE
