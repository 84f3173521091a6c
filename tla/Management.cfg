SPECIFICATION Spec
CONSTANTS
    None = None
    Short = Short
    Long = Long
    Gnb = Gnb
    Amf = Amf
    p1 = p1
    p2 = p2
    c1 = c1
    c2 = c2
    t1 = t1
    t2 = t2
    s1 = s1
    o1 = o1
    k1 = k1
    v1 = v1
    v2 = v2
    Conns = {c1, c2}
    Callers = {c1, c2}
    SecRows <- MCSecRows
    InitialSec <- MCSec
    MaxRows = 1
    Plmns = {p1, p2}
    Gws = {1}
    Rows <- MCRows
    InitialDb <- MCDb
    Pages <- MCPages
    Budgets <- MCBudgets
    MaxQueue = 1
    MaxWaits = 2
INVARIANTS SetupsFollowTables ListedLive ResultsReachSubscribers
           ServedAsConfigured ListsOwnRows 
SYMMETRY Symmetry
CHECK_DEADLOCK FALSE
