SPECIFICATION FairSpec
CONSTANTS
    None = None
    a1 = a1
    g1 = g1
    l1 = l1
    Idx = {0, 1, 2}
    Ids = {1, 2, 3}
    Amfs = {a1}
    Gnbs = {g1}
    Locals = {l1}
    HomeOf <- Homes
    InitialTable <- Table
    Offered <- NewLinks
    MaxTimers = 1
    MaxFaults = 2
    MaxCommands = 1
INVARIANTS LinksFollowTable  
 
CHECK_DEADLOCK FALSE
