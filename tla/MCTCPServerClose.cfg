CONSTANTS
    c1 = c1
    c2 = c2
    Clients <- TwoClients
    Owner = owner
    ChanCap = 1
    Window = 1
    Loads <- CloseLoads
SPECIFICATION FairSpec
PROPERTY CloseTerminates
CHECK_DEADLOCK FALSE
