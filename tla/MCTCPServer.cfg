CONSTANTS
    c1 = c1
    c2 = c2
    Clients <- TwoClients
    Owner = owner
    ChanCap = 1
    Window = 1
    Loads <- SafetyLoads
SPECIFICATION Spec
SYMMETRY ClientSymmetry
INVARIANTS SenderOrder NoEcho CloseWaitsForAll BroadcastComplete
CHECK_DEADLOCK FALSE
