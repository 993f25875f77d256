CONSTANTS
    Entities = {c, s}
    Clients = {c}
    MaxTransports = 2
    MaxEvents = 3
SPECIFICATION FairSpec
INVARIANTS NonLeaderHoldsNoProtocol DisconnectReportedOnce HeldIsOpen StatusTruthful
  
CHECK_DEADLOCK FALSE
