CONSTANTS
    MaxTransports = 2
    MaxLoops = 1
    MaxFaults = 1
    MaxTasks = 1
    MaxEvents = 1
SPECIFICATION FairSpec
INVARIANTS NoNilCall PointersAgree
PROPERTIES ClaimKept   
CHECK_DEADLOCK FALSE
