CONSTANTS
    MaxTransports = 1
    MaxLoops = 1
    MaxFaults = 1
    MaxTasks = 1
    MaxEvents = 1
SPECIFICATION Spec
INVARIANT ClosedStaysClosed
CHECK_DEADLOCK FALSE
