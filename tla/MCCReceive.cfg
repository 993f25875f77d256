CONSTANTS
    Start <- ThreeFrames
    HeaderSize = 2
    Capacity = 12
    Patterns = {"any", "second"}
    Matching <- AnyAndSecond
    QDP_MAX_SUBSCRIPTIONS = 3
    MaxCalls = 4
SPECIFICATION FairDispatchSpec
INVARIANTS
    
    
    
    PassesOverOnlyForRemoved
 
CHECK_DEADLOCK FALSE
