CONSTANTS
    Letters = {"a", "b"}
    PatternLetters = {"a"}
    MaxPattern = 5
    MaxTopic = 5
    ByteValues <- Bytes
    QDP_MAX_TOPIC_LENGTH = 2
    QDP_MAX_PAYLOAD_SIZE = 1
    MaxText = 3
    MaxData = 2
    DamagedBytes <- OneByte
    MaxBurst = 32
SPECIFICATION FunctionsSpec
INVARIANTS
    GoMatchesReference
    LibrariesAgree
    TableIsDivision
    
    
CHECK_DEADLOCK FALSE
