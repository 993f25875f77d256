CONSTANTS
    WordSize = 1
    maxTopicSize = 1
    maxMessageSize = 2
    BufSize = 11
    Streams <- SafetyStreams
    IdleReads = TRUE
SPECIFICATION Spec
INVARIANTS
    TypeOK
    BufferIsStreamWindow
    DeliveredInOrder
    NoFrameSkipped
