CONSTANTS
    WordSize = 1
    maxTopicSize = 1
    maxMessageSize = 2
    BufSize = 11
    Streams <- BurstStreams
    IdleReads = FALSE
SPECIFICATION Spec
INVARIANT FramesNeverLost
