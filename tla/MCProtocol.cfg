CONSTANTS
    WordSize = 1
    maxTopicSize = 1
    maxMessageSize = 2
    BufSize = 11
    ChanCap = 1
    IdleReads = FALSE
    Streams <- PathStreams
    Patterns = {"one"}
    Handlers = {"h"}
    Matching <- TextOnly
    MaxCalls = 2
SPECIFICATION FairPathSpec
INVARIANTS
    NothingLostInQueue
    IntactUntilFirstShift
    DispatchExact
PROPERTIES EventuallyHandled LoopsEnd
CHECK_DEADLOCK FALSE
