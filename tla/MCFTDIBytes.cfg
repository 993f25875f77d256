CONSTANTS
    ftdiStatusSize = 2
    ftdiMaxPacketSize = 5
    MaxAsked = 4
    MaxSent = 8
    ChunkSize = 2
    FrameSizes = {1, 4, 5}
    MaxMsgs = 2
    Bauds = {110, 600, 732, 733, 1200, 9600, 57600, 115200, 921600, 2000000, 3000000}
SPECIFICATION Spec
INVARIANTS WireCorrect CopiesNeedFailures DivisorClosest
PROPERTY IsByteSource
CHECK_DEADLOCK FALSE
CONSTRAINT OneAtATime
