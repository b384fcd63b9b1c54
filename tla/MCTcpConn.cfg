CONSTANTS
    SendBuf = 5
    ReqBuf = 6
    Wire = 2
    HeadLen = 1
    BodyLens <- MCBodyLens
    InLen = 2
    MaxIn = 3
    MaxOut = 3
SPECIFICATION LiveSpec
INVARIANTS
    TypeOK
    StreamIntact
    OutputScheduled
    WaitingClientIsHeard
PROPERTIES
    WriteLoopEnds
    DropAfterDrops
CHECK_DEADLOCK FALSE
