CONSTANTS
    jpeg = jpeg
    alaw = alaw
    Encoders = {jpeg, alaw}
    Main = main
    Dests = {d1}
    NFrames = 3
    ExSlots <- MCExSlots
SPECIFICATION Spec
INVARIANTS
    TypeOK
    PutSlotFree
    NoLostFrame
    WakeupPerFrame
    NoFrameLeaked
    NoFrameShared
PROPERTY ImplementsChannel
