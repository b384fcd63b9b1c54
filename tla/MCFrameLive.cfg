CONSTANTS
    jpeg = jpeg
    alaw = alaw
    Encoders = {jpeg, alaw}
    Main = main
    Dests = {d1}
    NFrames = 2
    ExSlots <- MCSmallExSlots
SPECIFICATION LiveSpec
PROPERTY EveryFrameReturns
