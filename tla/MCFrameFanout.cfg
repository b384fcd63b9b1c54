CONSTANTS
    jpeg = jpeg
    alaw = alaw
    Encoders = {jpeg}
    Main = main
    Dests = {d1, d2}
    NFrames = 3
    ExSlots <- MCExSlots
SPECIFICATION Spec
INVARIANTS
    RefCountsHolders
    EncoderRunsIffAwaited
