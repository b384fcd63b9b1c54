SPECIFICATION Spec
CONSTANTS
    Drv = 2
    Out = 4
    BufSize = 7
    Reads <- MCReads
    MaxGap = 3
    MaxClock = 20
    MaxSamples = 28
INVARIANTS
    SamplesInOrder
    SilenceBeforeSound
    BuffersHold
