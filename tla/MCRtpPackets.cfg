CONSTANTS
    MaxData = 9
    MainHdr = 2
    DriHdr = 1
    QuantHdr = 3
    Sample = 2
    Lens <- MCLens
    SeqMod = 5
    MaxTime = 2
SPECIFICATION Spec
INVARIANTS
    FrameCovered
    PicturesReassembled
    SizeBounded
    CutBetweenSamples
