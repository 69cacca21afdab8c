SPECIFICATION FairSpec
CONSTANTS
    Frames = {f1, f2}
    NoFrame = NoFrame
    MaxOrderly = 7
    MaxUnruly = 4
    Chunks = 2
INVARIANTS
    HalfDuplex
    FliesOnlyLicensed
    OneAnswerEach
    NoCloseUnderBurst
    StopEndsBurst
    StoppedRxIsSuspended
PROPERTIES
    TransmitAnswered
