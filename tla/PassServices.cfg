SPECIFICATION ServicesSpec
CONSTANTS
    CapItems = 2
    CapUnits = 3
    Sizes = {0, 1, 2, 4}
    MaxOffers = 5
    Cap = 2
    NBlocks = 6
    Payloads = {"a", "b"}
    MaxLag = 1
    MaxPending = 4
    MaxPolls = 3
    MaxBatch = 2
    Connect = 1
    Rpc = 1
    Reset = 1
    Grace = 2
    Period = 1
    Threshold = 2
    MaxAge = 8
    MaxChunk = 2
    MaxSamples = 6
INVARIANTS
    AudioComplete
    PairedWithoutLoss
    DopplerIsFresh
    CaptureIsPrefix
PROPERTIES
    NothingAfterGap
    ServicesEnd
