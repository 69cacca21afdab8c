SPECIFICATION TxFairSpec
CONSTANTS
    N = 4
    Mtu = 2
    MaxChunk = 3
    MaxStalls = 1
    MaxPolls = 2
    HasStatus = TRUE
    Programs = {"ax25_tx", "fm_tx", "stub_tx", "stub_rx"}
    MaxSent = 3
INVARIANTS
    FlownAsTold
    OutcomeIsTrue
    RevokedIsQuiet
    StoppedIsFinal
PROPERTIES
    TxSessionEnds
