SPECIFICATION TxSpec
CONSTANTS
    N = 2
    Mtu = 2
    MaxChunk = 3
    MaxStalls = 1
    MaxPolls = 1
    HasStatus = TRUE
    Programs = {"ax25_tx"}
    MaxSent = 2
INVARIANT
    BurstFailureFails
