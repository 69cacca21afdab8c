SPECIFICATION FairSpec
CONSTANTS
    NChunks = 4
    On = {1, 3}
    Cap = 1
    MaxDefer = 1
INVARIANTS
    FedAsRecorded
    EveryBurstEmitted
PROPERTIES
    StopEndsEngine
    DeathFailsEngine
