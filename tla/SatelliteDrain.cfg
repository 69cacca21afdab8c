SPECIFICATION FairSpec
CONSTANTS
    NTransmissions = 3
    Beacons = {1, 2}
    Cap = 2
    Polls = 2
INVARIANTS
    EmittedExactly
    LossIsNoticed
PROPERTIES
    StopEnds
