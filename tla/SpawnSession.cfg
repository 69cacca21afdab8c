SPECIFICATION FairSpec
CONSTANTS
    Programs = {"cubesat_rx", "bidir", "satellite_rx"}
    MaxSent = 2
INVARIANTS
    ReadyIsProof
    HandlerFailureFails
    EngineFailureReported
PROPERTIES
    SessionEnds
    PromiseKept
