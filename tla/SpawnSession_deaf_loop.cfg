SPECIFICATION FairSpec
CONSTANTS
    Programs = {"cubesat_rx"}
    MaxSent = 0
INVARIANT NoDeafLoop
