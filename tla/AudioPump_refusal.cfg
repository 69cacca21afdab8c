SPECIFICATION FairSpec
CONSTANTS
    Cap = 1
    NBlocks = 3
PROPERTY RefusalExits
