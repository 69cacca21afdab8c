SPECIFICATION FairSpec
CONSTANTS
    Frames = {f1, f2}
    NoFrame = NoFrame
    MaxOrderly = 4
    MaxUnruly = 0
    Chunks = 2
INVARIANT NeverFalselyDeaf
