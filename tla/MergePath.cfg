CONSTANTS
    frame = frame
    vic = vic
    FrameThread = frame
    VicThread = vic
    Threads <- MCThreads
    Groups <- MixedTurn
    NumSlots = 2
    MaxJobs = 2
    MaxTests = 2
    MaxFrames = 3
    MaxCalls = 4
SPECIFICATION Spec
INVARIANTS MergeIsTrue PoolInStep
PROPERTIES NeverWritesUnderScan
CHECK_DEADLOCK FALSE
