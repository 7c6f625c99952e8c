CONSTANTS
    Engines = {"vic", "gpu"}
    CopyFails = FALSE
    WriteFails = TRUE
    Levels = 1
    MaxSeq = 2
    MaxFences = 2
    MaxPower = 1
    MaxCalls = 2
SPECIFICATION Spec
INVARIANTS FloorIsWaitedOut FencesClosedOnce
CHECK_DEADLOCK FALSE
