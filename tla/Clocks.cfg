CONSTANTS
    Periods <- TwoPeriods
    FirstPeriod = 2
    Stale = 3
    MaxTime = 6
    MaxCalls = 3
    ColourSetups <- Boards
    MaxAsks = 2
    MaxTaps = 1
    MaxFrames = 2
    MaxRefusals = 1
SPECIFICATION ClocksSpec
INVARIANTS ClockIsHonest
PROPERTIES OnlyTheLastAsked WorkerAnswers TintOnce ProfileArrives
CHECK_DEADLOCK FALSE
