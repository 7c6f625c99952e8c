CONSTANTS
    Flushers = {f1, f2}
    MaxJobs = 3
    HdcpFrames = 2
    MaxRefusals = 1
    MaxDrops = 1
    MaxFrames = 2
    MaxChanges = 1
    MaxDisplays = 2
SPECIFICATION NoticesSpec
INVARIANTS NoTriggerOutlivesDisplay CollectsAll ToldIsAsked
PROPERTIES FlushMeansRun EverythingEnds
CHECK_DEADLOCK FALSE
