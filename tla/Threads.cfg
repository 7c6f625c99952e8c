CONSTANTS
    f1 = f1
    w = w
    Worker = w
    Frames <- OneFrame
    Threads <- OneFrameThreads
    MaxJobs = 2
    MaxComposes = 1
SPECIFICATION ThreadsSpec
INVARIANTS OutcomeIsTrue QueueIsSound DrawingsAreServed
PROPERTIES TakenInOrder CallsReturn FloorOutlivesWork FloorGoesAtLast
CHECK_DEADLOCK FALSE
