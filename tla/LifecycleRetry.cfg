CONSTANTS
    Moving = {"lifecycle"}
    h1 = h1
    h2 = h2
    h3 = h3
    o1 = o1
    o2 = o2
    Handles <- ThreeHandles
    Owners <- TwoOwners
    OwnerOf <- TwoAndOne
    MostEntries = 1
    NumSlots = 2
    MaxFrames = 1
    MaxAllocations = 1
    MaxAsks = 1
SPECIFICATION EnginesSpec
INVARIANT RetryHeals
CHECK_DEADLOCK FALSE
