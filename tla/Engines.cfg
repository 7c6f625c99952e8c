CONSTANTS
    Moving = {"cache", "vic", "bring_up", "lifecycle"}
    h1 = h1
    h2 = h2
    h3 = h3
    o1 = o1
    o2 = o2
    Handles <- ThreeHandles
    Owners <- TwoOwners
    OwnerOf <- TwoAndOne
    MostEntries = 1
    NumSlots = 2
    MaxFrames = 3
    MaxAllocations = 2
    MaxAsks = 3
SYMMETRY Alike
SPECIFICATION EnginesSpec
INVARIANTS ImagesHold EngineDrawsTrue NothingKept DisplaysAreTrue
PROPERTIES CacheIsHonest DownInOrder
CHECK_DEADLOCK FALSE
