SPECIFICATION Spec
CONSTANTS
    Width = 2
    SmallShare = 4
    Scenes <- MCScenes
    Kinds <- MCKinds
    Setups <- MCSetups
    Planes = 3
    Direct = 2
    CursorPlane = TRUE
    MaxId = 3
    MaxRefusals = 1
PROPERTIES ContractKept ReleasesAreTrue SkipHonoured
CHECK_DEADLOCK FALSE
