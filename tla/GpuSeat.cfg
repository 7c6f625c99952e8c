SPECIFICATION SeatSpec
CHECK_DEADLOCK FALSE
CONSTANTS
    Moving = {"seat", "drawing"}
    Grain = 1
    PartPixels = 0
    MostParts = 2
    MostPartialInARow = 2
    HistoryFrames = 2
    HistoryLayers = 2
    Layers = {1, 2}
    Size = 6
    Texels = 2
    Places <- MCPlaces
    Turns = {0}
    Damages <- MCDamages
    MaxEdits = 2
    MaxFrames = 4
    MaxUpsets = 3
    MaxLayers = 3
    DamageLists <- MCDamage
INVARIANTS PanelIsTrue SavingsAreUnseen
PROPERTIES NeverDrawnUnderScan
