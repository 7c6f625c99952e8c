SPECIFICATION Spec
CONSTANTS
  kEngineScaleReach = 2
  kMaxLayers = 3
  kMaxSide = 2
  kSteps = 40
  kFurthestBack = 255
  PanelW = 4
  PanelH = 2
  Budgets = {0, 2, 40}
  Windows <- MCWindows
  Table <- MCTable
  Target <- MCTarget
  Setups <- MCSetups
  Kinds <- MCKinds
  MaxLayers <- MCMaxLayers
  ClientFrames <- MCClientFrames
INVARIANTS PictureKept AcceptedIsShown SearchesAreExact
CHECK_DEADLOCK FALSE
