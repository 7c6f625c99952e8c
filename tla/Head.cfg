SPECIFICATION Spec
CONSTANTS
  Windows <- MCWindows
  Frames <- MCFrames
  Modeset <- MCModeset
  Images = {1, 2}
  Places = {1, 40000}
  Matrices = {"identity", "tint", "invert", "offset"}
  Aspects = {"pointer", "colour", "rate"}
  MaxMoves = 2
  MaxRefusals <- MCRefusals
INVARIANTS HeadIsTrue SpriteIsTrue
PROPERTIES SlotsNeverDrawnUnderScan
