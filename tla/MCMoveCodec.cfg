SPECIFICATION Spec
CONSTANTS
  Square <- ArrayIndex
  Dead <- DEAD
  View <- Orientation
  Home = 0
  Rot <- RotTables
  Piece <- PieceIndex
  Start <- StartSquares
  StartCode <- StartCodes
  MaxBlockers = 1
INVARIANTS
  SameMove
CHECK_DEADLOCK FALSE
