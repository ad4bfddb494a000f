SPECIFICATION Spec
CONSTANTS
  Square <- ArrayIndex
  Dead <- DEAD
  View <- Orientation
  Home = 0
  Rot <- RotTables
  Piece <- PieceIndex
  Start <- StartSquares
  StartCode <- StartCodes
  MaxBlockers = 2
INVARIANTS
  MatchesRules
  HalfTurn
CHECK_DEADLOCK FALSE
