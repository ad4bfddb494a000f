SPECIFICATION RSpec
CONSTANTS
  Square <- ArrayIndex
  Dead <- DEAD
  View <- Orientation
  Home = 0
  Rot <- RotTables
  Piece <- PieceIndex
  Start <- StartSquares
  StartCode <- StartCodes
  NoBoard = NoBoard
  MaxPly = 99
  MaxLine = 1
  MaxFree = 0
  Scripts <- AllScripts
INVARIANTS
  LegalMovesExact
  MenFollowRules
  Antisymmetric
  MateIsBest
  EvaluatesTheGame
PROPERTY Spec
