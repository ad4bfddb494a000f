SPECIFICATION RSpec
CONSTANTS
  Square <- ArrayIndex
  Dead <- DEAD
  View <- Orientation
  Home = 0
  Rot <- RotTables
  Piece <- PieceIndex
  Start <- StartSquares
  StartCode <- StartCodes
  NoBoard = NoBoard
  MaxPly = 99
  MaxLine = 2
  MaxFree = 0
  Scripts <- Endings
INVARIANTS
  KingsLive
  NotLeftInCheck
  SearchSeesTheGame
