SPECIFICATION Spec
CONSTANTS
  Square <- MCSquare
  Dead <- MCDead
  View <- MCView
  Home = 0
  Rot <- MCRot
  Piece <- MCPiece
  Start <- MCStart
  StartCode <- MCStartCode
  NoBoard = NoBoard
  MaxPly = 2
  MaxLine = 2
INVARIANTS
  TypeOK
  ServerBoardConsistent
  SearchBoardConsistent
  ServerBoardClean
  LineOK
  SearchRestoresRoot
PROPERTY BacktrackRestores
