SPECIFICATION MSpec
CONSTANTS
  Position <- MCPosition
  StartPosition = 0
  MoveCode <- MCMoveCode
  Legal <- MCLegal
  Do <- MCDo
  NoMove = NoMove
  Torn = Torn
  Programs = {"rollerball", "rollerball_py"}
  MaxInbox = 2
  MaxOutbox = 1
  Patient = TRUE
INVARIANTS
  InStep
  SearchesTheGame
  StaysUp
PROPERTY IsSession
CHECK_DEADLOCK FALSE
