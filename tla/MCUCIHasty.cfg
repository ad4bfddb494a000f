SPECIFICATION MSpec
CONSTANTS
  Position <- MCPosition
  StartPosition = 0
  MoveCode <- MCMoveCode
  Legal <- MCLegal
  Do <- MCDo
  NoMove = NoMove
  Torn = Torn
  Programs = {"rollerball"}
  MaxInbox = 2
  MaxOutbox = 1
  Patient = FALSE
INVARIANT MoveCheck
CHECK_DEADLOCK FALSE
