SPECIFICATION Spec
CONSTANTS
  Position <- MCPosition
  StartPosition = 0
  MoveCode <- MCMoveCode
  Legal <- MCLegal
  Do <- MCDo
  NoMove = NoMove
  Torn = Torn
  Programs = {"rollerball", "rollerball_py"}
  MaxInbox = 1
  MaxOutbox = 1
INVARIANTS
  TypeOK
  StopNotLost
PROPERTIES
  StoredFromCopy
  EndsForCause
  StopReturns
CHECK_DEADLOCK FALSE
