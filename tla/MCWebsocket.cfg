SPECIFICATION Spec
CONSTANTS
  Conn = {c1, c2}
  MaxMessages = 2
INVARIANTS
  TypeOK
  NoEventMissed
  ListExact
  LastCountRight
  NoGap
PROPERTY Forgotten
CHECK_DEADLOCK FALSE
