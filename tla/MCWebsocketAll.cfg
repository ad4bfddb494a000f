SPECIFICATION Safe
CONSTANTS
  Conn = {c1, c2, c3}
  MaxMessages = 1
SYMMETRY Symmetry
PROPERTY SentToAll
CHECK_DEADLOCK FALSE
