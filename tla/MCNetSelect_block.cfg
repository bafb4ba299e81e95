CONSTANTS
  a = a  b = b  w1 = w1  w2 = w2
  Conns = {a, b}
  Workers = {w1, w2}
  Fds = {1, 2}
  Pieces <- TwoAndNone
  Detaching = TRUE
  Server = server
  None = None
SPECIFICATION Spec
INVARIANTS MarkedHasData
CHECK_DEADLOCK FALSE
