SPECIFICATION Spec
CONSTANTS
  Client = {a, b}
  Worker = {w1, w2}
  Capacity = 1
  FD <- TwoFDs
  MaxMsgs = 1
  MayClose = FALSE
  EarlyReturn <- NoEarlyReturn
  Listener = Listener
  None = None
  a = a
  b = b
  w1 = w1
  w2 = w2
SYMMETRY Symmetry
INVARIANT NoStranded
CHECK_DEADLOCK FALSE
