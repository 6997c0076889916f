SPECIFICATION Spec
CONSTANTS
  Client = {a, b}
  Worker = {w1, w2}
  Capacity = 2
  FD <- TwoFDs
  MaxMsgs = 2
  MayClose = TRUE
  EarlyReturn <- FirstReturns
  Listener = Listener
  None = None
  a = a
  b = b
  w1 = w1
  w2 = w2
SYMMETRY Symmetry
INVARIANT RepliesReachSender
 
CHECK_DEADLOCK FALSE
