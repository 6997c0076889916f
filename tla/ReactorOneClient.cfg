SPECIFICATION FairSpec
CONSTANTS
  Client = {a}
  Worker = {w1, w2, w3}
  Capacity = 1
  FD <- OneFD
  MaxMsgs = 3
  MayClose = TRUE
  EarlyReturn <- NoEarlyReturn
  Listener = Listener
  None = None
  a = a
  w1 = w1
  w2 = w2
  w3 = w3
INVARIANT TypeOK
INVARIANT NoStranded
PROPERTY EveryMessageTaken
PROPERTY HangUpIsNoticed
CHECK_DEADLOCK FALSE
