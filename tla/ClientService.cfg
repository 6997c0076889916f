SPECIFICATION FairSpec
CONSTANTS
  Account = {anna, bert}
  Text = {x}
  ServerFlags <- TwoFlags
  MaxRequests = 3
  MaxMessages = 2
  MaxUnread = 1
  Splits = TRUE
  Empty = Empty
  anna = anna
  bert = bert
  x = x
INVARIANT TypeOK
INVARIANT ShownInOrder
INVARIANT RequestsSigned
PROPERTY EveryMessageShown
PROPERTY HangUpEndsClient
CHECK_DEADLOCK FALSE
