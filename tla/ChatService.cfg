SPECIFICATION HSpec
CONSTANTS
  Account <- TwoAccounts
  Group = {g1}
  Worker = {w1, w2}
  FD <- TwoFDs
  Ops = {"REGISTRE", "LOGIN", "SEND_MESSAGE", "CREATE_GROUP", "GROUP_ADD", "GROUP_SEND_MESSAGE"}
  MaxRequests = 2
  Known <- OnlyB
  MayLeave = TRUE
  Overlap = TRUE
  TimesGrow = FALSE
  MaxRestarts = 1
  Nameable <- AllNames
  None = None
  anna = anna
  bert = bert
  carl = carl
  w1 = w1
  w2 = w2
  g1 = g1
SYMMETRY HandlerSymmetry
INVARIANT RegisteredOnce
INVARIANT StraysAreExplained
CHECK_DEADLOCK FALSE
