SPECIFICATION Spec
CONSTANTS
  Account <- TwoAccounts
  Group = {g1}
  Worker = {w1, w2}
  FD <- TwoFDs
  Ops = {"ADD_FRIENDS", "READ_ALL_INFO"}
  MaxRequests = 2
  Known <- TwoAccounts
  MayLeave = FALSE
  Overlap = FALSE
  TimesGrow = TRUE
  MaxRestarts = 0
  Nameable <- AllNames
  None = None
  anna = anna
  bert = bert
  carl = carl
  w1 = w1
  w2 = w2
  g1 = g1
SYMMETRY HandlerSymmetry
INVARIANT ReadMeansShown
CHECK_DEADLOCK FALSE
