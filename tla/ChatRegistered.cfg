SPECIFICATION HSpec
CONSTANTS
  Account <- TwoAccounts
  Group = {g1}
  Worker = {w1, w2}
  FD <- TwoFDs
  Ops = {"ADD_FRIENDS", "AGREE_FRIENDS_APPLY", "READ_ALL_INFO", "READ_GINGLE_INFO", "CREATE_GROUP", "GROUP_ADD", "SEND_FILE", "RECV_FILE"}
  MaxRequests = 2
  Known <- TwoAccounts
  MayLeave = TRUE
  Overlap = TRUE
  TimesGrow = FALSE
  MaxRestarts = 0
  Nameable <- AllNames
  None = None
  anna = anna
  bert = bert
  carl = carl
  w1 = w1
  w2 = w2
  g1 = g1
SYMMETRY HandlerSymmetry
INVARIANT TypeOK
INVARIANT FriendshipMutual
INVARIANT MembersKnowTheirGroups
INVARIANT ReadMeansShownOrMuddled
CHECK_DEADLOCK FALSE
