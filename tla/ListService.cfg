SPECIFICATION FairSpec
CONSTANTS
  Addr = {p1, p2, p3, p4}
  Element = {x, y}
  Calls <- AllCalls
  NULL = NULL
  p1 = p1
  p2 = p2
  p3 = p3
  p4 = p4
INVARIANT TypeOK
INVARIANT WellLinked
INVARIANT NothingLeaks
PROPERTY AnswersRight
PROPERTY ImplementsListSeq
PROPERTY CallsReturn
