CONSTANTS
  d1 = d1
  d2 = d2
  d3 = d3
  short = short
  long = long
  Owners = {o1, o2}
  DocIds = {d1, d2, d3}
  Contents = {short, long}
  Size <- SizeOfContents
  NULL = NULL
  Distance <- Distances
  Threshold = 2
  TopK = 2
  QuerySizes = {1, 2}
  MaxSize = 1
  Replies <- MCReplies
SPECIFICATION FairSpec
INVARIANTS
  TypeOK
  CitationsKeepTheRanking
  MissingOnlyIfRemoved
  PassagesAreTheTenants
PROPERTIES
  EveryQuestionEnds
