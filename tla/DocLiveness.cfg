CONSTANTS
  words = words
  noWords = noWords
  Owners = {o1}
  DocIds = {d1}
  Contents = {words}
  Size <- SizeOfContents
  NULL = NULL
  Requests = {r1, r2, r3}
  Conns = {c1, c2, c3}
  Endpoints = {"generate", "store"}
  MaxCrashes = 0
SPECIFICATION FairSpec
PROPERTY EveryRequestEnds
