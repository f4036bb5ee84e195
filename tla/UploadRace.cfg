CONSTANTS
  words = words
  noWords = noWords
  Owners = {o1}
  DocIds = {d1, d2}
  Contents = {words}
  Size <- SizeOfContents
  NULL = NULL
  Requests = {r1, r2}
  Conns = {c1, c2, c3, c4}
  Endpoints = {"store", "ids"}
  MaxCrashes = 0
SPECIFICATION Spec
SYMMETRY Symmetry
INVARIANT RacingUploadIsRefused
