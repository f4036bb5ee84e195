CONSTANTS
  words = words
  noWords = noWords
  Owners = {o1, o2}
  DocIds = {d1, d2}
  Contents = {words, noWords}
  Size <- SizeOfContents
  NULL = NULL
  Requests = {r1, r2}
  Conns = {c1, c2, c3, c4}
  Endpoints = {"store", "remove", "get", "ids", "generate", "delete_account", "cleanup"}
  MaxCrashes = 1
SPECIFICATION Spec
SYMMETRY Symmetry
INVARIANTS
  TypeOK
  DocumentsAreWhole
  TenantIsolation
  PooledConnectionsAreClean
  NoCircularWait
PROPERTY ImplementsDocStore
