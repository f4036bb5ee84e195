CONSTANTS
  Owners = {o1, o2, o3}
  Names = {alice}
  Tokens = {k1, k2, k3}
  NULL = NULL
  LoginTTL = 1
  AnonTTL = 3
  MaxClock = 4
  DocIds = {d1, d2}
  Contents = {words, more}
  Size <- OneChunkEach
SPECIFICATION TenantSpec
SYMMETRY Symmetry
INVARIANTS
  TypeOK
  PermanentIffRegistered
  SessionWithinOwner
PROPERTIES
  LiveRowsEndOneTenantAtATime
  SweepsEndNothingUsable
  NameKeepsItsOwner
  DocumentsFollowOwners
  TenantsInUseKeepDocuments
