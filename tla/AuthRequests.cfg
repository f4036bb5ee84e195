CONSTANTS
  Owners = {o1, o2}
  Names = {alice}
  Tokens = {k1, k2}
  NULL = NULL
  Requests = {r1, r2}
  Browsers = {b1, b2}
  Endpoints = {"register", "login", "anonymous_login", "logout", "logout_everywhere", "delete_account"}
  LoginTTL = 1
  AnonTTL = 1
  MaxClock = 2
  MaxCrashes = 0
SPECIFICATION Spec
SYMMETRY Symmetry
INVARIANTS
  TypeOK
  OneWinnerPerName
  DeletedOwnerGetsNoSession
  SomebodyProceeds
PROPERTIES
  ImplementsAuthStore
  LogoutEverywhereCompletes
