CONSTANTS
  Owners = {o1, o2}
  Names = {alice}
  Tokens = {k1, k2}
  NULL = NULL
  Requests = {r1, r2}
  Browsers = {b1, b2}
  Endpoints = {"register", "login", "logout", "me"}
  LoginTTL = 1
  AnonTTL = 1
  MaxClock = 2
  MaxCrashes = 0
SPECIFICATION Spec
SYMMETRY Symmetry
INVARIANT AnsweredLoginIsUsable
