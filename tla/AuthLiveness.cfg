CONSTANTS
  Owners = {o1}
  Names = {alice}
  Tokens = {k1}
  NULL = NULL
  Requests = {r1, r2}
  Browsers = {b1}
  Endpoints = {"register", "login", "anonymous_login", "logout", "logout_everywhere", "delete_account", "me"}
  LoginTTL = 1
  AnonTTL = 1
  MaxClock = 2
  MaxCrashes = 1
SPECIFICATION FairSpec
PROPERTIES
  EveryRequestEnds
  ExpiredDataIsPurged
