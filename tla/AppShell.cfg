CONSTANTS
  Slots = {s1, s2}
  Anons = {a1, a2}
  Account = account
  NULL = NULL
SPECIFICATION FairSpec
INVARIANTS
  TypeOK
  ViewMatchesSession
  RowsAreTheSessions
  RowsAppearOnce
  ButtonsComeBack
PROPERTY EveryHandlerEnds
