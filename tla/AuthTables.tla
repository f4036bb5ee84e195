---------------------------- MODULE AuthTables ----------------------------
(***************************************************************************)
(* The three identity tables of the service and the vocabulary the auth    *)
(* modules share.  A table is a set of rows; a row keeps the columns the   *)
(* code decides on.  created_at and the password hash are left out (the    *)
(* outcome of verifying a password is an input of the login request), and  *)
(* sessions.token_hash is identified with the token it hashes.             *)
(***************************************************************************)
EXTENDS Naturals

CONSTANTS
  Owners,      \* owners.id: values of gen_random_uuid()
  Names,       \* users.username
  Tokens,      \* values of secrets.token_urlsafe()
  NULL,        \* SQL NULL, Python None, a missing cookie
  LoginTTL,    \* lifetime of a login session ('1 day')
  AnonTTL,     \* lifetime of an anonymous owner and of its session ('30 days')
  MaxClock     \* bound: the clock stops here

ASSUME NullAssumption == NULL \notin Owners \cup Tokens \cup Nat
ASSUME TimeAssumption == {LoginTTL, AnonTTL, MaxClock} \subseteq Nat

OwnerRow   == [id : Owners, expires : Nat \cup {NULL}]
UserRow    == [name : Names, owner : Owners]
SessionRow == [token : Tokens, owner : Owners, expires : Nat]

\* Mutated forms of what follows: an anonymous owner that lives only as long as a login
\* session; a login session with no expiry (the column is nullable); a sweep that takes
\* the sessions that are about to end.
AnonymousOwnerShortLived(o, now) == [id |-> o, expires |-> now + LoginTTL]
LoginSessionForever(tok, o, now) == [token |-> tok, owner |-> o, expires |-> NULL]
SessionExpiring(row, now) == row.expires <= now + LoginTTL

\* The rows the SQL functions build.
PermanentOwner(o)         == [id |-> o, expires |-> NULL]
AnonymousOwner(o, now)    == [id |-> o, expires |-> now + AnonTTL]
LoginSession(tok, o, now) == [token |-> tok, owner |-> o, expires |-> now + LoginTTL]
AnonymousSession(tok, o, now) ==
  [token |-> tok, owner |-> o, expires |-> now + AnonTTL]

\* sweep_owners' and sweep_sessions' WHERE clauses (strictly in the past).
OwnerExpired(row, now)   == row.expires # NULL /\ row.expires < now
SessionExpired(row, now) == row.expires < now

\* validate_session's WHERE clause (strictly in the future).
SessionValid(row, now) == row.expires > now
=============================================================================
