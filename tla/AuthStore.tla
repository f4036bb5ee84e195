----------------------------- MODULE AuthStore -----------------------------
(***************************************************************************)
(* What the identity tables promise: every SQL function of the auth schema *)
(* as one atomic change of owners, users and sessions.                     *)
(*                                                                         *)
(* now() is the start of the calling transaction, so a change is made in   *)
(* the name of some instant t that is not after the clock.  A DELETE       *)
(* removes the rows its statement saw; a row committed in between stays.   *)
(* That is why the bulk deletes take the rows they end as a parameter.     *)
(***************************************************************************)
EXTENDS AuthTables

VARIABLES owners, users, sessions, clock

tables == <<owners, users, sessions>>
vars   == <<owners, users, sessions, clock>>

OwnerIds == {x.id : x \in owners}

Init ==
  /\ owners = {}
  /\ users = {}
  /\ sessions = {}
  /\ clock = 0

-----------------------------------------------------------------------------
(* Mutated forms of the actions below: the bugs the properties must catch.  *)

\* ON CONFLICT (username) DO UPDATE.
RegistrationUpsert(name, o) ==
  /\ o \notin OwnerIds
  /\ owners' = owners \cup {PermanentOwner(o)}
  /\ users' = {u \in users : u.name # name} \cup {[name |-> name, owner |-> o]}
  /\ UNCHANGED <<sessions, clock>>

\* The owner is inserted even when the username is taken.
RegistrationLeavesOwner(name, o) ==
  /\ o \notin OwnerIds
  /\ owners' = owners \cup {PermanentOwner(o)}
  /\ users' = users \cup {u \in {[name |-> name, owner |-> o]} :
                            \A v \in users : v.name # name}
  /\ UNCHANGED <<sessions, clock>>

\* Any owner may be given a login session, an anonymous one too.
CreateSessionLoginAnyOwner(tok, o, t) ==
  /\ o \in OwnerIds
  /\ \A s \in sessions : s.token # tok
  /\ sessions' = sessions \cup {LoginSession(tok, o, t)}
  /\ UNCHANGED <<owners, users, clock>>
-----------------------------------------------------------------------------
(* The SQL functions. *)

\* registration: the owner and its credentials appear together or not at all.
Registration(name, o) ==
  /\ \A u \in users : u.name # name
  /\ o \notin OwnerIds
  /\ owners' = owners \cup {PermanentOwner(o)}
  /\ users' = users \cup {[name |-> name, owner |-> o]}
  /\ UNCHANGED <<sessions, clock>>

\* anonymous_mint: an expiring owner with the session that reaches it.
AnonymousMint(tok, o, t) ==
  /\ o \notin OwnerIds
  /\ \A s \in sessions : s.token # tok
  /\ owners' = owners \cup {AnonymousOwner(o, t)}
  /\ sessions' = sessions \cup {AnonymousSession(tok, o, t)}
  /\ UNCHANGED <<users, clock>>

\* create_session_login: only login_check's owner, which has credentials.
CreateSessionLogin(tok, o, t) ==
  /\ \E u \in users : u.owner = o
  /\ \A s \in sessions : s.token # tok
  /\ sessions' = sessions \cup {LoginSession(tok, o, t)}
  /\ UNCHANGED <<owners, users, clock>>

\* logout ends one session, logout_everywhere those of one owner.
EndSessions(o, ended) ==
  /\ ended # {}
  /\ \A s \in ended : s.owner = o
  /\ sessions' = sessions \ ended
  /\ UNCHANGED <<owners, users, clock>>

\* DELETE FROM owners, with the ON DELETE CASCADE of both children.
RemoveOwners(gone) ==
  /\ owners' = {x \in owners : x.id \notin gone}
  /\ users' = {u \in users : u.owner \notin gone}

DeleteAccount(o) ==
  /\ o \in OwnerIds
  /\ RemoveOwners({o})
  /\ sessions' = {s \in sessions : s.owner # o}
  /\ UNCHANGED clock

\* sweep_owners followed by sweep_sessions, in one transaction.
Sweep(dead, ended, t) ==
  /\ \A x \in dead : OwnerExpired(x, t)
  /\ \A s \in ended : SessionExpired(s, t)
  /\ RemoveOwners({x.id : x \in dead})
  /\ sessions' = {s \in sessions : s.owner \notin {x.id : x \in dead}} \ ended
  /\ UNCHANGED clock

Tick ==
  /\ clock < MaxClock
  /\ clock' = clock + 1
  /\ UNCHANGED tables

Next ==
  \/ \E name \in Names, o \in Owners : Registration(name, o)
  \/ \E tok \in Tokens, o \in Owners, t \in 0..clock :
       \/ AnonymousMint(tok, o, t)
       \/ CreateSessionLogin(tok, o, t)
  \/ \E o \in Owners, ended \in SUBSET sessions : EndSessions(o, ended)
  \/ \E o \in Owners : DeleteAccount(o)
  \/ \E dead \in SUBSET owners, ended \in SUBSET sessions, t \in 0..clock :
       Sweep(dead, ended, t)
  \/ Tick

Spec == Init /\ [][Next]_vars
-----------------------------------------------------------------------------
TypeOK ==
  /\ owners \subseteq OwnerRow
  /\ users \subseteq UserRow
  /\ sessions \subseteq SessionRow
  /\ clock \in Nat

\* The primary keys and UNIQUE constraints of the schema: a username names one
\* account, an account has one set of credentials, a token opens one session.
KeysUnique ==
  /\ \A x, y \in owners : x.id = y.id => x = y
  /\ \A u, v \in users : u.name = v.name \/ u.owner = v.owner => u = v
  /\ \A s, q \in sessions : s.token = q.token => s = q

\* The foreign keys: no credentials and no session outlives its owner.
NoOrphans ==
  /\ \A u \in users : u.owner \in OwnerIds
  /\ \A s \in sessions : s.owner \in OwnerIds

\* Every owner row is either an account someone can log in to or it expires: no
\* row is both permanent and unreachable, and no account with credentials expires.
PermanentIffRegistered ==
  \A x \in owners : x.expires = NULL <=> \E u \in users : u.owner = x.id

\* A session never outlives the owner row it hangs on, so the sweep of expired
\* owners, which cascades, cannot take a live session with it.
SessionWithinOwner ==
  \A s \in sessions, x \in owners :
    s.owner = x.id => x.expires = NULL \/ s.expires <= x.expires

\* No step takes anything live away from two tenants: a logout, a deletion or a sweep
\* ends valid sessions and accounts of one owner at most.
RemovesFromOneTenant ==
  \E o \in Owners \cup {NULL} :
    /\ \A x \in owners \ owners' : x.id = o \/ OwnerExpired(x, clock)
    /\ \A u \in users \ users' : u.owner = o
    /\ \A s \in sessions \ sessions' : s.owner = o \/ ~ SessionValid(s, clock)
LiveRowsEndOneTenantAtATime == [][RemovesFromOneTenant]_vars

\* A step of a sweep.
Sweeping ==
  \E dead \in SUBSET owners, ended \in SUBSET sessions, t \in 0..clock : Sweep(dead, ended, t)

\* A sweep ends nothing that still lets somebody in: no session validate_session would
\* accept, by its own WHERE clause or by the cascade from its owner, and no credentials.
EndsNothingUsable ==
  (\E s \in sessions \ sessions' : SessionValid(s, clock)) \/ users' # users => ~ Sweeping
SweepsEndNothingUsable == [][EndsNothingUsable]_vars

\* The owner behind a username never changes under it: a second registration of
\* the name cannot take the account over.
NameKeepsItsOwner ==
  [][\A u \in users, v \in users' : u.name = v.name => u.owner = v.owner]_vars
=============================================================================
