--------------------------- MODULE TenantsProofs ---------------------------
(***************************************************************************)
(* The invariants of the identity tables and of the tables joined, proved  *)
(* for any number of owners, names, tokens, documents and contents and any *)
(* lifetimes.                                                              *)
(*                                                                         *)
(* No conjunct of IInv is inductive alone.  That a session stays within    *)
(* its owner's lifetime needs that owners with credentials do not expire   *)
(* (create_session_login gives them sessions) and that a fresh owner has   *)
(* no session yet (the foreign key); both of these need each other.        *)
(*                                                                         *)
(* Each step of the joined tables is a step of the identity tables, so     *)
(* what is proved of those holds; and each is a step of the document store *)
(* over the owners there are, so what DocStoreProofs proves holds too.     *)
(* The second fact needs its own conclusion: a cascade that removes no     *)
(* owner is a stutter only because documents have owners and chunks have   *)
(* documents.                                                              *)
(***************************************************************************)
EXTENDS Tenants, TLAPS

(* The identity tables. *)

IInv ==
  /\ TypeOK
  /\ KeysUnique
  /\ NoOrphans
  /\ PermanentIffRegistered
  /\ SessionWithinOwner

\* The empty tables satisfy the invariant.
LEMMA InitIInv == Init => IInv
  BY TimeAssumption
  DEF Init, IInv, TypeOK, KeysUnique, NoOrphans, PermanentIffRegistered,
      SessionWithinOwner, OwnerIds

\* registration() keeps the invariant: its owner and its credentials are new.
LEMMA RegistrationIInv ==
  ASSUME IInv, NEW name \in Names, NEW o \in Owners, Registration(name, o)
  PROVE  IInv'
<1> USE DEF IInv, TypeOK, KeysUnique
<1>0. OwnerIds' = OwnerIds \cup {o}
  <2>1. \A x : x \in owners' <=> x \in owners \/ x = PermanentOwner(o)
    BY DEF Registration
  <2>2. PermanentOwner(o).id = o
    BY DEF PermanentOwner
  <2> QED BY <2>1, <2>2 DEF OwnerIds
<1>1. TypeOK'
  BY DEF Registration, PermanentOwner, OwnerRow, UserRow
<1>2. KeysUnique'
  BY DEF Registration, PermanentOwner, OwnerRow, UserRow, NoOrphans, OwnerIds
<1>3. NoOrphans'
  BY <1>0 DEF Registration, NoOrphans
<1>4. PermanentIffRegistered'
  <2>1. ASSUME NEW x \in owners
        PROVE  x.id # o /\ ((\E u \in users' : u.owner = x.id)
                               <=> (\E u \in users : u.owner = x.id))
    BY DEF Registration, OwnerIds
  <2>2. ASSUME NEW x \in owners
        PROVE  x.expires = NULL <=> \E u \in users' : u.owner = x.id
    BY <2>1 DEF PermanentIffRegistered
  <2>3. PermanentOwner(o).expires = NULL /\ \E u \in users' : u.owner = PermanentOwner(o).id
    <3>1. [name |-> name, owner |-> o] \in users'
      BY DEF Registration
    <3> QED BY <3>1 DEF PermanentOwner
  <2> QED BY <2>2, <2>3 DEF PermanentIffRegistered, Registration
<1>5. SessionWithinOwner'
  BY DEF Registration, PermanentOwner, OwnerRow, SessionWithinOwner, NoOrphans, OwnerIds
<1> QED BY <1>1, <1>2, <1>3, <1>4, <1>5

\* anonymous_mint() keeps it: owner and session are new and expire together.
LEMMA AnonymousMintIInv ==
  ASSUME IInv, NEW tok \in Tokens, NEW o \in Owners, NEW t \in 0..clock,
         AnonymousMint(tok, o, t)
  PROVE  IInv'
<1> USE DEF IInv, TypeOK, KeysUnique, NoOrphans, OwnerIds
<1>0. t + AnonTTL \in Nat /\ t + AnonTTL # NULL
  BY TimeAssumption, NullAssumption
<1>1. TypeOK'
  BY <1>0 DEF AnonymousMint, AnonymousOwner, AnonymousSession, OwnerRow, SessionRow
<1>2. KeysUnique'
  BY DEF AnonymousMint, AnonymousOwner, AnonymousSession, OwnerRow, SessionRow
<1>3. NoOrphans'
  <2>1. OwnerIds' = OwnerIds \cup {o}
    <3>1. \A x : x \in owners' <=> x \in owners \/ x = AnonymousOwner(o, t)
      BY DEF AnonymousMint
    <3>2. AnonymousOwner(o, t).id = o
      BY DEF AnonymousOwner
    <3> QED BY <3>1, <3>2 DEF OwnerIds
  <2> QED BY <2>1 DEF AnonymousMint, AnonymousSession, NoOrphans
<1>4. PermanentIffRegistered'
  BY <1>0 DEF AnonymousMint, AnonymousOwner, OwnerRow, UserRow, PermanentIffRegistered
<1>5. SessionWithinOwner'
  BY <1>0 DEF AnonymousMint, AnonymousOwner, AnonymousSession, OwnerRow, SessionRow,
              SessionWithinOwner
<1> QED BY <1>1, <1>2, <1>3, <1>4, <1>5

\* create_session_login() keeps it: an owner with credentials never expires.
LEMMA CreateSessionLoginIInv ==
  ASSUME IInv, NEW tok \in Tokens, NEW o \in Owners, NEW t \in 0..clock,
         CreateSessionLogin(tok, o, t)
  PROVE  IInv'
<1> USE DEF IInv, TypeOK, KeysUnique, NoOrphans, OwnerIds
<1>0. t + LoginTTL \in Nat
  BY TimeAssumption
<1>1. TypeOK'
  BY <1>0 DEF CreateSessionLogin, LoginSession, SessionRow
<1>2. KeysUnique'
  BY DEF CreateSessionLogin, LoginSession, SessionRow
<1>3. NoOrphans'
  BY DEF CreateSessionLogin, LoginSession, SessionRow
<1>4. PermanentIffRegistered'
  BY DEF CreateSessionLogin, PermanentIffRegistered
<1>5. SessionWithinOwner'
  BY DEF CreateSessionLogin, LoginSession, SessionRow, PermanentIffRegistered,
         SessionWithinOwner
<1> QED BY <1>1, <1>2, <1>3, <1>4, <1>5

\* Removing the owners in any set of ids, their credentials and at least their
\* sessions keeps it.
LEMMA RemovalIInv ==
  ASSUME IInv, NEW ids, RemoveOwners(ids), UNCHANGED clock,
         sessions' \subseteq {s \in sessions : s.owner \notin ids}
  PROVE  IInv'
<1> USE DEF IInv, TypeOK, KeysUnique, NoOrphans, OwnerIds, RemoveOwners
<1>1. TypeOK'
  OBVIOUS
<1>2. KeysUnique'
  OBVIOUS
<1>3. NoOrphans'
  OBVIOUS
<1>4. PermanentIffRegistered'
  BY DEF PermanentIffRegistered
<1>5. SessionWithinOwner'
  BY DEF SessionWithinOwner
<1> QED BY <1>1, <1>2, <1>3, <1>4, <1>5

\* Ending sessions keeps it.
LEMMA EndSessionsIInv ==
  ASSUME IInv, NEW o \in Owners, NEW ended \in SUBSET sessions, EndSessions(o, ended)
  PROVE  IInv'
<1>1. RemoveOwners({})
  BY DEF EndSessions, RemoveOwners
<1> QED BY <1>1, RemovalIInv DEF EndSessions

\* Every step of the tables keeps the invariant.
LEMMA NextIInv == IInv /\ [Next]_vars => IInv'
<1> SUFFICES ASSUME IInv, [Next]_vars PROVE IInv'
  OBVIOUS
<1>1. ASSUME NEW name \in Names, NEW o \in Owners, Registration(name, o) PROVE IInv'
  BY <1>1, RegistrationIInv
<1>2. ASSUME NEW tok \in Tokens, NEW o \in Owners, NEW t \in 0..clock,
             AnonymousMint(tok, o, t)
      PROVE  IInv'
  BY <1>2, AnonymousMintIInv
<1>3. ASSUME NEW tok \in Tokens, NEW o \in Owners, NEW t \in 0..clock,
             CreateSessionLogin(tok, o, t)
      PROVE  IInv'
  BY <1>3, CreateSessionLoginIInv
<1>4. ASSUME NEW o \in Owners, NEW ended \in SUBSET sessions, EndSessions(o, ended)
      PROVE  IInv'
  BY <1>4, EndSessionsIInv
<1>5. ASSUME NEW o \in Owners, DeleteAccount(o) PROVE IInv'
  BY <1>5, RemovalIInv DEF DeleteAccount
<1>6. ASSUME NEW dead \in SUBSET owners, NEW ended \in SUBSET sessions, NEW t \in 0..clock,
             Sweep(dead, ended, t)
      PROVE  IInv'
  BY <1>6, RemovalIInv DEF Sweep
<1>7. CASE Tick
  BY <1>7 DEF Tick, tables, IInv, TypeOK, KeysUnique, NoOrphans, OwnerIds,
              PermanentIffRegistered, SessionWithinOwner
<1>8. CASE UNCHANGED vars
  BY <1>8 DEF vars, IInv, TypeOK, KeysUnique, NoOrphans, OwnerIds,
              PermanentIffRegistered, SessionWithinOwner
<1> QED BY <1>1, <1>2, <1>3, <1>4, <1>5, <1>6, <1>7, <1>8 DEF Next

\* The conjunction of the tables' invariants holds in every reachable state.
THEOREM Invariance == Spec => []IInv
  BY InitIInv, NextIInv, PTL DEF Spec

\* Rows keep their types.
THEOREM TypeCorrect == Spec => []TypeOK
  BY Invariance, PTL DEF IInv

\* A username names one account and a token opens one session, always.
THEOREM KeysStayUnique == Spec => []KeysUnique
  BY Invariance, PTL DEF IInv

\* No credentials and no session outlive their owner.
THEOREM NothingOrphaned == Spec => []NoOrphans
  BY Invariance, PTL DEF IInv

\* Permanent owners are exactly the registered ones.
THEOREM PermanentAreRegistered == Spec => []PermanentIffRegistered
  BY Invariance, PTL DEF IInv

\* A session never outlives its owner row.
THEOREM SessionsWithinOwners == Spec => []SessionWithinOwner
  BY Invariance, PTL DEF IInv
-----------------------------------------------------------------------------
\* A sweep takes nothing that is alive from anybody: what it removes has expired, no
\* session it removes is valid, and it removes no credentials.
LEMMA SweepRemovesOnlyExpired ==
  ASSUME IInv, NEW dead \in SUBSET owners, NEW ended \in SUBSET sessions,
         NEW t \in 0..clock, Sweep(dead, ended, t)
  PROVE  /\ \A x \in owners \ owners' : OwnerExpired(x, clock)
         /\ users' = users
         /\ \A s \in sessions \ sessions' : ~ SessionValid(s, clock)
<1> USE DEF IInv, TypeOK
<1>1. \A x \in dead : x.expires \in Nat /\ x.expires < t
  BY DEF Sweep, OwnerExpired, OwnerRow
<1>2. ASSUME NEW x \in owners \ owners' PROVE OwnerExpired(x, clock)
  <2>1. x \in dead
    BY <1>2 DEF Sweep, RemoveOwners, KeysUnique
  <2> QED BY <2>1, <1>1 DEF Sweep, OwnerExpired
<1>3. ASSUME NEW u \in users \ users' PROVE FALSE
  <2>1. PICK x \in dead : u.owner = x.id
    BY <1>3 DEF Sweep, RemoveOwners
  <2>2. x.expires = NULL
    BY <2>1, <1>3 DEF PermanentIffRegistered
  <2> QED BY <2>2, <1>1, NullAssumption
<1>4. ASSUME NEW s \in sessions \ sessions' PROVE ~ SessionValid(s, clock)
  <2>1. CASE s \in ended
    BY <2>1, <1>4 DEF Sweep, SessionExpired, SessionValid, SessionRow
  <2>2. CASE s \notin ended
    <3>1. PICK x \in dead : s.owner = x.id
      BY <2>2, <1>4 DEF Sweep
    <3>2. s.expires <= x.expires
      BY <3>1, <1>1, <1>4, NullAssumption DEF SessionWithinOwner
    <3> QED BY <3>1, <3>2, <1>1, <1>4 DEF SessionValid, SessionRow
  <2> QED BY <2>1, <2>2
<1> QED BY <1>2, <1>3, <1>4 DEF Sweep, RemoveOwners

\* Whatever a sweep deletes and whatever that cascades to, nobody is locked out by it.
THEOREM SweepsAreHarmless == Spec => SweepsEndNothingUsable
<1>1. IInv /\ [Next]_vars => [EndsNothingUsable]_vars
  BY SweepRemovesOnlyExpired DEF EndsNothingUsable, Sweeping
<1> QED BY <1>1, Invariance, PTL DEF Spec, SweepsEndNothingUsable

\* One step never ends live sessions or accounts of two tenants.
THEOREM OneTenantAtATime == Spec => LiveRowsEndOneTenantAtATime
<1>1. IInv /\ [Next]_vars => [RemovesFromOneTenant]_vars
  <2> SUFFICES ASSUME IInv, Next PROVE RemovesFromOneTenant
    OBVIOUS
  <2> USE DEF RemovesFromOneTenant
  <2>1. ASSUME NEW name \in Names, NEW o \in Owners, Registration(name, o)
        PROVE  RemovesFromOneTenant
    BY <2>1 DEF Registration
  <2>2. ASSUME NEW tok \in Tokens, NEW o \in Owners, NEW t \in 0..clock,
               AnonymousMint(tok, o, t) \/ CreateSessionLogin(tok, o, t)
        PROVE  RemovesFromOneTenant
    BY <2>2 DEF AnonymousMint, CreateSessionLogin
  <2>3. ASSUME NEW o \in Owners, NEW ended \in SUBSET sessions, EndSessions(o, ended)
        PROVE  RemovesFromOneTenant
    BY <2>3 DEF EndSessions
  <2>4. ASSUME NEW o \in Owners, DeleteAccount(o) PROVE RemovesFromOneTenant
    BY <2>4 DEF DeleteAccount, RemoveOwners
  <2>5. ASSUME NEW dead \in SUBSET owners, NEW ended \in SUBSET sessions,
               NEW t \in 0..clock, Sweep(dead, ended, t)
        PROVE  RemovesFromOneTenant
    BY <2>5, SweepRemovesOnlyExpired
  <2>6. CASE Tick
    BY <2>6 DEF Tick, tables
  <2> QED BY <2>1, <2>2, <2>3, <2>4, <2>5, <2>6 DEF Next
<1> QED BY <1>1, Invariance, PTL DEF Spec, LiveRowsEndOneTenantAtATime

\* A username is never moved to another owner by a step.
THEOREM NamesKeepTheirOwner == Spec => NameKeepsItsOwner
<1> DEFINE Keeps == \A u \in users, v \in users' : u.name = v.name => u.owner = v.owner
<1>1. IInv /\ [Next]_vars => [Keeps]_vars
  <2> SUFFICES ASSUME IInv, Next PROVE Keeps
    OBVIOUS
  <2>1. ASSUME NEW u \in users, NEW v \in users, u.name = v.name PROVE u.owner = v.owner
    BY <2>1 DEF IInv, KeysUnique
  <2>2. ASSUME NEW name \in Names, NEW o \in Owners, Registration(name, o) PROVE Keeps
    BY <2>1, <2>2 DEF Registration
  <2>3. CASE users' \subseteq users
    BY <2>1, <2>3
  <2> QED BY <2>2, <2>3 DEF Next, AnonymousMint, CreateSessionLogin, EndSessions,
                            DeleteAccount, Sweep, RemoveOwners, Tick, tables
<1> QED BY <1>1, Invariance, PTL DEF Spec, NameKeepsItsOwner
-----------------------------------------------------------------------------
(* The identity tables and the document tables joined. *)

D == INSTANCE DocStoreProofs WITH owners <- OwnerIds

TenantIInv == IInv /\ D!IInv

\* What the document store's proofs assume of its constants.
LEMMA StoreAssumptions ==
  NULL \notin Owners \cup DocIds \cup Contents /\ Size \in [Contents -> Nat]
BY TenantsAssumption, NullAssumption

\* The two instances of the document store are the same formulas.
LEMMA SameStore ==
  /\ Docs!Init <=> D!Init
  /\ Docs!Next <=> D!Next
  /\ Docs!vars = D!vars
BY DEF D!Init, Docs!Init, D!Next, Docs!Next, D!vars, Docs!vars,
       D!StoreDocument, Docs!StoreDocument, D!RemoveDocument, Docs!RemoveDocument,
       D!AddOwner, Docs!AddOwner, D!RemoveOwners, Docs!RemoveOwners, D!Purge, Docs!Purge,
       D!DocIdsOf, Docs!DocIdsOf, D!Document, Docs!Document, D!Passages, Docs!Passages

\* A cascade over the owners that stay is no change when no owner goes.
LEMMA CascadeStutters ==
  ASSUME D!IInv, OwnerIds \subseteq OwnerIds', Cascade
  PROVE  UNCHANGED documents
<1>1. {x \in docs : x.owner \in OwnerIds'} = docs
  BY DEF D!IInv, D!DocumentsHaveOwners
<1>2. \A c \in chunks : c.doc \in Docs!DocIdsOf(docs)
  <2>1. ASSUME NEW x \in docs, NEW c \in D!Passages(x.id, x.hash) PROVE c.doc = x.id
    BY <2>1 DEF D!Passages
  <2> QED BY <2>1 DEF D!IInv, D!DocumentsAreWhole, Docs!DocIdsOf
<1>3. vectors = chunks
  BY DEF D!IInv, D!DocumentsAreWhole
<1> QED BY <1>1, <1>2, <1>3 DEF Cascade, Docs!Purge, documents

\* The owner ids a step of the identity tables leaves.
LEMMA OwnersAfter ==
  ASSUME IInv, Next
  PROVE  \/ OwnerIds' = OwnerIds
         \/ \E o \in Owners : o \notin OwnerIds /\ OwnerIds' = OwnerIds \cup {o}
         \/ \E gone \in SUBSET OwnerIds : gone # {} /\ OwnerIds' = OwnerIds \ gone
<1>1. ASSUME NEW name \in Names, NEW o \in Owners, Registration(name, o)
      PROVE  o \notin OwnerIds /\ OwnerIds' = OwnerIds \cup {o}
  <2>1. \A x : x \in owners' <=> x \in owners \/ x = PermanentOwner(o)
    BY <1>1 DEF Registration
  <2>2. PermanentOwner(o).id = o
    BY DEF PermanentOwner
  <2> QED BY <1>1, <2>1, <2>2 DEF Registration, OwnerIds
<1>2. ASSUME NEW tok \in Tokens, NEW o \in Owners, NEW t \in 0..clock,
             AnonymousMint(tok, o, t)
      PROVE  o \notin OwnerIds /\ OwnerIds' = OwnerIds \cup {o}
  <2>1. \A x : x \in owners' <=> x \in owners \/ x = AnonymousOwner(o, t)
    BY <1>2 DEF AnonymousMint
  <2>2. AnonymousOwner(o, t).id = o
    BY DEF AnonymousOwner
  <2> QED BY <1>2, <2>1, <2>2 DEF AnonymousMint, OwnerIds
<1>3. ASSUME NEW ids, RemoveOwners(ids)
      PROVE  OwnerIds' = OwnerIds \ ids
  BY <1>3 DEF RemoveOwners, OwnerIds
<1>4. ASSUME NEW ids, RemoveOwners(ids)
      PROVE  \/ OwnerIds' = OwnerIds
             \/ \E gone \in SUBSET OwnerIds : gone # {} /\ OwnerIds' = OwnerIds \ gone
  <2>1. OwnerIds' = OwnerIds \ (ids \cap OwnerIds)
    BY <1>3, <1>4
  <2> QED BY <2>1
<1>5. CASE owners' = owners
  BY <1>5 DEF OwnerIds
<1> QED BY <1>1, <1>2, <1>4, <1>5 DEF Next, CreateSessionLogin, EndSessions, DeleteAccount,
                                      Sweep, Tick, tables

\* Every step of the joined tables is a step of the document store, or none.
LEMMA StepRefines ==
  ASSUME TenantIInv, [TenantNext]_<<vars, documents>>
  PROVE  [D!Next]_(D!vars)
<1> USE DEF TenantIInv
<1>1. ASSUME Next, Cascade PROVE [D!Next]_(D!vars)
  <2>1. CASE OwnerIds' = OwnerIds
    BY <1>1, <2>1, CascadeStutters DEF D!vars, documents
  <2>2. ASSUME NEW o \in Owners, o \notin OwnerIds, OwnerIds' = OwnerIds \cup {o}
        PROVE  D!AddOwner(o)
    BY <1>1, <2>2, CascadeStutters DEF D!AddOwner, documents
  <2>3. ASSUME NEW gone \in SUBSET OwnerIds, gone # {}, OwnerIds' = OwnerIds \ gone
        PROVE  D!RemoveOwners(gone)
    <3>1. {x \in docs : x.owner \in OwnerIds'} = {x \in docs : x.owner \notin gone}
      BY <2>3 DEF D!IInv, D!DocumentsHaveOwners
    <3> QED BY <1>1, <2>3, <3>1 DEF Cascade, Docs!Purge, Docs!DocIdsOf, D!RemoveOwners,
                                    D!Purge, D!DocIdsOf
  <2> QED BY <1>1, <2>1, <2>2, <2>3, OwnersAfter DEF D!Next
<1>2. CASE UNCHANGED vars /\ \E o \in Owners, d \in DocIds :
                               \/ \E h \in Contents : Docs!StoreDocument(o, d, h)
                               \/ Docs!RemoveDocument(o, d)
  BY <1>2, SameStore DEF Docs!Next
<1>3. CASE UNCHANGED <<vars, documents>>
  BY <1>3 DEF vars, documents, OwnerIds, D!vars
<1> QED BY <1>1, <1>2, <1>3 DEF TenantNext

\* The joined tables implement the identity tables.
THEOREM IdentityTables == TenantSpec => Spec
<1>1. TenantInit => Init
  BY DEF TenantInit
<1>2. [TenantNext]_<<vars, documents>> => [Next]_vars
  BY DEF TenantNext
<1> QED BY <1>1, <1>2, PTL DEF TenantSpec, Spec

\* The invariants of both halves hold in every reachable state.
THEOREM TenantInvariance == TenantSpec => []TenantIInv
<1>1. TenantInit => D!IInv
  <2>1. TenantInit => D!Init
    <3> SUFFICES ASSUME TenantInit PROVE OwnerIds = {}
      BY DEF TenantInit, D!Init
    <3> QED BY DEF TenantInit, Init, OwnerIds
  <2> QED BY <2>1, D!InitIInv, StoreAssumptions
<1>2. TenantIInv /\ [TenantNext]_<<vars, documents>> => D!IInv'
  <2> SUFFICES ASSUME TenantIInv, [TenantNext]_<<vars, documents>> PROVE D!IInv'
    OBVIOUS
  <2>1. D!IInv /\ [D!Next]_(D!vars)
    BY StepRefines DEF TenantIInv
  <2> QED BY <2>1, D!NextIInv, StoreAssumptions
<1>3. TenantSpec => []IInv
  BY IdentityTables, Invariance, PTL
<1> QED BY <1>1, <1>2, <1>3, PTL DEF TenantSpec, TenantIInv

\* Whatever ends a tenant, a deletion of the account or a sweep, nothing of its documents
\* stays behind, and every other document keeps all of its passages.
THEOREM NothingLeftOver == TenantSpec => [](Docs!DocumentsHaveOwners /\ Docs!DocumentsAreWhole)
<1>1. TenantIInv => Docs!DocumentsHaveOwners /\ Docs!DocumentsAreWhole
  BY DEF TenantIInv, D!IInv, D!DocumentsHaveOwners, Docs!DocumentsHaveOwners,
         D!DocumentsAreWhole, Docs!DocumentsAreWhole, D!Passages, Docs!Passages
<1> QED BY <1>1, TenantInvariance, PTL

\* To the documents, the auth functions are additions and removals of owners: the
\* joined tables implement the document store.
THEOREM DocumentsFollow == TenantSpec => DocumentsFollowOwners
<1>1. TenantInit => Docs!Init
  BY DEF TenantInit, Init, OwnerIds, Docs!Init
<1>2. TenantIInv /\ [TenantNext]_<<vars, documents>> => [Docs!Next]_(Docs!vars)
  <2> SUFFICES ASSUME TenantIInv, [TenantNext]_<<vars, documents>>
               PROVE  [Docs!Next]_(Docs!vars)
    OBVIOUS
  <2>1. [D!Next]_(D!vars)
    BY StepRefines
  <2> QED BY <2>1, SameStore DEF D!vars, Docs!vars
<1> QED BY <1>1, <1>2, TenantInvariance, PTL DEF TenantSpec, DocumentsFollowOwners, Docs!Spec

\* A sweep removes no owner that a valid session leads to: the session expires no later.
LEMMA SweptAreNotInUse ==
  ASSUME IInv, NEW dead \in SUBSET owners, NEW ended \in SUBSET sessions, NEW t \in 0..clock,
         Sweep(dead, ended, t), NEW o \in OwnerIds \ OwnerIds'
  PROVE  ~ InUse(o)
<1> USE DEF IInv, TypeOK
<1>1. PICK x \in dead : x.id = o
  BY DEF Sweep, RemoveOwners, OwnerIds
<1>2. x.expires \in Nat /\ x.expires < clock
  BY <1>1 DEF Sweep, OwnerExpired, OwnerRow
<1>3. \A s \in sessions : s.owner = o => s.expires <= x.expires
  BY <1>1, <1>2, NullAssumption DEF SessionWithinOwner
<1> QED BY <1>2, <1>3 DEF InUse, SessionValid, SessionRow

\* No step of the tables loses documents of two tenants in use, and no sweep of one.
LEMMA LosesOfOne ==
  ASSUME TenantIInv, [TenantNext]_<<vars, documents>>
  PROVE  LosesOfOneTenantInUse
<1> DEFINE lost == {x \in docs \ docs' : InUse(x.owner)}
<1> USE DEF TenantIInv
<1>1. ASSUME Next, Cascade
      PROVE  (\A x, y \in lost : x.owner = y.owner) /\ (lost # {} => ~ Sweeping)
  <2>1. \A x \in docs \ docs' : x.owner \in OwnerIds \ OwnerIds'
    BY <1>1 DEF Cascade, Docs!Purge, D!IInv, D!DocumentsHaveOwners
  <2>2. ASSUME NEW o \in Owners, DeleteAccount(o) PROVE OwnerIds \ OwnerIds' \subseteq {o}
    BY <2>2 DEF DeleteAccount, RemoveOwners, OwnerIds
  <2>3. ASSUME Sweeping PROVE lost = {}
    <3>1. PICK dead \in SUBSET owners, ended \in SUBSET sessions, t \in 0..clock :
            Sweep(dead, ended, t)
      BY <2>3 DEF Sweeping
    <3>2. \A o \in OwnerIds \ OwnerIds' : ~ InUse(o)
      BY <3>1, SweptAreNotInUse
    <3> QED BY <2>1, <3>2
  <2>4. CASE owners \subseteq owners'
    BY <2>1, <2>3, <2>4 DEF OwnerIds
  <2>5. ASSUME NEW o \in Owners, DeleteAccount(o) PROVE \A x, y \in lost : x.owner = y.owner
    BY <2>1, <2>2, <2>5
  <2>6. CASE Sweeping
    BY <2>3, <2>6
  <2> QED BY <1>1, <2>3, <2>4, <2>5, <2>6
          DEF Next, Registration, AnonymousMint, CreateSessionLogin, EndSessions, Tick, tables,
              Sweeping
<1>2. ASSUME NEW o \in Owners, NEW d \in DocIds,
             \/ \E h \in Contents : Docs!StoreDocument(o, d, h)
             \/ Docs!RemoveDocument(o, d)
      PROVE  \A x, y \in lost : x.owner = y.owner
  <2>1. \A x, y \in docs \ docs' : x = y
    BY <1>2 DEF Docs!StoreDocument, Docs!RemoveDocument, Docs!Purge,
                D!IInv, D!OneCopyPerTenant
  <2> QED BY <2>1
<1>3. CASE UNCHANGED <<vars, documents>>
  BY <1>3 DEF documents, vars, LosesOfOneTenantInUse
<1>4. ASSUME UNCHANGED vars, \A x, y \in lost : x.owner = y.owner
      PROVE  LosesOfOneTenantInUse
  BY <1>4 DEF vars, LosesOfOneTenantInUse
<1>5. ASSUME Next, Cascade PROVE LosesOfOneTenantInUse
  BY <1>1, <1>5 DEF LosesOfOneTenantInUse
<1> HIDE DEF lost
<1> QED BY <1>2, <1>3, <1>4, <1>5 DEF TenantNext

\* An account deletion leaves the documents of all tenants but one that a valid session
\* leads to, and a sweep those of all.
THEOREM InUseKeep == TenantSpec => TenantsInUseKeepDocuments
<1>1. TenantIInv /\ [TenantNext]_<<vars, documents>> => [LosesOfOneTenantInUse]_<<vars, documents>>
  BY LosesOfOne
<1> QED BY <1>1, TenantInvariance, PTL DEF TenantSpec, TenantsInUseKeepDocuments
=============================================================================
