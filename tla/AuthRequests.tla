--------------------------- MODULE AuthRequests ---------------------------
(***************************************************************************)
(* The auth endpoints as the server runs them: concurrent requests, each   *)
(* with one database transaction opened by get_db_session, over PostgreSQL *)
(* at READ COMMITTED.                                                      *)
(*                                                                         *)
(* A request is sent (its cookie is read from the browser's jar then), the *)
(* endpoint runs its statements, the response leaves, and only then does   *)
(* the exit code of get_db_session commit: FastAPI runs the exit code of a *)
(* request-scoped dependency after the response is sent.  An endpoint that *)
(* raises rolls back instead.  A write statement waits while another open  *)
(* transaction holds a row it needs, which its action's guard states.      *)
(***************************************************************************)
EXTENDS AuthTables

CONSTANTS
  Requests,    \* request slots of the server
  Browsers,    \* cookie jars
  Endpoints,   \* bound: the endpoints browsers call
  MaxCrashes   \* bound: restarts of the server process

VARIABLES
  owners, users, sessions,   \* the committed tables
  clock,
  jar,        \* jar[b]: the session_token cookie of browser b, or NULL
  req,        \* req[r]: the request in slot r
  pend,       \* pend[r]: what r's transaction wrote and has not committed
  issued,     \* the owner ids and tokens drawn so far
  crashes

tables == <<owners, users, sessions>>
vars   == <<owners, users, sessions, clock, jar, req, pend, issued, crashes>>

Ops == {"register", "login", "anonymous_login", "logout", "logout_everywhere",
        "delete_account", "me"}             \* from a browser; "cleanup" is the cron's
ASSUME EndpointsAssumption == Endpoints \subseteq Ops
ASSUME CrashBoundAssumption == MaxCrashes \in Nat

Naming == {"register", "login"}             \* carry a username
Minting == {"register", "anonymous_login"}  \* draw an owner id
Granting == {"login", "anonymous_login"}    \* draw a token and set the cookie
Clearing == {"logout", "logout_everywhere", "delete_account"}  \* delete the cookie
Reading == Clearing \cup {"me"}             \* read the cookie

NoReq == [pc |-> "idle", op |-> NULL, by |-> NULL, cookie |-> NULL, name |-> NULL,
          owner |-> NULL, token |-> NULL, now |-> NULL, reach |-> {}]
NoPend == [owners |-> {}, users |-> {}, sessions |-> {}, gone |-> {}, ended |-> {}]

Init ==
  /\ owners = {} /\ users = {} /\ sessions = {}
  /\ clock = 0
  /\ jar = [b \in Browsers |-> NULL]
  /\ req = [r \in Requests |-> NoReq]
  /\ pend = [r \in Requests |-> NoPend]
  /\ issued = {}
  /\ crashes = 0
-----------------------------------------------------------------------------
(* Rows other transactions hold. *)

OwnerIds == {x.id : x \in owners}
Others(r) == Requests \ {r}

\* The committed sessions r deletes: named by token, or by cascade from their owner.
DeletedSessions(r) ==
  {s \in sessions : s.token \in pend[r].ended \/ s.owner \in pend[r].gone}

SessionsFree(r, rows) == \A q \in Others(r) : DeletedSessions(q) \cap rows = {}

\* Mutated: no ON DELETE CASCADE; a deletion is tried again until no session refers to
\* the owners.
OwnersWithoutSessions(r, ids) == \A s \in sessions : s.owner \notin ids

\* Rows of owners can be deleted when nobody else deletes one, no uncommitted session
\* references one (its foreign key check holds the row KEY SHARE) and the sessions the
\* deletion cascades to are free.
OwnersFree(r, ids) ==
  /\ \A q \in Others(r) :
       /\ ids \cap pend[q].gone = {}
       /\ \A s \in pend[q].sessions : s.owner \notin ids
  /\ SessionsFree(r, {s \in sessions : s.owner \in ids})

\* Mutated: no foreign key on sessions.owner_id; no UNIQUE on users.username.
OwnerNotChecked(r, o) == TRUE
NameNotUnique(r, name) == TRUE

\* INSERT INTO sessions checks its owner: wait for a deletion of it to be decided.
OwnerNotBeingDeleted(r, o) == \A q \in Others(r) : o \notin pend[q].gone

\* INSERT INTO users waits for another insertion of the same username.
NameFree(r, name) == \A q \in Others(r) : \A u \in pend[q].users : u.name # name

\* Mutated: the column is not selected, a row comes back.
ValidRow(cookie, now) ==
  {s \in sessions : s.token = cookie /\ SessionValid(s, now)}

\* validate_session: the owner of the valid session the cookie opens, or NULL.
ValidOwner(cookie, now) ==
  LET open == {s \in sessions : s.token = cookie /\ SessionValid(s, now)}
  IN IF open = {} THEN NULL ELSE (CHOOSE s \in open : TRUE).owner

\* What the holder of a cookie would call the account's sessions: every committed
\* session of the owner its session row belongs to, expired or not.
AccountSessions(cookie) ==
  {s.token : s \in {x \in sessions : \E y \in sessions :
                      y.token = cookie /\ x.owner = y.owner}}
-----------------------------------------------------------------------------
(* Steps of a request. *)

At(r, pc, op) == req[r].pc = pc /\ req[r].op = op

Goto(r, pc) == req' = [req EXCEPT ![r].pc = pc]

\* A read, or a refusal: the transaction wrote nothing.
NoWrite == UNCHANGED <<owners, users, sessions, clock, jar, pend, issued, crashes>>

Write(r, p) ==
  /\ pend' = [pend EXCEPT ![r] = p]
  /\ UNCHANGED <<owners, users, sessions, clock, jar, issued, crashes>>

\* The browser sends a request with the cookie it has now.  The ids and the token
\* the handler will draw are fixed here; they are fresh.
Send(r, b, op) ==
  /\ req[r].pc = "idle"
  /\ \E name \in IF op \in Naming THEN Names ELSE {NULL},
        o \in IF op \in Minting THEN Owners \ issued ELSE {NULL},
        tok \in IF op \in Granting THEN Tokens \ issued ELSE {NULL} :
       /\ issued' = issued \cup ({o, tok} \ {NULL})
       /\ req' = [req EXCEPT ![r] =
            [NoReq EXCEPT !.pc = "sent", !.op = op,
                          !.by = IF op \in Granting \cup Clearing THEN b ELSE NULL,
                          !.cookie = IF op \in Reading THEN jar[b] ELSE NULL,
                          !.name = name, !.owner = o, !.token = tok,
                          !.reach = IF op = "logout_everywhere"
                                    THEN AccountSessions(jar[b]) ELSE {}]]
  /\ UNCHANGED <<owners, users, sessions, clock, jar, pend, crashes>>

\* The monthly workflow (or anyone) calls POST /admin/cleanup.
SendCleanup(r) ==
  /\ req[r].pc = "idle"
  /\ req' = [req EXCEPT ![r].pc = "sent", ![r].op = "cleanup"]
  /\ NoWrite

\* register: the password is hashed first, then registration() runs.  A taken name
\* makes the statement insert nothing; the handler answers 409.
RegisterStatement(r) ==
  /\ At(r, "sent", "register")
  /\ IF \E u \in users : u.name = req[r].name
     THEN Goto(r, "raised") /\ NoWrite
     ELSE /\ NameFree(r, req[r].name)
          /\ Goto(r, "answered")
          /\ Write(r, [NoPend EXCEPT
               !.owners = {PermanentOwner(req[r].owner)},
               !.users = {[name |-> req[r].name, owner |-> req[r].owner]}])

\* login: login_check reads the credentials and the password is verified in a worker
\* thread.  A missing name pays for a dummy verification and is refused like a wrong
\* password.
LoginCheck(r) ==
  /\ At(r, "sent", "login")
  /\ \/ Goto(r, "raised")
     \/ \E u \in users :
          /\ u.name = req[r].name
          /\ req' = [req EXCEPT ![r].pc = "verified", ![r].owner = u.owner,
                                ![r].now = clock]
  /\ NoWrite

\* Mutated: the session is inserted for an owner that is gone.
LoginCreateSessionUnchecked(r) ==
  /\ At(r, "verified", "login")
  /\ Goto(r, "answered")
  /\ Write(r, [NoPend EXCEPT !.sessions =
       {LoginSession(req[r].token, req[r].owner, req[r].now)}])

\* The password matched: create_session_login.  The owner may be gone by now; the
\* foreign key then fails, which no handler catches.
LoginCreateSession(r) ==
  /\ At(r, "verified", "login")
  /\ OwnerNotBeingDeleted(r, req[r].owner)
  /\ IF req[r].owner \in OwnerIds
     THEN /\ Goto(r, "answered")
          /\ Write(r, [NoPend EXCEPT !.sessions =
               {LoginSession(req[r].token, req[r].owner, req[r].now)}])
     ELSE Goto(r, "raised") /\ NoWrite

AnonymousStatement(r) ==
  /\ At(r, "sent", "anonymous_login")
  /\ Goto(r, "answered")
  /\ Write(r, [NoPend EXCEPT
       !.owners = {AnonymousOwner(req[r].owner, clock)},
       !.sessions = {AnonymousSession(req[r].token, req[r].owner, clock)}])

\* logout: deletes the session the cookie names, valid or not, if there is one.
LogoutStatement(r) ==
  /\ At(r, "sent", "logout")
  /\ LET named == {s \in sessions : s.token = req[r].cookie}
     IN /\ SessionsFree(r, named)
        /\ Goto(r, "answered")
        /\ Write(r, [NoPend EXCEPT !.ended = {s.token : s \in named}])

\* logout_everywhere and delete_account first resolve the cookie to an owner.
Validate(r) ==
  /\ At(r, "sent", "logout_everywhere") \/ At(r, "sent", "delete_account")
  /\ req' = [req EXCEPT ![r].pc = "validated", ![r].owner = ValidOwner(req[r].cookie, clock)]
  /\ NoWrite

\* Mutated: only the caller's own session is ended.
LogoutThisDevice(r) ==
  /\ At(r, "validated", "logout_everywhere")
  /\ LET own == {s \in sessions : s.token = req[r].cookie}
     IN /\ SessionsFree(r, own)
        /\ Goto(r, "answered")
        /\ Write(r, [NoPend EXCEPT !.ended = {s.token : s \in own}])

\* An expired or unknown session has owner NULL: the DELETE matches nothing and the
\* request is still answered with success.
LogoutEverywhereStatement(r) ==
  /\ At(r, "validated", "logout_everywhere")
  /\ LET all == {s \in sessions : s.owner = req[r].owner}
     IN /\ SessionsFree(r, all)
        /\ Goto(r, "answered")
        /\ Write(r, [NoPend EXCEPT !.ended = {s.token : s \in all}])

DeleteAccountStatement(r) ==
  /\ At(r, "validated", "delete_account")
  /\ IF req[r].owner = NULL
     THEN Goto(r, "raised") /\ NoWrite
     ELSE /\ OwnersFree(r, {req[r].owner})
          /\ Goto(r, "answered")
          /\ Write(r, [NoPend EXCEPT !.gone = {req[r].owner} \cap OwnerIds])

\* GET /auth/me: whoami answers for a valid session and refuses any other cookie.
MeStatement(r) ==
  /\ At(r, "sent", "me")
  /\ Goto(r, IF ValidOwner(req[r].cookie, clock) = NULL THEN "raised" ELSE "answered")
  /\ NoWrite

\* POST /admin/cleanup without the sweep token: 404 before any statement.
CleanupRefused(r) ==
  /\ At(r, "sent", "cleanup")
  /\ Goto(r, "raised")
  /\ NoWrite

\* Mutated: the cleanup sweeps sessions only.
SweepNoOwners(r) ==
  /\ At(r, "sent", "cleanup")
  /\ Write(r, NoPend)
  /\ req' = [req EXCEPT ![r].pc = "swept", ![r].now = clock]

DeadOwners == {x.id : x \in {y \in owners : OwnerExpired(y, clock)}}

\* Mutated: owners whose rows are held are skipped, as FOR UPDATE SKIP LOCKED does.
SweepUnlockedOwners(r) ==
  /\ At(r, "sent", "cleanup")
  /\ Write(r, [NoPend EXCEPT !.gone = {o \in DeadOwners : OwnersFree(r, {o})}])
  /\ req' = [req EXCEPT ![r].pc = "swept", ![r].now = clock]

SweepOwners(r) ==
  /\ At(r, "sent", "cleanup")
  /\ OwnersFree(r, DeadOwners)
  /\ Write(r, [NoPend EXCEPT !.gone = DeadOwners])
  /\ req' = [req EXCEPT ![r].pc = "swept", ![r].now = clock]

DeadSessions(r) == {s \in sessions \ DeletedSessions(r) : SessionExpired(s, req[r].now)}

SweepSessions(r) ==
  /\ At(r, "swept", "cleanup")
  /\ SessionsFree(r, DeadSessions(r))
  /\ Write(r, [pend[r] EXCEPT !.ended = {s.token : s \in DeadSessions(r)}])
  /\ Goto(r, "answered")

\* The response reaches the browser, cookie and all.  The transaction is still open.
Respond(r) ==
  /\ req[r].pc = "answered"
  /\ jar' = IF req[r].op \in Granting
            THEN [jar EXCEPT ![req[r].by] = req[r].token]
            ELSE IF req[r].op \in Clearing /\ req[r].cookie # NULL
            THEN [jar EXCEPT ![req[r].by] = NULL]
            ELSE jar
  /\ Goto(r, "exiting")
  /\ UNCHANGED <<owners, users, sessions, clock, pend, issued, crashes>>

\* The exit code of get_db_session commits: inserts, then deletes with their cascade.
Commit(r) ==
  /\ req[r].pc = "exiting"
  /\ LET p == pend[r]
     IN /\ owners' = {x \in owners : x.id \notin p.gone} \cup p.owners
        /\ users' = {u \in users : u.owner \notin p.gone} \cup p.users
        /\ sessions' = {s \in sessions : s.owner \notin p.gone /\ s.token \notin p.ended}
                         \cup p.sessions
  /\ pend' = [pend EXCEPT ![r] = NoPend]
  /\ req' = [req EXCEPT ![r] = NoReq]
  /\ UNCHANGED <<clock, jar, issued, crashes>>

\* The exit code sees the exception and rolls back; then the error is answered.
Rollback(r) ==
  /\ req[r].pc = "raised"
  /\ pend' = [pend EXCEPT ![r] = NoPend]
  /\ req' = [req EXCEPT ![r] = NoReq]
  /\ UNCHANGED <<owners, users, sessions, clock, jar, issued, crashes>>

\* The process dies: requests in flight vanish and the database rolls them back.
Crash ==
  /\ crashes < MaxCrashes
  /\ \E r \in Requests : req[r].pc # "idle"
  /\ req' = [r \in Requests |-> NoReq]
  /\ pend' = [r \in Requests |-> NoPend]
  /\ crashes' = crashes + 1
  /\ UNCHANGED <<owners, users, sessions, clock, jar, issued>>

Tick ==
  /\ clock < MaxClock
  /\ clock' = clock + 1
  /\ UNCHANGED <<owners, users, sessions, jar, req, pend, issued, crashes>>

Statement(r) ==
  \/ RegisterStatement(r)
  \/ LoginCheck(r) \/ LoginCreateSession(r)
  \/ AnonymousStatement(r)
  \/ LogoutStatement(r)
  \/ Validate(r) \/ LogoutEverywhereStatement(r) \/ DeleteAccountStatement(r)
  \/ MeStatement(r)
  \/ CleanupRefused(r) \/ SweepOwners(r) \/ SweepSessions(r)

Serve(r) == Statement(r) \/ Respond(r) \/ Commit(r) \/ Rollback(r)

Next ==
  \/ \E r \in Requests, b \in Browsers, op \in Endpoints : Send(r, b, op)
  \/ \E r \in Requests : SendCleanup(r)
  \/ \E r \in Requests : Serve(r)
  \/ Crash
  \/ Tick

Spec == Init /\ [][Next]_vars

\* The event loop and the thread pool run every handler on; the database decides
\* every statement whose locks are free.  Clients owe nothing.
ServerFairness == \A r \in Requests : WF_vars(Serve(r))

\* The monthly workflow keeps calling: a slot that is free again and again is used.
CleanupFairness ==
  /\ SF_vars(\E r \in Requests : SendCleanup(r))
  /\ SF_vars(\E r \in Requests : SweepOwners(r))

FairSpec == Spec /\ ServerFairness /\ CleanupFairness
-----------------------------------------------------------------------------
Pcs == {"idle", "sent", "verified", "validated", "swept", "answered", "exiting", "raised"}

Request ==
  [pc : Pcs, op : Ops \cup {"cleanup", NULL}, by : Browsers \cup {NULL},
   cookie : Tokens \cup {NULL}, name : Names \cup {NULL}, owner : Owners \cup {NULL},
   token : Tokens \cup {NULL}, now : Nat \cup {NULL}, reach : SUBSET Tokens]
Pending ==
  [owners : SUBSET OwnerRow, users : SUBSET UserRow, sessions : SUBSET SessionRow,
   gone : SUBSET Owners, ended : SUBSET Tokens]

TypeOK ==
  /\ owners \subseteq OwnerRow
  /\ users \subseteq UserRow
  /\ sessions \subseteq SessionRow
  /\ clock \in 0..MaxClock
  /\ jar \in [Browsers -> Tokens \cup {NULL}]
  /\ req \in [Requests -> Request]
  /\ pend \in [Requests -> Pending]
  /\ issued \subseteq Owners \cup Tokens
  /\ crashes \in 0..MaxCrashes

\* The concurrent requests implement the atomic tables: whatever the interleaving,
\* each commit is one SQL function applied to the committed state.
Store == INSTANCE AuthStore
ImplementsAuthStore == Store!Spec

\* Two registrations of one name are never both answered with success: the second
\* one waits on uq_users_username and is refused.
Registering(r) == req[r].op = "register" /\ req[r].pc \in {"answered", "exiting"}
OneWinnerPerName ==
  \A r, q \in Requests :
    r # q /\ Registering(r) /\ Registering(q) => req[r].name # req[q].name

\* logout_everywhere with a valid session ends every session its account had when
\* the request was sent, whatever ran in between.
LogoutEverywhereCompletes ==
  [][\A r \in Requests :
       Commit(r) /\ req[r].op = "logout_everywhere" /\ req[r].owner # NULL
         => \A s \in sessions' : s.token \notin req[r].reach]_vars

\* An account that was deleted is gone for good: once the deletion is answered no
\* open request can still commit a session for it.
DeletedOwnerGetsNoSession ==
  \A r, q \in Requests : \A s \in pend[q].sessions :
    r # q => s.owner \notin pend[r].gone

\* A statement of r waits for a row another open transaction holds.
Waits(r) ==
  \/ /\ At(r, "sent", "register") /\ ~ NameFree(r, req[r].name)
     /\ \A u \in users : u.name # req[r].name
  \/ At(r, "verified", "login") /\ ~ OwnerNotBeingDeleted(r, req[r].owner)
  \/ /\ At(r, "sent", "logout")
     /\ ~ SessionsFree(r, {s \in sessions : s.token = req[r].cookie})
  \/ /\ At(r, "validated", "logout_everywhere")
     /\ ~ SessionsFree(r, {s \in sessions : s.owner = req[r].owner})
  \/ /\ At(r, "validated", "delete_account") /\ req[r].owner # NULL
     /\ ~ OwnersFree(r, {req[r].owner})
  \/ At(r, "sent", "cleanup") /\ ~ OwnersFree(r, DeadOwners)
  \/ At(r, "swept", "cleanup") /\ ~ SessionsFree(r, DeadSessions(r))

\* Open requests never all wait for each other, although a cleanup waits for rows with
\* rows of its own locked, and nothing keeps two cleanups from running at once.
SomebodyProceeds ==
  (\E r \in Requests : req[r].pc # "idle")
    => \E r \in Requests : req[r].pc # "idle" /\ ~ Waits(r)

\* Every request ends, whatever waits for whose rows.
EveryRequestEnds == \A r \in Requests : req[r].pc # "idle" ~> req[r].pc = "idle"

\* What has expired is eventually deleted by the out-of-band sweep.
ExpiredDataIsPurged ==
  \A o \in Owners :
    (\E x \in owners : x.id = o /\ OwnerExpired(x, clock)) ~> o \notin OwnerIds

\* app.js enters the app on a login's response without another check, because
\* "Login guarantees a valid registered session": what the browser sends next finds the
\* session that was answered.  /auth/me does not refuse it and a logout does end it.
AnsweredLoginIsUsable ==
  \A r, q \in Requests :
    (At(r, "raised", "me") \/ At(r, "answered", "logout")) /\ req[q].pc = "exiting"
      => \A s \in pend[q].sessions :
           SessionValid(s, clock) => s.token # req[r].cookie

\* "This ends every active session for this account on all devices."
LogoutEverywhereEndsEverySession ==
  [][\A r \in Requests :
       Commit(r) /\ req[r].op = "logout_everywhere"
         => \A s \in sessions' :
              s.token \in req[r].reach => ~ SessionValid(s, clock)]_vars
=============================================================================
