------------------------ MODULE AuthRequestsProofs ------------------------
(***************************************************************************)
(* The auth endpoints implement the atomic identity tables, proved for any *)
(* number of requests, browsers, owners, names, tokens and crashes.        *)
(*                                                                         *)
(* What a statement checked has to hold until its transaction commits.     *)
(* The invariant says what each open request may still rely on (RequestOK) *)
(* and what the rows it holds keep every other one from doing (Apart).     *)
(* Fresh ids and tokens are the reason that a deletion decided early does  *)
(* not reach a row committed late.                                         *)
(***************************************************************************)
EXTENDS AuthRequests, TLAPS

\* The identity tables are what the joined tables are without documents.
S == INSTANCE TenantsProofs WITH DocIds <- {}, Contents <- {}, Size <- << >>,
                                 docs <- {}, chunks <- {}, vectors <- {}

\* What the proofs of the tables assume of their constants.
LEMMA TableAssumptions ==
  /\ NULL \notin Owners \cup Tokens \cup Nat
  /\ {LoginTTL, AnonTTL, MaxClock} \subseteq Nat
  /\ << >> \in [{} -> Nat] /\ NULL \notin {} \cup {}
BY NullAssumption, TimeAssumption

Wrote(r) == req[r].pc \in {"answered", "exiting"}
Mints(r) == req[r].op \in Minting /\ (req[r].pc = "sent" \/ Wrote(r))
Grants(r) == req[r].op \in Granting /\ (req[r].pc \in {"sent", "verified"} \/ Wrote(r))
LoggedIn(r) == req[r].op = "login" /\ (req[r].pc = "verified" \/ Wrote(r))
Sweeping(r) == req[r].op = "cleanup" /\ (req[r].pc = "swept" \/ Wrote(r))

\* What r wrote and has not committed.
PendOK(r) ==
  /\ pend[r].users = IF req[r].op = "register" /\ Wrote(r)
                     THEN {[name |-> req[r].name, owner |-> req[r].owner]} ELSE {}
  /\ req[r].op = "register" /\ Wrote(r) => pend[r].owners = {PermanentOwner(req[r].owner)}
  /\ req[r].op = "anonymous_login" /\ Wrote(r) =>
       \E t \in 0..clock :
         /\ pend[r].owners = {AnonymousOwner(req[r].owner, t)}
         /\ pend[r].sessions = {AnonymousSession(req[r].token, req[r].owner, t)}
  /\ req[r].op = "login" /\ Wrote(r) =>
       pend[r].sessions = {LoginSession(req[r].token, req[r].owner, req[r].now)}
  /\ ~ (req[r].op \in Minting /\ Wrote(r)) => pend[r].owners = {}
  /\ ~ (req[r].op \in Granting /\ Wrote(r)) => pend[r].sessions = {}
  /\ pend[r].gone # {} => (req[r].op = "delete_account" /\ Wrote(r)) \/ Sweeping(r)
  /\ pend[r].ended # {} => /\ req[r].op \in {"logout", "logout_everywhere", "cleanup"}
                           /\ Wrote(r)
  /\ req[r].op = "delete_account" => pend[r].gone \subseteq {req[r].owner}
  /\ req[r].op = "logout" => pend[r].ended \subseteq {req[r].cookie}
  /\ pend[r].gone \cup pend[r].ended \subseteq issued

\* What r has read or drawn and may rely on.
RequestOK(r) ==
  /\ Mints(r) => req[r].owner \in (Owners \cap issued) \ OwnerIds
  /\ Grants(r) => /\ req[r].token \in Tokens \cap issued
                  /\ \A s \in sessions : s.token # req[r].token
  /\ Mints(r) /\ req[r].op = "register" => req[r].name \in Names
  /\ Registering(r) => \A u \in users : u.name # req[r].name
  /\ LoggedIn(r) => /\ req[r].owner \in Owners \cap issued
                    /\ req[r].now \in 0..clock
                    /\ req[r].owner \in OwnerIds => \E u \in users : u.owner = req[r].owner
                    /\ Wrote(r) => req[r].owner \in OwnerIds
  /\ Sweeping(r) => /\ req[r].now \in 0..clock
                    /\ \A x \in owners : x.id \in pend[r].gone => OwnerExpired(x, req[r].now)
                    /\ \A s \in sessions :
                         s.token \in pend[r].ended => SessionExpired(s, req[r].now)

\* What logout_everywhere will have ended: the sessions its caller had when it was sent.
EverywhereOK(r) ==
  /\ req[r].reach \subseteq issued
  /\ req[r].reach # {} => req[r].cookie \in req[r].reach
  /\ At(r, "sent", "logout_everywhere") =>
       \A s, y \in sessions :
         s.token \in req[r].reach /\ y.token = req[r].cookie => s.owner = y.owner
  /\ At(r, "validated", "logout_everywhere") /\ req[r].owner # NULL =>
       \A s \in sessions : s.token \in req[r].reach => s.owner = req[r].owner
  /\ req[r].op = "logout_everywhere" /\ Wrote(r) =>
       \A s \in sessions :
         /\ s.token \in pend[r].ended => s.owner = req[r].owner
         /\ s.token \in req[r].reach /\ req[r].owner # NULL => s.token \in pend[r].ended

\* What r holds and q has to respect.
Apart(r, q) ==
  /\ Mints(r) => /\ req[r].owner \notin pend[q].gone
                 /\ LoggedIn(q) => req[q].owner # req[r].owner
                 /\ r # q /\ Mints(q) => req[q].owner # req[r].owner
  /\ Grants(r) => /\ req[r].token \notin pend[q].ended \cup req[q].reach
                  /\ r # q /\ Grants(q) => req[q].token # req[r].token
  /\ r # q => /\ \A s \in pend[q].sessions : s.owner \notin pend[r].gone
              /\ Registering(r) /\ Registering(q) => req[r].name # req[q].name

TablesIssued ==
  /\ \A x \in owners : x.id \in issued
  /\ \A s \in sessions : s.token \in issued

Inv ==
  /\ TypeOK
  /\ S!IInv
  /\ TablesIssued
  /\ \A r \in Requests : PendOK(r) /\ RequestOK(r) /\ EverywhereOK(r)
  /\ \A r, q \in Requests : Apart(r, q)
-----------------------------------------------------------------------------
\* The empty server satisfies the invariant.
LEMMA InitInv == Init => Inv
<1> SUFFICES ASSUME Init PROVE Inv
  OBVIOUS
<1>1. NoReq \in Request /\ NoPend \in Pending
  BY DEF NoReq, NoPend, Request, Pending, Pcs
<1>2. TypeOK
  BY <1>1, CrashBoundAssumption, TimeAssumption DEF Init, TypeOK
<1>3. S!IInv
  <2>1. S!Init
    BY DEF Init, S!Init
  <2> QED BY <2>1, S!InitIInv, TableAssumptions
<1> USE DEF Init, NoReq, NoPend, Wrote, Mints, Grants, LoggedIn, Sweeping, Registering
<1>4. TablesIssued
  BY DEF TablesIssued
<1>5. \A r \in Requests : PendOK(r)
  BY DEF PendOK
<1>6. \A r \in Requests : RequestOK(r) /\ EverywhereOK(r)
  BY DEF RequestOK, EverywhereOK, At
<1>7. \A r, q \in Requests : Apart(r, q)
  BY DEF Apart
<1> QED BY <1>2, <1>3, <1>4, <1>5, <1>6, <1>7 DEF Inv

\* The identity tables do not notice a step that leaves them alone.
LEMMA TablesStay ==
  ASSUME S!IInv, UNCHANGED <<owners, users, sessions, clock>>
  PROVE  S!IInv'
<1>1. [S!Next]_(S!vars)
  BY DEF S!vars
<1> QED BY <1>1, S!NextIInv, TableAssumptions

\* What is left to show of a step of r that leaves the tables alone.
LEMMA StepOfOne ==
  ASSUME Inv, NEW r \in Requests,
         req' \in [Requests -> Request], pend' \in [Requests -> Pending],
         jar' \in [Browsers -> Tokens \cup {NULL}],
         \A q \in Requests : q # r => req'[q] = req[q] /\ pend'[q] = pend[q],
         UNCHANGED <<owners, users, sessions, clock, crashes>>,
         issued \subseteq issued', issued' \subseteq Owners \cup Tokens,
         PendOK(r)', RequestOK(r)', EverywhereOK(r)',
         \A q \in Requests : Apart(r, q)' /\ Apart(q, r)'
  PROVE  Inv'
<1>1. TypeOK'
  BY DEF Inv, TypeOK
<1>2. S!IInv'
  BY TablesStay DEF Inv
<1>3. TablesIssued'
  BY DEF Inv, TablesIssued
<1>4. ASSUME NEW q \in Requests, q # r PROVE PendOK(q)' /\ RequestOK(q)' /\ EverywhereOK(q)'
  <2>1. PendOK(q) /\ RequestOK(q) /\ EverywhereOK(q) /\ req'[q] = req[q] /\ pend'[q] = pend[q]
    BY <1>4 DEF Inv
  <2>2. PendOK(q)'
    BY <2>1 DEF PendOK, Wrote, Sweeping
  <2>3. RequestOK(q)'
    BY <2>1 DEF RequestOK, Wrote, Mints, Grants, LoggedIn, Sweeping, Registering, OwnerIds
  <2>4. EverywhereOK(q)'
    BY <2>1 DEF EverywhereOK, Wrote, At
  <2> QED BY <2>2, <2>3, <2>4
<1>5. ASSUME NEW p \in Requests, NEW q \in Requests, p # r, q # r PROVE Apart(p, q)'
  <2>1. /\ Apart(p, q)
        /\ req'[p] = req[p] /\ pend'[p] = pend[p] /\ req'[q] = req[q] /\ pend'[q] = pend[q]
    BY <1>5 DEF Inv
  <2> QED BY <2>1 DEF Apart, Wrote, Mints, Grants, LoggedIn, Registering
<1> QED BY <1>1, <1>2, <1>3, <1>4, <1>5 DEF Inv
-----------------------------------------------------------------------------
(* How a step changes the request of r. *)

Same(r) ==
  /\ req'[r].op = req[r].op /\ req'[r].by = req[r].by /\ req'[r].cookie = req[r].cookie
  /\ req'[r].name = req[r].name /\ req'[r].token = req[r].token
  /\ req'[r].reach = req[r].reach

Moves(r, pc1) ==
  /\ req' \in [Requests -> Request]
  /\ \A q \in Requests : q # r => req'[q] = req[q]
  /\ req'[r].pc = pc1
  /\ Same(r)

LEMMA Going ==
  ASSUME req \in [Requests -> Request], NEW r \in Requests, NEW pc1 \in Pcs, Goto(r, pc1)
  PROVE  Moves(r, pc1) /\ req'[r].owner = req[r].owner /\ req'[r].now = req[r].now
<1>1. PICK q \in Request : q = req[r]
  OBVIOUS
<1> DEFINE next == [q EXCEPT !.pc = pc1]
<1>2. /\ next \in Request
      /\ next.pc = pc1 /\ next.op = q.op /\ next.by = q.by /\ next.cookie = q.cookie
      /\ next.name = q.name /\ next.owner = q.owner /\ next.token = q.token
      /\ next.now = q.now /\ next.reach = q.reach
  BY DEF Request
<1>3. req' = [req EXCEPT ![r] = next]
  BY <1>1 DEF Goto
<1> HIDE DEF next
<1>4. /\ req' \in [Requests -> Request]
      /\ \A p \in Requests : p # r => req'[p] = req[p]
      /\ req'[r] = next
  BY <1>2, <1>3
<1> QED BY <1>1, <1>2, <1>4 DEF Moves, Same

\* A step that only moves the program counter, and writes nothing.
LEMMA QuietGoto ==
  ASSUME Inv, NEW r \in Requests, NEW pc1 \in Pcs, Goto(r, pc1),
         jar' \in [Browsers -> Tokens \cup {NULL}],
         UNCHANGED <<owners, users, sessions, clock, pend, issued, crashes>>,
         \/ pc1 = "raised" /\ req[r].pc \in {"sent", "verified", "validated"}
         \/ pc1 = "exiting" /\ req[r].pc = "answered"
         \/ pc1 = "answered" /\ At(r, "sent", "me")
  PROVE  Inv'
<1>1. Moves(r, pc1) /\ req'[r].owner = req[r].owner /\ req'[r].now = req[r].now
  BY Going DEF Inv, TypeOK
<1>2. PendOK(r) /\ RequestOK(r) /\ EverywhereOK(r) /\ \A q \in Requests : Apart(r, q) /\ Apart(q, r)
  BY DEF Inv
<1>3. /\ Mints(r)' => Mints(r)
      /\ Grants(r)' => Grants(r)
      /\ LoggedIn(r)' => LoggedIn(r) /\ (Wrote(r)' => Wrote(r))
      /\ Sweeping(r)' => Sweeping(r)
      /\ Registering(r)' => Registering(r)
  BY <1>1 DEF Mints, Grants, LoggedIn, Sweeping, Registering, Wrote, Moves, Same, At,
              Minting, Granting
<1>4. PendOK(r)'
  BY <1>1, <1>2 DEF PendOK, Wrote, Sweeping, Moves, Same, At, Minting, Granting
<1>5. RequestOK(r)'
  BY <1>1, <1>2, <1>3 DEF RequestOK, Moves, Same, OwnerIds
<1>6. EverywhereOK(r)'
  BY <1>1, <1>2 DEF EverywhereOK, Wrote, Moves, Same, At
<1>7. ASSUME NEW q \in Requests, q # r PROVE Apart(r, q)' /\ Apart(q, r)'
  <2>1. /\ req'[q] = req[q] /\ (Mints(q)' <=> Mints(q)) /\ (Grants(q)' <=> Grants(q))
        /\ (LoggedIn(q)' <=> LoggedIn(q)) /\ (Registering(q)' <=> Registering(q))
    BY <1>1, <1>7 DEF Moves, Mints, Grants, LoggedIn, Registering, Wrote
  <2> QED BY <1>1, <1>2, <1>3, <2>1 DEF Apart, Moves, Same
<1>8. Apart(r, r)'
  BY <1>1, <1>2, <1>3 DEF Apart, Moves, Same
<1>9. pend' \in [Requests -> Pending] /\ issued \subseteq Owners \cup Tokens
  BY DEF Inv, TypeOK
<1> QED BY <1>1, <1>4, <1>5, <1>6, <1>7, <1>8, <1>9, StepOfOne DEF Moves

LEMMA RefusedInv ==
  ASSUME Inv, NEW r \in Requests,
         Goto(r, "raised"), NoWrite, req[r].pc \in {"sent", "verified", "validated"}
  PROVE  Inv'
<1>1. "raised" \in Pcs /\ jar' \in [Browsers -> Tokens \cup {NULL}]
  BY DEF Pcs, NoWrite, Inv, TypeOK
<1> QED BY <1>1, QuietGoto DEF NoWrite

LEMMA MeInv == ASSUME Inv, NEW r \in Requests, MeStatement(r) PROVE Inv'
<1>1. CASE Goto(r, "raised")
  BY <1>1, RefusedInv DEF MeStatement, At
<1>2. CASE Goto(r, "answered")
  <2>1. "answered" \in Pcs /\ jar' \in [Browsers -> Tokens \cup {NULL}]
    BY DEF Pcs, MeStatement, NoWrite, Inv, TypeOK
  <2> QED BY <1>2, <2>1, QuietGoto DEF MeStatement, NoWrite
<1> QED BY <1>1, <1>2 DEF MeStatement

\* The cookie is a drawn token.
LEMMA RespondInv == ASSUME Inv, NEW r \in Requests, Respond(r) PROVE Inv'
<1>1. "exiting" \in Pcs
  BY DEF Pcs
<1>2. jar' \in [Browsers -> Tokens \cup {NULL}]
  <2>1. jar \in [Browsers -> Tokens \cup {NULL}] /\ req[r].token \in Tokens \cup {NULL}
    BY DEF Inv, TypeOK, Request
  <2> QED BY <2>1 DEF Respond
<1> QED BY <1>1, <1>2, QuietGoto DEF Respond

\* A request that has not written has nothing for the others to respect but its rows.
LEMMA NothingWritten ==
  ASSUME Inv, NEW r \in Requests, ~ Wrote(r), req[r].pc # "swept"
  PROVE  /\ pend[r].users = {} /\ pend[r].owners = {} /\ pend[r].sessions = {}
         /\ pend[r].gone = {} /\ pend[r].ended = {}
BY DEF Inv, PendOK, Sweeping

\* What a request draws is new to everyone.
LEMMA SendInv ==
  ASSUME Inv, NEW r \in Requests, NEW b \in Browsers, NEW op \in Endpoints, Send(r, b, op)
  PROVE  Inv'
<1>1. PICK name \in Names \cup {NULL}, o \in Owners \cup {NULL}, tok \in Tokens \cup {NULL} :
        /\ op \in Naming => name \in Names
        /\ op \in Minting => o \in Owners \ issued
        /\ op \in Granting => tok \in Tokens \ issued
        /\ issued' = issued \cup ({o, tok} \ {NULL})
        /\ req' = [req EXCEPT ![r] =
             [NoReq EXCEPT !.pc = "sent", !.op = op,
                           !.by = IF op \in Granting \cup Clearing THEN b ELSE NULL,
                           !.cookie = IF op \in Reading THEN jar[b] ELSE NULL,
                           !.name = name, !.owner = o, !.token = tok,
                           !.reach = IF op = "logout_everywhere"
                                     THEN AccountSessions(jar[b]) ELSE {}]]
  BY DEF Send
<1> DEFINE by == IF op \in Granting \cup Clearing THEN b ELSE NULL
           cookie == IF op \in Reading THEN jar[b] ELSE NULL
           reach == IF op = "logout_everywhere" THEN AccountSessions(jar[b]) ELSE {}
           next == [NoReq EXCEPT !.pc = "sent", !.op = op, !.by = by, !.cookie = cookie,
                                 !.name = name, !.owner = o, !.token = tok, !.reach = reach]
<1>2. /\ req[r].pc = "idle"
      /\ UNCHANGED <<owners, users, sessions, clock, jar, pend, crashes>>
  BY DEF Send
<1>3. req' = [req EXCEPT ![r] = next]
  BY <1>1
<1>4. /\ by \in Browsers \cup {NULL} /\ cookie \in Tokens \cup {NULL}
      /\ reach \subseteq Tokens /\ \A k \in reach : \E s \in sessions : s.token = k
  BY DEF Inv, TypeOK, AccountSessions, SessionRow
<1>5. /\ reach # {} => cookie \in reach /\ op = "logout_everywhere"
      /\ \A s, y \in sessions : s.token \in reach /\ y.token = cookie => s.owner = y.owner
  <2>1. \A s, y \in sessions : s.token = y.token => s = y
    BY DEF Inv, S!IInv, S!KeysUnique
  <2> QED BY <2>1 DEF AccountSessions, Reading, Clearing
<1> HIDE DEF by, cookie, reach
<1>6. next \in Request
  <2>1. "sent" \in Pcs /\ op \in Ops
    BY EndpointsAssumption DEF Pcs
  <2> QED BY <1>4, <2>1 DEF NoReq, Request
<1>7. /\ next.pc = "sent" /\ next.op = op /\ next.cookie = cookie /\ next.name = name
      /\ next.owner = o /\ next.token = tok /\ next.reach = reach
  BY DEF NoReq
<1> HIDE DEF next
<1>8. /\ req' \in [Requests -> Request] /\ req'[r] = next
      /\ \A q \in Requests : q # r => req'[q] = req[q]
  BY <1>3, <1>6 DEF Inv, TypeOK
<1>9. /\ pend[r].users = {} /\ pend[r].owners = {} /\ pend[r].sessions = {}
      /\ pend[r].gone = {} /\ pend[r].ended = {}
  BY <1>2, NothingWritten DEF Wrote
<1>10. /\ ~ Wrote(r)' /\ ~ LoggedIn(r)' /\ ~ Sweeping(r)' /\ ~ Registering(r)'
       /\ Mints(r)' => op \in Minting /\ o \in Owners \ issued
       /\ Grants(r)' => op \in Granting /\ tok \in Tokens \ issued
  BY <1>1, <1>7, <1>8 DEF Wrote, LoggedIn, Sweeping, Registering, Mints, Grants
<1>11. TablesIssued
  BY DEF Inv
<1>12. PendOK(r)'
  BY <1>2, <1>9, <1>10 DEF PendOK
<1>13. RequestOK(r)'
  <2>1. Mints(r)' => o \in (Owners \cap issued') \ OwnerIds
    BY <1>1, <1>10, <1>11, NullAssumption DEF TablesIssued, OwnerIds
  <2>2. Grants(r)' => tok \in Tokens \cap issued' /\ \A s \in sessions : s.token # tok
    BY <1>1, <1>10, <1>11, NullAssumption DEF TablesIssued
  <2>3. Mints(r)' /\ op = "register" => name \in Names
    BY <1>1 DEF Naming
  <2> QED BY <1>2, <1>7, <1>8, <1>10, <2>1, <2>2, <2>3 DEF RequestOK, OwnerIds
<1>14. EverywhereOK(r)'
  <2>1. reach \subseteq issued'
    BY <1>1, <1>4, <1>11 DEF TablesIssued
  <2>2. /\ req'[r].reach = reach /\ req'[r].cookie = cookie /\ req'[r].pc = "sent"
        /\ UNCHANGED sessions /\ ~ Wrote(r)'
    BY <1>2, <1>7, <1>8, <1>10
  <2> QED BY <1>5, <2>1, <2>2 DEF EverywhereOK, At
<1>15. ASSUME NEW q \in Requests, q # r PROVE Apart(r, q)' /\ Apart(q, r)'
  <2>1. Apart(r, q) /\ Apart(q, r) /\ PendOK(q) /\ RequestOK(q) /\ EverywhereOK(q)
    BY DEF Inv
  <2>2. /\ req'[q] = req[q] /\ (Mints(q)' <=> Mints(q)) /\ (Grants(q)' <=> Grants(q))
        /\ (LoggedIn(q)' <=> LoggedIn(q)) /\ (Registering(q)' <=> Registering(q))
    BY <1>8, <1>15 DEF Mints, Grants, LoggedIn, Registering, Wrote
  <2>3. Apart(r, q)'
    BY <1>2, <1>7, <1>8, <1>9, <1>10, <2>1, <2>2 DEF Apart, PendOK, RequestOK, EverywhereOK
  <2>4. Grants(q) => req[q].token \notin reach
    BY <1>4, <2>1 DEF RequestOK
  <2>5. Apart(q, r)'
    BY <1>2, <1>7, <1>8, <1>9, <1>10, <2>1, <2>2, <2>4 DEF Apart, RequestOK
  <2> QED BY <2>3, <2>5
<1>16. Apart(r, r)'
  <2>1. Grants(r)' => reach = {}
    BY <1>5, <1>10 DEF Granting
  <2> QED BY <1>2, <1>7, <1>8, <1>9, <1>10, <2>1 DEF Apart
<1>17. /\ pend' \in [Requests -> Pending] /\ jar' \in [Browsers -> Tokens \cup {NULL}]
       /\ issued \subseteq issued' /\ issued' \subseteq Owners \cup Tokens
  BY <1>1, <1>2 DEF Inv, TypeOK
<1> QED BY <1>2, <1>8, <1>12, <1>13, <1>14, <1>15, <1>16, <1>17, StepOfOne

LEMMA SendCleanupInv == ASSUME Inv, NEW r \in Requests, SendCleanup(r) PROVE Inv'
<1>1. /\ req[r].pc = "idle" /\ NoWrite
      /\ req' = [req EXCEPT ![r].pc = "sent", ![r].op = "cleanup"]
  BY DEF SendCleanup
<1>2. PICK q \in Request : q = req[r]
  BY DEF Inv, TypeOK
<1> DEFINE next == [q EXCEPT !.pc = "sent", !.op = "cleanup"]
<1>3. /\ next \in Request /\ next.pc = "sent" /\ next.op = "cleanup"
      /\ next.cookie = q.cookie /\ next.reach = q.reach
  BY DEF Request, Pcs
<1>4. req' = [req EXCEPT ![r] = next]
  BY <1>1, <1>2
<1> HIDE DEF next
<1>5. /\ req' \in [Requests -> Request] /\ req'[r] = next
      /\ \A p \in Requests : p # r => req'[p] = req[p]
  BY <1>3, <1>4 DEF Inv, TypeOK
<1>6. /\ pend[r].users = {} /\ pend[r].owners = {} /\ pend[r].sessions = {}
      /\ pend[r].gone = {} /\ pend[r].ended = {}
  BY <1>1, NothingWritten DEF Wrote
<1>7. ~ Wrote(r)' /\ ~ LoggedIn(r)' /\ ~ Sweeping(r)' /\ ~ Registering(r)'
      /\ ~ Mints(r)' /\ ~ Grants(r)'
  BY <1>3, <1>5 DEF Wrote, LoggedIn, Sweeping, Registering, Mints, Grants, Minting, Granting
<1>8. PendOK(r)'
  BY <1>1, <1>6, <1>7 DEF PendOK, NoWrite
<1>9. RequestOK(r)'
  BY <1>7 DEF RequestOK
<1>10. EverywhereOK(r)'
  BY <1>1, <1>2, <1>3, <1>5, <1>7 DEF Inv, EverywhereOK, At, NoWrite
<1>11. ASSUME NEW p \in Requests PROVE Apart(r, p)' /\ Apart(p, r)'
  <2>1. Apart(r, p) /\ Apart(p, r)
    BY DEF Inv
  <2>2. p # r => /\ req'[p] = req[p] /\ (Mints(p)' <=> Mints(p)) /\ (Grants(p)' <=> Grants(p))
                 /\ (LoggedIn(p)' <=> LoggedIn(p)) /\ (Registering(p)' <=> Registering(p))
    BY <1>5 DEF Mints, Grants, LoggedIn, Registering, Wrote
  <2> QED BY <1>1, <1>2, <1>3, <1>5, <1>6, <1>7, <2>1, <2>2 DEF Apart, NoWrite
<1>12. /\ pend' \in [Requests -> Pending] /\ jar' \in [Browsers -> Tokens \cup {NULL}]
       /\ issued \subseteq Owners \cup Tokens
  BY <1>1 DEF Inv, TypeOK, NoWrite
<1> QED BY <1>1, <1>5, <1>8, <1>9, <1>10, <1>11, <1>12, StepOfOne DEF NoWrite

\* login_check finds credentials: their owner was drawn long ago.
LEMMA LoginCheckInv == ASSUME Inv, NEW r \in Requests, LoginCheck(r) PROVE Inv'
<1>1. CASE Goto(r, "raised")
  BY <1>1, RefusedInv DEF LoginCheck, At
<1>2. ASSUME NEW u \in users, u.name = req[r].name,
             req' = [req EXCEPT ![r].pc = "verified", ![r].owner = u.owner, ![r].now = clock]
      PROVE  Inv'
  <2>1. req[r].pc = "sent" /\ req[r].op = "login" /\ NoWrite
    BY DEF LoginCheck, At
  <2>2. PICK q \in Request : q = req[r]
    BY DEF Inv, TypeOK
  <2>3. u.owner \in OwnerIds /\ u.owner \in Owners /\ clock \in Nat /\ u.owner \in issued
    BY DEF Inv, S!IInv, S!NoOrphans, S!OwnerIds, OwnerIds, TypeOK, UserRow, TablesIssued, S!TypeOK
  <2> DEFINE next == [q EXCEPT !.pc = "verified", !.owner = u.owner, !.now = clock]
  <2>4. next \in Request
    <3>1. "verified" \in Pcs
      BY DEF Pcs
    <3> QED BY <2>3, <3>1 DEF Request
  <2>5. /\ next.pc = "verified" /\ next.op = q.op /\ next.by = q.by /\ next.cookie = q.cookie
        /\ next.name = q.name /\ next.owner = u.owner /\ next.token = q.token
        /\ next.now = clock /\ next.reach = q.reach
    BY DEF Request
  <2>6. req' = [req EXCEPT ![r] = next]
    BY <1>2, <2>2
  <2> HIDE DEF next
  <2>7. /\ req' \in [Requests -> Request] /\ req'[r] = next
        /\ \A p \in Requests : p # r => req'[p] = req[p]
    BY <2>4, <2>6 DEF Inv, TypeOK
  <2>8. PendOK(r) /\ RequestOK(r) /\ EverywhereOK(r)
    BY DEF Inv
  <2>9. /\ ~ Wrote(r)' /\ ~ Sweeping(r)' /\ ~ Registering(r)' /\ ~ Mints(r)'
        /\ Grants(r)' /\ Grants(r) /\ LoggedIn(r)' /\ ~ Wrote(r) /\ ~ Registering(r)
    BY <2>1, <2>2, <2>5, <2>7
       DEF Wrote, Sweeping, Registering, Mints, Grants, LoggedIn, Minting, Granting
  <2>10. /\ pend[r].users = {} /\ pend[r].owners = {} /\ pend[r].sessions = {}
         /\ pend[r].gone = {} /\ pend[r].ended = {}
    BY <2>1, NothingWritten DEF Wrote
  <2>11. PendOK(r)'
    BY <2>1, <2>9, <2>10 DEF PendOK, NoWrite
  <2>12. RequestOK(r)'
    <3>1. clock \in 0..clock
      BY <2>3
    <3> QED BY <2>1, <2>2, <2>3, <2>5, <2>7, <2>8, <2>9, <3>1 DEF RequestOK, NoWrite, OwnerIds
  <2>13. EverywhereOK(r)'
    BY <2>1, <2>2, <2>5, <2>7, <2>8, <2>9 DEF EverywhereOK, At, NoWrite
  <2>14. ASSUME NEW p \in Requests, p # r PROVE Apart(r, p)' /\ Apart(p, r)'
    <3>1. Apart(r, p) /\ Apart(p, r) /\ RequestOK(p)
      BY DEF Inv
    <3>2. /\ req'[p] = req[p] /\ (Mints(p)' <=> Mints(p)) /\ (Grants(p)' <=> Grants(p))
          /\ (LoggedIn(p)' <=> LoggedIn(p)) /\ (Registering(p)' <=> Registering(p))
      BY <2>7, <2>14 DEF Mints, Grants, LoggedIn, Registering, Wrote
    <3>3. Apart(r, p)'
      BY <2>1, <2>2, <2>5, <2>7, <2>9, <2>10, <3>1, <3>2 DEF Apart, NoWrite
    <3>4. Apart(p, r)'
      BY <2>1, <2>2, <2>3, <2>5, <2>7, <2>9, <2>10, <3>1, <3>2 DEF Apart, NoWrite, RequestOK
    <3> QED BY <3>3, <3>4
  <2>15. Apart(r, r)'
    <3>1. Apart(r, r)
      BY DEF Inv
    <3> QED BY <2>1, <2>2, <2>5, <2>7, <2>9, <3>1 DEF Apart, NoWrite
  <2>16. /\ pend' \in [Requests -> Pending] /\ jar' \in [Browsers -> Tokens \cup {NULL}]
         /\ issued \subseteq Owners \cup Tokens
    BY <2>1 DEF Inv, TypeOK, NoWrite
  <2> QED BY <2>1, <2>7, <2>11, <2>12, <2>13, <2>14, <2>15, <2>16, StepOfOne DEF NoWrite
<1> QED BY <1>1, <1>2 DEF LoginCheck

\* The sessions logout_everywhere has to end are those of the owner it resolves.
LEMMA ValidateInv == ASSUME Inv, NEW r \in Requests, Validate(r) PROVE Inv'
<1> DEFINE o == ValidOwner(req[r].cookie, clock)
<1>1. /\ req[r].pc = "sent" /\ req[r].op \in {"logout_everywhere", "delete_account"}
      /\ req' = [req EXCEPT ![r].pc = "validated", ![r].owner = o] /\ NoWrite
  BY DEF Validate, At
<1>2. o \in Owners \cup {NULL} /\ (o # NULL => \E s \in sessions : s.token = req[r].cookie
                                                              /\ s.owner = o)
  BY DEF ValidOwner, Inv, TypeOK, SessionRow
<1> HIDE DEF o
<1>3. PICK q \in Request : q = req[r]
  BY DEF Inv, TypeOK
<1> DEFINE next == [q EXCEPT !.pc = "validated", !.owner = o]
<1>4. /\ next \in Request
      /\ next.pc = "validated" /\ next.op = q.op /\ next.by = q.by /\ next.cookie = q.cookie
      /\ next.name = q.name /\ next.owner = o /\ next.token = q.token
      /\ next.now = q.now /\ next.reach = q.reach
  BY <1>2 DEF Request, Pcs
<1>5. req' = [req EXCEPT ![r] = next]
  BY <1>1, <1>3
<1> HIDE DEF next
<1>6. /\ req' \in [Requests -> Request] /\ req'[r] = next
      /\ \A p \in Requests : p # r => req'[p] = req[p]
  BY <1>4, <1>5 DEF Inv, TypeOK
<1>7. /\ ~ Wrote(r)' /\ ~ Sweeping(r)' /\ ~ Registering(r)' /\ ~ Mints(r)'
      /\ ~ Grants(r)' /\ ~ LoggedIn(r)'
  BY <1>1, <1>3, <1>4, <1>6
     DEF Wrote, Sweeping, Registering, Mints, Grants, LoggedIn, Minting, Granting
<1>8. /\ pend[r].users = {} /\ pend[r].owners = {} /\ pend[r].sessions = {}
      /\ pend[r].gone = {} /\ pend[r].ended = {}
  BY <1>1, NothingWritten DEF Wrote
<1>9. PendOK(r)'
  BY <1>1, <1>7, <1>8 DEF PendOK, NoWrite
<1>10. RequestOK(r)'
  BY <1>7 DEF RequestOK
<1>11. EverywhereOK(r)'
  <2>1. EverywhereOK(r)
    BY DEF Inv
  <2>2. /\ req'[r].reach = req[r].reach /\ req'[r].cookie = req[r].cookie
        /\ req'[r].owner = o /\ req'[r].pc = "validated" /\ req'[r].op = req[r].op
        /\ UNCHANGED <<sessions, issued>>
    BY <1>1, <1>3, <1>4, <1>6 DEF NoWrite
  <2> QED BY <1>1, <1>2, <1>7, <2>1, <2>2 DEF EverywhereOK, At
<1>12. ASSUME NEW p \in Requests PROVE Apart(r, p)' /\ Apart(p, r)'
  <2>1. Apart(r, p) /\ Apart(p, r)
    BY DEF Inv
  <2>2. p # r => /\ req'[p] = req[p] /\ (Mints(p)' <=> Mints(p)) /\ (Grants(p)' <=> Grants(p))
                 /\ (LoggedIn(p)' <=> LoggedIn(p)) /\ (Registering(p)' <=> Registering(p))
    BY <1>6 DEF Mints, Grants, LoggedIn, Registering, Wrote
  <2> QED BY <1>1, <1>3, <1>4, <1>6, <1>7, <1>8, <2>1, <2>2 DEF Apart, NoWrite
<1>13. /\ pend' \in [Requests -> Pending] /\ jar' \in [Browsers -> Tokens \cup {NULL}]
       /\ issued \subseteq Owners \cup Tokens
  BY <1>1 DEF Inv, TypeOK, NoWrite
<1> QED BY <1>1, <1>6, <1>9, <1>10, <1>11, <1>12, <1>13, StepOfOne DEF NoWrite
-----------------------------------------------------------------------------
(* The statements that write. *)

\* What a statement changes: r has written p, everything else stays.
Writes(r, p) ==
  /\ Moves(r, "answered") /\ req'[r].owner = req[r].owner /\ req'[r].now = req[r].now
  /\ Wrote(r)'
  /\ pend' \in [Requests -> Pending] /\ pend'[r] = p
  /\ jar' \in [Browsers -> Tokens \cup {NULL}]
  /\ UNCHANGED <<owners, users, sessions, clock, issued, crashes>>
  /\ issued \subseteq Owners \cup Tokens
  /\ \A q \in Requests : q # r =>
       /\ req'[q] = req[q] /\ pend'[q] = pend[q]
       /\ Mints(q)' <=> Mints(q)
       /\ Grants(q)' <=> Grants(q)
       /\ LoggedIn(q)' <=> LoggedIn(q)
       /\ Registering(q)' <=> Registering(q)

LEMMA Writing ==
  ASSUME Inv, NEW r \in Requests, NEW p \in Pending, Goto(r, "answered"), Write(r, p)
  PROVE  Writes(r, p)
<1>1. Moves(r, "answered") /\ req'[r].owner = req[r].owner /\ req'[r].now = req[r].now
  BY Going DEF Inv, TypeOK, Pcs
<1>2. /\ pend' = [pend EXCEPT ![r] = p]
      /\ UNCHANGED <<owners, users, sessions, clock, jar, issued, crashes>>
  BY DEF Write
<1>3. /\ pend' \in [Requests -> Pending] /\ pend'[r] = p
      /\ \A q \in Requests : q # r => pend'[q] = pend[q]
  BY <1>2 DEF Inv, TypeOK
<1>4. \A q \in Requests : q # r => req'[q] = req[q]
  BY <1>1 DEF Moves
<1>5. jar' \in [Browsers -> Tokens \cup {NULL}] /\ issued \subseteq Owners \cup Tokens
  BY <1>2 DEF Inv, TypeOK
<1>6. Wrote(r)'
  BY <1>1 DEF Moves, Wrote
<1> QED BY <1>1, <1>2, <1>3, <1>4, <1>5, <1>6
        DEF Writes, Mints, Grants, LoggedIn, Registering, Wrote

\* registration(): the name stays free of everybody else's.
LEMMA RegisterInv == ASSUME Inv, NEW r \in Requests, RegisterStatement(r) PROVE Inv'
<1>1. req[r].pc = "sent" /\ req[r].op = "register"
  BY DEF RegisterStatement, At
<1>2. CASE Goto(r, "raised") /\ NoWrite
  BY <1>1, <1>2, RefusedInv
<1> DEFINE ow == PermanentOwner(req[r].owner)
           us == [name |-> req[r].name, owner |-> req[r].owner]
           p == [NoPend EXCEPT !.owners = {ow}, !.users = {us}]
<1>3. CASE /\ ~ \E u \in users : u.name = req[r].name
           /\ NameFree(r, req[r].name) /\ Goto(r, "answered") /\ Write(r, p)
  <2>1. PendOK(r) /\ RequestOK(r) /\ EverywhereOK(r) /\ Mints(r) /\ ~ Grants(r)
    BY <1>1 DEF Inv, Mints, Grants, Minting, Granting
  <2>2. ow \in OwnerRow /\ us \in UserRow /\ us.name = req[r].name
    BY <1>1, <2>1 DEF RequestOK, PermanentOwner, OwnerRow, UserRow
  <2> HIDE DEF ow, us
  <2>3. /\ p \in Pending /\ p.owners = {ow} /\ p.users = {us} /\ p.sessions = {}
        /\ p.gone = {} /\ p.ended = {}
    BY <2>2 DEF NoPend, Pending
  <2>4. Goto(r, "answered") /\ Write(r, p)
    BY <1>3
  <2> HIDE DEF p
  <2>5. Writes(r, p)
    BY <2>3, <2>4, Writing
  <2>6. ~ Grants(r)' /\ ~ LoggedIn(r)' /\ ~ Sweeping(r)' /\ Mints(r)' /\ Registering(r)'
    BY <1>1, <2>5 DEF Writes, Moves, Same, Grants, LoggedIn, Sweeping, Mints, Registering, Minting,
                      Granting, Wrote
  <2>7. PendOK(r)'
    BY <1>1, <2>3, <2>5 DEF PendOK, Writes, Moves, Same, Minting, Granting, ow, us
  <2>8. RequestOK(r)'
    BY <1>1, <1>3, <2>1, <2>5, <2>6 DEF RequestOK, Writes, Moves, Same, OwnerIds
  <2>9. EverywhereOK(r)'
    BY <1>1, <2>1, <2>5 DEF EverywhereOK, Writes, Moves, Same, At
  <2>10. ASSUME NEW q \in Requests, q # r PROVE Apart(r, q)' /\ Apart(q, r)'
    <3>1. Apart(r, q) /\ Apart(q, r) /\ PendOK(q)
      BY DEF Inv
    <3>2. Registering(q) => req[q].name # req[r].name
      <4>1. \A u \in pend[q].users : u.name # req[r].name
        BY <1>3, <2>10 DEF NameFree, Others
      <4>2. Registering(q) => [name |-> req[q].name, owner |-> req[q].owner] \in pend[q].users
        BY <3>1 DEF PendOK, Registering, Wrote
      <4> QED BY <4>1, <4>2
    <3>3. Apart(r, q)'
      BY <2>1, <2>3, <2>5, <2>6, <2>10, <3>1, <3>2 DEF Apart, Writes, Moves, Same
    <3>4. Apart(q, r)'
      BY <2>1, <2>3, <2>5, <2>6, <2>10, <3>1, <3>2 DEF Apart, Writes, Moves, Same
    <3> QED BY <3>3, <3>4
  <2>11. Apart(r, r)'
    BY <2>3, <2>5, <2>6 DEF Apart, Writes
  <2> QED BY <2>5, <2>7, <2>8, <2>9, <2>10, <2>11, StepOfOne DEF Writes, Moves
<1> QED BY <1>2, <1>3 DEF RegisterStatement

\* create_session_login(): nobody is deleting the owner, and nobody will before the commit.
LEMMA LoginCreateSessionInv == ASSUME Inv, NEW r \in Requests, LoginCreateSession(r) PROVE Inv'
<1>1. req[r].pc = "verified" /\ req[r].op = "login"
  BY DEF LoginCreateSession, At
<1>2. CASE Goto(r, "raised") /\ NoWrite
  BY <1>1, <1>2, RefusedInv
<1> DEFINE se == LoginSession(req[r].token, req[r].owner, req[r].now)
           p == [NoPend EXCEPT !.sessions = {se}]
<1>3. CASE /\ OwnerNotBeingDeleted(r, req[r].owner) /\ req[r].owner \in OwnerIds
           /\ Goto(r, "answered") /\ Write(r, p)
  <2>1. /\ PendOK(r) /\ RequestOK(r) /\ EverywhereOK(r)
        /\ ~ Mints(r) /\ Grants(r) /\ LoggedIn(r) /\ ~ Wrote(r)
    BY <1>1 DEF Inv, Mints, Grants, LoggedIn, Wrote, Minting, Granting
  <2>2. se \in SessionRow /\ se.owner = req[r].owner
    <3>1. req[r].now + LoginTTL \in Nat
      BY <2>1, TimeAssumption DEF RequestOK, Inv, TypeOK
    <3> QED BY <2>1, <3>1 DEF RequestOK, LoginSession, SessionRow
  <2> HIDE DEF se
  <2>3. /\ p \in Pending /\ p.owners = {} /\ p.users = {} /\ p.sessions = {se}
        /\ p.gone = {} /\ p.ended = {}
    BY <2>2 DEF NoPend, Pending
  <2>4. Goto(r, "answered") /\ Write(r, p)
    BY <1>3
  <2> HIDE DEF p
  <2>5. Writes(r, p)
    BY <2>3, <2>4, Writing
  <2>6. ~ Mints(r)' /\ LoggedIn(r)' /\ ~ Sweeping(r)' /\ Grants(r)' /\ ~ Registering(r)'
    BY <1>1, <2>5 DEF Writes, Moves, Same, Grants, LoggedIn, Sweeping, Mints, Registering, Minting,
                      Granting
  <2>7. PendOK(r)'
    BY <1>1, <2>3, <2>5 DEF PendOK, Writes, Moves, Same, Minting, Granting, se
  <2>8. RequestOK(r)'
    BY <1>1, <1>3, <2>1, <2>5, <2>6 DEF RequestOK, Writes, Moves, Same, OwnerIds
  <2>9. EverywhereOK(r)'
    BY <1>1, <2>1, <2>5 DEF EverywhereOK, Writes, Moves, Same, At
  <2>10. ASSUME NEW q \in Requests, q # r PROVE Apart(r, q)' /\ Apart(q, r)'
    <3>1. Apart(r, q) /\ Apart(q, r)
      BY DEF Inv
    <3>2. req[r].owner \notin pend[q].gone
      BY <1>3, <2>10 DEF OwnerNotBeingDeleted, Others
    <3>3. Apart(r, q)'
      BY <2>1, <2>3, <2>5, <2>6, <2>10, <3>1 DEF Apart, Writes, Moves, Same
    <3>4. Apart(q, r)'
      BY <2>1, <2>2, <2>3, <2>5, <2>6, <2>10, <3>1, <3>2 DEF Apart, Writes, Moves, Same
    <3> QED BY <3>3, <3>4
  <2>11. Apart(r, r)'
    <3>1. Apart(r, r)
      BY DEF Inv
    <3> QED BY <2>1, <2>3, <2>5, <2>6, <3>1 DEF Apart, Writes, Moves, Same
  <2> QED BY <2>5, <2>7, <2>8, <2>9, <2>10, <2>11, StepOfOne DEF Writes, Moves
<1> QED BY <1>2, <1>3 DEF LoginCreateSession

\* anonymous_mint(): nobody else knows the owner yet.
LEMMA AnonymousInv == ASSUME Inv, NEW r \in Requests, AnonymousStatement(r) PROVE Inv'
<1> DEFINE ow == AnonymousOwner(req[r].owner, clock)
           se == AnonymousSession(req[r].token, req[r].owner, clock)
           p == [NoPend EXCEPT !.owners = {ow}, !.sessions = {se}]
<1>1. req[r].pc = "sent" /\ req[r].op = "anonymous_login" /\ Goto(r, "answered") /\ Write(r, p)
  BY DEF AnonymousStatement, At
<1>2. /\ PendOK(r) /\ RequestOK(r) /\ EverywhereOK(r)
      /\ Mints(r) /\ Grants(r) /\ ~ LoggedIn(r) /\ ~ Wrote(r)
  BY <1>1 DEF Inv, Mints, Grants, LoggedIn, Wrote, Minting, Granting
<1>3. ow \in OwnerRow /\ se \in SessionRow /\ se.owner = req[r].owner /\ clock \in 0..clock
  <2>1. clock + AnonTTL \in Nat /\ clock \in 0..clock
    BY TimeAssumption DEF Inv, TypeOK
  <2> QED BY <1>2, <2>1 DEF RequestOK, AnonymousOwner, AnonymousSession, OwnerRow, SessionRow
<1> HIDE DEF ow, se
<1>4. /\ p \in Pending /\ p.owners = {ow} /\ p.users = {} /\ p.sessions = {se}
      /\ p.gone = {} /\ p.ended = {}
  BY <1>3 DEF NoPend, Pending
<1> HIDE DEF p
<1>5. Writes(r, p)
  BY <1>1, <1>4, Writing
<1>6. Mints(r)' /\ ~ LoggedIn(r)' /\ ~ Sweeping(r)' /\ Grants(r)' /\ ~ Registering(r)'
  BY <1>1, <1>5 DEF Writes, Moves, Same, Grants, LoggedIn, Sweeping, Mints, Registering, Minting,
                    Granting
<1>7. PendOK(r)'
  BY <1>1, <1>3, <1>4, <1>5 DEF PendOK, Writes, Moves, Same, Minting, Granting, ow, se
<1>8. RequestOK(r)'
  BY <1>1, <1>2, <1>5, <1>6 DEF RequestOK, Writes, Moves, Same, OwnerIds
<1>9. EverywhereOK(r)'
  BY <1>1, <1>2, <1>5 DEF EverywhereOK, Writes, Moves, Same, At
<1>10. ASSUME NEW q \in Requests, q # r PROVE Apart(r, q)' /\ Apart(q, r)'
  <2>1. Apart(r, q) /\ Apart(q, r)
    BY DEF Inv
  <2>2. Apart(r, q)'
    BY <1>2, <1>4, <1>5, <1>6, <1>10, <2>1 DEF Apart, Writes, Moves, Same
  <2>3. Apart(q, r)'
    BY <1>2, <1>3, <1>4, <1>5, <1>6, <1>10, <2>1 DEF Apart, Writes, Moves, Same
  <2> QED BY <2>2, <2>3
<1>11. Apart(r, r)'
  <2>1. Apart(r, r)
    BY DEF Inv
  <2> QED BY <1>2, <1>4, <1>5, <1>6, <2>1 DEF Apart, Writes, Moves, Same
<1> QED BY <1>5, <1>7, <1>8, <1>9, <1>10, <1>11, StepOfOne DEF Writes, Moves

\* logout and logout_everywhere name sessions that are committed, so nobody's new token.
LEMMA EndingInv ==
  ASSUME Inv, NEW r \in Requests, NEW ended,
         req[r].pc \in {"sent", "validated"}, req[r].op \in {"logout", "logout_everywhere"},
         Goto(r, "answered"), Write(r, [NoPend EXCEPT !.ended = ended]),
         \A k \in ended : \E s \in sessions : s.token = k,
         req[r].op = "logout" => \A k \in ended : k = req[r].cookie,
         req[r].op = "logout_everywhere" =>
           \A s \in sessions :
             /\ s.token \in ended => s.owner = req[r].owner
             /\ s.token \in req[r].reach /\ req[r].owner # NULL => s.token \in ended
  PROVE  Inv'
<1> DEFINE p == [NoPend EXCEPT !.ended = ended]
<1>1. EverywhereOK(r) /\ ended \subseteq Tokens \cap issued
  BY DEF Inv, TypeOK, SessionRow, TablesIssued
<1>2. /\ p \in Pending /\ p.owners = {} /\ p.users = {} /\ p.sessions = {}
      /\ p.gone = {} /\ p.ended = ended
  BY <1>1 DEF NoPend, Pending
<1>3. Write(r, p)
  OBVIOUS
<1> HIDE DEF p
<1>4. Writes(r, p)
  BY <1>2, <1>3, Writing
<1>5. ~ Mints(r)' /\ ~ LoggedIn(r)' /\ ~ Sweeping(r)' /\ ~ Grants(r)' /\ ~ Registering(r)'
  BY <1>4 DEF Writes, Moves, Same, Grants, LoggedIn, Sweeping, Mints, Registering, Minting, Granting
<1>6. PendOK(r)'
  BY <1>1, <1>2, <1>4 DEF PendOK, Writes, Moves, Same, Minting, Granting
<1>7. RequestOK(r)'
  BY <1>5 DEF RequestOK
<1>8. EverywhereOK(r)'
  BY <1>1, <1>2, <1>4 DEF EverywhereOK, Writes, Moves, Same, At
<1>9. ASSUME NEW q \in Requests, q # r PROVE Apart(r, q)' /\ Apart(q, r)'
  <2>1. Apart(q, r) /\ RequestOK(q)
    BY DEF Inv
  <2>2. Apart(r, q)'
    BY <1>2, <1>4, <1>5 DEF Apart, Writes
  <2>3. Apart(q, r)'
    BY <1>2, <1>4, <1>5, <1>9, <2>1 DEF Apart, RequestOK, Writes, Moves, Same
  <2> QED BY <2>2, <2>3
<1>10. Apart(r, r)'
  BY <1>5 DEF Apart
<1> QED BY <1>4, <1>6, <1>7, <1>8, <1>9, <1>10, StepOfOne DEF Writes, Moves

LEMMA LogoutInv == ASSUME Inv, NEW r \in Requests, LogoutStatement(r) PROVE Inv'
<1> DEFINE ended == {s.token : s \in {x \in sessions : x.token = req[r].cookie}}
<1>1. /\ req[r].pc = "sent" /\ req[r].op = "logout"
      /\ Goto(r, "answered") /\ Write(r, [NoPend EXCEPT !.ended = ended])
  BY DEF LogoutStatement, At
<1>2. /\ \A k \in ended : \E s \in sessions : s.token = k
      /\ \A k \in ended : k = req[r].cookie
  OBVIOUS
<1> HIDE DEF ended
<1>3. ASSUME req[r].op = "logout_everywhere", NEW s \in sessions
      PROVE  /\ s.token \in ended => s.owner = req[r].owner
             /\ s.token \in req[r].reach /\ req[r].owner # NULL => s.token \in ended
  BY <1>1, <1>3
<1> QED BY <1>1, <1>2, <1>3, EndingInv

\* Every session of the resolved owner is ended, so every one it had at the start is.
LEMMA LogoutEverywhereInv ==
  ASSUME Inv, NEW r \in Requests, LogoutEverywhereStatement(r) PROVE Inv'
<1> DEFINE ended == {s.token : s \in {x \in sessions : x.owner = req[r].owner}}
<1>1. /\ req[r].pc = "validated" /\ req[r].op = "logout_everywhere"
      /\ Goto(r, "answered") /\ Write(r, [NoPend EXCEPT !.ended = ended])
  BY DEF LogoutEverywhereStatement, At
<1>2. EverywhereOK(r) /\ \A s, y \in sessions : s.token = y.token => s = y
  BY DEF Inv, S!IInv, S!KeysUnique
<1>3. \A k \in ended : \E s \in sessions : s.token = k
  OBVIOUS
<1>4. ASSUME NEW s \in sessions
      PROVE  /\ s.token \in ended => s.owner = req[r].owner
             /\ s.token \in req[r].reach /\ req[r].owner # NULL => s.token \in ended
  BY <1>1, <1>2 DEF EverywhereOK, At
<1> HIDE DEF ended
<1> QED BY <1>1, <1>3, <1>4, EndingInv

\* delete_account(): no open session insertion refers to the owner.
LEMMA DeleteAccountInv == ASSUME Inv, NEW r \in Requests, DeleteAccountStatement(r) PROVE Inv'
<1>1. req[r].pc = "validated" /\ req[r].op = "delete_account"
  BY DEF DeleteAccountStatement, At
<1>2. CASE Goto(r, "raised") /\ NoWrite
  BY <1>1, <1>2, RefusedInv
<1> DEFINE gone == {req[r].owner} \cap OwnerIds
           p == [NoPend EXCEPT !.gone = gone]
<1>3. CASE OwnersFree(r, {req[r].owner}) /\ Goto(r, "answered") /\ Write(r, p)
  <2>1. gone \subseteq Owners \cap issued /\ gone \subseteq {req[r].owner} /\ gone \subseteq OwnerIds
    BY DEF Inv, TypeOK, OwnerRow, TablesIssued, OwnerIds
  <2> HIDE DEF gone
  <2>2. /\ p \in Pending /\ p.owners = {} /\ p.users = {} /\ p.sessions = {}
        /\ p.gone = gone /\ p.ended = {}
    BY <2>1 DEF NoPend, Pending
  <2>3. Write(r, p) /\ Goto(r, "answered")
    BY <1>3
  <2> HIDE DEF p
  <2>4. Writes(r, p)
    BY <2>2, <2>3, Writing
  <2>5. ~ Mints(r)' /\ ~ LoggedIn(r)' /\ ~ Sweeping(r)' /\ ~ Grants(r)' /\ ~ Registering(r)'
    BY <1>1, <2>4
       DEF Writes, Moves, Same, Grants, LoggedIn, Sweeping, Mints, Registering, Minting, Granting
  <2>6. PendOK(r)'
    BY <1>1, <2>1, <2>2, <2>4 DEF PendOK, Writes, Moves, Same, Minting, Granting
  <2>7. RequestOK(r)'
    BY <2>5 DEF RequestOK
  <2>8. EverywhereOK(r)'
    <3>1. EverywhereOK(r)
      BY DEF Inv
    <3> QED BY <1>1, <2>4, <3>1 DEF EverywhereOK, Writes, Moves, Same, At
  <2>9. ASSUME NEW q \in Requests, q # r PROVE Apart(r, q)' /\ Apart(q, r)'
    <3>1. Apart(q, r) /\ RequestOK(q)
      BY DEF Inv
    <3>2. \A s \in pend[q].sessions : s.owner \notin gone
      BY <1>3, <2>1, <2>9 DEF OwnersFree, Others
    <3>3. Apart(r, q)'
      BY <2>2, <2>4, <2>5, <2>9, <3>2 DEF Apart, Writes
    <3>4. Apart(q, r)'
      BY <2>1, <2>2, <2>4, <2>5, <2>9, <3>1 DEF Apart, RequestOK, Writes, Moves, Same
    <3> QED BY <3>3, <3>4
  <2>10. Apart(r, r)'
    BY <2>5 DEF Apart
  <2> QED BY <2>4, <2>6, <2>7, <2>8, <2>9, <2>10, StepOfOne DEF Writes, Moves
<1> QED BY <1>2, <1>3 DEF DeleteAccountStatement

\* sweep_owners(): the owners it deletes have expired, and stay so.
LEMMA SweepOwnersInv == ASSUME Inv, NEW r \in Requests, SweepOwners(r) PROVE Inv'
<1> DEFINE dead == {x.id : x \in {y \in owners : OwnerExpired(y, clock)}}
           p == [NoPend EXCEPT !.gone = dead]
<1>1. /\ req[r].pc = "sent" /\ req[r].op = "cleanup" /\ OwnersFree(r, dead) /\ Write(r, p)
      /\ req' = [req EXCEPT ![r].pc = "swept", ![r].now = clock]
  BY DEF SweepOwners, DeadOwners, At
<1>2. /\ dead \subseteq Owners \cap issued /\ dead \subseteq OwnerIds
      /\ \A x \in owners : x.id \in dead => OwnerExpired(x, clock)
  <2>1. \A x, y \in owners : x.id = y.id => x = y
    BY DEF Inv, S!IInv, S!KeysUnique
  <2> QED BY <2>1 DEF Inv, TypeOK, OwnerRow, TablesIssued, OwnerIds
<1> HIDE DEF dead
<1>3. /\ p \in Pending /\ p.owners = {} /\ p.users = {} /\ p.sessions = {}
      /\ p.gone = dead /\ p.ended = {}
  BY <1>2 DEF NoPend, Pending
<1> HIDE DEF p
<1>4. PICK q \in Request : q = req[r]
  BY DEF Inv, TypeOK
<1> DEFINE next == [q EXCEPT !.pc = "swept", !.now = clock]
<1>5. clock \in Nat /\ clock \in 0..clock
  BY TimeAssumption DEF Inv, TypeOK
<1>6. /\ next \in Request
      /\ next.pc = "swept" /\ next.op = q.op /\ next.cookie = q.cookie /\ next.now = clock
      /\ next.reach = q.reach /\ next.owner = q.owner /\ next.token = q.token
  BY <1>5 DEF Request, Pcs
<1>7. req' = [req EXCEPT ![r] = next]
  BY <1>1, <1>4
<1> HIDE DEF next
<1>8. /\ req' \in [Requests -> Request] /\ req'[r] = next
      /\ pend' \in [Requests -> Pending] /\ pend'[r] = p
      /\ \A s \in Requests : s # r => req'[s] = req[s] /\ pend'[s] = pend[s]
      /\ UNCHANGED <<owners, users, sessions, clock, jar, issued, crashes>>
      /\ jar' \in [Browsers -> Tokens \cup {NULL}] /\ issued \subseteq Owners \cup Tokens
  BY <1>1, <1>3, <1>6, <1>7 DEF Inv, TypeOK, Write
<1>9. /\ ~ Mints(r)' /\ ~ LoggedIn(r)' /\ Sweeping(r)' /\ ~ Grants(r)' /\ ~ Registering(r)'
      /\ ~ Wrote(r)'
  BY <1>1, <1>4, <1>6, <1>8
     DEF Grants, LoggedIn, Sweeping, Mints, Registering, Minting, Granting, Wrote
<1>10. PendOK(r)'
  BY <1>1, <1>2, <1>3, <1>4, <1>6, <1>8, <1>9 DEF PendOK
<1>11. RequestOK(r)'
  BY <1>2, <1>3, <1>5, <1>6, <1>8, <1>9 DEF RequestOK
<1>12. EverywhereOK(r)'
  <2>1. EverywhereOK(r)
    BY DEF Inv
  <2> QED BY <1>1, <1>4, <1>6, <1>8, <1>9, <2>1 DEF EverywhereOK, At
<1>13. ASSUME NEW s \in Requests, s # r PROVE Apart(r, s)' /\ Apart(s, r)'
  <2>1. Apart(s, r) /\ RequestOK(s)
    BY DEF Inv
  <2>2. \A x \in pend[s].sessions : x.owner \notin dead
    BY <1>1, <1>13 DEF OwnersFree, Others
  <2>3. Apart(r, s)'
    BY <1>3, <1>8, <1>9, <1>13, <2>2 DEF Apart
  <2>4. Apart(s, r)'
    <3>1. /\ (Mints(s)' <=> Mints(s)) /\ (Grants(s)' <=> Grants(s))
      BY <1>8, <1>13 DEF Mints, Grants, Wrote
    <3> QED BY <1>2, <1>3, <1>4, <1>6, <1>8, <1>9, <1>13, <2>1, <3>1 DEF Apart, RequestOK
  <2> QED BY <2>3, <2>4
<1>14. Apart(r, r)'
  BY <1>9 DEF Apart
<1> QED BY <1>8, <1>10, <1>11, <1>12, <1>13, <1>14, StepOfOne

\* sweep_sessions(): the sessions it deletes have expired, and are committed ones.
LEMMA SweepSessionsInv == ASSUME Inv, NEW r \in Requests, SweepSessions(r) PROVE Inv'
<1> DEFINE dead == {s \in sessions \ DeletedSessions(r) : SessionExpired(s, req[r].now)}
           ended == {s.token : s \in dead}
           p == [pend[r] EXCEPT !.ended = ended]
<1>1. /\ req[r].pc = "swept" /\ req[r].op = "cleanup" /\ Goto(r, "answered") /\ Write(r, p)
  BY DEF SweepSessions, DeadSessions, At
<1>2. /\ PendOK(r) /\ RequestOK(r) /\ EverywhereOK(r) /\ Sweeping(r) /\ ~ Wrote(r)
      /\ pend[r] \in Pending
  BY <1>1 DEF Inv, Sweeping, Wrote, TypeOK
<1>3. /\ ended \subseteq Tokens \cap issued /\ \A k \in ended : \E s \in sessions : s.token = k
      /\ \A s \in sessions : s.token \in ended => SessionExpired(s, req[r].now)
  <2>1. \A x, y \in sessions : x.token = y.token => x = y
    BY DEF Inv, S!IInv, S!KeysUnique
  <2> QED BY <2>1 DEF Inv, TypeOK, SessionRow, TablesIssued
<1> HIDE DEF dead, ended
<1>4. /\ p \in Pending /\ p.owners = pend[r].owners /\ p.users = pend[r].users
      /\ p.sessions = pend[r].sessions /\ p.gone = pend[r].gone /\ p.ended = ended
  BY <1>2, <1>3 DEF Pending
<1> HIDE DEF p
<1>5. Writes(r, p)
  BY <1>1, <1>4, Writing
<1>6. /\ ~ Mints(r)' /\ ~ LoggedIn(r)' /\ Sweeping(r)' /\ ~ Grants(r)' /\ ~ Registering(r)'
  BY <1>1, <1>5
     DEF Writes, Moves, Same, Grants, LoggedIn, Sweeping, Mints, Registering, Minting, Granting
<1>7. PendOK(r)'
  BY <1>1, <1>2, <1>3, <1>4, <1>5, <1>6 DEF PendOK, Writes, Moves, Same, Minting, Granting
<1>8. RequestOK(r)'
  BY <1>2, <1>3, <1>4, <1>5, <1>6 DEF RequestOK, Writes, Moves, Same
<1>9. EverywhereOK(r)'
  BY <1>1, <1>2, <1>5 DEF EverywhereOK, Writes, Moves, Same, At
<1>10. ASSUME NEW q \in Requests, q # r PROVE Apart(r, q)' /\ Apart(q, r)'
  <2>1. Apart(r, q) /\ Apart(q, r) /\ RequestOK(q)
    BY DEF Inv
  <2>2. Apart(r, q)'
    BY <1>4, <1>5, <1>6, <1>10, <2>1 DEF Apart, Writes
  <2>3. Apart(q, r)'
    BY <1>3, <1>4, <1>5, <1>6, <1>10, <2>1 DEF Apart, RequestOK, Writes, Moves, Same
  <2> QED BY <2>2, <2>3
<1>11. Apart(r, r)'
  BY <1>6 DEF Apart
<1> QED BY <1>5, <1>7, <1>8, <1>9, <1>10, <1>11, StepOfOne DEF Writes, Moves
-----------------------------------------------------------------------------
(* The end of a transaction. *)

\* The slot of r is free again: nobody has anything to respect in it.
LEMMA SlotFreed ==
  ASSUME Inv, NEW r \in Requests,
         req' = [req EXCEPT ![r] = NoReq], pend' = [pend EXCEPT ![r] = NoPend]
  PROVE  /\ req' \in [Requests -> Request] /\ pend' \in [Requests -> Pending]
         /\ \A q \in Requests : q # r => req'[q] = req[q] /\ pend'[q] = pend[q]
         /\ PendOK(r)' /\ RequestOK(r)' /\ EverywhereOK(r)'
         /\ \A q \in Requests : Apart(r, q)' /\ Apart(q, r)'
<1>1. NoReq \in Request /\ NoPend \in Pending
  BY DEF NoReq, NoPend, Request, Pending, Pcs
<1>2. /\ req' \in [Requests -> Request] /\ pend' \in [Requests -> Pending]
      /\ \A q \in Requests : q # r => req'[q] = req[q] /\ pend'[q] = pend[q]
      /\ req'[r] = NoReq /\ pend'[r] = NoPend
  BY <1>1 DEF Inv, TypeOK
<1>3. /\ req'[r].pc = "idle" /\ req'[r].op = NULL /\ req'[r].reach = {}
      /\ pend'[r].owners = {} /\ pend'[r].users = {} /\ pend'[r].sessions = {}
      /\ pend'[r].gone = {} /\ pend'[r].ended = {}
  BY <1>2 DEF NoReq, NoPend
<1>4. /\ ~ Wrote(r)' /\ ~ Mints(r)' /\ ~ Grants(r)' /\ ~ LoggedIn(r)' /\ ~ Sweeping(r)'
      /\ ~ Registering(r)'
  BY <1>3 DEF Wrote, Mints, Grants, LoggedIn, Sweeping, Registering
<1>5. PendOK(r)' /\ RequestOK(r)' /\ EverywhereOK(r)'
  BY <1>3, <1>4 DEF PendOK, RequestOK, EverywhereOK, At
<1>6. \A q \in Requests : Apart(r, q)' /\ Apart(q, r)'
  BY <1>3, <1>4 DEF Apart
<1> QED BY <1>2, <1>5, <1>6

LEMMA RollbackInv == ASSUME Inv, NEW r \in Requests, Rollback(r) PROVE Inv'
<1>1. jar' \in [Browsers -> Tokens \cup {NULL}] /\ issued \subseteq Owners \cup Tokens
  BY DEF Rollback, Inv, TypeOK
<1> QED BY <1>1, SlotFreed, StepOfOne DEF Rollback

\* The rows a transaction is about to commit are the ones its request drew.
LEMMA NewRows ==
  ASSUME Inv, NEW r \in Requests, Wrote(r)
  PROVE  /\ \A x \in pend[r].owners : Mints(r) /\ x.id = req[r].owner
         /\ \A u \in pend[r].users :
              Mints(r) /\ Registering(r) /\ u.name = req[r].name /\ u.owner = req[r].owner
         /\ \A s \in pend[r].sessions : Grants(r) /\ s.token = req[r].token
<1>1. PendOK(r)
  BY DEF Inv
<1>2. CASE req[r].op = "register"
  <2>1. /\ pend[r].owners = {PermanentOwner(req[r].owner)} /\ pend[r].sessions = {}
        /\ pend[r].users = {[name |-> req[r].name, owner |-> req[r].owner]}
    BY <1>1, <1>2 DEF PendOK, Granting
  <2> QED BY <1>2, <2>1 DEF PermanentOwner, Mints, Minting, Registering, Wrote
<1>3. CASE req[r].op = "anonymous_login"
  <2>1. PICK t \in 0..clock :
          /\ pend[r].owners = {AnonymousOwner(req[r].owner, t)}
          /\ pend[r].sessions = {AnonymousSession(req[r].token, req[r].owner, t)}
    BY <1>1, <1>3 DEF PendOK
  <2>2. pend[r].users = {}
    BY <1>1, <1>3 DEF PendOK
  <2> QED BY <1>3, <2>1, <2>2 DEF AnonymousOwner, AnonymousSession, Mints, Minting, Grants, Granting
<1>4. CASE req[r].op = "login"
  <2>1. /\ pend[r].owners = {} /\ pend[r].users = {}
        /\ pend[r].sessions = {LoginSession(req[r].token, req[r].owner, req[r].now)}
    BY <1>1, <1>4 DEF PendOK, Minting
  <2> QED BY <1>4, <2>1 DEF LoginSession, Grants, Granting
<1>5. CASE req[r].op \notin {"register", "anonymous_login", "login"}
  <2>1. pend[r].owners = {} /\ pend[r].users = {} /\ pend[r].sessions = {}
    BY <1>1, <1>5 DEF PendOK, Minting, Granting
  <2> QED BY <2>1
<1> QED BY <1>2, <1>3, <1>4, <1>5

\* Every commit is one of the atomic SQL functions, or changes no row.
LEMMA CommitRefines ==
  ASSUME Inv, NEW r \in Requests, Commit(r)
  PROVE  [S!Next]_(S!vars)
<1> DEFINE p == pend[r]
<1>1. /\ owners' = {x \in owners : x.id \notin p.gone} \cup p.owners
      /\ users' = {u \in users : u.owner \notin p.gone} \cup p.users
      /\ sessions' = {s \in sessions : s.owner \notin p.gone /\ s.token \notin p.ended}
                       \cup p.sessions
      /\ clock' = clock /\ Wrote(r)
  BY DEF Commit, Wrote
<1>2. PendOK(r) /\ RequestOK(r) /\ EverywhereOK(r) /\ TypeOK /\ S!NoOrphans /\ S!KeysUnique
  BY DEF Inv, S!IInv
<1>3. CASE req[r].op = "register"
  <2>1. /\ p.owners = {PermanentOwner(req[r].owner)}
        /\ p.users = {[name |-> req[r].name, owner |-> req[r].owner]}
        /\ p.sessions = {} /\ p.gone = {} /\ p.ended = {}
    BY <1>1, <1>2, <1>3 DEF PendOK, Granting, Sweeping
  <2>2. /\ req[r].name \in Names /\ req[r].owner \in Owners /\ req[r].owner \notin OwnerIds
        /\ \A u \in users : u.name # req[r].name
    BY <1>1, <1>2, <1>3 DEF RequestOK, Mints, Minting, Registering, Wrote
  <2> HIDE DEF p
  <2>3. S!Registration(req[r].name, req[r].owner)
    BY <1>1, <2>1, <2>2 DEF S!Registration, S!OwnerIds, OwnerIds, S!PermanentOwner, PermanentOwner
  <2> QED BY <2>2, <2>3 DEF S!Next
<1>4. CASE req[r].op = "anonymous_login"
  <2>1. PICK t \in 0..clock :
          /\ p.owners = {AnonymousOwner(req[r].owner, t)}
          /\ p.sessions = {AnonymousSession(req[r].token, req[r].owner, t)}
    BY <1>1, <1>2, <1>4 DEF PendOK
  <2>2. p.users = {} /\ p.gone = {} /\ p.ended = {}
    BY <1>1, <1>2, <1>4 DEF PendOK, Sweeping
  <2>3. /\ req[r].token \in Tokens /\ req[r].owner \in Owners /\ req[r].owner \notin OwnerIds
        /\ \A s \in sessions : s.token # req[r].token
    BY <1>1, <1>2, <1>4 DEF RequestOK, Mints, Minting, Grants, Granting
  <2> HIDE DEF p
  <2>4. S!AnonymousMint(req[r].token, req[r].owner, t)
    BY <1>1, <2>1, <2>2, <2>3
       DEF S!AnonymousMint, S!OwnerIds, OwnerIds, S!AnonymousOwner, AnonymousOwner,
           S!AnonymousSession, AnonymousSession
  <2> QED BY <2>3, <2>4 DEF S!Next
<1>5. CASE req[r].op = "login"
  <2>1. /\ p.sessions = {LoginSession(req[r].token, req[r].owner, req[r].now)}
        /\ p.users = {} /\ p.owners = {} /\ p.gone = {} /\ p.ended = {}
    BY <1>1, <1>2, <1>5 DEF PendOK, Sweeping, Minting
  <2>2. /\ req[r].token \in Tokens /\ req[r].owner \in Owners /\ req[r].now \in 0..clock
        /\ \A s \in sessions : s.token # req[r].token
        /\ \E u \in users : u.owner = req[r].owner
    BY <1>1, <1>2, <1>5 DEF RequestOK, LoggedIn, Grants, Granting
  <2> HIDE DEF p
  <2>3. S!CreateSessionLogin(req[r].token, req[r].owner, req[r].now)
    BY <1>1, <2>1, <2>2 DEF S!CreateSessionLogin, S!LoginSession, LoginSession
  <2> QED BY <2>2, <2>3 DEF S!Next
<1>6. CASE req[r].op \notin {"register", "anonymous_login", "login"}
  <2>1. p.owners = {} /\ p.users = {} /\ p.sessions = {}
    BY <1>2, <1>6 DEF PendOK, Minting, Granting
  <2> DEFINE ended == {s \in sessions : s.token \in p.ended}
  <2>2. CASE req[r].op \in {"logout", "logout_everywhere"} /\ ended # {}
    <3>1. p.gone = {}
      BY <1>2, <2>2 DEF PendOK, Sweeping
    <3>2. PICK s \in ended : TRUE
      BY <2>2
    <3>3. s.owner \in Owners /\ \A x \in ended : x.owner = s.owner
      <4>1. s.owner \in Owners /\ s \in sessions
        BY <1>2, <3>2 DEF TypeOK, SessionRow
      <4>2. CASE req[r].op = "logout"
        <5>1. p.ended \subseteq {req[r].cookie}
          BY <1>2, <4>2 DEF PendOK
        <5>2. \A x \in ended : x \in sessions /\ x.token = s.token
          BY <5>1, <3>2
        <5> QED BY <1>2, <4>1, <5>2 DEF S!KeysUnique
      <4>3. CASE req[r].op = "logout_everywhere"
        BY <1>1, <1>2, <3>2, <4>1, <4>3 DEF EverywhereOK
      <4> QED BY <2>2, <4>2, <4>3
    <3>4. UNCHANGED <<owners, users, clock>> /\ sessions' = sessions \ ended
      BY <1>1, <2>1, <3>1
    <3>5. S!EndSessions(s.owner, ended)
      BY <2>2, <3>3, <3>4 DEF S!EndSessions
    <3>6. ended \in SUBSET sessions
      OBVIOUS
    <3> HIDE DEF ended
    <3> QED BY <3>3, <3>5, <3>6 DEF S!Next
  <2>3. CASE /\ req[r].op = "delete_account" /\ req[r].owner \in p.gone
             /\ req[r].owner \in OwnerIds
    <3>1. p.gone = {req[r].owner} /\ p.ended = {}
      BY <1>2, <2>3 DEF PendOK
    <3>2. req[r].owner \in Owners
      BY <1>2, <2>3 DEF OwnerIds, TypeOK, OwnerRow
    <3> HIDE DEF p
    <3>3. S!DeleteAccount(req[r].owner)
      BY <1>1, <2>1, <2>3, <3>1 DEF S!DeleteAccount, S!RemoveOwners, S!OwnerIds, OwnerIds
    <3> QED BY <3>2, <3>3 DEF S!Next
  <2>4. CASE req[r].op = "cleanup"
    <3> DEFINE dead == {x \in owners : x.id \in p.gone}
    <3>1. Sweeping(r) /\ req[r].now \in 0..clock
      BY <1>1, <1>2, <2>4 DEF Sweeping, RequestOK
    <3>2. \A x \in dead : S!OwnerExpired(x, req[r].now)
      BY <1>2, <3>1 DEF RequestOK, OwnerExpired, S!OwnerExpired
    <3>3. \A s \in ended : S!SessionExpired(s, req[r].now)
      BY <1>2, <3>1 DEF RequestOK, SessionExpired, S!SessionExpired
    <3>4. \A i : i \in {x.id : x \in dead} <=> i \in OwnerIds /\ i \in p.gone
      BY DEF OwnerIds
    <3>5. \A s \in sessions : s.owner \in OwnerIds
      BY <1>2 DEF S!NoOrphans, S!OwnerIds, OwnerIds
    <3>6. \A u \in users : u.owner \in OwnerIds
      BY <1>2 DEF S!NoOrphans, S!OwnerIds, OwnerIds
    <3>7. \A x \in owners : x.id \in OwnerIds
      BY DEF OwnerIds
    <3> DEFINE ids == {x.id : x \in dead}
    <3>8. \A i : i \in ids <=> i \in OwnerIds /\ i \in p.gone
      BY <3>4
    <3>9. dead \in SUBSET owners /\ ended \in SUBSET sessions
      OBVIOUS
    <3>10. /\ owners' = {x \in owners : x.id \notin ids}
           /\ users' = {u \in users : u.owner \notin ids}
           /\ sessions' = {s \in sessions : s.owner \notin ids} \ ended
      <4> HIDE DEF ids, dead
      <4> QED BY <1>1, <2>1, <3>5, <3>6, <3>7, <3>8
    <3>11. S!Sweep(dead, ended, req[r].now)
      BY <1>1, <3>2, <3>3, <3>10 DEF S!Sweep, S!RemoveOwners
    <3> HIDE DEF dead, ended
    <3> QED BY <3>1, <3>9, <3>11 DEF S!Next
  <2>5. CASE /\ ~ (req[r].op \in {"logout", "logout_everywhere"} /\ ended # {})
             /\ ~ (/\ req[r].op = "delete_account" /\ req[r].owner \in p.gone
                   /\ req[r].owner \in OwnerIds)
             /\ req[r].op # "cleanup"
    <3>1. \A s \in sessions : s.token \notin p.ended
      BY <1>2, <2>5 DEF PendOK
    <3>2. \A x \in owners : x.id \notin p.gone
      BY <1>2, <2>5 DEF PendOK, Sweeping, OwnerIds
    <3>3. (\A u \in users : u.owner \notin p.gone) /\ \A s \in sessions : s.owner \notin p.gone
      BY <1>2, <3>2 DEF S!NoOrphans, S!OwnerIds
    <3> HIDE DEF p
    <3>4. UNCHANGED <<owners, users, sessions, clock>>
      BY <1>1, <2>1, <3>1, <3>2, <3>3
    <3> QED BY <3>4 DEF S!vars
  <2> QED BY <2>2, <2>3, <2>4, <2>5
<1> QED BY <1>3, <1>4, <1>5, <1>6

\* What the others rely on survives a commit: the committed rows carry ids nobody else
\* holds, and the deleted ones take their credentials with them.
LEMMA CommitOthers ==
  ASSUME Inv, NEW r \in Requests, Commit(r), NEW q \in Requests, q # r
  PROVE  PendOK(q)' /\ RequestOK(q)' /\ EverywhereOK(q)'
<1>1. /\ owners' = {x \in owners : x.id \notin pend[r].gone} \cup pend[r].owners
      /\ users' = {u \in users : u.owner \notin pend[r].gone} \cup pend[r].users
      /\ sessions' = {s \in sessions : s.owner \notin pend[r].gone
                                         /\ s.token \notin pend[r].ended}
                       \cup pend[r].sessions
      /\ UNCHANGED <<clock, issued>> /\ Wrote(r)
      /\ req' = [req EXCEPT ![r] = NoReq] /\ pend' = [pend EXCEPT ![r] = NoPend]
  BY DEF Commit, Wrote
<1>2. req'[q] = req[q] /\ pend'[q] = pend[q]
  BY <1>1, SlotFreed
<1>3. /\ PendOK(q) /\ RequestOK(q) /\ EverywhereOK(q) /\ Apart(r, q) /\ Apart(q, r)
      /\ RequestOK(r)
  BY DEF Inv
<1>4. /\ Mints(q)' <=> Mints(q)
      /\ Grants(q)' <=> Grants(q)
      /\ LoggedIn(q)' <=> LoggedIn(q)
      /\ Sweeping(q)' <=> Sweeping(q)
      /\ Registering(q)' <=> Registering(q)
      /\ Wrote(q)' <=> Wrote(q)
  BY <1>2 DEF Mints, Grants, LoggedIn, Sweeping, Registering, Wrote
<1>5. /\ \A x \in owners' : x \notin owners => Mints(r) /\ x.id = req[r].owner
      /\ \A u \in users' : u \notin users => Registering(r) /\ u.name = req[r].name
      /\ \A s \in sessions' : s \notin sessions => Grants(r) /\ s.token = req[r].token
  <2>1. /\ \A x \in pend[r].owners : Mints(r) /\ x.id = req[r].owner
        /\ \A u \in pend[r].users : Registering(r) /\ u.name = req[r].name
        /\ \A s \in pend[r].sessions : Grants(r) /\ s.token = req[r].token
    BY <1>1, NewRows
  <2>2. /\ owners' \subseteq owners \cup pend[r].owners
        /\ users' \subseteq users \cup pend[r].users
        /\ sessions' \subseteq sessions \cup pend[r].sessions
    BY <1>1
  <2> QED BY <2>1, <2>2
<1>6. PendOK(q)'
  BY <1>1, <1>2, <1>3, <1>4 DEF PendOK
<1>7. OwnerIds' \subseteq OwnerIds \cup {o \in {req[r].owner} : Mints(r)}
  BY <1>5 DEF OwnerIds
<1>8. /\ Mints(q) => req[q].owner \notin OwnerIds'
      /\ Grants(q) => \A s \in sessions' : s.token # req[q].token
      /\ Registering(q) => \A u \in users' : u.name # req[q].name
  BY <1>3, <1>5, <1>7, q # r DEF RequestOK, Apart
<1>9. ASSUME LoggedIn(q)
      PROVE  /\ req[q].owner \in OwnerIds' => \E u \in users' : u.owner = req[q].owner
             /\ Wrote(q) => req[q].owner \in OwnerIds'
  <2>1. Mints(r) => req[r].owner # req[q].owner
    BY <1>3, <1>9 DEF Apart
  <2>2. ASSUME req[q].owner \in OwnerIds' PROVE \E u \in users' : u.owner = req[q].owner
    <3>1. PICK x \in owners' : x.id = req[q].owner
      BY <2>2 DEF OwnerIds
    <3>2. x \in owners /\ x \notin pend[r].owners
      BY <1>1, <2>1, <3>1, NewRows
    <3>3. req[q].owner \notin pend[r].gone /\ req[q].owner \in OwnerIds
      BY <1>1, <3>1, <3>2 DEF OwnerIds
    <3>4. PICK u \in users : u.owner = req[q].owner
      BY <1>3, <1>9, <3>3 DEF RequestOK
    <3> QED BY <1>1, <3>3, <3>4
  <2>3. ASSUME Wrote(q) PROVE req[q].owner \in OwnerIds'
    <3>1. LoginSession(req[q].token, req[q].owner, req[q].now) \in pend[q].sessions
      BY <1>3, <1>9, <2>3 DEF PendOK, LoggedIn
    <3>2. req[q].owner \notin pend[r].gone
      BY <1>3, <3>1, q # r DEF Apart, LoginSession
    <3>3. PICK x \in owners : x.id = req[q].owner
      BY <1>3, <1>9, <2>3 DEF RequestOK, OwnerIds
    <3>4. x \in owners'
      BY <1>1, <3>2, <3>3
    <3> QED BY <3>3, <3>4 DEF OwnerIds
  <2> QED BY <2>2, <2>3
<1>10. /\ \A x \in owners' : x.id \in pend[q].gone => x \in owners
       /\ \A s \in sessions' : s.token \in pend[q].ended \cup req[q].reach => s \in sessions
  BY <1>3, <1>5 DEF Apart
<1>11. RequestOK(q)'
  BY <1>1, <1>2, <1>3, <1>4, <1>8, <1>9, <1>10 DEF RequestOK
<1>12. EverywhereOK(q)'
  BY <1>1, <1>2, <1>3, <1>4, <1>10 DEF EverywhereOK, At
<1> QED BY <1>6, <1>11, <1>12

LEMMA CommitInv == ASSUME Inv, NEW r \in Requests, Commit(r) PROVE Inv'
<1>1. /\ req' = [req EXCEPT ![r] = NoReq] /\ pend' = [pend EXCEPT ![r] = NoPend]
      /\ UNCHANGED <<clock, jar, issued, crashes>> /\ Wrote(r)
      /\ owners' \subseteq owners \cup pend[r].owners
      /\ users' \subseteq users \cup pend[r].users
      /\ sessions' \subseteq sessions \cup pend[r].sessions
  BY DEF Commit, Wrote
<1>2. /\ req' \in [Requests -> Request] /\ pend' \in [Requests -> Pending]
      /\ \A q \in Requests : q # r => req'[q] = req[q] /\ pend'[q] = pend[q]
  BY <1>1, SlotFreed
<1>3. TypeOK'
  <2>1. /\ pend[r].owners \subseteq OwnerRow /\ pend[r].users \subseteq UserRow
        /\ pend[r].sessions \subseteq SessionRow
    BY DEF Inv, TypeOK, Pending
  <2> QED BY <1>1, <1>2, <2>1 DEF Inv, TypeOK
<1>4. S!IInv'
  BY CommitRefines, S!NextIInv, TableAssumptions DEF Inv
<1>5. TablesIssued'
  <2>1. RequestOK(r) /\ TablesIssued
    BY DEF Inv
  <2> QED BY <1>1, <2>1, NewRows DEF TablesIssued, RequestOK
<1>6. \A q \in Requests : PendOK(q)' /\ RequestOK(q)' /\ EverywhereOK(q)'
  BY <1>1, SlotFreed, CommitOthers
<1>7. ASSUME NEW q \in Requests, NEW p \in Requests, q # r, p # r PROVE Apart(q, p)'
  <2>1. Apart(q, p)
    BY DEF Inv
  <2>2. req'[q] = req[q] /\ pend'[q] = pend[q] /\ req'[p] = req[p] /\ pend'[p] = pend[p]
    BY <1>2, <1>7
  <2> QED BY <2>1, <2>2 DEF Apart, Wrote, Mints, Grants, LoggedIn, Registering
<1>8. \A q, p \in Requests : Apart(q, p)'
  BY <1>1, <1>7, SlotFreed
<1> QED BY <1>3, <1>4, <1>5, <1>6, <1>8 DEF Inv

\* A restart forgets every open request; what was committed stays.
LEMMA CrashInv == ASSUME Inv, Crash PROVE Inv'
<1>1. /\ req' = [r \in Requests |-> NoReq] /\ pend' = [r \in Requests |-> NoPend]
      /\ crashes' = crashes + 1 /\ crashes < MaxCrashes
      /\ UNCHANGED <<owners, users, sessions, clock, jar, issued>>
  BY DEF Crash
<1>2. NoReq \in Request /\ NoPend \in Pending
  BY DEF NoReq, NoPend, Request, Pending, Pcs
<1>3. TypeOK'
  BY <1>1, <1>2, CrashBoundAssumption DEF Inv, TypeOK
<1>4. S!IInv' /\ TablesIssued'
  BY <1>1, TablesStay DEF Inv, TablesIssued
<1>5. ASSUME NEW r \in Requests
      PROVE  /\ req'[r].pc = "idle" /\ req'[r].op = NULL /\ req'[r].reach = {}
             /\ pend'[r].owners = {} /\ pend'[r].users = {} /\ pend'[r].sessions = {}
             /\ pend'[r].gone = {} /\ pend'[r].ended = {}
             /\ ~ Wrote(r)' /\ ~ Mints(r)' /\ ~ Grants(r)' /\ ~ LoggedIn(r)' /\ ~ Sweeping(r)'
             /\ ~ Registering(r)'
  BY <1>1 DEF NoReq, NoPend, Wrote, Mints, Grants, LoggedIn, Sweeping, Registering
<1>6. \A r \in Requests : PendOK(r)' /\ RequestOK(r)' /\ EverywhereOK(r)'
  BY <1>5 DEF PendOK, RequestOK, EverywhereOK, At
<1>7. \A r, q \in Requests : Apart(r, q)'
  BY <1>5 DEF Apart
<1> QED BY <1>3, <1>4, <1>6, <1>7 DEF Inv

\* Time passing expires rows; what had expired stays so.
LEMMA TickInv == ASSUME Inv, Tick PROVE Inv'
<1>1. /\ clock < MaxClock /\ clock' = clock + 1
      /\ UNCHANGED <<owners, users, sessions, jar, req, pend, issued, crashes>>
  BY DEF Tick
<1>2. TypeOK' /\ 0..clock \subseteq 0..clock'
  BY <1>1, TimeAssumption DEF Inv, TypeOK
<1>3. S!IInv'
  <2>1. S!Next
    BY <1>1 DEF S!Next, S!Tick, S!tables
  <2> QED BY <2>1, S!NextIInv, TableAssumptions DEF Inv
<1>4. TablesIssued'
  BY <1>1 DEF Inv, TablesIssued
<1>5. ASSUME NEW r \in Requests PROVE PendOK(r)' /\ RequestOK(r)' /\ EverywhereOK(r)'
  <2>1. PendOK(r) /\ RequestOK(r) /\ EverywhereOK(r)
    BY DEF Inv
  <2>2. PendOK(r)'
    BY <1>1, <1>2, <2>1 DEF PendOK, Wrote, Sweeping
  <2>3. RequestOK(r)'
    BY <1>1, <1>2, <2>1
       DEF RequestOK, Wrote, Mints, Grants, LoggedIn, Sweeping, Registering, OwnerIds
  <2>4. EverywhereOK(r)'
    BY <1>1, <2>1 DEF EverywhereOK, At, Wrote
  <2> QED BY <2>2, <2>3, <2>4
<1>6. ASSUME NEW r \in Requests, NEW q \in Requests PROVE Apart(r, q)'
  <2>1. Apart(r, q)
    BY DEF Inv
  <2> QED BY <1>1, <2>1 DEF Apart, Wrote, Mints, Grants, LoggedIn, Registering
<1> QED BY <1>2, <1>3, <1>4, <1>5, <1>6 DEF Inv

LEMMA NextInv == Inv /\ [Next]_vars => Inv'
<1> SUFFICES ASSUME Inv, [Next]_vars PROVE Inv'
  OBVIOUS
<1>1. ASSUME NEW r \in Requests, NEW b \in Browsers, NEW op \in Endpoints, Send(r, b, op)
      PROVE  Inv'
  BY <1>1, SendInv
<1>2. ASSUME NEW r \in Requests, SendCleanup(r) PROVE Inv'
  BY <1>2, SendCleanupInv
<1>3. ASSUME NEW r \in Requests, Statement(r) PROVE Inv'
  <2>1. CleanupRefused(r) => Inv'
    BY RefusedInv DEF CleanupRefused, At
  <2> QED BY <1>3, <2>1, RegisterInv, LoginCheckInv, LoginCreateSessionInv, AnonymousInv,
             LogoutInv, ValidateInv, LogoutEverywhereInv, DeleteAccountInv, MeInv,
             SweepOwnersInv, SweepSessionsInv
          DEF Statement
<1>4. ASSUME NEW r \in Requests, Serve(r) PROVE Inv'
  BY <1>3, <1>4, RespondInv, CommitInv, RollbackInv DEF Serve
<1>5. Crash => Inv'
  BY CrashInv
<1>6. Tick => Inv'
  BY TickInv
<1>7. CASE UNCHANGED vars
  <2>1. UNCHANGED <<owners, users, sessions, clock, jar, req, pend, issued, crashes>>
    BY <1>7 DEF vars
  <2>2. TypeOK' /\ S!IInv' /\ TablesIssued'
    BY <2>1, TablesStay DEF Inv, TypeOK, TablesIssued
  <2>3. ASSUME NEW r \in Requests PROVE PendOK(r)' /\ RequestOK(r)' /\ EverywhereOK(r)'
    BY <2>1 DEF Inv, PendOK, RequestOK, EverywhereOK, Wrote, Mints, Grants, LoggedIn, Sweeping,
                Registering, OwnerIds, At
  <2>4. ASSUME NEW r \in Requests, NEW q \in Requests PROVE Apart(r, q)'
    BY <2>1 DEF Inv, Apart, Wrote, Mints, Grants, LoggedIn, Registering
  <2> QED BY <2>2, <2>3, <2>4 DEF Inv
<1> QED BY <1>1, <1>2, <1>4, <1>5, <1>6, <1>7 DEF Next
-----------------------------------------------------------------------------
\* The invariant holds in every reachable state, for any number of everything.
THEOREM Invariance == Spec => []Inv
  BY InitInv, NextInv, PTL DEF Spec

\* Tables, requests and open transactions keep their types.
THEOREM TypeCorrect == Spec => []TypeOK
  BY Invariance, PTL DEF Inv

\* Two open registrations that were both answered are for different names.
THEOREM NamesHaveOneWinner == Spec => []OneWinnerPerName
<1>1. Inv => OneWinnerPerName
  BY DEF Inv, Apart, OneWinnerPerName
<1> QED BY <1>1, Invariance, PTL

\* No transaction still open can commit a session for an owner another one deletes.
THEOREM DeletedStaysDeleted == Spec => []DeletedOwnerGetsNoSession
<1>1. Inv => DeletedOwnerGetsNoSession
  BY DEF Inv, Apart, DeletedOwnerGetsNoSession
<1> QED BY <1>1, Invariance, PTL

\* logout_everywhere ends every session its caller's account had when it was sent.
THEOREM EverywhereIsComplete == Spec => LogoutEverywhereCompletes
<1> DEFINE Completes ==
      \A r \in Requests :
        Commit(r) /\ req[r].op = "logout_everywhere" /\ req[r].owner # NULL
          => \A s \in sessions' : s.token \notin req[r].reach
<1>1. Inv /\ [Next]_vars => [Completes]_vars
  <2> SUFFICES ASSUME Inv, NEW r \in Requests, Commit(r), req[r].op = "logout_everywhere",
                      req[r].owner # NULL, NEW s \in sessions'
               PROVE  s.token \notin req[r].reach
    OBVIOUS
  <2>1. PendOK(r) /\ EverywhereOK(r) /\ Wrote(r)
    BY DEF Inv, Commit, Wrote
  <2>2. pend[r].sessions = {}
    BY <2>1 DEF PendOK, Granting
  <2>3. s \in sessions /\ s.token \notin pend[r].ended
    BY <2>2 DEF Commit
  <2> QED BY <2>1, <2>3 DEF EverywhereOK
<1> QED BY <1>1, Invariance, PTL DEF Spec, LogoutEverywhereCompletes

\* What a step does to the tables is one SQL function, a tick of the clock, or nothing.
LEMMA StepRefines ==
  ASSUME Inv, [Next]_vars
  PROVE  [S!Next]_(S!vars)
<1>1. ASSUME NEW r \in Requests, Commit(r) PROVE [S!Next]_(S!vars)
  BY <1>1, CommitRefines
<1>2. CASE Tick
  BY <1>2 DEF Tick, S!Next, S!Tick, S!tables
<1>3. CASE UNCHANGED <<owners, users, sessions, clock>>
  BY <1>3 DEF S!vars
<1>4. ASSUME NEW r \in Requests, Serve(r), ~ Commit(r)
      PROVE  UNCHANGED <<owners, users, sessions, clock>>
  BY <1>4 DEF Serve, Statement, Respond, Rollback, RegisterStatement, LoginCheck,
              LoginCreateSession, AnonymousStatement, LogoutStatement, Validate,
              LogoutEverywhereStatement, DeleteAccountStatement, MeStatement,
              CleanupRefused, SweepOwners, SweepSessions, Write, NoWrite
<1>5. ASSUME NEW r \in Requests, SendCleanup(r)
      PROVE  UNCHANGED <<owners, users, sessions, clock>>
  BY <1>5 DEF SendCleanup, NoWrite
<1>6. ASSUME NEW r \in Requests, NEW b \in Browsers, NEW op \in Endpoints, Send(r, b, op)
      PROVE  UNCHANGED <<owners, users, sessions, clock>>
  BY <1>6 DEF Send
<1>7. Crash => UNCHANGED <<owners, users, sessions, clock>>
  BY DEF Crash
<1>8. UNCHANGED vars => UNCHANGED <<owners, users, sessions, clock>>
  BY DEF vars
<1> QED BY <1>1, <1>2, <1>3, <1>4, <1>5, <1>6, <1>7, <1>8 DEF Next

\* The two instances of the identity tables are the same formulas.
LEMMA SameStore ==
  /\ S!vars = Store!vars
  /\ S!Next <=> Store!Next
BY DEF S!vars, Store!vars, S!Next, Store!Next, S!Tick, Store!Tick, S!tables, Store!tables,
       S!Registration, Store!Registration, S!AnonymousMint, Store!AnonymousMint,
       S!CreateSessionLogin, Store!CreateSessionLogin, S!EndSessions, Store!EndSessions,
       S!DeleteAccount, Store!DeleteAccount, S!Sweep, Store!Sweep,
       S!RemoveOwners, Store!RemoveOwners, S!OwnerIds, Store!OwnerIds,
       S!PermanentOwner, Store!PermanentOwner, S!AnonymousOwner, Store!AnonymousOwner,
       S!LoginSession, Store!LoginSession, S!AnonymousSession, Store!AnonymousSession,
       S!OwnerExpired, Store!OwnerExpired, S!SessionExpired, Store!SessionExpired

\* Whatever the interleaving, every commit is one SQL function applied to the committed
\* tables: the concurrent endpoints implement the atomic store.
THEOREM Refinement == Spec => ImplementsAuthStore
<1>1. Init => Store!Init
  BY DEF Init, Store!Init
<1>2. Inv /\ [Next]_vars => [Store!Next]_(Store!vars)
  BY StepRefines, SameStore DEF S!vars, Store!vars
<1> QED BY <1>1, <1>2, Invariance, PTL DEF Spec, ImplementsAuthStore, Store!Spec

\* So what holds of the atomic tables holds under concurrent requests.  An account is never
\* half there, whatever fails or crashes between the two inserts of a registration: its
\* permanent owner and its credentials exist together, and no session outlives its owner.
THEOREM AccountsAreWhole ==
  Spec => [](Store!NoOrphans /\ Store!PermanentIffRegistered /\ Store!SessionWithinOwner)
<1>1. Inv => Store!NoOrphans /\ Store!PermanentIffRegistered /\ Store!SessionWithinOwner
  BY DEF Inv, S!IInv, S!NoOrphans, Store!NoOrphans, S!OwnerIds, Store!OwnerIds,
         S!PermanentIffRegistered, Store!PermanentIffRegistered,
         S!SessionWithinOwner, Store!SessionWithinOwner
<1> QED BY <1>1, Invariance, PTL

\* No commit of any request, a cleanup that swept long ago included, ends live sessions or
\* accounts of two tenants.
THEOREM CommitsEndOneTenant == Spec => Store!LiveRowsEndOneTenantAtATime
<1>1. Init => S!Init
  BY DEF Init, S!Init
<1>2. Inv /\ [Next]_vars => [S!Next]_(S!vars)
  BY StepRefines
<1>3. Spec => S!Spec
  BY <1>1, <1>2, Invariance, PTL DEF Spec, S!Spec
<1>4. S!Spec => S!LiveRowsEndOneTenantAtATime
  BY S!OneTenantAtATime, TableAssumptions
<1>5. [S!RemovesFromOneTenant]_(S!vars) => [Store!RemovesFromOneTenant]_(Store!vars)
  BY SameStore DEF S!RemovesFromOneTenant, Store!RemovesFromOneTenant, S!OwnerExpired,
                   Store!OwnerExpired, S!SessionValid, Store!SessionValid, S!vars, Store!vars
<1> QED BY <1>3, <1>4, <1>5, PTL DEF S!LiveRowsEndOneTenantAtATime,
                                     Store!LiveRowsEndOneTenantAtATime

\* No commit that can be a cleanup's locks anybody out, however long the cleanup has been
\* under way.
THEOREM CleanupsAreHarmless == Spec => Store!SweepsEndNothingUsable
<1>1. Init => S!Init
  BY DEF Init, S!Init
<1>2. Inv /\ [Next]_vars => [S!Next]_(S!vars)
  BY StepRefines
<1>3. Spec => S!Spec
  BY <1>1, <1>2, Invariance, PTL DEF Spec, S!Spec
<1>4. S!Spec => S!SweepsEndNothingUsable
  BY S!SweepsAreHarmless, TableAssumptions
<1>5. S!EndsNothingUsable <=> Store!EndsNothingUsable
  BY DEF S!EndsNothingUsable, Store!EndsNothingUsable, S!Sweeping, Store!Sweeping,
         S!Sweep, Store!Sweep, S!RemoveOwners, Store!RemoveOwners, S!OwnerExpired,
         Store!OwnerExpired, S!SessionExpired, Store!SessionExpired, S!SessionValid,
         Store!SessionValid
<1>6. [S!EndsNothingUsable]_(S!vars) => [Store!EndsNothingUsable]_(Store!vars)
  BY <1>5 DEF S!vars, Store!vars
<1> QED BY <1>3, <1>4, <1>6, PTL DEF S!SweepsEndNothingUsable, Store!SweepsEndNothingUsable
-----------------------------------------------------------------------------
(* Nobody waits in a circle. *)

\* The owners open requests delete are there, are not deleted twice, and are never those
\* of two cleanups: what one has found expired the next one finds too, and waits for.
DeletionsApart ==
  /\ \A r \in Requests : pend[r].gone \subseteq OwnerIds
  /\ \A r, q \in Requests : r # q =>
       /\ pend[r].gone \cap pend[q].gone = {}
       /\ Sweeping(r) /\ Sweeping(q) => pend[r].gone = {} \/ pend[q].gone = {}

\* A step that decides no deletion.
LEMMA DeletionsStay ==
  ASSUME Inv, DeletionsApart,
         \A q \in Requests : \/ pend'[q].gone = {}
                             \/ pend'[q].gone = pend[q].gone /\ req'[q].op = req[q].op,
         \A q \in Requests : pend'[q].gone \subseteq OwnerIds'
  PROVE  DeletionsApart'
<1>1. ASSUME NEW q \in Requests, Sweeping(q)', pend'[q].gone # {}
      PROVE  Sweeping(q) /\ pend'[q].gone = pend[q].gone
  BY <1>1 DEF Inv, PendOK, Sweeping
<1> QED BY <1>1 DEF DeletionsApart

\* A statement leaves the tables and what every request is about.
LEMMA StatementKeeps ==
  ASSUME Inv, NEW r \in Requests, Statement(r)
  PROVE  /\ UNCHANGED <<owners, users, sessions, clock>>
         /\ \A q \in Requests : req'[q].op = req[q].op
         /\ \A q \in Requests : q # r => req'[q] = req[q] /\ pend'[q] = pend[q]
<1>1. UNCHANGED <<owners, users, sessions, clock>>
  BY DEF Statement, RegisterStatement, LoginCheck, LoginCreateSession, AnonymousStatement,
         LogoutStatement, Validate, LogoutEverywhereStatement, DeleteAccountStatement,
         MeStatement, CleanupRefused, SweepOwners, SweepSessions, Write, NoWrite
<1>2. req \in [Requests -> Request] /\ pend \in [Requests -> Pending]
  BY DEF Inv, TypeOK
<1>3. \/ \E pc1 \in Pcs : req' = [req EXCEPT ![r].pc = pc1]
      \/ \E pc1 \in Pcs : \E o, t : req' = [req EXCEPT ![r].pc = pc1, ![r].owner = o, ![r].now = t]
      \/ \E pc1 \in Pcs : \E o : req' = [req EXCEPT ![r].pc = pc1, ![r].owner = o]
      \/ \E pc1 \in Pcs : \E t : req' = [req EXCEPT ![r].pc = pc1, ![r].now = t]
  BY DEF Statement, RegisterStatement, LoginCheck, LoginCreateSession, AnonymousStatement,
         LogoutStatement, Validate, LogoutEverywhereStatement, DeleteAccountStatement,
         MeStatement, CleanupRefused, SweepOwners, SweepSessions, Goto, Pcs
<1>4. /\ \A q \in Requests : req'[q].op = req[q].op
      /\ \A q \in Requests : q # r => req'[q] = req[q]
  <2>1. PICK q \in Request : q = req[r]
    BY <1>2
  <2>2. ASSUME NEW pc1, NEW o, NEW t
        PROVE  /\ [q EXCEPT !.pc = pc1].op = q.op
               /\ [q EXCEPT !.pc = pc1, !.owner = o].op = q.op
               /\ [q EXCEPT !.pc = pc1, !.now = t].op = q.op
               /\ [q EXCEPT !.pc = pc1, !.owner = o, !.now = t].op = q.op
    BY DEF Request
  <2>3. \E next : req' = [req EXCEPT ![r] = next] /\ next.op = q.op
    <3>1. CASE \E pc1 \in Pcs : req' = [req EXCEPT ![r].pc = pc1]
      BY <2>1, <2>2, <3>1
    <3>2. CASE \E pc1 \in Pcs : \E o, t :
                 req' = [req EXCEPT ![r].pc = pc1, ![r].owner = o, ![r].now = t]
      <4>1. PICK pc1, o, t :
              req' = [req EXCEPT ![r].pc = pc1, ![r].owner = o, ![r].now = t]
        BY <3>2
      <4> DEFINE next == [q EXCEPT !.pc = pc1, !.owner = o, !.now = t]
      <4>2. next.op = q.op
        BY <2>2
      <4>3. req' = [req EXCEPT ![r] = next]
        BY <2>1, <4>1
      <4> HIDE DEF next
      <4> QED BY <4>2, <4>3
    <3>3. CASE \E pc1 \in Pcs : \E o : req' = [req EXCEPT ![r].pc = pc1, ![r].owner = o]
      <4>1. PICK pc1, o : req' = [req EXCEPT ![r].pc = pc1, ![r].owner = o]
        BY <3>3
      <4> DEFINE next == [q EXCEPT !.pc = pc1, !.owner = o]
      <4>2. req' = [req EXCEPT ![r] = next] /\ next.op = q.op
        BY <1>2, <2>1, <2>2, <4>1
      <4> HIDE DEF next
      <4> QED BY <4>2
    <3>4. CASE \E pc1 \in Pcs : \E t : req' = [req EXCEPT ![r].pc = pc1, ![r].now = t]
      <4>1. PICK pc1, t : req' = [req EXCEPT ![r].pc = pc1, ![r].now = t]
        BY <3>4
      <4> DEFINE next == [q EXCEPT !.pc = pc1, !.now = t]
      <4>2. req' = [req EXCEPT ![r] = next] /\ next.op = q.op
        BY <1>2, <2>1, <2>2, <4>1
      <4> HIDE DEF next
      <4> QED BY <4>2
    <3> QED BY <1>3, <3>1, <3>2, <3>3, <3>4
  <2> QED BY <1>2, <2>1, <2>3
<1>5. \/ pend' = pend
      \/ \E p : pend' = [pend EXCEPT ![r] = p]
  BY DEF Statement, RegisterStatement, LoginCheck, LoginCreateSession, AnonymousStatement,
         LogoutStatement, Validate, LogoutEverywhereStatement, DeleteAccountStatement,
         MeStatement, CleanupRefused, SweepOwners, SweepSessions, Write, NoWrite
<1> QED BY <1>1, <1>2, <1>4, <1>5

LEMMA StatementDeletes ==
  ASSUME Inv, NEW r \in Requests, Statement(r), ~ DeleteAccountStatement(r), ~ SweepOwners(r)
  PROVE  pend'[r].gone \in {{}, pend[r].gone}
<1>1. pend \in [Requests -> Pending]
  BY DEF Inv, TypeOK
<1>2. \/ pend' = pend
      \/ \E os, us : pend' = [pend EXCEPT ![r] = [NoPend EXCEPT !.owners = os, !.users = us]]
      \/ \E os, ss : pend' = [pend EXCEPT ![r] = [NoPend EXCEPT !.owners = os, !.sessions = ss]]
      \/ \E ss : pend' = [pend EXCEPT ![r] = [NoPend EXCEPT !.sessions = ss]]
      \/ \E e : pend' = [pend EXCEPT ![r] = [NoPend EXCEPT !.ended = e]]
      \/ \E e : pend' = [pend EXCEPT ![r] = [pend[r] EXCEPT !.ended = e]]
  BY DEF Statement, RegisterStatement, LoginCheck, LoginCreateSession, AnonymousStatement,
         LogoutStatement, Validate, LogoutEverywhereStatement, MeStatement, CleanupRefused,
         SweepSessions, Write, NoWrite
<1> QED BY <1>1, <1>2 DEF Pending, NoPend

LEMMA DeletionsApartNext == Inv /\ DeletionsApart /\ [Next]_vars => DeletionsApart'
<1> SUFFICES ASSUME Inv, DeletionsApart, [Next]_vars PROVE DeletionsApart'
  OBVIOUS
<1>1. ASSUME NEW r \in Requests, Statement(r), ~ DeleteAccountStatement(r), ~ SweepOwners(r)
      PROVE  DeletionsApart'
  BY <1>1, StatementKeeps, StatementDeletes, DeletionsStay DEF DeletionsApart, OwnerIds
<1>2. ASSUME NEW r \in Requests, DeleteAccountStatement(r) PROVE DeletionsApart'
  <2>1. /\ UNCHANGED <<owners, users, sessions, clock>>
        /\ \A q \in Requests : req'[q].op = req[q].op
        /\ \A q \in Requests : q # r => req'[q] = req[q] /\ pend'[q] = pend[q]
    BY <1>2, StatementKeeps DEF Statement
  <2>2. req[r].op = "delete_account" /\ pend \in [Requests -> Pending]
    BY <1>2 DEF DeleteAccountStatement, At, Inv, TypeOK
  <2>3. CASE pend' = pend
    BY <2>1, <2>3, DeletionsStay DEF DeletionsApart, OwnerIds
  <2>4. CASE pend' # pend
    <3>1. /\ OwnersFree(r, {req[r].owner})
          /\ pend'[r].gone = {req[r].owner} \cap OwnerIds
      BY <1>2, <2>2, <2>4 DEF DeleteAccountStatement, Write, NoWrite, NoPend
    <3>2. \A q \in Requests : q # r => pend'[r].gone \cap pend[q].gone = {}
      BY <3>1 DEF OwnersFree, Others
    <3>3. ~ Sweeping(r)' /\ \A q \in Requests : q # r => (Sweeping(q)' <=> Sweeping(q))
      BY <2>1, <2>2 DEF Sweeping, Wrote
    <3> QED BY <2>1, <3>1, <3>2, <3>3 DEF DeletionsApart, OwnerIds
  <2> QED BY <2>3, <2>4
<1>3. ASSUME NEW r \in Requests, SweepOwners(r) PROVE DeletionsApart'
  <2>1. /\ UNCHANGED <<owners, users, sessions, clock>>
        /\ \A q \in Requests : q # r => req'[q] = req[q] /\ pend'[q] = pend[q]
    BY <1>3, StatementKeeps DEF Statement
  <2>2. OwnersFree(r, DeadOwners) /\ pend'[r].gone = DeadOwners
    BY <1>3 DEF SweepOwners, Write, NoPend, Inv, TypeOK
  <2>3. \A q \in Requests : q # r => DeadOwners \cap pend[q].gone = {}
    BY <2>2 DEF OwnersFree, Others
  <2>4. ASSUME NEW q \in Requests, q # r, Sweeping(q) PROVE pend[q].gone = {}
    <3>1. SUFFICES ASSUME NEW o \in pend[q].gone PROVE o \in DeadOwners
      BY <2>3, <2>4
    <3>2. PICK x \in owners : x.id = o
      BY DEF DeletionsApart, OwnerIds
    <3>3. /\ req[q].now \in 0..clock /\ OwnerExpired(x, req[q].now)
          /\ clock \in Nat /\ x \in OwnerRow
      BY <2>4, <3>2 DEF Inv, RequestOK, TypeOK
    <3>4. OwnerExpired(x, clock)
      BY <3>3 DEF OwnerExpired, OwnerRow
    <3> QED BY <3>2, <3>4 DEF DeadOwners
  <2>5. \A q \in Requests : q # r => (Sweeping(q)' <=> Sweeping(q))
    BY <2>1 DEF Sweeping, Wrote
  <2>6. DeadOwners \subseteq OwnerIds
    BY DEF DeadOwners, OwnerIds
  <2> QED BY <2>1, <2>2, <2>3, <2>4, <2>5, <2>6 DEF DeletionsApart, OwnerIds
<1>4. ASSUME NEW r \in Requests, Commit(r) PROVE DeletionsApart'
  <2>1. \A q \in Requests : q # r => req'[q] = req[q] /\ pend'[q] = pend[q]
    BY <1>4, SlotFreed DEF Commit
  <2>2. pend'[r].gone = {}
    BY <1>4 DEF Commit, NoPend, Inv, TypeOK
  <2>3. OwnerIds \ pend[r].gone \subseteq OwnerIds'
    BY <1>4 DEF Commit, OwnerIds
  <2> QED BY <2>1, <2>2, <2>3, DeletionsStay DEF DeletionsApart
<1>5. ASSUME NEW r \in Requests, Rollback(r) PROVE DeletionsApart'
  <2>1. \A q \in Requests : q # r => req'[q] = req[q] /\ pend'[q] = pend[q]
    BY <1>5, SlotFreed DEF Rollback
  <2>2. pend'[r].gone = {} /\ owners' = owners
    BY <1>5 DEF Rollback, NoPend, Inv, TypeOK
  <2> QED BY <2>1, <2>2, DeletionsStay DEF DeletionsApart, OwnerIds
<1>6. ASSUME NEW r \in Requests, Respond(r) PROVE DeletionsApart'
  <2>1. \A q \in Requests : req'[q].op = req[q].op
    BY <1>6, Going DEF Respond, Inv, TypeOK, Moves, Same, Pcs
  <2> QED BY <1>6, <2>1, DeletionsStay DEF Respond, DeletionsApart, OwnerIds
<1>7. ASSUME NEW r \in Requests, req[r].pc = "idle", UNCHANGED <<owners, pend>>,
             \A q \in Requests : q # r => req'[q] = req[q]
      PROVE  DeletionsApart'
  <2>1. pend[r].gone = {}
    BY <1>7, NothingWritten DEF Wrote
  <2> QED BY <1>7, <2>1, DeletionsStay DEF DeletionsApart, OwnerIds
<1>8. ASSUME NEW r \in Requests, SendCleanup(r) \/ \E b \in Browsers, op \in Endpoints : Send(r, b, op)
      PROVE  DeletionsApart'
  <2>1. \A q \in Requests : q # r => req'[q] = req[q]
    <3>1. req \in [Requests -> Request]
      BY DEF Inv, TypeOK
    <3>2. CASE SendCleanup(r)
      BY <3>1, <3>2 DEF SendCleanup
    <3>3. CASE \E b \in Browsers, op \in Endpoints : Send(r, b, op)
      <4>1. PICK b \in Browsers, op \in Endpoints : Send(r, b, op)
        BY <3>3
      <4> QED BY <3>1, <4>1 DEF Send
    <3> QED BY <1>8, <3>2, <3>3
  <2> QED BY <1>7, <1>8, <2>1 DEF SendCleanup, Send, NoWrite
<1>9. CASE Crash
  BY <1>9 DEF Crash, NoPend, DeletionsApart
<1>10. CASE Tick \/ UNCHANGED vars
  BY <1>10, DeletionsStay DEF Tick, vars, DeletionsApart, OwnerIds
<1> QED BY <1>1, <1>2, <1>3, <1>4, <1>5, <1>6, <1>8, <1>9, <1>10 DEF Next, Serve

\* Whoever keeps another one waiting either ends without waiting itself, or is a cleanup
\* that has deleted owners and now looks for sessions.
LEMMA HolderProceeds ==
  ASSUME Inv, DeletionsApart, NEW r \in Requests, Waits(r)
  PROVE  \E q \in Requests \ {r} :
           Wrote(q) \/ (At(q, "swept", "cleanup") /\ pend[q].gone # {})
<1>1. ASSUME NEW q \in Requests,
             \/ pend[q].users # {} \/ pend[q].sessions # {} \/ pend[q].gone # {}
             \/ pend[q].ended # {}
      PROVE  Wrote(q) \/ (At(q, "swept", "cleanup") /\ pend[q].gone # {})
  <2>1. PendOK(q)
    BY DEF Inv
  <2>2. pend[q].users # {} \/ pend[q].sessions # {} \/ pend[q].ended # {} => Wrote(q)
    BY <2>1 DEF PendOK
  <2>3. pend[q].gone # {} => Wrote(q) \/ At(q, "swept", "cleanup")
    BY <2>1 DEF PendOK, Sweeping, At
  <2> QED BY <1>1, <2>2, <2>3
<1>2. ASSUME NEW rows, ~ SessionsFree(r, rows)
      PROVE  \E q \in Requests \ {r} : pend[q].gone # {} \/ pend[q].ended # {}
  BY <1>2 DEF SessionsFree, DeletedSessions, Others
<1>3. ASSUME NEW ids, ~ OwnersFree(r, ids)
      PROVE  \E q \in Requests \ {r} :
               pend[q].gone # {} \/ pend[q].ended # {} \/ pend[q].sessions # {}
  BY <1>2, <1>3 DEF OwnersFree, Others
<1>4. \E q \in Requests \ {r} : \/ pend[q].users # {} \/ pend[q].sessions # {}
                              \/ pend[q].gone # {} \/ pend[q].ended # {}
  BY <1>2, <1>3 DEF Waits, NameFree, OwnerNotBeingDeleted, Others
<1> QED BY <1>1, <1>4

\* Waiting for rows never closes a circle: the request that ends first is always there,
\* however many requests, cleanups included, are open.
THEOREM NoDeadlock == Spec => []SomebodyProceeds
<1>1. Init => DeletionsApart
  BY DEF Init, DeletionsApart, NoReq, NoPend, Sweeping
<1>2. Inv /\ DeletionsApart => SomebodyProceeds
  <2> SUFFICES ASSUME Inv, DeletionsApart, NEW r \in Requests, req[r].pc # "idle",
                      \A q \in Requests : req[q].pc # "idle" => Waits(q)
               PROVE  FALSE
    BY DEF SomebodyProceeds
  <2>1. \A q \in Requests : ~ Wrote(q)
    BY DEF Waits, At, Wrote
  <2>2. PICK q \in Requests : At(q, "swept", "cleanup") /\ pend[q].gone # {}
    BY <2>1, HolderProceeds
  <2>3. Waits(q)
    BY <2>2 DEF At
  <2>4. PICK p \in Requests \ {q} : At(p, "swept", "cleanup") /\ pend[p].gone # {}
    BY <2>1, <2>3, HolderProceeds
  <2> QED BY <2>2, <2>4 DEF DeletionsApart, Sweeping, At
<1> QED BY <1>1, <1>2, Invariance, DeletionsApartNext, PTL DEF Spec
-----------------------------------------------------------------------------
(* Nobody goes in a circle. *)

\* The steps of a request, in order.
Turn(pc) ==
  CASE pc = "idle" -> 0 [] pc = "sent" -> 1 [] pc \in {"verified", "validated", "swept"} -> 2
    [] pc = "answered" -> 3 [] OTHER -> 4

\* A step takes a request forward or leaves it alone; a slot is free again only when its
\* request has committed, was rolled back, or the process died.
Advance(r) ==
  \/ req'[r] = req[r]
  \/ Turn(req[r].pc) < Turn(req'[r].pc)
  \/ req'[r] = NoReq /\ (req[r].pc \in {"exiting", "raised"} \/ crashes' # crashes)

RequestsAdvance == [][\A r \in Requests : Advance(r)]_vars

LEMMA ServeAdvances == ASSUME Inv, NEW r \in Requests, Serve(r) PROVE Advance(r)
<1>1. req \in [Requests -> Request]
  BY DEF Inv, TypeOK
<1>2. ASSUME NEW pc1, Goto(r, pc1) PROVE req'[r].pc = pc1
  BY <1>1, <1>2 DEF Goto, Request
<1>3. CASE RegisterStatement(r) \/ AnonymousStatement(r) \/ LogoutStatement(r)
           \/ MeStatement(r) \/ CleanupRefused(r)
  <2>1. req[r].pc = "sent" /\ req'[r].pc \in {"raised", "answered"}
    BY <1>2, <1>3 DEF RegisterStatement, AnonymousStatement, LogoutStatement, MeStatement,
                      CleanupRefused, At
  <2> QED BY <2>1 DEF Turn, Advance
<1>4. CASE LoginCheck(r) \/ Validate(r) \/ SweepOwners(r)
  <2>1. ASSUME NEW o, NEW t,
               req' = [req EXCEPT ![r].pc = "verified", ![r].owner = o, ![r].now = t]
        PROVE  req'[r].pc = "verified"
    BY <1>1, <2>1 DEF Request
  <2>2. CASE LoginCheck(r)
    <3>1. req[r].pc = "sent"
      BY <2>2 DEF LoginCheck, At
    <3>2. CASE Goto(r, "raised")
      BY <1>2, <3>1, <3>2 DEF Turn, Advance
    <3>3. CASE ~ Goto(r, "raised")
      <4>1. PICK u \in users :
              req' = [req EXCEPT ![r].pc = "verified", ![r].owner = u.owner, ![r].now = clock]
        BY <2>2, <3>3 DEF LoginCheck
      <4>2. req'[r].pc = "verified"
        BY <2>1, <4>1
      <4> QED BY <3>1, <4>2 DEF Turn, Advance
    <3> QED BY <3>2, <3>3
  <2>3. CASE Validate(r)
    <3>1. req[r].pc = "sent" /\ req'[r].pc = "validated"
      BY <1>1, <2>3 DEF Validate, At, Request
    <3> QED BY <3>1 DEF Turn, Advance
  <2>4. CASE SweepOwners(r)
    <3>1. req[r].pc = "sent" /\ req'[r].pc = "swept"
      BY <1>1, <2>4 DEF SweepOwners, At, Request
    <3> QED BY <3>1 DEF Turn, Advance
  <2> QED BY <1>4, <2>2, <2>3, <2>4
<1>5. CASE LoginCreateSession(r) \/ LogoutEverywhereStatement(r)
           \/ DeleteAccountStatement(r) \/ SweepSessions(r)
  <2>1. /\ req[r].pc \in {"verified", "validated", "swept"}
        /\ req'[r].pc \in {"raised", "answered"}
    BY <1>2, <1>5 DEF LoginCreateSession, LogoutEverywhereStatement, DeleteAccountStatement,
                      SweepSessions, At
  <2> QED BY <2>1 DEF Turn, Advance
<1>6. CASE Respond(r)
  <2>1. req[r].pc = "answered" /\ req'[r].pc = "exiting"
    BY <1>2, <1>6 DEF Respond
  <2> QED BY <2>1 DEF Turn, Advance
<1>7. CASE Commit(r) \/ Rollback(r)
  BY <1>1, <1>7 DEF Commit, Rollback, Advance
<1> QED BY <1>3, <1>4, <1>5, <1>6, <1>7 DEF Serve, Statement

\* No step takes a request back or restarts it, and none touches another request: what
\* fairness has to drive is at most four steps long, so a request can only fail to end by
\* waiting for ever.
THEOREM RequestsMoveOn == Spec => RequestsAdvance
<1>1. Inv /\ [Next]_vars => [\A r \in Requests : Advance(r)]_vars
  <2> SUFFICES ASSUME Inv, Next, NEW r \in Requests PROVE Advance(r)
    OBVIOUS
  <2>1. req \in [Requests -> Request]
    BY DEF Inv, TypeOK
  <2>2. ASSUME NEW q \in Requests, q # r, \E next : req' = [req EXCEPT ![q] = next]
        PROVE  Advance(r)
    BY <2>1, <2>2 DEF Advance
  <2>3. ASSUME NEW q \in Requests, req[q].pc = "idle",
               \E next : req' = [req EXCEPT ![q] = next] /\ next.pc = "sent"
        PROVE  Advance(r)
    <3>1. CASE q = r
      <4>1. req[r].pc = "idle" /\ req'[r].pc = "sent"
        BY <2>1, <2>3, <3>1
      <4> QED BY <4>1 DEF Turn, Advance
    <3> QED BY <2>2, <2>3, <3>1
  <2>4. CASE \E q \in Requests, b \in Browsers, op \in Endpoints : Send(q, b, op)
    <3>1. PICK q \in Requests, b \in Browsers, op \in Endpoints : Send(q, b, op)
      BY <2>4
    <3> DEFINE next(name, o, tok) ==
          [NoReq EXCEPT !.pc = "sent", !.op = op,
                        !.by = IF op \in Granting \cup Clearing THEN b ELSE NULL,
                        !.cookie = IF op \in Reading THEN jar[b] ELSE NULL,
                        !.name = name, !.owner = o, !.token = tok,
                        !.reach = IF op = "logout_everywhere"
                                  THEN AccountSessions(jar[b]) ELSE {}]
    <3>2. \A name, o, tok : next(name, o, tok).pc = "sent"
      BY DEF NoReq
    <3>3. PICK name, o, tok : req' = [req EXCEPT ![q] = next(name, o, tok)]
      BY <3>1 DEF Send
    <3>4. req[q].pc = "idle"
      BY <3>1 DEF Send
    <3> HIDE DEF next
    <3> QED BY <2>3, <3>2, <3>3, <3>4
  <2>5. CASE \E q \in Requests : SendCleanup(q)
    <3>1. PICK q \in Requests : SendCleanup(q)
      BY <2>5
    <3> DEFINE next == [req[q] EXCEPT !.pc = "sent", !.op = "cleanup"]
    <3>2. req[q].pc = "idle" /\ req' = [req EXCEPT ![q] = next] /\ next.pc = "sent"
      BY <2>1, <3>1 DEF SendCleanup, Request
    <3> QED BY <2>3, <3>2
  <2>6. CASE \E q \in Requests : Serve(q)
    <3>1. PICK q \in Requests : Serve(q)
      BY <2>6
    <3>2. \E next : req' = [req EXCEPT ![q] = next]
      BY <3>1 DEF Serve, Statement, RegisterStatement, LoginCheck, LoginCreateSession,
                  AnonymousStatement, LogoutStatement, Validate, LogoutEverywhereStatement,
                  DeleteAccountStatement, MeStatement, CleanupRefused, SweepOwners,
                  SweepSessions, Respond, Commit, Rollback, Goto
    <3> QED BY <2>2, <3>1, <3>2, ServeAdvances
  <2>7. CASE Crash
    BY <2>7, CrashBoundAssumption DEF Crash, Advance, Inv, TypeOK
  <2>8. CASE Tick
    BY <2>8 DEF Tick, Advance
  <2> QED BY <2>4, <2>5, <2>6, <2>7, <2>8 DEF Next
<1> QED BY <1>1, Invariance, PTL DEF Spec, RequestsAdvance
=============================================================================
