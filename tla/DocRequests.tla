---------------------------- MODULE DocRequests ----------------------------
(***************************************************************************)
(* The document endpoints as the server runs them: concurrent requests of  *)
(* several tenants over one pool of database connections, PostgreSQL at    *)
(* READ COMMITTED with row-level security.                                 *)
(*                                                                         *)
(* A document request holds two connections.  validate_session runs in the *)
(* transaction of get_db_session; the endpoint's own transaction is opened *)
(* by set_guc, which scopes it to the tenant.  Both stay open until after  *)
(* the response.  The exit code of set_guc then flushes what the endpoint  *)
(* queued with session.add and session.delete, and commits; the exit code  *)
(* of get_db_session follows.  delete_account and cleanup, which the       *)
(* AuthRequests module has in full, appear as what they do to documents.   *)
(***************************************************************************)
EXTENDS DocTables

CONSTANTS
  Requests,    \* request slots of the server
  Conns,       \* connections the pool may open (pool_size + max_overflow)
  Endpoints,   \* bound: the endpoints browsers call
  MaxCrashes   \* bound: restarts of the server process

VARIABLES
  owners, docs, chunks, vectors,   \* the committed tables
  req,        \* req[r]: the request in slot r
  pend,       \* pend[r]: what r flushed and has not committed
  guc,        \* guc[c]: app.owner_id on connection c
  lock,       \* Embedder._lock: the request whose thread uses the model
  issued,     \* the document ids drawn so far
  crashes

tables == <<owners, docs, chunks, vectors>>
vars   == <<owners, docs, chunks, vectors, req, pend, guc, lock, issued, crashes>>

DocOps == {"store", "remove", "get", "ids", "generate"}
AuthOps == {"delete_account", "cleanup"}
ASSUME SlotsNullAssumption == NULL \notin Requests \cup Conns
ASSUME CrashBoundAssumption == MaxCrashes \in Nat
ASSUME DocEndpointsAssumption == Endpoints \subseteq DocOps \cup AuthOps

NoReq == [pc |-> "idle", op |-> NULL, by |-> NULL, tenant |-> NULL, doc |-> NULL,
          hash |-> NULL, auth |-> NULL, data |-> NULL, seen |-> {}]
NoPend == [docs |-> {}, passages |-> {}, removed |-> {}, gone |-> {}]

Init ==
  /\ owners = Owners
  /\ docs = {} /\ chunks = {} /\ vectors = {}
  /\ req = [r \in Requests |-> NoReq]
  /\ pend = [r \in Requests |-> NoPend]
  /\ guc = [c \in Conns |-> NULL]
  /\ lock = NULL
  /\ issued = {}
  /\ crashes = 0
-----------------------------------------------------------------------------
(* The connection pool. *)

Held(r) == {req[r].auth, req[r].data} \ {NULL}
Idle == Conns \ UNION {Held(r) : r \in Requests}

\* Mutated: the setting is the connection's, set_config(..., false).
GucKept(r) == guc

\* A transaction-local setting ends with its transaction.
GucAfter(r) == [c \in Conns |-> IF c \in Held(r) THEN NULL ELSE guc[c]]
-----------------------------------------------------------------------------
(* Rows, as row-level security and other transactions let r see them. *)

Others(r) == Requests \ {r}

\* Mutated: no policy.
VisibleToAll(r) == docs

\* Policy owner_isolation: the committed documents of the tenant set on r's connection.
Visible(r) == {x \in docs : x.owner = guc[req[r].data]}

\* Rows another open transaction deletes, directly or by cascade from their owner.
BeingDeleted(r) ==
  {x \in docs : \E q \in Others(r) : x.id \in pend[q].removed \/ x.owner \in pend[q].gone}

\* uq_document_owner_hash, among the committed rows.
Duplicates(r) == {x \in docs : x.owner = req[r].tenant /\ x.hash = req[r].hash}

\* Mutated: neither the unique nor the foreign key waits.
InsertAtOnce(r) == TRUE

\* An INSERT waits until a row with its key that another transaction is inserting or
\* deleting is decided, and until a deletion of the owner it references is.
InsertDecided(r) ==
  /\ Duplicates(r) \cap BeingDeleted(r) = {}
  /\ \A q \in Others(r) :
       /\ req[r].tenant \notin pend[q].gone
       /\ \A x \in pend[q].docs : ~ (x.owner = req[r].tenant /\ x.hash = req[r].hash)

\* Owners can be deleted when nobody else deletes one, no uncommitted document
\* references one (its foreign key check holds the row) and their documents are free.
OwnersFree(r, ids) ==
  /\ {x \in BeingDeleted(r) : x.owner \in ids} = {}
  /\ \A q \in Others(r) :
       /\ ids \cap pend[q].gone = {}
       /\ \A x \in pend[q].docs : x.owner \notin ids
-----------------------------------------------------------------------------
At(r, pc, op) == req[r].pc = pc /\ req[r].op = op

Goto(r, pc) == req' = [req EXCEPT ![r].pc = pc]

\* A step that reads, waits or decides, and flushes nothing.
NoFlush == UNCHANGED <<owners, docs, chunks, vectors, pend, guc, lock, issued, crashes>>

Flush(r, p) ==
  /\ pend' = [pend EXCEPT ![r] = p]
  /\ UNCHANGED <<owners, docs, chunks, vectors, guc, lock, issued, crashes>>

\* Tenant o sends a request: an upload with a fresh id, or one about a document whose
\* id it knows, its own or not.
Send(r, o, op) ==
  /\ req[r].pc = "idle"
  /\ \E d \in CASE op = "store" -> DocIds \ issued
               [] op \in {"remove", "get"} -> issued
               [] OTHER -> {NULL},
        h \in IF op = "store" THEN Contents ELSE {NULL} :
       /\ req' = [req EXCEPT ![r] = [NoReq EXCEPT !.pc = "sent", !.op = op, !.by = o,
                                                  !.doc = d, !.hash = h]]
       /\ issued' = issued \cup ({d} \ {NULL})
  /\ UNCHANGED <<owners, docs, chunks, vectors, pend, guc, lock, crashes>>

\* validate_session: NULL without a cookie (no connection is taken then), or when the
\* session is expired, ended, or gone with its owner.
Validate(r) ==
  /\ req[r].pc = "sent" /\ req[r].op # "cleanup"
  /\ \/ req' = [req EXCEPT ![r].pc = "validated"]
     \/ \E c \in Idle, o \in {NULL} \cup ({req[r].by} \cap owners) :
          req' = [req EXCEPT ![r].pc = "validated", ![r].auth = c, ![r].tenant = o]
  /\ NoFlush

\* set_guc: the tenant's own transaction, or 401 InvalidSession.
SetGuc(r) ==
  /\ req[r].pc = "validated" /\ req[r].op \in DocOps
  /\ IF req[r].tenant = NULL
     THEN Goto(r, "raised") /\ UNCHANGED guc
     ELSE \E c \in Idle :
            /\ req' = [req EXCEPT ![r].pc = "scoped", ![r].data = c]
            /\ guc' = [guc EXCEPT ![c] = req[r].tenant]
  /\ UNCHANGED <<owners, docs, chunks, vectors, pend, lock, issued, crashes>>

\* Mutated: pool_timeout is unlimited.
PoolWaits(r) == FALSE

\* No connection came free within pool_timeout: an error answer.
PoolTimeout(r) ==
  /\ Idle = {}
  /\ \/ req[r].pc = "sent"
     \/ req[r].pc = "validated" /\ req[r].op \in DocOps /\ req[r].tenant # NULL
  /\ Goto(r, "raised")
  /\ NoFlush

\* exists(): 409 for content the tenant has, 422 for content without words.
Exists(r) ==
  /\ At(r, "scoped", "store")
  /\ LET found == {x \in Visible(r) : x.hash = req[r].hash}
     IN req' = [req EXCEPT
          ![r].pc = IF found # {} \/ Size[req[r].hash] = 0 THEN "raised" ELSE "embedding",
          ![r].seen = {x.owner : x \in found}]
  /\ NoFlush

\* A question that is too long is refused before it is embedded.
MeasureQuery(r) ==
  /\ At(r, "scoped", "generate")
  /\ Goto(r, "raised") \/ Goto(r, "embedding")
  /\ NoFlush

\* embed_document and embed_query, in a worker thread with both transactions open: one
\* encode at a time.
Encode(r) ==
  /\ req[r].pc = "embedding" /\ lock = NULL
  /\ Goto(r, "encoding") /\ lock' = r
  /\ UNCHANGED <<owners, docs, chunks, vectors, pend, guc, issued, crashes>>

\* Mutated: the lock is not released when the model raises.
EncodedKeepsLock(r) ==
  /\ req[r].pc = "encoding"
  /\ \/ Goto(r, IF req[r].op = "store" THEN "answered" ELSE "embedded") /\ lock' = NULL
     \/ Goto(r, "raised") /\ UNCHANGED lock
  /\ UNCHANGED <<owners, docs, chunks, vectors, pend, guc, issued, crashes>>

\* The model returns vectors or raises; the lock is released either way.  An upload then
\* adds document, chunks and vectors to its session, which flushes nothing, and is
\* answered with its id.
Encoded(r) ==
  /\ req[r].pc = "encoding"
  /\ \/ Goto(r, IF req[r].op = "store" THEN "answered" ELSE "embedded")
     \/ Goto(r, "raised")
  /\ lock' = NULL
  /\ UNCHANGED <<owners, docs, chunks, vectors, pend, guc, issued, crashes>>

\* The retrieval, whose three statements the Answers module has.  Without a passage the
\* LLM is not asked.
Retrieve(r) ==
  /\ At(r, "embedded", "generate")
  /\ \/ Goto(r, "answered")
     \/ /\ Visible(r) # {}
        /\ req' = [req EXCEPT ![r].pc = "prompted", ![r].seen = {x.owner : x \in Visible(r)}]
  /\ NoFlush

\* The LLM answers, fails or is silent for llm_timeout, with both transactions open.
Generate(r) ==
  /\ At(r, "prompted", "generate")
  /\ Goto(r, "answered") \/ Goto(r, "raised")
  /\ NoFlush

\* remove_document and get_document load the row by id; 404 unless the tenant sees it.
\* The removal is only marked here.
LoadDocument(r) ==
  /\ At(r, "scoped", "remove") \/ At(r, "scoped", "get")
  /\ LET found == {x \in Visible(r) : x.id = req[r].doc}
     IN req' = [req EXCEPT ![r].pc = IF found = {} THEN "raised" ELSE "answered",
                           ![r].seen = {x.owner : x \in found}]
  /\ NoFlush

ListIds(r) ==
  /\ At(r, "scoped", "ids")
  /\ req' = [req EXCEPT ![r].pc = "answered", ![r].seen = {x.owner : x \in Visible(r)}]
  /\ NoFlush

DeleteAccountStatement(r) ==
  /\ At(r, "validated", "delete_account")
  /\ IF req[r].tenant = NULL
     THEN Goto(r, "raised") /\ NoFlush
     ELSE /\ OwnersFree(r, {req[r].tenant})
          /\ Flush(r, [NoPend EXCEPT !.gone = {req[r].tenant} \cap owners])
          /\ Goto(r, "flushed")

\* POST /admin/cleanup: sweep_owners deletes whoever has expired.
SweepOwners(r) ==
  /\ At(r, "sent", "cleanup")
  /\ \E c \in Idle, dead \in SUBSET owners :
       /\ OwnersFree(r, dead)
       /\ Flush(r, [NoPend EXCEPT !.gone = dead])
       /\ req' = [req EXCEPT ![r].pc = "flushed", ![r].auth = c]
-----------------------------------------------------------------------------
(* The exit code of set_guc, after the response. *)

\* INSERT INTO documents.  A duplicate committed since exists() ran, or an owner that
\* is gone, is an IntegrityError that no handler is left to catch.
FlushDocument(r) ==
  /\ At(r, "answered", "store")
  /\ InsertDecided(r)
  /\ IF Duplicates(r) # {} \/ req[r].tenant \notin owners
     THEN Goto(r, "lost") /\ NoFlush
     ELSE /\ Goto(r, "inserting")
          /\ Flush(r, [NoPend EXCEPT
               !.docs = {Document(req[r].doc, req[r].tenant, req[r].hash)}])

\* The chunks, then their vectors: the unit of work orders them by foreign key.
FlushPassages(r) ==
  /\ At(r, "inserting", "store")
  /\ Goto(r, "flushed")
  /\ Flush(r, [pend[r] EXCEPT !.passages = Passages(req[r].doc, req[r].hash)])

\* DELETE FROM documents.  A row someone else removed meanwhile matches nothing, which
\* is only a warning.
FlushDelete(r) ==
  /\ At(r, "answered", "remove")
  /\ LET rows == {x \in Visible(r) : x.id = req[r].doc}
     IN /\ rows \cap BeingDeleted(r) = {}
        /\ Flush(r, [NoPend EXCEPT !.removed = {x.id : x \in rows}])
        /\ Goto(r, "flushed")

\* What is left of the documents once r's deletions are in.
Kept(r) == {x \in docs : x.id \notin pend[r].removed /\ x.owner \notin pend[r].gone}

\* Mutated: the foreign keys to documents do not cascade.
LeftWithoutCascade(r, rows) == rows

\* What their cascades leave of the chunks or of the vectors.
Left(r, rows) == {c \in rows : \E x \in Kept(r) : x.id = c.doc}

Commit(r) ==
  /\ \/ req[r].pc = "flushed"
     \/ \E op \in {"get", "ids", "generate"} : At(r, "answered", op)
  /\ owners' = owners \ pend[r].gone
  /\ docs' = Kept(r) \cup pend[r].docs
  /\ chunks' = Left(r, chunks) \cup pend[r].passages
  /\ vectors' = Left(r, vectors) \cup pend[r].passages
  /\ pend' = [pend EXCEPT ![r] = NoPend]
  /\ guc' = GucAfter(r)
  /\ req' = [req EXCEPT ![r] = IF req[r].data = NULL THEN NoReq
                               ELSE [NoReq EXCEPT !.pc = "closing", !.auth = req[r].auth]]
  /\ UNCHANGED <<lock, issued, crashes>>

\* The exit code of get_db_session: its transaction wrote nothing.
Close(r) ==
  /\ req[r].pc = "closing"
  /\ req' = [req EXCEPT ![r] = NoReq]
  /\ NoFlush

\* Both transactions roll back: before the error is answered ("raised"), or when the
\* flush fails after the response has left ("lost").
Unwind(r) ==
  /\ req[r].pc \in {"raised", "lost"}
  /\ pend' = [pend EXCEPT ![r] = NoPend]
  /\ guc' = GucAfter(r)
  /\ req' = [req EXCEPT ![r] = NoReq]
  /\ UNCHANGED <<owners, docs, chunks, vectors, lock, issued, crashes>>

\* The process dies with its connections; the database rolls back.
Crash ==
  /\ crashes < MaxCrashes
  /\ \E r \in Requests : req[r].pc # "idle"
  /\ req' = [r \in Requests |-> NoReq]
  /\ pend' = [r \in Requests |-> NoPend]
  /\ guc' = [c \in Conns |-> NULL]
  /\ lock' = NULL
  /\ crashes' = crashes + 1
  /\ UNCHANGED <<owners, docs, chunks, vectors, issued>>

Serve(r) ==
  \/ Validate(r) \/ SetGuc(r) \/ PoolTimeout(r)
  \/ Exists(r) \/ MeasureQuery(r) \/ Encode(r) \/ Encoded(r) \/ Retrieve(r) \/ Generate(r)
  \/ LoadDocument(r) \/ ListIds(r)
  \/ DeleteAccountStatement(r) \/ SweepOwners(r)
  \/ FlushDocument(r) \/ FlushPassages(r) \/ FlushDelete(r)
  \/ Commit(r) \/ Close(r) \/ Unwind(r)

Next ==
  \/ \E r \in Requests, o \in Owners, op \in Endpoints : Send(r, o, op)
  \/ \E r \in Requests : Serve(r)
  \/ Crash

Spec == Init /\ [][Next]_vars

\* The event loop, the worker threads and the database run every request on.  A thread
\* that waits for the model gets it in the end: whoever releases it needs a whole new
\* request before it asks again.
FairSpec == Spec /\ \A r \in Requests : WF_vars(Serve(r)) /\ SF_vars(Encode(r))
-----------------------------------------------------------------------------
Pcs == {"idle", "sent", "validated", "scoped", "embedding", "encoding", "embedded",
        "prompted", "answered", "inserting", "flushed", "closing", "raised", "lost"}

Request ==
  [pc : Pcs, op : DocOps \cup AuthOps \cup {NULL}, by : Owners \cup {NULL},
   tenant : Owners \cup {NULL}, doc : DocIds \cup {NULL}, hash : Contents \cup {NULL},
   auth : Conns \cup {NULL}, data : Conns \cup {NULL}, seen : SUBSET Owners]
Pending ==
  [docs : SUBSET DocRow, passages : SUBSET ChunkRow, removed : SUBSET DocIds,
   gone : SUBSET Owners]

TypeOK ==
  /\ owners \subseteq Owners
  /\ docs \subseteq DocRow
  /\ chunks \subseteq ChunkRow
  /\ vectors \subseteq ChunkRow
  /\ req \in [Requests -> Request]
  /\ pend \in [Requests -> Pending]
  /\ guc \in [Conns -> Owners \cup {NULL}]
  /\ lock \in Requests \cup {NULL}
  /\ issued \subseteq DocIds
  /\ crashes \in 0..MaxCrashes

\* Whatever the interleaving of uploads, removals, account deletions and crashes, each
\* commit is one atomic operation of the document store.
Store == INSTANCE DocStore WITH owners <- owners, docs <- docs, chunks <- chunks,
                                vectors <- vectors
ImplementsDocStore == Store!Spec

\* A tenant never holds the same content twice, whichever upload came first.
OneCopyPerTenant == Store!OneCopyPerTenant

\* Search and citations rely on it: whatever a request was doing when it or the server
\* failed, a stored document has all its chunks and they their vectors, and nothing is
\* left of a document that is gone.
DocumentsAreWhole == Store!DocumentsAreWhole

\* No statement of a request returns a row of another tenant, or flushes a change to
\* one, whatever its connection was used for before.
TenantIsolation ==
  \A r \in Requests :
    /\ req[r].seen \subseteq {req[r].by}
    /\ \A x \in pend[r].docs : x.owner = req[r].by
    /\ \A x \in docs : x.id \in pend[r].removed => x.owner = req[r].by

\* A connection goes back to the pool without a tenant on it, on every path a request
\* can end by, and never while its request still uses it.
PooledConnectionsAreClean ==
  \A c \in Conns :
    guc[c] # NULL => \E r \in Requests : req[r].data = c /\ guc[c] = req[r].tenant

\* r waits for the model or for a row another open transaction holds.  Nobody waits for a
\* connection longer than pool_timeout.
Waits(r) ==
  \/ req[r].pc = "embedding" /\ lock # NULL
  \/ At(r, "answered", "store") /\ ~ InsertDecided(r)
  \/ At(r, "answered", "remove") /\ \E x \in Visible(r) \cap BeingDeleted(r) : x.id = req[r].doc
  \/ /\ At(r, "validated", "delete_account") /\ req[r].tenant # NULL
     /\ ~ OwnersFree(r, {req[r].tenant})

SomebodyProceeds ==
  (\E r \in Requests : req[r].pc # "idle")
    => \E r \in Requests : req[r].pc # "idle" /\ ~ Waits(r)

\* Requests that hold rows, connections or the model never all wait for each other, and
\* one that does not wait can go on.
NoCircularWait ==
  /\ SomebodyProceeds
  /\ \A r \in Requests : req[r].pc # "idle" /\ ~ Waits(r) => ENABLED Serve(r)

\* Every request ends: requests that each hold one connection and wait for a second
\* are let go by the pool's timeout.
EveryRequestEnds == \A r \in Requests : req[r].pc # "idle" ~> req[r].pc = "idle"

\* "the IntegrityError guard covers the TOCTOU race where two identical uploads both
\* pass it": an upload that lost to an identical one is refused, not answered with an id.
RacingUploadIsRefused ==
  \A r \in Requests : req[r].pc = "lost" => Duplicates(r) = {}
=============================================================================
