------------------------- MODULE DocRequestsProofs -------------------------
(***************************************************************************)
(* The document endpoints implement the document store, proved for any     *)
(* number of requests, connections, tenants, documents and crashes.        *)
(*                                                                         *)
(* A commit is one atomic upload only if what the flush checked still      *)
(* holds: no other transaction has meanwhile deleted the owner or inserted *)
(* the key.  InsertsKeepTheirLocks says so; it is inductive because every  *)
(* flush waits for the rows the open transactions hold.  The isolation of  *)
(* the tenants rests on the connections: ConnsApart.                       *)
(***************************************************************************)
EXTENDS DocRequests, TLAPS

D == INSTANCE DocStoreProofs

Flushing(r) == req[r].pc \in {"inserting", "flushed"}
Storing(r) == req[r].op = "store" /\ req[r].pc \notin {"idle", "closing"}

\* What a request is at each of its program counters.
RequestOK(r) ==
  /\ req[r].tenant \in {NULL, req[r].by}
  /\ req[r].seen \subseteq {req[r].by}
  /\ req[r].data # NULL => req[r].tenant # NULL
  /\ req[r].pc \in {"idle", "sent", "validated", "closing"} => req[r].data = NULL
  /\ req[r].pc \in {"scoped", "embedding", "encoding", "embedded", "prompted", "answered"}
       => req[r].data # NULL
  /\ req[r].pc = "inserting" => req[r].op = "store"
  /\ Storing(r) => req[r].doc \in DocIds /\ req[r].hash \in Contents
  /\ Storing(r) /\ req[r].pc \notin {"sent", "validated", "scoped", "raised", "lost"}
       => Size[req[r].hash] > 0

\* What it has flushed there.
PendOK(r) ==
  /\ pend[r].docs = IF Flushing(r) /\ req[r].op = "store"
                    THEN {Document(req[r].doc, req[r].tenant, req[r].hash)} ELSE {}
  /\ pend[r].passages = IF req[r].pc = "flushed" /\ req[r].op = "store"
                        THEN Passages(req[r].doc, req[r].hash) ELSE {}
  /\ pend[r].removed # {} => req[r].pc = "flushed" /\ req[r].op = "remove"
  /\ pend[r].removed \subseteq {req[r].doc}
  /\ pend[r].gone # {} => req[r].pc = "flushed" /\ req[r].op \in AuthOps

\* A connection serves one request, and carries its tenant.
ConnsApart ==
  /\ \A r, q \in Requests : r # q => Held(r) \cap Held(q) = {}
  /\ \A r \in Requests : req[r].data # NULL => guc[req[r].data] = req[r].tenant

\* A document id is drawn by one upload, and never again once it is stored or removed.
FreshIds ==
  /\ \A x \in docs : x.id \in issued
  /\ \A r \in Requests : pend[r].removed \subseteq issued
  /\ \A r \in Requests : Storing(r) =>
       /\ req[r].doc \in issued
       /\ \A x \in docs : x.id # req[r].doc
       /\ \A q \in Requests : req[r].doc \notin pend[q].removed
       /\ \A q \in Requests : r # q /\ Storing(q) => req[q].doc # req[r].doc

SameKey(x, y) == x.owner = y.owner /\ x.hash = y.hash

\* From its flush to its commit an upload's owner stays and its key stays free.
InsertsKeepTheirLocks ==
  \A r \in Requests : \A x \in pend[r].docs :
    /\ x.owner \in owners
    /\ \A y \in docs : ~ SameKey(x, y)
    /\ \A q \in Requests : r # q => /\ x.owner \notin pend[q].gone
                                    /\ \A y \in pend[q].docs : ~ SameKey(x, y)

RemovalsAreOwn ==
  \A r \in Requests, x \in docs : x.id \in pend[r].removed => x.owner = req[r].by

Inv ==
  /\ TypeOK
  /\ D!IInv
  /\ \A r \in Requests : RequestOK(r) /\ PendOK(r)
  /\ ConnsApart
  /\ PooledConnectionsAreClean
  /\ FreshIds
  /\ InsertsKeepTheirLocks
  /\ RemovalsAreOwn
-----------------------------------------------------------------------------
\* What the document store's proofs assume of its constants.
LEMMA StoreAssumptions ==
  NULL \notin Owners \cup DocIds \cup Contents /\ Size \in [Contents -> Nat]
BY DocNullAssumption, SizeAssumption

LEMMA InitInv == Init => Inv
<1> SUFFICES ASSUME Init PROVE Inv
  OBVIOUS
<1>1. TypeOK
  <2>1. NoReq \in Request /\ NoPend \in Pending
    BY DEF NoReq, NoPend, Request, Pending, Pcs
  <2> QED BY <2>1, CrashBoundAssumption DEF Init, TypeOK
<1> USE DEF Init, NoReq, NoPend
<1>2. D!IInv
  <2>1. D!Init
    BY DEF D!Init
  <2> QED BY <2>1, D!InitIInv, StoreAssumptions
<1>3. \A r \in Requests : RequestOK(r) /\ PendOK(r)
  BY DEF RequestOK, PendOK, Storing, Flushing
<1>4. ConnsApart /\ PooledConnectionsAreClean
  BY DEF ConnsApart, PooledConnectionsAreClean, Held
<1>5. FreshIds /\ InsertsKeepTheirLocks /\ RemovalsAreOwn
  BY DEF FreshIds, InsertsKeepTheirLocks, RemovalsAreOwn, Storing
<1> QED BY <1>1, <1>2, <1>3, <1>4, <1>5 DEF Inv

\* The request of r gets to pc1: what it is about stays, and so do the others.
Advances(r, pc1) ==
  /\ req' \in [Requests -> Request]
  /\ \A q \in Requests : q # r => req'[q] = req[q]
  /\ req'[r].pc = pc1
  /\ req'[r].op = req[r].op /\ req'[r].by = req[r].by /\ req'[r].doc = req[r].doc
  /\ req'[r].hash = req[r].hash /\ req'[r].auth = req[r].auth

\* ... on behalf of the same tenant and on the same connection.
Stays(r) == req'[r].tenant = req[r].tenant /\ req'[r].data = req[r].data

LEMMA Advancing ==
  ASSUME req \in [Requests -> Request], NEW r \in Requests, NEW pc1 \in Pcs,
         NEW seen1 \in SUBSET Owners,
         req' = [req EXCEPT ![r].pc = pc1, ![r].seen = seen1]
  PROVE  Advances(r, pc1) /\ Stays(r) /\ req'[r].seen = seen1
<1>1. PICK q \in Request : q = req[r]
  OBVIOUS
<1> DEFINE next == [q EXCEPT !.pc = pc1, !.seen = seen1]
<1>2. /\ next \in Request
      /\ next.pc = pc1 /\ next.op = q.op /\ next.by = q.by /\ next.doc = q.doc
      /\ next.hash = q.hash /\ next.auth = q.auth /\ next.tenant = q.tenant
      /\ next.data = q.data /\ next.seen = seen1
  BY DEF Request
<1>3. req' = [req EXCEPT ![r] = next]
  BY <1>1
<1> HIDE DEF next
<1>4. /\ req' \in [Requests -> Request]
      /\ \A p \in Requests : p # r => req'[p] = req[p]
      /\ req'[r] = next
  BY <1>2, <1>3
<1> QED BY <1>1, <1>2, <1>4 DEF Advances, Stays

\* A step that flushes nothing and takes no connection keeps the invariant.
LEMMA QuietStep ==
  ASSUME Inv, NEW r \in Requests, NEW pc1, Advances(r, pc1), Stays(r),
         UNCHANGED <<owners, docs, chunks, vectors, pend, guc, issued, crashes>>,
         lock' \in Requests \cup {NULL},
         req[r].pc \notin {"idle", "closing", "inserting", "flushed"},
         pc1 \notin {"idle", "sent", "validated", "scoped", "closing", "inserting", "flushed"},
         pc1 \in {"raised", "lost"} \/ req[r].data # NULL,
         req'[r].seen \subseteq {req[r].by},
         req[r].op = "store" /\ pc1 \notin {"raised", "lost"} => Size[req[r].hash] > 0
  PROVE  Inv'
<1>1. TypeOK'
  BY DEF Inv, TypeOK, Advances
<1>2. D!IInv'
  BY DEF Inv, D!IInv, D!TypeOK, D!OneCopyPerTenant, D!DocumentsAreWhole, D!DocumentsHaveOwners
<1>3. ASSUME NEW q \in Requests PROVE RequestOK(q)'
  <2>1. RequestOK(q)
    BY DEF Inv
  <2>2. CASE q # r
    BY <2>1, <2>2 DEF RequestOK, Storing, Advances
  <2>3. CASE q = r
    BY <2>1, <2>3 DEF RequestOK, Storing, Advances, Stays
  <2> QED BY <2>2, <2>3
<1>4. ASSUME NEW q \in Requests PROVE PendOK(q)'
  <2>1. PendOK(q)
    BY DEF Inv
  <2> QED BY <2>1 DEF PendOK, Flushing, Advances, Stays
<1>5. \A q \in Requests : Held(q)' = Held(q) /\ (Storing(q)' <=> Storing(q))
  BY DEF Held, Storing, Advances, Stays
<1>6. \A q \in Requests : req'[q].data = req[q].data /\ req'[q].tenant = req[q].tenant
                          /\ req'[q].doc = req[q].doc /\ req'[q].by = req[q].by
  BY DEF Advances, Stays
<1>7. ConnsApart' /\ PooledConnectionsAreClean'
  BY <1>5, <1>6 DEF Inv, ConnsApart, PooledConnectionsAreClean
<1>8. FreshIds'
  BY <1>5, <1>6 DEF Inv, FreshIds
<1>9. InsertsKeepTheirLocks' /\ RemovalsAreOwn'
  BY <1>6 DEF Inv, InsertsKeepTheirLocks, RemovalsAreOwn, SameKey
<1> QED BY <1>1, <1>2, <1>3, <1>4, <1>7, <1>8, <1>9 DEF Inv

LEMMA Going ==
  ASSUME req \in [Requests -> Request], NEW r \in Requests, NEW pc1 \in Pcs, Goto(r, pc1)
  PROVE  Advances(r, pc1) /\ Stays(r) /\ req'[r].seen = req[r].seen
<1>1. PICK q \in Request : q = req[r]
  OBVIOUS
<1> DEFINE next == [q EXCEPT !.pc = pc1]
<1>2. /\ next \in Request
      /\ next.pc = pc1 /\ next.op = q.op /\ next.by = q.by /\ next.doc = q.doc
      /\ next.hash = q.hash /\ next.auth = q.auth /\ next.tenant = q.tenant
      /\ next.data = q.data /\ next.seen = q.seen
  BY DEF Request
<1>3. req' = [req EXCEPT ![r] = next]
  BY <1>1 DEF Goto
<1> HIDE DEF next
<1>4. /\ req' \in [Requests -> Request]
      /\ \A p \in Requests : p # r => req'[p] = req[p]
      /\ req'[r] = next
  BY <1>2, <1>3
<1> QED BY <1>1, <1>2, <1>4 DEF Advances, Stays

\* The same, for a step that only moves the program counter.
LEMMA QuietGoto ==
  ASSUME Inv, NEW r \in Requests, NEW pc1 \in Pcs, Goto(r, pc1),
         UNCHANGED <<owners, docs, chunks, vectors, pend, guc, issued, crashes>>,
         lock' \in Requests \cup {NULL},
         req[r].pc \notin {"idle", "closing", "inserting", "flushed"},
         pc1 \notin {"idle", "sent", "validated", "scoped", "closing", "inserting", "flushed"},
         pc1 \in {"raised", "lost"} \/ req[r].data # NULL,
         req[r].op = "store" /\ pc1 \notin {"raised", "lost"} => Size[req[r].hash] > 0
  PROVE  Inv'
<1>1. Advances(r, pc1) /\ Stays(r) /\ req'[r].seen = req[r].seen
  BY Going DEF Inv, TypeOK
<1>2. req[r].seen \subseteq {req[r].by}
  BY DEF Inv, RequestOK
<1> QED BY <1>1, <1>2, QuietStep

\* What row-level security shows a request is its tenant's.
LEMMA VisibleIsOwn ==
  ASSUME Inv, NEW r \in Requests, req[r].data # NULL
  PROVE  /\ \A x \in Visible(r) : x \in docs /\ x.owner = req[r].by
         /\ req[r].tenant = req[r].by /\ req[r].by \in Owners
<1>1. /\ req[r].tenant \in {NULL, req[r].by} /\ req[r].tenant # NULL
      /\ guc[req[r].data] = req[r].tenant
  BY DEF Inv, RequestOK, ConnsApart
<1>2. req[r].by \in Owners \cup {NULL}
  BY DEF Inv, TypeOK, Request
<1> QED BY <1>1, <1>2 DEF Visible
-----------------------------------------------------------------------------
(* The steps that flush nothing. *)

LEMMA PoolTimeoutInv == ASSUME Inv, NEW r \in Requests, PoolTimeout(r) PROVE Inv'
<1>1. "raised" \in Pcs /\ lock \in Requests \cup {NULL}
  BY DEF Pcs, Inv, TypeOK
<1> QED BY <1>1, QuietGoto DEF PoolTimeout, NoFlush

LEMMA ExistsInv == ASSUME Inv, NEW r \in Requests, Exists(r) PROVE Inv'
<1> DEFINE found == {x \in Visible(r) : x.hash = req[r].hash}
           pc1   == IF found # {} \/ Size[req[r].hash] = 0 THEN "raised" ELSE "embedding"
           seen1 == {x.owner : x \in found}
<1>1. req[r].data # NULL
  BY DEF Inv, RequestOK, Exists, At
<1>2. req' = [req EXCEPT ![r].pc = pc1, ![r].seen = seen1]
  BY DEF Exists
<1>3. seen1 \subseteq {req[r].by} /\ req[r].by \in Owners
  BY <1>1, VisibleIsOwn
<1>4. Size[req[r].hash] \in Nat
  BY SizeAssumption DEF Inv, RequestOK, Storing, Exists, At
<1>5. pc1 \in {"raised", "embedding"} /\ (pc1 = "raised" \/ Size[req[r].hash] > 0)
  BY <1>4
<1> HIDE DEF pc1, seen1
<1>6. Advances(r, pc1) /\ Stays(r) /\ req'[r].seen = seen1
  <2>1. pc1 \in Pcs /\ seen1 \in SUBSET Owners
    BY <1>3, <1>5 DEF Pcs
  <2> QED BY <1>2, <2>1, Advancing DEF Inv, TypeOK
<1>7. lock' \in Requests \cup {NULL}
  BY DEF Exists, NoFlush, Inv, TypeOK
<1> QED BY <1>1, <1>3, <1>5, <1>6, <1>7, QuietStep DEF Exists, At, NoFlush

LEMMA EmbeddingInv ==
  ASSUME Inv, NEW r \in Requests,
         MeasureQuery(r) \/ Encode(r) \/ Encoded(r) \/ Generate(r)
  PROVE  Inv'
<1>1. /\ {"raised", "embedding", "encoding", "answered", "embedded"} \subseteq Pcs
      /\ lock \in Requests \cup {NULL}
  BY DEF Pcs, Inv, TypeOK
<1>2. RequestOK(r)
  BY DEF Inv
<1>3. CASE MeasureQuery(r)
  BY <1>1, <1>2, <1>3, QuietGoto DEF MeasureQuery, At, NoFlush, RequestOK
<1>4. CASE Encode(r)
  BY <1>1, <1>2, <1>4, QuietGoto DEF Encode, At, NoFlush, RequestOK, Storing
<1>5. CASE Encoded(r)
  BY <1>1, <1>2, <1>5, QuietGoto DEF Encoded, At, NoFlush, RequestOK, Storing
<1>6. CASE Generate(r)
  BY <1>1, <1>2, <1>6, QuietGoto DEF Generate, At, NoFlush, RequestOK
<1> QED BY <1>3, <1>4, <1>5, <1>6

LEMMA ReadingInv ==
  ASSUME Inv, NEW r \in Requests, Retrieve(r) \/ LoadDocument(r) \/ ListIds(r)
  PROVE  Inv'
<1>1. /\ {"raised", "answered", "prompted"} \subseteq Pcs
      /\ lock \in Requests \cup {NULL}
  BY DEF Pcs, Inv, TypeOK
<1>2. req[r].data # NULL
  BY DEF Inv, RequestOK, Retrieve, LoadDocument, ListIds, At
<1>3. (\A x \in Visible(r) : x.owner = req[r].by) /\ req[r].by \in Owners
  BY <1>2, VisibleIsOwn
<1>4. ASSUME NEW pc1 \in {"raised", "answered", "prompted"}, NEW found \in SUBSET Visible(r),
             req' = [req EXCEPT ![r].pc = pc1, ![r].seen = {x.owner : x \in found}], NoFlush,
             req[r].pc \in {"scoped", "embedded"}, req[r].op # "store"
      PROVE  Inv'
  <2> DEFINE seen1 == {x.owner : x \in found}
  <2>1. seen1 \subseteq {req[r].by} /\ seen1 \in SUBSET Owners
    BY <1>3
  <2>2. req' = [req EXCEPT ![r].pc = pc1, ![r].seen = seen1]
    BY <1>4
  <2> HIDE DEF seen1
  <2>3. Advances(r, pc1) /\ Stays(r) /\ req'[r].seen = seen1
    BY <1>1, <2>1, <2>2, Advancing DEF Inv, TypeOK
  <2> QED BY <1>1, <1>2, <1>4, <2>1, <2>3, QuietStep DEF NoFlush
<1>5. CASE Retrieve(r)
  <2>1. CASE Goto(r, "answered")
    BY <1>1, <1>2, <1>5, <2>1, QuietGoto DEF Retrieve, At, NoFlush
  <2> QED BY <1>4, <1>5, <2>1 DEF Retrieve, At
<1>6. CASE LoadDocument(r)
  <2> DEFINE found == {x \in Visible(r) : x.id = req[r].doc}
             pc1 == IF found = {} THEN "raised" ELSE "answered"
  <2>1. /\ req' = [req EXCEPT ![r].pc = pc1, ![r].seen = {x.owner : x \in found}]
        /\ NoFlush /\ req[r].pc = "scoped" /\ req[r].op \in {"remove", "get"}
    BY <1>6 DEF LoadDocument, At
  <2>2. pc1 \in {"raised", "answered", "prompted"} /\ found \in SUBSET Visible(r)
    OBVIOUS
  <2> HIDE DEF pc1, found
  <2> QED BY <1>4, <2>1, <2>2
<1>7. CASE ListIds(r)
  BY <1>4, <1>7 DEF ListIds, At
<1> QED BY <1>5, <1>6, <1>7

\* A request and its document id are new.
LEMMA SendInv ==
  ASSUME Inv, NEW r \in Requests, NEW o \in Owners, NEW op \in Endpoints, Send(r, o, op)
  PROVE  Inv'
<1>1. PICK d \in DocIds \cup {NULL}, h \in Contents \cup {NULL} :
        /\ req' = [req EXCEPT ![r] = [NoReq EXCEPT !.pc = "sent", !.op = op, !.by = o,
                                                   !.doc = d, !.hash = h]]
        /\ issued' = issued \cup ({d} \ {NULL})
        /\ op = "store" => d \in DocIds \ issued /\ h \in Contents
  <2>1. issued \subseteq DocIds
    BY DEF Inv, TypeOK
  <2> QED BY <2>1 DEF Send
<1> DEFINE next == [NoReq EXCEPT !.pc = "sent", !.op = op, !.by = o, !.doc = d, !.hash = h]
<1>2. /\ next \in Request
      /\ next.pc = "sent" /\ next.op = op /\ next.by = o /\ next.doc = d /\ next.hash = h
      /\ next.tenant = NULL /\ next.auth = NULL /\ next.data = NULL /\ next.seen = {}
  BY DocEndpointsAssumption DEF NoReq, Request, Pcs
<1>3. req' = [req EXCEPT ![r] = next]
  BY <1>1
<1> HIDE DEF next
<1>4. /\ req' \in [Requests -> Request]
      /\ \A q \in Requests : q # r => req'[q] = req[q]
      /\ req'[r] = next
  BY <1>2, <1>3 DEF Inv, TypeOK
<1>5. /\ req[r].pc = "idle"
      /\ UNCHANGED <<owners, docs, chunks, vectors, pend, guc, lock, crashes>>
  BY DEF Send
<1>6. TypeOK'
  BY <1>1, <1>4, <1>5, DocNullAssumption DEF Inv, TypeOK
<1>7. D!IInv'
  BY <1>5 DEF Inv, D!IInv, D!TypeOK, D!OneCopyPerTenant, D!DocumentsAreWhole,
              D!DocumentsHaveOwners
<1>8. ASSUME NEW q \in Requests PROVE RequestOK(q)'
  <2>1. CASE q # r
    BY <1>4, <2>1 DEF Inv, RequestOK, Storing
  <2>2. CASE q = r
    BY <1>1, <1>2, <1>4, <2>2 DEF RequestOK, Storing
  <2> QED BY <2>1, <2>2
<1>9. ASSUME NEW q \in Requests PROVE PendOK(q)'
  <2>1. PendOK(q)
    BY DEF Inv
  <2>2. CASE q # r
    BY <1>4, <1>5, <2>1, <2>2 DEF PendOK, Flushing
  <2>3. CASE q = r
    BY <1>2, <1>4, <1>5, <2>1, <2>3 DEF PendOK, Flushing
  <2> QED BY <2>2, <2>3
<1>10. req[r].data = NULL
  BY <1>5 DEF Inv, RequestOK
<1>11. ConnsApart' /\ PooledConnectionsAreClean'
  <2>1. Held(r)' = {} /\ \A q \in Requests : q # r => Held(q)' = Held(q)
    BY <1>2, <1>4 DEF Held
  <2>2. ConnsApart'
    BY <1>2, <1>4, <1>5, <2>1 DEF Inv, ConnsApart
  <2>3. PooledConnectionsAreClean'
    BY <1>4, <1>5, <1>10, SlotsNullAssumption DEF Inv, PooledConnectionsAreClean
  <2> QED BY <2>2, <2>3
<1>12. FreshIds'
  <2>1. FreshIds
    BY DEF Inv
  <2>2. \A q \in Requests : q # r => (Storing(q)' <=> Storing(q)) /\ req'[q].doc = req[q].doc
    BY <1>4 DEF Storing
  <2>3. Storing(r)' => op = "store" /\ req'[r].doc = d
    BY <1>2, <1>4 DEF Storing
  <2>4. d \in DocIds => d \in issued'
    BY <1>1, DocNullAssumption
  <2> QED BY <1>1, <1>5, <2>1, <2>2, <2>3, <2>4 DEF FreshIds
<1>13. InsertsKeepTheirLocks'
  BY <1>5 DEF Inv, InsertsKeepTheirLocks, SameKey
<1>14. RemovalsAreOwn'
  <2>1. pend[r].removed = {}
    BY <1>5 DEF Inv, PendOK
  <2> QED BY <1>4, <1>5, <2>1 DEF Inv, RemovalsAreOwn
<1> QED BY <1>6, <1>7, <1>8, <1>9, <1>11, <1>12, <1>13, <1>14 DEF Inv

\* A step on which r comes by a connection or a tenant, or lets its last one go.
LEMMA ConnectingStep ==
  ASSUME Inv, NEW r \in Requests, NEW pc1,
         req' \in [Requests -> Request],
         \A q \in Requests : q # r => req'[q] = req[q],
         req[r].pc \in {"sent", "validated", "closing"}, req'[r].pc = pc1,
         pc1 \in {"idle", "validated", "scoped"}, req[r].pc = "closing" => pc1 = "idle",
         pc1 # "idle" => /\ req'[r].op = req[r].op /\ req'[r].by = req[r].by
                         /\ req'[r].doc = req[r].doc /\ req'[r].hash = req[r].hash,
         UNCHANGED <<owners, docs, chunks, vectors, pend, lock, issued, crashes>>,
         guc' \in [Conns -> Owners \cup {NULL}],
         RequestOK(r)', ConnsApart', PooledConnectionsAreClean'
  PROVE  Inv'
<1>1. TypeOK'
  BY DEF Inv, TypeOK
<1>2. D!IInv'
  BY DEF Inv, D!IInv, D!TypeOK, D!OneCopyPerTenant, D!DocumentsAreWhole, D!DocumentsHaveOwners
<1>3. ASSUME NEW q \in Requests PROVE RequestOK(q)'
  BY DEF Inv, RequestOK, Storing
<1>4. /\ pend[r].docs = {} /\ pend[r].passages = {} /\ pend[r].removed = {}
      /\ pend[r].gone = {}
  BY DEF Inv, PendOK, Flushing
<1>5. ASSUME NEW q \in Requests PROVE PendOK(q)'
  <2>1. PendOK(q)
    BY DEF Inv
  <2>2. CASE q # r
    BY <2>1, <2>2 DEF PendOK, Flushing
  <2>3. CASE q = r
    BY <1>4, <2>3 DEF PendOK, Flushing
  <2> QED BY <2>2, <2>3
<1>6. FreshIds'
  <2>1. \A q \in Requests : Storing(q)' => Storing(q) /\ req'[q].doc = req[q].doc
    BY DEF Storing
  <2> QED BY <2>1 DEF Inv, FreshIds
<1>7. InsertsKeepTheirLocks'
  BY DEF Inv, InsertsKeepTheirLocks, SameKey
<1>8. RemovalsAreOwn'
  BY <1>4 DEF Inv, RemovalsAreOwn
<1> QED BY <1>1, <1>2, <1>3, <1>5, <1>6, <1>7, <1>8 DEF Inv

\* validate_session makes the request its sender's, or nobody's.
LEMMA ValidateInv == ASSUME Inv, NEW r \in Requests, Validate(r) PROVE Inv'
<1>1. req[r].pc = "sent" /\ UNCHANGED <<owners, docs, chunks, vectors, pend, guc, lock, issued>>
      /\ UNCHANGED crashes
  BY DEF Validate, NoFlush
<1>2. PICK c \in Idle \cup {NULL}, o \in Owners \cup {NULL} :
        /\ o \in {NULL, req[r].by}
        /\ \/ req' = [req EXCEPT ![r].pc = "validated"]
           \/ req' = [req EXCEPT ![r].pc = "validated", ![r].auth = c, ![r].tenant = o]
  <2>1. CASE req' = [req EXCEPT ![r].pc = "validated"]
    BY <2>1
  <2>2. ASSUME NEW c \in Idle, NEW o \in {NULL} \cup ({req[r].by} \cap owners),
               req' = [req EXCEPT ![r].pc = "validated", ![r].auth = c, ![r].tenant = o]
        PROVE  o \in Owners \cup {NULL} /\ o \in {NULL, req[r].by}
    BY <2>2 DEF Inv, TypeOK
  <2> QED BY <2>1, <2>2 DEF Validate
<1>3. PICK q \in Request : q = req[r]
  BY DEF Inv, TypeOK
<1>4. PICK next \in Request :
        /\ req' = [req EXCEPT ![r] = next]
        /\ next.pc = "validated" /\ next.op = q.op /\ next.by = q.by /\ next.doc = q.doc
        /\ next.hash = q.hash /\ next.data = q.data /\ next.seen = q.seen
        /\ next.auth \in {q.auth, c} /\ next.tenant \in {q.tenant, o}
  <2>1. CASE req' = [req EXCEPT ![r].pc = "validated"]
    <3> DEFINE next == [q EXCEPT !.pc = "validated"]
    <3>1. /\ next \in Request /\ next.pc = "validated" /\ next.op = q.op /\ next.by = q.by
          /\ next.doc = q.doc /\ next.hash = q.hash /\ next.data = q.data
          /\ next.seen = q.seen /\ next.auth = q.auth /\ next.tenant = q.tenant
      BY DEF Request, Pcs
    <3>2. req' = [req EXCEPT ![r] = next]
      BY <1>3, <2>1
    <3> QED BY <3>1, <3>2
  <2>2. CASE req' = [req EXCEPT ![r].pc = "validated", ![r].auth = c, ![r].tenant = o]
    <3> DEFINE next == [q EXCEPT !.pc = "validated", !.auth = c, !.tenant = o]
    <3>1. c \in Conns \cup {NULL}
      BY DEF Idle
    <3>2. next \in Request
      <4>1. "validated" \in Pcs
        BY DEF Pcs
      <4> QED BY <3>1, <4>1 DEF Request
    <3>3. /\ next.pc = "validated" /\ next.op = q.op /\ next.by = q.by
          /\ next.doc = q.doc /\ next.hash = q.hash /\ next.data = q.data
          /\ next.seen = q.seen /\ next.auth = c /\ next.tenant = o
      BY DEF Request
    <3>4. req' = [req EXCEPT ![r] = next]
      BY <1>3, <2>2
    <3> QED BY <3>2, <3>3, <3>4
  <2> QED BY <1>2, <2>1, <2>2
<1>5. /\ req' \in [Requests -> Request]
      /\ \A p \in Requests : p # r => req'[p] = req[p]
      /\ req'[r] = next
  BY <1>4 DEF Inv, TypeOK
<1>6. RequestOK(r)'
  <2>1. RequestOK(r)
    BY DEF Inv
  <2> QED BY <1>1, <1>2, <1>3, <1>4, <1>5, <2>1 DEF RequestOK, Storing
<1>7. req[r].data = NULL
  BY <1>1 DEF Inv, RequestOK
<1>8. ConnsApart'
  <2>1. /\ Held(r)' \subseteq Held(r) \cup ({c} \ {NULL})
        /\ \A p \in Requests : p # r => Held(p)' = Held(p)
    BY <1>3, <1>4, <1>5 DEF Held
  <2>2. \A p \in Requests : c = NULL \/ c \notin Held(p)
    BY <1>2 DEF Idle
  <2> QED BY <1>1, <1>3, <1>4, <1>5, <1>7, <2>1, <2>2 DEF Inv, ConnsApart
<1>9. PooledConnectionsAreClean'
  BY <1>1, <1>5, <1>7, SlotsNullAssumption DEF Inv, PooledConnectionsAreClean
<1> QED BY <1>1, <1>3, <1>4, <1>5, <1>6, <1>8, <1>9, ConnectingStep DEF Inv, TypeOK

\* set_guc scopes a free connection to the tenant.
LEMMA SetGucInv == ASSUME Inv, NEW r \in Requests, SetGuc(r) PROVE Inv'
<1>1. /\ req[r].pc = "validated"
      /\ UNCHANGED <<owners, docs, chunks, vectors, pend, lock, issued, crashes>>
  BY DEF SetGuc
<1>2. CASE req[r].tenant = NULL
  <2>1. Goto(r, "raised") /\ UNCHANGED guc
    BY <1>2 DEF SetGuc
  <2>2. "raised" \in Pcs /\ lock' \in Requests \cup {NULL}
    BY <1>1 DEF Pcs, Inv, TypeOK
  <2> QED BY <1>1, <2>1, <2>2, QuietGoto
<1>3. CASE req[r].tenant # NULL
  <2>1. PICK c \in Idle : /\ req' = [req EXCEPT ![r].pc = "scoped", ![r].data = c]
                          /\ guc' = [guc EXCEPT ![c] = req[r].tenant]
    BY <1>3 DEF SetGuc
  <2>2. PICK q \in Request : q = req[r]
    BY DEF Inv, TypeOK
  <2> DEFINE next == [q EXCEPT !.pc = "scoped", !.data = c]
  <2>3. c \in Conns /\ c # NULL /\ \A p \in Requests : c \notin Held(p)
    BY SlotsNullAssumption DEF Idle
  <2>4. /\ next \in Request /\ next.pc = "scoped" /\ next.op = q.op /\ next.by = q.by
        /\ next.doc = q.doc /\ next.hash = q.hash /\ next.data = c
        /\ next.seen = q.seen /\ next.auth = q.auth /\ next.tenant = q.tenant
    BY <2>3 DEF Request, Pcs
  <2>5. req' = [req EXCEPT ![r] = next]
    BY <2>1, <2>2
  <2> HIDE DEF next
  <2>6. /\ req' \in [Requests -> Request]
        /\ \A p \in Requests : p # r => req'[p] = req[p]
        /\ req'[r] = next
    BY <2>4, <2>5 DEF Inv, TypeOK
  <2>7. RequestOK(r)'
    <3>1. RequestOK(r)
      BY DEF Inv
    <3> QED BY <1>1, <1>3, <2>2, <2>3, <2>4, <2>6, <3>1 DEF RequestOK, Storing
  <2>8. req[r].data = NULL /\ q.tenant \in Owners
    BY <1>1, <1>3, <2>2 DEF Inv, RequestOK, Request
  <2>9. /\ guc' \in [Conns -> Owners \cup {NULL}]
        /\ guc'[c] = q.tenant /\ \A d \in Conns : d # c => guc'[d] = guc[d]
    BY <2>1, <2>2, <2>3, <2>8 DEF Inv, TypeOK
  <2>10. \A p \in Requests : p # r => req[p].data # c /\ req[p].data \in Conns \cup {NULL}
    BY <2>3 DEF Held, Inv, TypeOK, Request
  <2>11. ConnsApart'
    <3>1. /\ Held(r)' \subseteq Held(r) \cup {c}
          /\ \A p \in Requests : p # r => Held(p)' = Held(p)
      BY <2>2, <2>4, <2>6 DEF Held
    <3>2. \A p, s \in Requests : p # s => Held(p)' \cap Held(s)' = {}
      BY <2>3, <3>1 DEF Inv, ConnsApart
    <3>3. \A p \in Requests : req'[p].data # NULL => guc'[req'[p].data] = req'[p].tenant
      BY <2>4, <2>6, <2>9, <2>10 DEF Inv, ConnsApart
    <3> QED BY <3>2, <3>3 DEF ConnsApart
  <2>12. PooledConnectionsAreClean'
    BY <2>4, <2>6, <2>8, <2>9, SlotsNullAssumption DEF Inv, PooledConnectionsAreClean
  <2> QED BY <1>1, <2>2, <2>4, <2>6, <2>7, <2>9, <2>11, <2>12, ConnectingStep
<1> QED BY <1>2, <1>3

\* The exit code of get_db_session leaves an empty slot.
LEMMA CloseInv == ASSUME Inv, NEW r \in Requests, Close(r) PROVE Inv'
<1>1. req[r].pc = "closing" /\ req' = [req EXCEPT ![r] = NoReq] /\ NoFlush
  BY DEF Close
<1>2. /\ NoReq \in Request /\ NoReq.pc = "idle" /\ NoReq.data = NULL /\ NoReq.auth = NULL
      /\ NoReq.tenant = NULL /\ NoReq.seen = {}
  BY DEF NoReq, Request, Pcs
<1>3. /\ req' \in [Requests -> Request]
      /\ \A q \in Requests : q # r => req'[q] = req[q]
      /\ req'[r] = NoReq
  BY <1>1, <1>2 DEF Inv, TypeOK
<1>4. RequestOK(r)'
  BY <1>2, <1>3 DEF RequestOK, Storing
<1>5. Held(r)' = {} /\ \A q \in Requests : q # r => Held(q)' = Held(q)
  BY <1>2, <1>3 DEF Held
<1>6. ConnsApart'
  BY <1>1, <1>2, <1>3, <1>5 DEF NoFlush, Inv, ConnsApart
<1>7. req[r].data = NULL
  BY <1>1 DEF Inv, RequestOK
<1>8. PooledConnectionsAreClean'
  BY <1>1, <1>3, <1>7, SlotsNullAssumption DEF NoFlush, Inv, PooledConnectionsAreClean
<1> QED BY <1>1, <1>2, <1>3, <1>4, <1>6, <1>8, ConnectingStep DEF NoFlush, Inv, TypeOK
-----------------------------------------------------------------------------
(* The steps that end a request's transactions. *)

\* The request of r lets its connections go and forgets what it flushed.
LEMMA Releasing ==
  ASSUME Inv, NEW r \in Requests, NEW next \in Request,
         next.pc \in {"idle", "closing"}, next.data = NULL, next.tenant = NULL,
         next.seen = {}, next.auth \in {NULL, req[r].auth},
         req' = [req EXCEPT ![r] = next],
         pend' = [pend EXCEPT ![r] = NoPend],
         guc' = GucAfter(r)
  PROVE  /\ req' \in [Requests -> Request] /\ req'[r] = next
         /\ \A q \in Requests : q # r => req'[q] = req[q] /\ pend'[q] = pend[q]
         /\ pend' \in [Requests -> Pending] /\ pend'[r] = NoPend
         /\ guc' \in [Conns -> Owners \cup {NULL}]
         /\ \A q \in Requests : RequestOK(q)' /\ PendOK(q)'
         /\ ConnsApart' /\ PooledConnectionsAreClean'
<1>1. /\ NoPend \in Pending /\ NoPend.docs = {} /\ NoPend.passages = {}
      /\ NoPend.removed = {} /\ NoPend.gone = {}
  BY DEF NoPend, Pending
<1>2. /\ req' \in [Requests -> Request] /\ req'[r] = next
      /\ \A q \in Requests : q # r => req'[q] = req[q]
  BY DEF Inv, TypeOK
<1>3. /\ pend' \in [Requests -> Pending] /\ pend'[r] = NoPend
      /\ \A q \in Requests : q # r => pend'[q] = pend[q]
  BY <1>1 DEF Inv, TypeOK
<1>4. /\ guc' \in [Conns -> Owners \cup {NULL}]
      /\ \A c \in Conns : guc'[c] = IF c \in Held(r) THEN NULL ELSE guc[c]
  BY DEF GucAfter, Inv, TypeOK
<1>5. ASSUME NEW q \in Requests PROVE RequestOK(q)' /\ PendOK(q)'
  <2>1. RequestOK(q) /\ PendOK(q)
    BY DEF Inv
  <2>2. CASE q # r
    BY <1>2, <1>3, <2>1, <2>2 DEF RequestOK, PendOK, Storing, Flushing
  <2>3. CASE q = r
    BY <1>1, <1>2, <1>3, <2>3 DEF RequestOK, PendOK, Storing, Flushing
  <2> QED BY <2>2, <2>3
<1>6. /\ Held(r)' \subseteq Held(r)
      /\ \A q \in Requests : q # r => Held(q)' = Held(q)
  BY <1>2 DEF Held
<1>7. \A q \in Requests : q # r => Held(q) \cap Held(r) = {}
  BY DEF Inv, ConnsApart
<1>8. ConnsApart'
  <2>1. \A p, q \in Requests : p # q => Held(p)' \cap Held(q)' = {}
    BY <1>6 DEF Inv, ConnsApart
  <2>2. ASSUME NEW q \in Requests, req'[q].data # NULL
        PROVE  guc'[req'[q].data] = req'[q].tenant
    <3>1. q # r /\ req'[q] = req[q]
      BY <1>2, <2>2
    <3>2. req[q].data \in Conns /\ req[q].data \in Held(q)
      BY <2>2, <3>1 DEF Held, Inv, TypeOK, Request
    <3>3. guc[req[q].data] = req[q].tenant
      BY <2>2, <3>1 DEF Inv, ConnsApart
    <3> QED BY <1>4, <1>7, <3>1, <3>2, <3>3
  <2> QED BY <2>1, <2>2 DEF ConnsApart
<1>9. ASSUME NEW c \in Conns, guc'[c] # NULL
      PROVE  \E q \in Requests : req'[q].data = c /\ guc'[c] = req'[q].tenant
  <2>1. c \notin Held(r) /\ guc'[c] = guc[c]
    BY <1>4, <1>9
  <2>2. PICK q \in Requests : req[q].data = c /\ guc[c] = req[q].tenant
    BY <1>9, <2>1 DEF Inv, PooledConnectionsAreClean
  <2>3. q # r
    BY <2>1, <2>2, SlotsNullAssumption DEF Held
  <2> QED BY <1>2, <2>1, <2>2, <2>3
<1> QED BY <1>2, <1>3, <1>4, <1>5, <1>8, <1>9 DEF PooledConnectionsAreClean

\* A rollback changes no table, and what is no longer flushed is in nobody's way.
LEMMA UnwindInv == ASSUME Inv, NEW r \in Requests, Unwind(r) PROVE Inv'
<1>1. /\ req' = [req EXCEPT ![r] = NoReq]
      /\ pend' = [pend EXCEPT ![r] = NoPend] /\ guc' = GucAfter(r)
      /\ UNCHANGED <<owners, docs, chunks, vectors, lock, issued, crashes>>
  BY DEF Unwind
<1>2. /\ NoReq \in Request /\ NoReq.pc = "idle" /\ NoReq.data = NULL /\ NoReq.auth = NULL
      /\ NoReq.tenant = NULL /\ NoReq.seen = {}
      /\ NoPend.docs = {} /\ NoPend.removed = {} /\ NoPend.gone = {}
  BY DEF NoReq, NoPend, Request, Pcs
<1>3. /\ req' \in [Requests -> Request] /\ req'[r] = NoReq
      /\ \A q \in Requests : q # r => req'[q] = req[q] /\ pend'[q] = pend[q]
      /\ pend' \in [Requests -> Pending] /\ pend'[r] = NoPend
      /\ guc' \in [Conns -> Owners \cup {NULL}]
      /\ \A q \in Requests : RequestOK(q)' /\ PendOK(q)'
      /\ ConnsApart' /\ PooledConnectionsAreClean'
  BY <1>1, <1>2, Releasing
<1>4. TypeOK'
  BY <1>1, <1>3 DEF Inv, TypeOK
<1>5. D!IInv'
  BY <1>1 DEF Inv, D!IInv, D!TypeOK, D!OneCopyPerTenant, D!DocumentsAreWhole,
              D!DocumentsHaveOwners
<1>6. FreshIds'
  <2>1. \A q \in Requests : /\ Storing(q)' => Storing(q) /\ req'[q].doc = req[q].doc
                            /\ pend'[q].removed \subseteq pend[q].removed
    BY <1>2, <1>3 DEF Storing
  <2> QED BY <1>1, <2>1 DEF Inv, FreshIds
<1>7. InsertsKeepTheirLocks'
  <2>1. \A q \in Requests : /\ pend'[q].docs \subseteq pend[q].docs
                            /\ pend'[q].gone \subseteq pend[q].gone
    BY <1>2, <1>3
  <2> QED BY <1>1, <2>1 DEF Inv, InsertsKeepTheirLocks, SameKey
<1>8. RemovalsAreOwn'
  BY <1>1, <1>2, <1>3 DEF Inv, RemovalsAreOwn
<1> QED BY <1>3, <1>4, <1>5, <1>6, <1>7, <1>8 DEF Inv

\* A crash ends all requests and leaves the tables.
LEMMA CrashInv == ASSUME Inv, Crash PROVE Inv'
<1>1. /\ NoReq \in Request /\ NoReq.pc = "idle" /\ NoReq.data = NULL /\ NoReq.auth = NULL
      /\ NoReq.tenant = NULL /\ NoReq.seen = {}
      /\ NoPend \in Pending /\ NoPend.docs = {} /\ NoPend.passages = {}
      /\ NoPend.removed = {} /\ NoPend.gone = {}
  BY DEF NoReq, NoPend, Request, Pending, Pcs
<1>2. /\ req' = [r \in Requests |-> NoReq] /\ pend' = [r \in Requests |-> NoPend]
      /\ guc' = [c \in Conns |-> NULL] /\ lock' = NULL
      /\ UNCHANGED <<owners, docs, chunks, vectors, issued>>
      /\ crashes < MaxCrashes /\ crashes' = crashes + 1
  BY DEF Crash
<1>3. TypeOK'
  BY <1>1, <1>2, CrashBoundAssumption DEF Inv, TypeOK
<1>4. D!IInv'
  BY <1>2 DEF Inv, D!IInv, D!TypeOK, D!OneCopyPerTenant, D!DocumentsAreWhole,
              D!DocumentsHaveOwners
<1>5. \A r \in Requests : RequestOK(r)' /\ PendOK(r)'
  BY <1>1, <1>2 DEF RequestOK, PendOK, Storing, Flushing
<1>6. ConnsApart' /\ PooledConnectionsAreClean'
  BY <1>1, <1>2 DEF ConnsApart, PooledConnectionsAreClean, Held
<1>7. FreshIds' /\ InsertsKeepTheirLocks' /\ RemovalsAreOwn'
  BY <1>1, <1>2 DEF Inv, FreshIds, InsertsKeepTheirLocks, RemovalsAreOwn, Storing
<1> QED BY <1>3, <1>4, <1>5, <1>6, <1>7 DEF Inv
-----------------------------------------------------------------------------
(* The steps that flush. *)

\* What a flush has to see to, so that the locks of all open transactions hold.
LEMMA FlushStep ==
  ASSUME Inv, NEW r \in Requests, NEW p \in Pending,
         req' \in [Requests -> Request],
         \A q \in Requests : q # r => req'[q] = req[q],
         req[r].pc \notin {"idle", "closing"},
         req'[r].op = req[r].op, req'[r].by = req[r].by, req'[r].doc = req[r].doc,
         pend' = [pend EXCEPT ![r] = p],
         UNCHANGED <<owners, docs, chunks, vectors, guc, lock, issued, crashes>>,
         RequestOK(r)', PendOK(r)', ConnsApart', PooledConnectionsAreClean',
         \A d \in p.removed : \E x \in docs : x.id = d,
         \A x \in docs : x.id \in p.removed => x.owner = req[r].by,
         \A x \in p.docs : /\ x.owner \in owners
                           /\ \A y \in docs : ~ SameKey(x, y),
         \A q \in Requests : q # r =>
           /\ \A x \in p.docs : /\ x.owner \notin pend[q].gone
                                /\ \A y \in pend[q].docs : ~ SameKey(x, y)
           /\ \A y \in pend[q].docs : y.owner \notin p.gone
  PROVE  Inv'
<1>1. /\ pend' \in [Requests -> Pending] /\ pend'[r] = p
      /\ \A q \in Requests : q # r => pend'[q] = pend[q]
  BY DEF Inv, TypeOK
<1>2. TypeOK'
  BY <1>1 DEF Inv, TypeOK
<1>3. D!IInv'
  BY DEF Inv, D!IInv, D!TypeOK, D!OneCopyPerTenant, D!DocumentsAreWhole, D!DocumentsHaveOwners
<1>4. ASSUME NEW q \in Requests PROVE RequestOK(q)' /\ PendOK(q)'
  <2>1. RequestOK(q) /\ PendOK(q)
    BY DEF Inv
  <2>2. CASE q # r
    BY <1>1, <2>1, <2>2 DEF RequestOK, PendOK, Storing, Flushing
  <2> QED BY <2>2
<1>5. FreshIds'
  <2>1. \A q \in Requests : Storing(q)' => Storing(q) /\ req'[q].doc = req[q].doc
    BY DEF Storing
  <2>2. FreshIds
    BY DEF Inv
  <2> QED BY <1>1, <2>1, <2>2 DEF FreshIds
<1>6. InsertsKeepTheirLocks'
  <2>1. InsertsKeepTheirLocks
    BY DEF Inv
  <2> QED BY <1>1, <2>1 DEF InsertsKeepTheirLocks, SameKey
<1>7. RemovalsAreOwn'
  BY <1>1 DEF Inv, RemovalsAreOwn
<1> QED BY <1>2, <1>3, <1>4, <1>5, <1>6, <1>7 DEF Inv

\* A flush of r on the connections it has.
LEMMA FlushOnConnections ==
  ASSUME Inv, NEW r \in Requests, NEW pc1, Advances(r, pc1), Stays(r), UNCHANGED guc
  PROVE  ConnsApart' /\ PooledConnectionsAreClean'
<1>1. \A q \in Requests : req'[q].data = req[q].data /\ req'[q].tenant = req[q].tenant
                          /\ Held(q)' = Held(q)
  BY DEF Advances, Stays, Held
<1> QED BY <1>1 DEF Inv, ConnsApart, PooledConnectionsAreClean

\* The INSERT goes ahead only when its owner is there and its key free, for good.
LEMMA FlushDocumentInv == ASSUME Inv, NEW r \in Requests, FlushDocument(r) PROVE Inv'
<1>1. req[r].pc = "answered" /\ req[r].op = "store" /\ InsertDecided(r)
  BY DEF FlushDocument, At
<1>2. CASE Goto(r, "lost") /\ NoFlush
  <2>1. "lost" \in Pcs /\ lock' \in Requests \cup {NULL}
    BY <1>2 DEF Pcs, NoFlush, Inv, TypeOK
  <2> QED BY <1>1, <1>2, <2>1, QuietGoto DEF NoFlush
<1> DEFINE new == Document(req[r].doc, req[r].tenant, req[r].hash)
           p == [NoPend EXCEPT !.docs = {new}]
<1>3. CASE Duplicates(r) = {} /\ req[r].tenant \in owners /\ Goto(r, "inserting") /\ Flush(r, p)
  <2>1. RequestOK(r) /\ PendOK(r) /\ Storing(r)
    BY <1>1 DEF Inv, Storing
  <2>2. new \in DocRow /\ new.owner = req[r].tenant /\ new.hash = req[r].hash
    BY <1>3, <2>1 DEF RequestOK, Document, DocRow, Inv, TypeOK
  <2> HIDE DEF new
  <2>3. p \in Pending /\ p.docs = {new} /\ p.passages = {} /\ p.removed = {} /\ p.gone = {}
    BY <2>2 DEF NoPend, Pending
  <2>4. pend' = [pend EXCEPT ![r] = p]
        /\ UNCHANGED <<owners, docs, chunks, vectors, guc, lock, issued, crashes>>
    BY <1>3 DEF Flush
  <2> HIDE DEF p
  <2>5. Advances(r, "inserting") /\ Stays(r) /\ req'[r].seen = req[r].seen
    BY <1>3, Going DEF Inv, TypeOK, Pcs
  <2>6. pend'[r] = p
    BY <2>3, <2>4 DEF Inv, TypeOK
  <2>7. RequestOK(r)'
    BY <1>1, <2>1, <2>5 DEF RequestOK, Storing, Advances, Stays
  <2>8. PendOK(r)'
    BY <1>1, <2>3, <2>5, <2>6 DEF PendOK, Flushing, Advances, Stays, new
  <2>9. ConnsApart' /\ PooledConnectionsAreClean'
    BY <2>4, <2>5, FlushOnConnections
  <2>10. \A y \in docs : ~ SameKey(new, y)
    BY <1>3, <2>2 DEF Duplicates, SameKey
  <2>11. \A q \in Requests : q # r => /\ new.owner \notin pend[q].gone
                                      /\ \A y \in pend[q].docs : ~ SameKey(new, y)
    BY <1>1, <2>2 DEF InsertDecided, Others, SameKey
  <2>12. new.owner \in owners
    BY <1>3, <2>2
  <2>13. \A x \in p.docs : /\ x.owner \in owners
                           /\ \A y \in docs : ~ SameKey(x, y)
                           /\ \A q \in Requests : q # r =>
                                /\ x.owner \notin pend[q].gone
                                /\ \A y \in pend[q].docs : ~ SameKey(x, y)
    BY <2>3, <2>10, <2>11, <2>12
  <2>14. p.removed = {} /\ p.gone = {}
    BY <2>3
  <2> QED BY <1>1, <2>3, <2>4, <2>5, <2>7, <2>8, <2>9, <2>13, <2>14, FlushStep
          DEF Advances
<1> QED BY <1>2, <1>3 DEF FlushDocument

\* The passages follow under the document's locks.
LEMMA FlushPassagesInv == ASSUME Inv, NEW r \in Requests, FlushPassages(r) PROVE Inv'
<1> DEFINE p == [pend[r] EXCEPT !.passages = Passages(req[r].doc, req[r].hash)]
<1>1. /\ req[r].pc = "inserting" /\ req[r].op = "store" /\ Goto(r, "flushed")
      /\ pend' = [pend EXCEPT ![r] = p]
      /\ UNCHANGED <<owners, docs, chunks, vectors, guc, lock, issued, crashes>>
  BY DEF FlushPassages, At, Flush
<1>2. RequestOK(r) /\ PendOK(r) /\ Storing(r) /\ pend[r] \in Pending
  BY <1>1 DEF Inv, Storing, TypeOK
<1>3. Passages(req[r].doc, req[r].hash) \subseteq ChunkRow
  BY <1>2, SizeAssumption DEF RequestOK, Passages, ChunkRow
<1>4. /\ p \in Pending /\ p.docs = pend[r].docs /\ p.removed = pend[r].removed
      /\ p.gone = pend[r].gone /\ p.passages = Passages(req[r].doc, req[r].hash)
  BY <1>2, <1>3 DEF Pending
<1> HIDE DEF p
<1>5. Advances(r, "flushed") /\ Stays(r) /\ req'[r].seen = req[r].seen
  BY <1>1, Going DEF Inv, TypeOK, Pcs
<1>6. pend'[r] = p
  BY <1>1, <1>4 DEF Inv, TypeOK
<1>7. RequestOK(r)'
  BY <1>1, <1>2, <1>5 DEF RequestOK, Storing, Advances, Stays
<1>8. PendOK(r)'
  BY <1>1, <1>2, <1>4, <1>5, <1>6 DEF PendOK, Flushing, Advances, Stays
<1>9. ConnsApart' /\ PooledConnectionsAreClean'
  BY <1>1, <1>5, FlushOnConnections
<1>10. p.removed = {} /\ p.gone = {}
  BY <1>1, <1>2, <1>4 DEF PendOK
<1>11. \A x \in p.docs : /\ x.owner \in owners
                         /\ \A y \in docs : ~ SameKey(x, y)
                         /\ \A q \in Requests : q # r =>
                              /\ x.owner \notin pend[q].gone
                              /\ \A y \in pend[q].docs : ~ SameKey(x, y)
  BY <1>4 DEF Inv, InsertsKeepTheirLocks
<1> QED BY <1>1, <1>4, <1>5, <1>7, <1>8, <1>9, <1>10, <1>11, FlushStep DEF Advances

\* A DELETE reaches only the row its tenant sees; an id names one row.
LEMMA FlushDeleteInv == ASSUME Inv, NEW r \in Requests, FlushDelete(r) PROVE Inv'
<1> DEFINE rows == {x \in Visible(r) : x.id = req[r].doc}
           p == [NoPend EXCEPT !.removed = {x.id : x \in rows}]
<1>1. /\ req[r].pc = "answered" /\ req[r].op = "remove" /\ Goto(r, "flushed")
      /\ pend' = [pend EXCEPT ![r] = p]
      /\ UNCHANGED <<owners, docs, chunks, vectors, guc, lock, issued, crashes>>
  BY DEF FlushDelete, At, Flush
<1>2. RequestOK(r) /\ PendOK(r) /\ req[r].data # NULL
  BY <1>1 DEF Inv, RequestOK
<1>3. \A x \in rows : x \in docs /\ x.owner = req[r].by /\ x.id = req[r].doc
  BY <1>2, VisibleIsOwn
<1>4. {x.id : x \in rows} \subseteq DocIds /\ {x.id : x \in rows} \subseteq {req[r].doc}
  BY <1>3 DEF Inv, TypeOK, DocRow
<1>5. /\ p \in Pending /\ p.docs = {} /\ p.passages = {} /\ p.gone = {}
      /\ p.removed = {x.id : x \in rows}
  BY <1>4 DEF NoPend, Pending
<1>6. /\ \A d \in p.removed : \E x \in docs : x.id = d
      /\ \A x \in docs : x.id \in p.removed => x.owner = req[r].by
  <2>1. \A x, y \in docs : x.id = y.id => x = y
    BY DEF Inv, D!IInv, D!OneCopyPerTenant
  <2> HIDE DEF rows
  <2> QED BY <1>3, <1>5, <2>1
<1> HIDE DEF p, rows
<1>7. Advances(r, "flushed") /\ Stays(r) /\ req'[r].seen = req[r].seen
  BY <1>1, Going DEF Inv, TypeOK, Pcs
<1>8. pend'[r] = p
  BY <1>1, <1>5 DEF Inv, TypeOK
<1>9. RequestOK(r)'
  BY <1>1, <1>2, <1>7 DEF RequestOK, Storing, Advances, Stays
<1>10. PendOK(r)'
  BY <1>1, <1>4, <1>5, <1>7, <1>8 DEF PendOK, Flushing, Advances
<1>11. ConnsApart' /\ PooledConnectionsAreClean'
  BY <1>1, <1>7, FlushOnConnections
<1> QED BY <1>1, <1>5, <1>6, <1>7, <1>9, <1>10, <1>11, FlushStep DEF Advances

\* Owners are deleted when no uncommitted document references them.
LEMMA DeleteAccountInv == ASSUME Inv, NEW r \in Requests, DeleteAccountStatement(r) PROVE Inv'
<1>1. req[r].pc = "validated" /\ req[r].op = "delete_account"
  BY DEF DeleteAccountStatement, At
<1>2. CASE Goto(r, "raised") /\ NoFlush
  <2>1. "raised" \in Pcs /\ lock' \in Requests \cup {NULL}
    BY <1>2 DEF Pcs, NoFlush, Inv, TypeOK
  <2> QED BY <1>1, <1>2, <2>1, QuietGoto DEF NoFlush
<1> DEFINE ids == {req[r].tenant} \cap owners
           p == [NoPend EXCEPT !.gone = ids]
<1>3. CASE OwnersFree(r, {req[r].tenant}) /\ Flush(r, p) /\ Goto(r, "flushed")
  <2>1. RequestOK(r) /\ PendOK(r)
    BY DEF Inv
  <2>2. ids \in SUBSET Owners
    BY DEF Inv, TypeOK
  <2>3. \A q \in Requests : q # r => \A y \in pend[q].docs : y.owner \notin ids
    BY <1>3 DEF OwnersFree, Others
  <2> HIDE DEF ids
  <2>4. p \in Pending /\ p.docs = {} /\ p.passages = {} /\ p.removed = {} /\ p.gone = ids
    BY <2>2 DEF NoPend, Pending
  <2>5. pend' = [pend EXCEPT ![r] = p]
        /\ UNCHANGED <<owners, docs, chunks, vectors, guc, lock, issued, crashes>>
    BY <1>3 DEF Flush
  <2> HIDE DEF p
  <2>6. Advances(r, "flushed") /\ Stays(r) /\ req'[r].seen = req[r].seen
    BY <1>3, Going DEF Inv, TypeOK, Pcs
  <2>7. pend'[r] = p
    BY <2>4, <2>5 DEF Inv, TypeOK
  <2>8. RequestOK(r)'
    BY <1>1, <2>1, <2>6 DEF RequestOK, Storing, Advances, Stays
  <2>9. PendOK(r)'
    BY <1>1, <2>4, <2>6, <2>7 DEF PendOK, Flushing, Advances, AuthOps
  <2>10. ConnsApart' /\ PooledConnectionsAreClean'
    BY <2>5, <2>6, FlushOnConnections
  <2> QED BY <1>1, <2>3, <2>4, <2>5, <2>6, <2>8, <2>9, <2>10, FlushStep DEF Advances
<1> QED BY <1>2, <1>3 DEF DeleteAccountStatement

LEMMA SweepOwnersInv == ASSUME Inv, NEW r \in Requests, SweepOwners(r) PROVE Inv'
<1>1. PICK c \in Idle, dead \in SUBSET owners :
        /\ OwnersFree(r, dead)
        /\ Flush(r, [NoPend EXCEPT !.gone = dead])
        /\ req' = [req EXCEPT ![r].pc = "flushed", ![r].auth = c]
  BY DEF SweepOwners
<1> DEFINE p == [NoPend EXCEPT !.gone = dead]
<1>2. req[r].pc = "sent" /\ req[r].op = "cleanup"
  BY DEF SweepOwners, At
<1>3. dead \in SUBSET Owners /\ c \in Conns /\ \A q \in Requests : c = NULL \/ c \notin Held(q)
  BY DEF Inv, TypeOK, Idle
<1>4. p \in Pending /\ p.docs = {} /\ p.passages = {} /\ p.removed = {} /\ p.gone = dead
  BY <1>3 DEF NoPend, Pending
<1>5. pend' = [pend EXCEPT ![r] = p]
      /\ UNCHANGED <<owners, docs, chunks, vectors, guc, lock, issued, crashes>>
  BY <1>1 DEF Flush
<1> HIDE DEF p
<1>6. PICK q \in Request : q = req[r]
  BY DEF Inv, TypeOK
<1> DEFINE next == [q EXCEPT !.pc = "flushed", !.auth = c]
<1>7. next \in Request
  <2>1. "flushed" \in Pcs
    BY DEF Pcs
  <2> QED BY <1>3, <2>1 DEF Request
<1>8. /\ next.pc = "flushed" /\ next.op = q.op /\ next.by = q.by /\ next.doc = q.doc
      /\ next.hash = q.hash /\ next.data = q.data /\ next.seen = q.seen
      /\ next.auth = c /\ next.tenant = q.tenant
  BY DEF Request
<1>9. req' = [req EXCEPT ![r] = next]
  BY <1>1, <1>6
<1> HIDE DEF next
<1>10. /\ req' \in [Requests -> Request] /\ req'[r] = next
       /\ \A s \in Requests : s # r => req'[s] = req[s]
  BY <1>7, <1>9 DEF Inv, TypeOK
<1>11. RequestOK(r) /\ PendOK(r)
  BY DEF Inv
<1>12. RequestOK(r)'
  BY <1>2, <1>6, <1>8, <1>10, <1>11 DEF RequestOK, Storing
<1>13. pend'[r] = p
  BY <1>4, <1>5 DEF Inv, TypeOK
<1>14. PendOK(r)'
  BY <1>2, <1>4, <1>6, <1>8, <1>10, <1>13 DEF PendOK, Flushing, AuthOps
<1>15. ConnsApart' /\ PooledConnectionsAreClean'
  <2>1. /\ Held(r)' \subseteq Held(r) \cup ({c} \ {NULL})
        /\ \A s \in Requests : s # r => Held(s)' = Held(s)
    BY <1>6, <1>8, <1>10 DEF Held
  <2>2. \A s \in Requests : req'[s].data = req[s].data /\ req'[s].tenant = req[s].tenant
    BY <1>6, <1>8, <1>10
  <2>3. ConnsApart'
    BY <1>3, <1>5, <2>1, <2>2 DEF Inv, ConnsApart
  <2>4. PooledConnectionsAreClean'
    BY <1>5, <2>2 DEF Inv, PooledConnectionsAreClean
  <2> QED BY <2>3, <2>4
<1>16. \A s \in Requests : s # r => \A y \in pend[s].docs : y.owner \notin dead
  BY <1>1 DEF OwnersFree, Others
<1> QED BY <1>2, <1>4, <1>5, <1>6, <1>8, <1>10, <1>12, <1>14, <1>15, <1>16, FlushStep
-----------------------------------------------------------------------------
(* The commit. *)

\* A commit that inserts nothing takes what it keeps through the cascade.
LEMMA CommitPurges ==
  ASSUME Inv, NEW r \in Requests, Commit(r), pend[r].docs = {}, pend[r].passages = {}
  PROVE  D!Purge(Kept(r)) /\ docs' = Kept(r)
BY DEF Commit, Left, D!Purge, D!DocIdsOf

\* Purging nothing changes nothing.
LEMMA PurgeNothing ==
  ASSUME D!IInv, D!Purge(docs)
  PROVE  UNCHANGED <<docs, chunks, vectors>>
<1>1. \A x \in docs : \A c \in D!Passages(x.id, x.hash) : c.doc = x.id
  BY DEF D!Passages
<1>2. \A c \in chunks : c.doc \in D!DocIdsOf(docs)
  BY <1>1 DEF D!IInv, D!DocumentsAreWhole, D!DocIdsOf
<1> QED BY <1>2 DEF D!Purge, D!IInv, D!DocumentsAreWhole

\* A commit is one operation of the document store, or nothing.
LEMMA CommitRefines ==
  ASSUME Inv, NEW r \in Requests, Commit(r)
  PROVE  [D!Next]_(D!vars)
<1>1. RequestOK(r) /\ PendOK(r) /\ D!IInv
  BY DEF Inv
<1>2. owners' = owners \ pend[r].gone
  BY DEF Commit
<1>3. CASE req[r].pc = "flushed" /\ req[r].op = "store"
  <2> DEFINE o == req[r].tenant
             d == req[r].doc
             h == req[r].hash
  <2>1. /\ pend[r].docs = {Document(d, o, h)} /\ pend[r].passages = Passages(d, h)
        /\ pend[r].removed = {} /\ pend[r].gone = {}
    BY <1>1, <1>3 DEF PendOK, Flushing, AuthOps
  <2>2. d \in DocIds /\ h \in Contents /\ Size[h] > 0
    BY <1>1, <1>3 DEF RequestOK, Storing
  <2>3. Document(d, o, h).owner = o /\ Document(d, o, h).hash = h
    BY DEF Document
  <2>4. /\ o \in owners
        /\ \A y \in docs : ~ (y.owner = o /\ y.hash = h)
    BY <2>1, <2>3 DEF Inv, InsertsKeepTheirLocks, SameKey
  <2>5. \A x \in docs : x.id # d
    BY <1>3 DEF Inv, FreshIds, Storing
  <2>6. Kept(r) = docs
    BY <2>1 DEF Kept
  <2>7. Left(r, chunks) = chunks /\ Left(r, vectors) = vectors
    <3>1. \A x \in docs : \A c \in D!Passages(x.id, x.hash) : c.doc = x.id
      BY DEF D!Passages
    <3> QED BY <1>1, <2>6, <3>1 DEF Left, D!IInv, D!DocumentsAreWhole
  <2>8. D!StoreDocument(o, d, h)
    BY <1>2, <2>1, <2>2, <2>4, <2>5, <2>6, <2>7
       DEF Commit, D!StoreDocument, D!DocIdsOf, D!Document, Document, D!Passages, Passages
  <2>9. o \in Owners
    BY <2>4 DEF Inv, TypeOK
  <2> QED BY <2>2, <2>8, <2>9 DEF D!Next
<1>4. CASE ~ (req[r].pc = "flushed" /\ req[r].op = "store")
  <2>1. pend[r].docs = {} /\ pend[r].passages = {}
    BY <1>1, <1>4 DEF PendOK, Flushing, Commit, At
  <2>2. D!Purge(Kept(r))
    BY <2>1, CommitPurges
  <2>3. CASE Kept(r) = docs /\ owners' = owners
    BY <1>1, <2>2, <2>3, PurgeNothing DEF D!vars
  <2>4. CASE pend[r].gone # {}
    <3>1. pend[r].removed = {}
      BY <1>1, <2>4 DEF PendOK, AuthOps
    <3> DEFINE gone == pend[r].gone \cap owners
    <3>2. Kept(r) = {x \in docs : x.owner \notin gone} /\ owners' = owners \ gone
      BY <1>1, <1>2, <3>1 DEF Kept, D!IInv, D!DocumentsHaveOwners
    <3>3. CASE gone = {}
      BY <2>3, <3>2, <3>3
    <3>4. CASE gone # {}
      <4>1. D!RemoveOwners(gone)
        BY <2>2, <3>2, <3>4 DEF D!RemoveOwners
      <4> QED BY <4>1 DEF D!Next
    <3> QED BY <3>3, <3>4
  <2>5. CASE pend[r].gone = {}
    <3>1. owners' = owners
      BY <1>2, <2>5
    <3>2. CASE \A x \in docs : x.id \notin pend[r].removed
      BY <2>3, <2>5, <3>1, <3>2 DEF Kept
    <3>3. ASSUME NEW x \in docs, x.id \in pend[r].removed PROVE [D!Next]_(D!vars)
      <4>1. pend[r].removed = {x.id}
        BY <1>1, <3>3 DEF PendOK
      <4>2. Kept(r) = {y \in docs : y.id # x.id}
        BY <2>5, <4>1 DEF Kept
      <4>3. D!RemoveDocument(x.owner, x.id)
        BY <2>2, <3>1, <4>2 DEF D!RemoveDocument
      <4>4. x.owner \in Owners /\ x.id \in DocIds
        BY DEF Inv, TypeOK, DocRow
      <4> QED BY <4>3, <4>4 DEF D!Next
    <3> QED BY <3>2, <3>3
  <2> QED BY <2>4, <2>5
<1> QED BY <1>3, <1>4

\* A commit keeps the invariant: the others' locks have kept it out of their way.
LEMMA CommitInv == ASSUME Inv, NEW r \in Requests, Commit(r) PROVE Inv'
<1> DEFINE next == IF req[r].data = NULL THEN NoReq
                   ELSE [NoReq EXCEPT !.pc = "closing", !.auth = req[r].auth]
<1>1. /\ req' = [req EXCEPT ![r] = next]
      /\ pend' = [pend EXCEPT ![r] = NoPend] /\ guc' = GucAfter(r)
      /\ owners' = owners \ pend[r].gone
      /\ docs' = Kept(r) \cup pend[r].docs
      /\ UNCHANGED <<lock, issued, crashes>>
  BY DEF Commit
<1>2. /\ next \in Request /\ next.pc \in {"idle", "closing"} /\ next.data = NULL
      /\ next.tenant = NULL /\ next.seen = {} /\ next.auth \in {NULL, req[r].auth}
      /\ NoPend.docs = {} /\ NoPend.removed = {} /\ NoPend.gone = {}
  <2>1. req[r].auth \in Conns \cup {NULL}
    BY DEF Inv, TypeOK, Request
  <2> QED BY <2>1 DEF NoReq, NoPend, Request, Pcs
<1> HIDE DEF next
<1>3. /\ req' \in [Requests -> Request] /\ req'[r] = next
      /\ \A q \in Requests : q # r => req'[q] = req[q] /\ pend'[q] = pend[q]
      /\ pend' \in [Requests -> Pending] /\ pend'[r] = NoPend
      /\ guc' \in [Conns -> Owners \cup {NULL}]
      /\ \A q \in Requests : RequestOK(q)' /\ PendOK(q)'
      /\ ConnsApart' /\ PooledConnectionsAreClean'
  BY <1>1, <1>2, Releasing
<1>4. D!IInv'
  <2>1. D!IInv
    BY DEF Inv
  <2> QED BY <2>1, CommitRefines, D!NextIInv, StoreAssumptions
<1>5. TypeOK'
  BY <1>1, <1>3, <1>4 DEF Inv, TypeOK, D!IInv, D!TypeOK, D!DocRow, DocRow, D!ChunkRow, ChunkRow
<1>6. docs' \subseteq docs \cup pend[r].docs
  BY <1>1 DEF Kept
<1>7. \A x \in pend[r].docs : x.id = req[r].doc /\ Storing(r)
  <2>1. PendOK(r)
    BY DEF Inv
  <2> QED BY <2>1 DEF PendOK, Flushing, Storing, Document
<1>8. FreshIds'
  <2>1. FreshIds
    BY DEF Inv
  <2>2. \A q \in Requests : /\ Storing(q)' => q # r /\ Storing(q) /\ req'[q].doc = req[q].doc
                            /\ pend'[q].removed \subseteq pend[q].removed
    BY <1>2, <1>3 DEF Storing
  <2> QED BY <1>1, <1>6, <1>7, <2>1, <2>2 DEF FreshIds
<1>9. InsertsKeepTheirLocks'
  <2>1. InsertsKeepTheirLocks
    BY DEF Inv
  <2>2. \A q \in Requests : /\ pend'[q].docs # {} => q # r
                            /\ pend'[q].docs \subseteq pend[q].docs
                            /\ pend'[q].gone \subseteq pend[q].gone
    BY <1>2, <1>3
  <2> QED BY <1>1, <1>6, <2>1, <2>2 DEF InsertsKeepTheirLocks, SameKey
<1>10. RemovalsAreOwn'
  <2>1. ASSUME NEW q \in Requests, NEW x \in docs', x.id \in pend'[q].removed
        PROVE  x.owner = req'[q].by
    <3>1. q # r /\ pend'[q] = pend[q] /\ req'[q] = req[q]
      BY <1>2, <1>3, <2>1
    <3>2. x \in docs
      BY <1>6, <1>7, <2>1, <3>1 DEF Inv, FreshIds
    <3> QED BY <2>1, <3>1, <3>2 DEF Inv, RemovalsAreOwn
  <2> QED BY <2>1 DEF RemovalsAreOwn
<1> QED BY <1>3, <1>4, <1>5, <1>8, <1>9, <1>10 DEF Inv
-----------------------------------------------------------------------------
\* Every step keeps the invariant.
LEMMA NextInv == Inv /\ [Next]_vars => Inv'
<1> SUFFICES ASSUME Inv, [Next]_vars PROVE Inv'
  OBVIOUS
<1>1. ASSUME NEW r \in Requests, NEW o \in Owners, NEW op \in Endpoints, Send(r, o, op)
      PROVE  Inv'
  BY <1>1, SendInv
<1>2. ASSUME NEW r \in Requests, Serve(r) PROVE Inv'
  BY <1>2, ValidateInv, SetGucInv, PoolTimeoutInv, ExistsInv, EmbeddingInv, ReadingInv,
     DeleteAccountInv, SweepOwnersInv, FlushDocumentInv, FlushPassagesInv, FlushDeleteInv,
     CommitInv, CloseInv, UnwindInv
     DEF Serve
<1>3. CASE UNCHANGED vars
  <2>1. TypeOK' /\ ConnsApart' /\ PooledConnectionsAreClean'
    BY <1>3 DEF vars, Inv, TypeOK, ConnsApart, PooledConnectionsAreClean, Held
  <2>2. D!IInv'
    BY <1>3 DEF vars, Inv, D!IInv, D!TypeOK, D!OneCopyPerTenant, D!DocumentsAreWhole,
                D!DocumentsHaveOwners
  <2>3. \A r \in Requests : RequestOK(r)' /\ PendOK(r)'
    BY <1>3 DEF vars, Inv, RequestOK, PendOK, Storing, Flushing
  <2>4. FreshIds' /\ InsertsKeepTheirLocks' /\ RemovalsAreOwn'
    BY <1>3 DEF vars, Inv, FreshIds, InsertsKeepTheirLocks, RemovalsAreOwn, Storing, SameKey
  <2> QED BY <2>1, <2>2, <2>3, <2>4 DEF Inv
<1> QED BY <1>1, <1>2, <1>3, CrashInv DEF Next

\* Every reachable state of the endpoints satisfies the inductive invariant.
THEOREM Invariance == Spec => []Inv
BY InitInv, NextInv, PTL DEF Spec

\* Requests, what they flushed, connections and tables keep their types.
THEOREM TypeCorrect == Spec => []TypeOK
BY Invariance, PTL DEF Inv

\* On every path a request can end by, its connection goes back without a tenant.
THEOREM PoolIsClean == Spec => []PooledConnectionsAreClean
BY Invariance, PTL DEF Inv

\* No request reads or changes a row of another tenant.
THEOREM TenantsAreIsolated == Spec => []TenantIsolation
<1>1. Inv => TenantIsolation
  <2> SUFFICES ASSUME Inv, NEW r \in Requests
               PROVE  /\ req[r].seen \subseteq {req[r].by}
                      /\ \A x \in pend[r].docs : x.owner = req[r].by
                      /\ \A x \in docs : x.id \in pend[r].removed => x.owner = req[r].by
    BY DEF TenantIsolation
  <2>1. RequestOK(r) /\ PendOK(r) /\ owners \subseteq Owners
    BY DEF Inv, TypeOK
  <2>2. ASSUME NEW x \in pend[r].docs PROVE x.owner = req[r].by
    <3>1. x.owner = req[r].tenant
      BY <2>1, <2>2 DEF PendOK, Document
    <3>2. x.owner \in owners
      BY <2>2 DEF Inv, InsertsKeepTheirLocks
    <3> QED BY <2>1, <3>1, <3>2, DocNullAssumption DEF RequestOK
  <2> QED BY <2>1, <2>2 DEF RequestOK, Inv, RemovalsAreOwn
<1> QED BY <1>1, Invariance, PTL

\* What a step does to the tables is one operation of the document store, or nothing.
LEMMA StepRefines ==
  ASSUME Inv, [Next]_vars
  PROVE  [D!Next]_(D!vars)
<1>1. ASSUME NEW r \in Requests, Commit(r) PROVE [D!Next]_(D!vars)
  BY <1>1, CommitRefines
<1>2. CASE UNCHANGED <<owners, docs, chunks, vectors>>
  BY <1>2 DEF D!vars
<1>3. ASSUME NEW r \in Requests, Serve(r), ~ Commit(r)
      PROVE  UNCHANGED <<owners, docs, chunks, vectors>>
  BY <1>3 DEF Serve, Validate, SetGuc, PoolTimeout, Exists, MeasureQuery, Encode, Encoded,
              Retrieve, Generate, LoadDocument, ListIds, DeleteAccountStatement, SweepOwners,
              FlushDocument, FlushPassages, FlushDelete, Close, Unwind, NoFlush, Flush
<1> QED BY <1>1, <1>2, <1>3 DEF Next, Send, Crash, vars

\* The two instances of the document store are the same formulas.
LEMMA SameStore ==
  /\ D!vars = Store!vars
  /\ D!Next <=> Store!Next
BY DEF D!Next, Store!Next, D!vars, Store!vars,
       D!StoreDocument, Store!StoreDocument, D!RemoveDocument, Store!RemoveDocument,
       D!AddOwner, Store!AddOwner, D!RemoveOwners, Store!RemoveOwners,
       D!Purge, Store!Purge, D!DocIdsOf, Store!DocIdsOf, D!Document, Store!Document,
       D!Passages, Store!Passages

\* However uploads, removals, deletions of accounts, sweeps and crashes interleave, the
\* endpoints implement the atomic document store.
THEOREM Refinement == Spec => ImplementsDocStore
<1>1. Init => Store!Init
  BY DEF Init, Store!Init
<1>2. Inv /\ [Next]_vars => [Store!Next]_(Store!vars)
  BY StepRefines, SameStore DEF D!vars, Store!vars
<1> QED BY <1>1, <1>2, Invariance, PTL DEF Spec, ImplementsDocStore, Store!Spec

\* Identical uploads that race leave one copy.
THEOREM NoDuplicates == Spec => []OneCopyPerTenant
<1>1. Inv => OneCopyPerTenant
  BY DEF Inv, D!IInv, D!OneCopyPerTenant, OneCopyPerTenant, Store!OneCopyPerTenant
<1> QED BY <1>1, Invariance, PTL

\* Whatever fails between an upload's statements, its document is stored whole or not.
THEOREM WholeDocuments == Spec => []DocumentsAreWhole
<1>1. Inv => DocumentsAreWhole
  BY DEF Inv, D!IInv, D!DocumentsAreWhole, DocumentsAreWhole, Store!DocumentsAreWhole,
         D!Passages, Store!Passages
<1> QED BY <1>1, Invariance, PTL

\* An upload that races the deletion of its account, or a sweep of it, leaves nothing.
THEOREM NothingWithoutOwner == Spec => []Store!DocumentsHaveOwners
<1>1. Inv => Store!DocumentsHaveOwners
  BY DEF Inv, D!IInv, D!DocumentsHaveOwners, Store!DocumentsHaveOwners
<1> QED BY <1>1, Invariance, PTL

\* No commit of any request takes two documents whose owners it leaves.
THEOREM CommitsLoseOneDocument == Spec => Store!TenantsKeepTheirDocuments
<1>1. Init => D!Init
  BY DEF Init, D!Init
<1>2. Inv /\ [Next]_vars => [D!Next]_(D!vars)
  BY StepRefines
<1>3. Spec => D!Spec
  BY <1>1, <1>2, Invariance, PTL DEF Spec, D!Spec
<1>4. D!Spec => D!TenantsKeepTheirDocuments
  BY D!TenantsKeep, DocNullAssumption, SizeAssumption
<1>5. [D!LosesAtMostOne]_(D!vars) => [Store!LosesAtMostOne]_(Store!vars)
  BY SameStore DEF D!LosesAtMostOne, Store!LosesAtMostOne, D!vars, Store!vars
<1> QED BY <1>3, <1>4, <1>5, PTL DEF D!TenantsKeepTheirDocuments,
                                     Store!TenantsKeepTheirDocuments
-----------------------------------------------------------------------------
(* Nobody waits in a circle. *)

\* The model's lock is held by a request that is encoding.
LockIsBusy == lock # NULL => lock \in Requests /\ req[lock].pc = "encoding"

\* A request that is encoding does nothing but finish that; the others leave it alone.
LEMMA LockNext == Inv /\ LockIsBusy /\ [Next]_vars => LockIsBusy'
<1> SUFFICES ASSUME Inv, LockIsBusy, [Next]_vars, lock' # NULL
             PROVE  lock' \in Requests /\ req'[lock'].pc = "encoding"
  BY DEF LockIsBusy
<1>1. req \in [Requests -> Request]
  BY DEF Inv, TypeOK
<1>2. ASSUME NEW r \in Requests, req[r].pc # "encoding", lock' = lock,
             \E next : req' = [req EXCEPT ![r] = next]
      PROVE  lock' \in Requests /\ req'[lock'].pc = "encoding"
  BY <1>1, <1>2 DEF LockIsBusy
<1>3. ASSUME NEW r \in Requests, Encode(r)
      PROVE  lock' \in Requests /\ req'[lock'].pc = "encoding"
  <2>1. Goto(r, "encoding") /\ lock' = r /\ "encoding" \in Pcs
    BY <1>3 DEF Encode, Pcs
  <2> QED BY <1>1, <2>1, Going DEF Advances
<1>4. ASSUME NEW r \in Requests, Serve(r), ~ Encode(r), ~ Encoded(r)
      PROVE  req[r].pc # "encoding" /\ lock' = lock
  BY <1>4 DEF Serve, Validate, SetGuc, PoolTimeout, Exists, MeasureQuery, Retrieve, Generate,
              LoadDocument, ListIds, DeleteAccountStatement, SweepOwners, FlushDocument,
              FlushPassages, FlushDelete, Commit, Close, Unwind, NoFlush, Flush, At
<1>5. ASSUME NEW r \in Requests, Serve(r)
      PROVE  \E next : req' = [req EXCEPT ![r] = next]
  BY <1>5 DEF Serve, Validate, SetGuc, PoolTimeout, Exists, MeasureQuery, Encode, Encoded,
              Retrieve, Generate, LoadDocument, ListIds, DeleteAccountStatement, SweepOwners,
              FlushDocument, FlushPassages, FlushDelete, Commit, Close, Unwind, Goto
<1>6. ASSUME NEW r \in Requests, Serve(r)
      PROVE  lock' \in Requests /\ req'[lock'].pc = "encoding"
  BY <1>2, <1>3, <1>4, <1>5, <1>6 DEF Encoded
<1>7. ASSUME NEW r \in Requests, NEW o \in Owners, NEW op \in Endpoints, Send(r, o, op)
      PROVE  lock' \in Requests /\ req'[lock'].pc = "encoding"
  BY <1>2, <1>7 DEF Send
<1> QED BY <1>6, <1>7 DEF Next, Crash, vars, LockIsBusy

\* Whoever keeps another one waiting does not wait: it is encoding, or it has flushed and
\* has only its commit before it.
LEMMA HolderProceeds ==
  ASSUME Inv, LockIsBusy, NEW r \in Requests, Waits(r)
  PROVE  \E q \in Requests : req[q].pc \in {"encoding", "inserting", "flushed"}
<1>1. CASE req[r].pc = "embedding" /\ lock # NULL
  BY <1>1 DEF LockIsBusy
<1>2. ASSUME NEW q \in Requests,
             pend[q].docs # {} \/ pend[q].removed # {} \/ pend[q].gone # {}
      PROVE  req[q].pc \in {"encoding", "inserting", "flushed"}
  <2>1. PendOK(q)
    BY DEF Inv
  <2> QED BY <1>2, <2>1 DEF PendOK, Flushing
<1>3. CASE ~ (req[r].pc = "embedding" /\ lock # NULL)
  <2>1. \E q \in Requests : pend[q].docs # {} \/ pend[q].removed # {} \/ pend[q].gone # {}
    BY <1>3 DEF Waits, InsertDecided, OwnersFree, BeingDeleted, Others
  <2> QED BY <1>2, <2>1
<1> QED BY <1>1, <1>3

\* Requests that wait for the model or for rows are waiting, all of them, for one that
\* does not: there is no deadlock among any number of uploads, removals and deletions.
THEOREM NoDeadlock == Spec => []SomebodyProceeds
<1>1. Init => LockIsBusy
  BY DEF Init, LockIsBusy
<1>2. Inv /\ LockIsBusy => SomebodyProceeds
  <2> SUFFICES ASSUME Inv, LockIsBusy, NEW r \in Requests, req[r].pc # "idle",
                      \A q \in Requests : req[q].pc # "idle" => Waits(q)
               PROVE  FALSE
    BY DEF SomebodyProceeds
  <2>1. PICK q \in Requests : req[q].pc \in {"encoding", "inserting", "flushed"}
    BY HolderProceeds
  <2> QED BY <2>1 DEF Waits, At
<1> QED BY <1>1, <1>2, Invariance, LockNext, PTL DEF Spec
-----------------------------------------------------------------------------
(* Nobody goes in a circle. *)

\* The steps of a request, in order; each way through the endpoints takes some of them.
Turn(pc) ==
  CASE pc = "idle" -> 0      [] pc = "sent" -> 1      [] pc = "validated" -> 2
    [] pc = "scoped" -> 3    [] pc = "embedding" -> 4 [] pc = "encoding" -> 5
    [] pc = "embedded" -> 6  [] pc = "prompted" -> 7  [] pc = "answered" -> 8
    [] pc = "inserting" -> 9 [] pc = "flushed" -> 10  [] OTHER -> 11

\* A step takes a request forward or leaves it alone; a slot is free again only when its
\* request has committed, was rolled back, or the process died.
Advance(r) ==
  \/ req'[r] = req[r]
  \/ Turn(req[r].pc) < Turn(req'[r].pc)
  \/ /\ req'[r] = NoReq
     /\ req[r].pc \in {"flushed", "closing", "raised", "lost"} \/ crashes' # crashes

RequestsAdvance == [][\A r \in Requests : Advance(r)]_vars

LEMMA ServeAdvances == ASSUME Inv, NEW r \in Requests, Serve(r) PROVE Advance(r)
<1>1. req \in [Requests -> Request]
  BY DEF Inv, TypeOK
<1>2. ASSUME NEW pc1, Goto(r, pc1) PROVE req'[r].pc = pc1
  BY <1>1, <1>2 DEF Goto, Request
<1>3. ASSUME NEW next, req' = [req EXCEPT ![r] = next] PROVE req'[r] = next
  BY <1>1, <1>3
<1>4. CASE Validate(r) \/ SetGuc(r)
  <2>1. CASE Validate(r)
    <3>1. ASSUME NEW c, NEW o,
                 req' = [req EXCEPT ![r].pc = "validated", ![r].auth = c, ![r].tenant = o]
          PROVE  req'[r].pc = "validated"
      BY <1>1, <3>1 DEF Request
    <3>2. req[r].pc = "sent" /\ req'[r].pc = "validated"
      BY <1>2, <2>1, <3>1 DEF Validate, Goto
    <3> QED BY <3>2 DEF Turn, Advance
  <2>2. CASE SetGuc(r)
    <3>1. req[r].pc = "validated" /\ req'[r].pc \in {"raised", "scoped"}
      BY <1>1, <1>2, <2>2 DEF SetGuc, Request
    <3> QED BY <3>1 DEF Turn, Advance
  <2> QED BY <1>4, <2>1, <2>2
<1>5. CASE PoolTimeout(r)
  <2>1. req[r].pc \in {"sent", "validated"} /\ req'[r].pc = "raised"
    BY <1>2, <1>5 DEF PoolTimeout
  <2> QED BY <2>1 DEF Turn, Advance
<1>6. CASE Exists(r) \/ MeasureQuery(r) \/ LoadDocument(r) \/ ListIds(r)
  <2>1. req[r].pc = "scoped"
    BY <1>6 DEF Exists, MeasureQuery, LoadDocument, ListIds, At
  <2>2. CASE MeasureQuery(r)
    <3>1. req'[r].pc \in {"raised", "embedding"}
      BY <1>2, <2>2 DEF MeasureQuery
    <3> QED BY <2>1, <3>1 DEF Turn, Advance
  <2>3. ASSUME NEW pc1, NEW seen1, req' = [req EXCEPT ![r].pc = pc1, ![r].seen = seen1]
        PROVE  req'[r].pc = pc1
    BY <1>1, <2>3 DEF Request
  <2>4. CASE Exists(r)
    <3>1. req'[r].pc \in {"raised", "embedding"}
      BY <2>3, <2>4 DEF Exists
    <3> QED BY <2>1, <3>1 DEF Turn, Advance
  <2>5. CASE LoadDocument(r) \/ ListIds(r)
    <3>1. req'[r].pc \in {"raised", "answered"}
      BY <2>3, <2>5 DEF LoadDocument, ListIds
    <3> QED BY <2>1, <3>1 DEF Turn, Advance
  <2> QED BY <1>6, <2>2, <2>4, <2>5
<1>7. CASE Encode(r) \/ Encoded(r)
  <2>1. \/ req[r].pc = "embedding" /\ req'[r].pc = "encoding"
        \/ req[r].pc = "encoding" /\ req'[r].pc \in {"answered", "embedded", "raised"}
    BY <1>2, <1>7 DEF Encode, Encoded
  <2> QED BY <2>1 DEF Turn, Advance
<1>8. CASE Retrieve(r) \/ Generate(r)
  <2>1. CASE Retrieve(r)
    <3>1. req[r].pc = "embedded" /\ req'[r].pc \in {"answered", "prompted"}
      BY <1>1, <1>2, <2>1 DEF Retrieve, At, Request
    <3> QED BY <3>1 DEF Turn, Advance
  <2>2. CASE Generate(r)
    <3>1. req[r].pc = "prompted" /\ req'[r].pc \in {"answered", "raised"}
      BY <1>2, <2>2 DEF Generate, At
    <3> QED BY <3>1 DEF Turn, Advance
  <2> QED BY <1>8, <2>1, <2>2
<1>9. CASE DeleteAccountStatement(r) \/ SweepOwners(r)
  <2>1. CASE DeleteAccountStatement(r)
    <3>1. req[r].pc = "validated" /\ req'[r].pc \in {"raised", "flushed"}
      BY <1>2, <2>1 DEF DeleteAccountStatement, At
    <3> QED BY <3>1 DEF Turn, Advance
  <2>2. CASE SweepOwners(r)
    <3>1. req[r].pc = "sent" /\ req'[r].pc = "flushed"
      BY <1>1, <2>2 DEF SweepOwners, At, Request
    <3> QED BY <3>1 DEF Turn, Advance
  <2> QED BY <1>9, <2>1, <2>2
<1>10. CASE FlushDocument(r) \/ FlushPassages(r) \/ FlushDelete(r)
  <2>1. \/ req[r].pc = "answered" /\ req'[r].pc \in {"lost", "inserting", "flushed"}
        \/ req[r].pc = "inserting" /\ req'[r].pc = "flushed"
    BY <1>2, <1>10 DEF FlushDocument, FlushPassages, FlushDelete, At
  <2> QED BY <2>1 DEF Turn, Advance
<1>11. CASE Commit(r)
  <2>1. /\ req[r].pc \in {"flushed", "answered"}
        /\ req[r].pc = "answered" => req[r].data # NULL
    BY <1>11 DEF Commit, At, Inv, RequestOK
  <2>2. req'[r] = IF req[r].data = NULL THEN NoReq
                  ELSE [NoReq EXCEPT !.pc = "closing", !.auth = req[r].auth]
    BY <1>3, <1>11 DEF Commit
  <2>3. CASE req[r].data = NULL
    BY <2>1, <2>2, <2>3 DEF Advance
  <2>4. CASE req[r].data # NULL
    <3>1. req'[r].pc = "closing"
      BY <2>2, <2>4 DEF NoReq
    <3> QED BY <2>1, <3>1 DEF Turn, Advance
  <2> QED BY <2>3, <2>4
<1>12. CASE Close(r) \/ Unwind(r)
  <2>1. req[r].pc \in {"closing", "raised", "lost"} /\ req'[r] = NoReq
    BY <1>3, <1>12 DEF Close, Unwind
  <2> QED BY <2>1 DEF Advance
<1> QED BY <1>4, <1>5, <1>6, <1>7, <1>8, <1>9, <1>10, <1>11, <1>12 DEF Serve

\* No step takes a request back or restarts it, and none touches another request: what
\* fairness has to drive is at most eleven steps long, so a request can only fail to end
\* by waiting for ever.
THEOREM RequestsMoveOn == Spec => RequestsAdvance
<1>1. Inv /\ [Next]_vars => [\A r \in Requests : Advance(r)]_vars
  <2> SUFFICES ASSUME Inv, Next, NEW r \in Requests PROVE Advance(r)
    OBVIOUS
  <2>1. req \in [Requests -> Request]
    BY DEF Inv, TypeOK
  <2>2. ASSUME NEW q \in Requests, q # r, \E next : req' = [req EXCEPT ![q] = next]
        PROVE  Advance(r)
    BY <2>1, <2>2 DEF Advance
  <2>3. CASE \E q \in Requests, o \in Owners, op \in Endpoints : Send(q, o, op)
    <3>1. PICK q \in Requests, o \in Owners, op \in Endpoints : Send(q, o, op)
      BY <2>3
    <3>2. PICK next : req' = [req EXCEPT ![q] = next] /\ next.pc = "sent" /\ req[q].pc = "idle"
      BY <3>1 DEF Send, NoReq
    <3>3. CASE q = r
      <4>1. req'[r].pc = "sent" /\ req[r].pc = "idle"
        BY <2>1, <3>2, <3>3
      <4> QED BY <4>1 DEF Turn, Advance
    <3> QED BY <2>2, <3>2, <3>3
  <2>4. CASE \E q \in Requests : Serve(q)
    <3>1. PICK q \in Requests : Serve(q)
      BY <2>4
    <3>2. \E next : req' = [req EXCEPT ![q] = next]
      BY <3>1 DEF Serve, Validate, SetGuc, PoolTimeout, Exists, MeasureQuery, Encode, Encoded,
                  Retrieve, Generate, LoadDocument, ListIds, DeleteAccountStatement,
                  SweepOwners, FlushDocument, FlushPassages, FlushDelete, Commit, Close,
                  Unwind, Goto
    <3> QED BY <2>2, <3>1, <3>2, ServeAdvances
  <2>5. CASE Crash
    BY <2>5, CrashBoundAssumption DEF Crash, Advance, Inv, TypeOK
  <2> QED BY <2>3, <2>4, <2>5 DEF Next
<1> QED BY <1>1, Invariance, PTL DEF Spec, RequestsAdvance
=============================================================================
