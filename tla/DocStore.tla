------------------------------ MODULE DocStore ------------------------------
(***************************************************************************)
(* What the document store promises: an upload, a removal or the end of an *)
(* owner is one atomic change of documents, chunks and vectors.            *)
(***************************************************************************)
EXTENDS DocTables

VARIABLES owners, docs, chunks, vectors

vars == <<owners, docs, chunks, vectors>>

DocIdsOf(rows) == {x.id : x \in rows}

\* No document yet; some tenants may have signed up.
Init ==
  /\ owners \in SUBSET Owners
  /\ docs = {}
  /\ chunks = {}
  /\ vectors = {}
-----------------------------------------------------------------------------
\* The ON DELETE CASCADE chain documents -> chunks -> vectors.
Purge(keep) ==
  /\ docs' = keep
  /\ chunks' = {c \in chunks : c.doc \in DocIdsOf(keep)}
  /\ vectors' = {v \in vectors : v.doc \in DocIdsOf(keep)}

\* store_document: the document, its chunks and their vectors land together.
StoreDocument(o, d, h) ==
  /\ o \in owners
  /\ Size[h] > 0
  /\ d \notin DocIdsOf(docs)
  /\ \A x \in docs : ~ (x.owner = o /\ x.hash = h)
  /\ docs' = docs \cup {Document(d, o, h)}
  /\ chunks' = chunks \cup Passages(d, h)
  /\ vectors' = vectors \cup Passages(d, h)
  /\ UNCHANGED owners

\* remove_document, of a document the tenant owns.
RemoveDocument(o, d) ==
  /\ \E x \in docs : x.id = d /\ x.owner = o
  /\ Purge({x \in docs : x.id # d})
  /\ UNCHANGED owners

\* registration and anonymous_mint: a tenant that owns nothing yet.
AddOwner(o) ==
  /\ o \notin owners
  /\ owners' = owners \cup {o}
  /\ UNCHANGED <<docs, chunks, vectors>>

\* delete_account and sweep_owners cascade to everything their owners stored.
RemoveOwners(gone) ==
  /\ gone # {}
  /\ owners' = owners \ gone
  /\ Purge({x \in docs : x.owner \notin gone})

Next ==
  \/ \E o \in Owners, d \in DocIds, h \in Contents : StoreDocument(o, d, h)
  \/ \E o \in Owners, d \in DocIds : RemoveDocument(o, d)
  \/ \E o \in Owners : AddOwner(o)
  \/ \E gone \in SUBSET owners : RemoveOwners(gone)

Spec == Init /\ [][Next]_vars
-----------------------------------------------------------------------------
TypeOK ==
  /\ owners \subseteq Owners
  /\ docs \subseteq DocRow
  /\ chunks \subseteq ChunkRow
  /\ vectors \subseteq ChunkRow

\* A tenant never holds the same content twice, whichever upload came first.
OneCopyPerTenant ==
  \A x, y \in docs :
    x.id = y.id \/ (x.owner = y.owner /\ x.hash = y.hash) => x = y

\* Search and citations rely on it: a stored document has all of its chunks, every
\* chunk its vector, and no chunk or vector is left of a document that is gone.
DocumentsAreWhole ==
  /\ chunks = UNION {Passages(x.id, x.hash) : x \in docs}
  /\ vectors = chunks

\* Nothing is stored for an owner that was deleted or swept.
DocumentsHaveOwners == \A x \in docs : x.owner \in owners

\* While an owner exists only its own removals take its documents away, one at a
\* time: no step removes documents of two living tenants or two of the same one.
LosesAtMostOne ==
  \A x, y \in docs \ docs' : x.owner \in owners' /\ y.owner \in owners' => x = y
TenantsKeepTheirDocuments == [][LosesAtMostOne]_vars
=============================================================================
