------------------------------ MODULE Tenants ------------------------------
(***************************************************************************)
(* The whole database: the identity tables and the document tables, joined *)
(* by documents.owner_id.  A tenant is an owner row; its documents hang on *)
(* it by a cascading foreign key, so every auth function that deletes      *)
(* owners is also an operation on documents.                               *)
(***************************************************************************)
EXTENDS AuthStore

CONSTANTS
  DocIds,      \* documents.id
  Contents,    \* documents.content_hash
  Size         \* Size[h]: how many chunks content h is cut into

ASSUME TenantsAssumption == Size \in [Contents -> Nat] /\ NULL \notin DocIds \cup Contents

VARIABLES docs, chunks, vectors

documents == <<docs, chunks, vectors>>

\* The document store of exactly the owners the identity tables have.
Docs == INSTANCE DocStore WITH owners <- OwnerIds, docs <- docs, chunks <- chunks,
                               vectors <- vectors

TenantInit == Init /\ docs = {} /\ chunks = {} /\ vectors = {}
-----------------------------------------------------------------------------
\* Mutated: documents.owner_id without ON DELETE CASCADE.
DocumentsStay == UNCHANGED documents

\* documents.owner_id ON DELETE CASCADE: documents go with their owners.
Cascade == Docs!Purge({x \in docs : x.owner \in OwnerIds'})

TenantNext ==
  \/ Next /\ Cascade
  \/ /\ UNCHANGED vars
     /\ \E o \in Owners, d \in DocIds :
          \/ \E h \in Contents : Docs!StoreDocument(o, d, h)
          \/ Docs!RemoveDocument(o, d)

TenantSpec == TenantInit /\ [][TenantNext]_<<vars, documents>>
-----------------------------------------------------------------------------
\* Registrations, mints, deletions and sweeps are to the documents what the document
\* store calls adding and removing owners: the joined tables implement it.
DocumentsFollowOwners == Docs!Spec

\* A tenant is in use while a session of it is valid.
InUse(o) == \E s \in sessions : s.owner = o /\ SessionValid(s, clock)

\* No step takes documents of two tenants in use; a sweep that deletes owners, which looks
\* at neither sessions nor documents, takes none of a tenant that somebody can reach.
LosesOfOneTenantInUse ==
  LET lost == {x \in docs \ docs' : InUse(x.owner)}
  IN /\ \A x, y \in lost : x.owner = y.owner
     /\ lost # {} /\ owners' # owners => ~ Sweeping
TenantsInUseKeepDocuments == [][LosesOfOneTenantInUse]_<<vars, documents>>
=============================================================================
