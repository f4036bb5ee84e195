--------------------------- MODULE DocStoreProofs ---------------------------
(***************************************************************************)
(* Proofs about DocStore, for any owners, documents and contents.  The     *)
(* invariant is inductive as the conjunction of its parts: a cascade keeps *)
(* documents whole only because an id names one document.                  *)
(***************************************************************************)
EXTENDS DocStore, TLAPS

IInv == TypeOK /\ OneCopyPerTenant /\ DocumentsAreWhole /\ DocumentsHaveOwners

\* The rows one upload writes are chunk rows of its own document.
LEMMA PassagesOfDocument ==
  ASSUME NEW d \in DocIds, NEW h \in Contents
  PROVE  /\ Passages(d, h) \subseteq ChunkRow
         /\ \A c \in Passages(d, h) : c.doc = d
BY SizeAssumption DEF Passages, ChunkRow

\* The empty store satisfies the invariant.
LEMMA InitIInv == Init => IInv
BY DEF Init, IInv, TypeOK, OneCopyPerTenant, DocumentsAreWhole, DocumentsHaveOwners

\* Keeping some of the documents, with the cascade, keeps the parts of the invariant
\* that are about documents.
LEMMA PurgeKeepsWhole ==
  ASSUME IInv, NEW keep \in SUBSET docs, Purge(keep)
  PROVE  /\ docs' \subseteq DocRow /\ chunks' \subseteq ChunkRow /\ vectors' \subseteq ChunkRow
         /\ OneCopyPerTenant'
         /\ DocumentsAreWhole'
<1>1. /\ docs' \subseteq DocRow /\ chunks' \subseteq ChunkRow /\ vectors' \subseteq ChunkRow
  BY DEF IInv, TypeOK, Purge
<1>2. OneCopyPerTenant'
  BY DEF IInv, OneCopyPerTenant, Purge
<1>3. ASSUME NEW x \in docs
      PROVE  \A c \in Passages(x.id, x.hash) : c.doc = x.id
  BY PassagesOfDocument DEF IInv, TypeOK, DocRow
<1>4. \A c \in chunks : c.doc \in DocIdsOf(keep)
                          <=> \E x \in keep : c \in Passages(x.id, x.hash)
  BY <1>3 DEF IInv, OneCopyPerTenant, DocumentsAreWhole, DocIdsOf
<1>5. chunks' = UNION {Passages(x.id, x.hash) : x \in docs'}
  BY <1>4 DEF IInv, DocumentsAreWhole, Purge
<1>6. vectors' = chunks'
  BY DEF IInv, DocumentsAreWhole, Purge
<1> QED BY <1>1, <1>2, <1>5, <1>6 DEF DocumentsAreWhole

\* An upload of new content keeps it.
LEMMA StoreIInv ==
  ASSUME IInv, NEW o \in Owners, NEW d \in DocIds, NEW h \in Contents, StoreDocument(o, d, h)
  PROVE  IInv'
<1> DEFINE new == Document(d, o, h)
<1>1. new \in DocRow /\ new.id = d /\ new.owner = o /\ new.hash = h
  BY DEF Document, DocRow
<1>2. docs' = docs \cup {new}
  BY DEF StoreDocument
<1> HIDE DEF new
<1>3. TypeOK'
  BY <1>1, <1>2, PassagesOfDocument DEF IInv, TypeOK, StoreDocument
<1>4. OneCopyPerTenant'
  BY <1>1, <1>2 DEF IInv, OneCopyPerTenant, StoreDocument, DocIdsOf
<1>5. DocumentsAreWhole'
  <2>1. UNION {Passages(x.id, x.hash) : x \in docs'}
          = (UNION {Passages(x.id, x.hash) : x \in docs}) \cup Passages(d, h)
    BY <1>1, <1>2
  <2> QED BY <2>1 DEF IInv, DocumentsAreWhole, StoreDocument
<1>6. DocumentsHaveOwners'
  BY <1>1, <1>2 DEF IInv, DocumentsHaveOwners, StoreDocument
<1> QED BY <1>3, <1>4, <1>5, <1>6 DEF IInv

\* Every step keeps the invariant.
LEMMA NextIInv == IInv /\ [Next]_vars => IInv'
<1> SUFFICES ASSUME IInv, [Next]_vars PROVE IInv'
  OBVIOUS
<1>1. CASE \E o \in Owners, d \in DocIds, h \in Contents : StoreDocument(o, d, h)
  BY <1>1, StoreIInv
<1>2. ASSUME NEW o \in Owners, NEW d \in DocIds, RemoveDocument(o, d) PROVE IInv'
  <2>1. /\ docs' \subseteq DocRow /\ chunks' \subseteq ChunkRow /\ vectors' \subseteq ChunkRow
        /\ OneCopyPerTenant'
        /\ DocumentsAreWhole'
    <3>1. Purge({x \in docs : x.id # d})
      BY <1>2 DEF RemoveDocument
    <3> QED BY <3>1, PurgeKeepsWhole
  <2>2. owners' = owners /\ docs' \subseteq docs
    BY <1>2 DEF RemoveDocument, Purge
  <2> QED BY <2>1, <2>2 DEF IInv, TypeOK, DocumentsHaveOwners
<1>3. ASSUME NEW gone \in SUBSET owners, RemoveOwners(gone) PROVE IInv'
  <2>1. /\ docs' \subseteq DocRow /\ chunks' \subseteq ChunkRow /\ vectors' \subseteq ChunkRow
        /\ OneCopyPerTenant'
        /\ DocumentsAreWhole'
    <3>1. Purge({x \in docs : x.owner \notin gone})
      BY <1>3 DEF RemoveOwners
    <3> QED BY <3>1, PurgeKeepsWhole
  <2>2. owners' = owners \ gone /\ docs' = {x \in docs : x.owner \notin gone}
    BY <1>3 DEF RemoveOwners, Purge
  <2> QED BY <2>1, <2>2 DEF IInv, TypeOK, DocumentsHaveOwners
<1>4. ASSUME NEW o \in Owners, AddOwner(o) PROVE IInv'
  BY <1>4 DEF AddOwner, IInv, TypeOK, OneCopyPerTenant, DocumentsAreWhole, DocumentsHaveOwners
<1>5. CASE UNCHANGED vars
  BY <1>5 DEF vars, IInv, TypeOK, OneCopyPerTenant, DocumentsAreWhole, DocumentsHaveOwners
<1> QED BY <1>1, <1>2, <1>3, <1>4, <1>5 DEF Next

\* Every reachable state of the document tables satisfies the inductive invariant.
THEOREM Invariance == Spec => []IInv
BY InitIInv, NextIInv, PTL DEF Spec

\* The tables hold rows of their types.
THEOREM TypeCorrect == Spec => []TypeOK
BY Invariance, PTL DEF IInv

\* However uploads, removals and deletions of owners follow one another, a tenant
\* never holds two copies of one content.
THEOREM NoDuplicates == Spec => []OneCopyPerTenant
BY Invariance, PTL DEF IInv

\* Every stored document keeps exactly its chunks and their vectors.
THEOREM WholeDocuments == Spec => []DocumentsAreWhole
BY Invariance, PTL DEF IInv

\* No document outlives the owner it was stored for.
THEOREM NothingWithoutOwner == Spec => []DocumentsHaveOwners
BY Invariance, PTL DEF IInv

\* A step that leaves two documents' owners alive removes at most one of the documents.
THEOREM TenantsKeep == Spec => TenantsKeepTheirDocuments
<1>1. IInv /\ [Next]_vars => [LosesAtMostOne]_vars
  <2> SUFFICES ASSUME IInv, Next PROVE LosesAtMostOne
    OBVIOUS
  <2>1. CASE \E o \in Owners, d \in DocIds, h \in Contents : StoreDocument(o, d, h)
    BY <2>1 DEF StoreDocument, LosesAtMostOne
  <2>2. CASE \E o \in Owners, d \in DocIds : RemoveDocument(o, d)
    BY <2>2 DEF RemoveDocument, Purge, LosesAtMostOne, IInv, OneCopyPerTenant
  <2>3. CASE \E gone \in SUBSET owners : RemoveOwners(gone)
    BY <2>3 DEF RemoveOwners, Purge, LosesAtMostOne
  <2>4. CASE \E o \in Owners : AddOwner(o)
    BY <2>4 DEF AddOwner, LosesAtMostOne
  <2> QED BY <2>1, <2>2, <2>3, <2>4 DEF Next
<1> QED BY <1>1, Invariance, PTL DEF Spec, TenantsKeepTheirDocuments
=============================================================================
