----------------------------- MODULE DocTables -----------------------------
(***************************************************************************)
(* The document tables of the service and the rows one upload writes.  A   *)
(* document's text is identified with its content_hash; filename, metadata *)
(* and the text of a chunk are left out.  A chunk is named by its document *)
(* and position, which are UNIQUE together, and a vector by its chunk.     *)
(***************************************************************************)
EXTENDS Integers

CONSTANTS
  Owners,      \* owners.id
  DocIds,      \* documents.id: the uuid4() of an upload
  Contents,    \* documents.content_hash
  Size,        \* Size[h]: how many chunks content h is cut into
  NULL         \* SQL NULL, Python None

ASSUME DocNullAssumption == NULL \notin Owners \cup DocIds \cup Contents

\* Content without a word character is refused before it is cut: Size 0 stands for it.
ASSUME SizeAssumption == Size \in [Contents -> Nat]

DocRow   == [id : DocIds, owner : Owners, hash : Contents]
ChunkRow == [doc : DocIds, position : Nat]

\* Mutated: owner_id is not set.
DocumentUnowned(d, o, h) == [id |-> d, owner |-> NULL, hash |-> h]

Document(d, o, h) == [id |-> d, owner |-> o, hash |-> h]

\* enumerate() numbers the chunks from 0; every chunk gets its vector.
Passages(d, h) == {[doc |-> d, position |-> p] : p \in 0..Size[h] - 1}
=============================================================================
