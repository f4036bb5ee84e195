------------------------------ MODULE Answers ------------------------------
(***************************************************************************)
(* POST /query/generate while the documents change under it.  Retrieval is *)
(* three statements at READ COMMITTED (vectors, chunks, filenames), each   *)
(* with a snapshot of its own; the prompt then goes to the LLM, which may  *)
(* answer, fail or say nothing, and the answer keeps the markers that name *)
(* a passage.  Documents come and go by the actions of DocStore.           *)
(*                                                                         *)
(* One query is followed at a time: a query writes nothing.  Its session   *)
(* is valid; DocRequests has the path to it.  A reply is the set of the    *)
(* markers in its text.  The HTTP client the LLM is reached with is only   *)
(* borrowed: the application's lifespan closes it.                         *)
(***************************************************************************)
EXTENDS DocTables, SequencesExt

CONSTANTS
  Distance,     \* Distance[d][p]: passage p of document d from the question
  Threshold,    \* settings.retrieval_threshold
  TopK,         \* settings.retrieval_top_k
  QuerySizes,   \* bound: sizes of a question, in tokens
  MaxSize,      \* chunker.max_size
  Replies       \* bound: what the LLM may write

\* What a question can be answered with.
Statuses == {200, 413, 500, 502}

\* How a step of a question can fail.  "Exception" is every error that is no AppError: the
\* model's, a statement's, the pool's, httpx's own.
Errors == {"QueryTooLong", "LLMError", "LLMBadAnswer", "Exception"}

VARIABLES
  owners, docs, chunks, vectors,   \* the committed tables
  issued,                          \* the document ids drawn so far
  ask,                             \* the query
  http                             \* app.state.http: open or closed

tables == <<owners, docs, chunks, vectors>>
vars   == <<owners, docs, chunks, vectors, issued, ask, http>>

ASSUME AnswersAssumption ==
  /\ TopK \in Nat \ {0} /\ Threshold \in Nat /\ MaxSize \in Nat /\ QuerySizes \subseteq Nat
  /\ \A d \in DocIds, h \in Contents : \A p \in 0..Size[h] - 1 : Distance[d][p] \in Nat
  /\ Replies \subseteq SUBSET Nat
  /\ NULL \notin Statuses

NoAsk == [pc |-> "idle", tenant |-> NULL, ranked |-> <<>>, found |-> <<>>,
          citations |-> <<>>, content |-> {}, status |-> NULL]

Store == INSTANCE DocStore WITH owners <- owners, docs <- docs, chunks <- chunks,
                                vectors <- vectors

Init ==
  /\ Store!Init /\ owners = Owners
  /\ issued = {}
  /\ ask = NoAsk
  /\ http = "open"
-----------------------------------------------------------------------------
(* Operators. *)

Far(c) == Distance[c.doc][c.position]

\* owner_isolation of documents: the ids a SELECT of the query's tenant gets.
Visible == {x.id : x \in {y \in docs : y.owner = ask.tenant}}

\* Mutated: the table has no policy of its own.
ChunksWithoutPolicy == chunks

\* owner_isolation of chunks: document_id IN (SELECT id FROM documents).
SeenChunks == {c \in chunks : c.doc \in Visible}

\* owner_isolation of vectors: chunk_id IN (SELECT id FROM chunks).
SeenVectors == {v \in vectors : v \in SeenChunks}

\* PgVectorStore.search: rows within the threshold, nearest first, ties by a random id,
\* at most k of them.  The HNSW index is approximate: it may miss any of them.
Rankings ==
  {s \in BoundedSeq({v \in SeenVectors : Far(v) <= Threshold}, TopK) :
     IsInjective(s) /\ \A i, j \in DOMAIN s : i < j => Far(s[i]) <= Far(s[j])}

\* Mutated: the chunks are used in the order the statement returns them.
FetchedByPosition(ranked) ==
  {SetToSortSeq(SeenChunks \cap ToSet(ranked), LAMBDA c, d : c.position < d.position)}

\* The sequence of the numbers S in increasing order, alone in a set.
InOrder(S, n) ==
  {at \in BoundedSeq(S, n) : ToSet(at) = S /\ \A i, j \in DOMAIN at : i < j => at[i] < at[j]}

\* get_chunks_by_ids, put back in the order of the ranking; a passage that is gone by
\* now is skipped.
Fetched(ranked) ==
  LET kept == {i \in DOMAIN ranked : ranked[i] \in SeenChunks}
  IN {[i \in DOMAIN at |-> ranked[at[i]]] : at \in InOrder(kept, Len(ranked))}

\* Mutated: only the first document's name is asked for.
NamedFirst(found) ==
  [i \in DOMAIN found |->
     [chunk |-> found[i],
      filename |-> IF found[i].doc \in Visible \cap {found[1].doc} THEN found[i].doc ELSE NULL]]

\* get_filename_by_ids; "" (here NULL) for a document that is gone by now.
Named(found) ==
  [i \in DOMAIN found |->
     [chunk |-> found[i],
      filename |-> IF found[i].doc \in Visible THEN found[i].doc ELSE NULL]]

\* Mutated: markers are taken to count from 0.
StrippedFromZero(reply, n) == {m \in reply : 0 <= m /\ m <= n}

\* strip_invalid_markers: markers count from 1.
Stripped(reply, n) == {m \in reply : 1 <= m /\ m <= n}
-----------------------------------------------------------------------------
(* Steps of a query. *)

\* Every error the application raises on purpose carries its status; the rest are 500.
StatusOf ==
  [error \in Errors |->
     CASE error = "QueryTooLong" -> 413
       [] error \in {"LLMError", "LLMBadAnswer"} -> 502
       [] OTHER -> 500]

Goto(pc) == ask' = [ask EXCEPT !.pc = pc]
Raise(error) == ask' = [ask EXCEPT !.pc = "ended", !.status = StatusOf[error]]

\* The request gets its connections, or fails in the dependencies that want them.
Ask(o) ==
  /\ ask.pc = "idle" /\ o \in owners /\ http = "open"
  /\ LET asked == [NoAsk EXCEPT !.pc = "asked", !.tenant = o]
     IN ask' \in {asked, [asked EXCEPT !.pc = "ended", !.status = StatusOf["Exception"]]}
  /\ UNCHANGED <<tables, issued, http>>

\* The question is measured, then embedded in a worker thread, where the model may raise.
EmbedQuery ==
  /\ ask.pc = "asked"
  /\ \E size \in QuerySizes :
       IF size > MaxSize THEN Raise("QueryTooLong") ELSE Goto("embedded") \/ Raise("Exception")
  /\ UNCHANGED <<tables, issued, http>>

\* Each of the three statements may fail.
Search ==
  /\ ask.pc = "embedded"
  /\ \/ \E s \in Rankings : ask' = [ask EXCEPT !.pc = "searched", !.ranked = s]
     \/ Raise("Exception")
  /\ UNCHANGED <<tables, issued, http>>

FetchChunks ==
  /\ ask.pc = "searched"
  /\ \/ \E found \in Fetched(ask.ranked) :
          ask' = [ask EXCEPT !.pc = "fetched", !.found = found]
     \/ Raise("Exception")
  /\ UNCHANGED <<tables, issued, http>>

\* Without passages the canned answer is given and the LLM is not asked.
FetchFilenames ==
  /\ ask.pc = "fetched"
  /\ \/ LET citations == Named(ask.found)
        IN IF citations = <<>>
           THEN ask' = [ask EXCEPT !.pc = "ended", !.status = 200]
           ELSE ask' = [ask EXCEPT !.pc = "prompted", !.citations = citations]
     \/ Raise("Exception")
  /\ UNCHANGED <<tables, issued, http>>

\* A client that was closed before the call is found closed.
CallLLM ==
  /\ ask.pc = "prompted"
  /\ IF http = "closed" THEN Raise("LLMError") ELSE Goto("posted")
  /\ UNCHANGED <<tables, issued, http>>

Generate ==
  /\ ask.pc = "posted"
  /\ \E reply \in Replies :
       ask' = [ask EXCEPT !.pc = "ended", !.status = 200,
                          !.content = Stripped(reply, Len(ask.citations))]
  /\ UNCHANGED <<tables, issued, http>>

\* Mutated: the client has no timeout, and the upstream may stay silent.
GenerateWaits ==
  /\ ask.pc = "posted"
  /\ FALSE
  /\ UNCHANGED <<vars>>

\* The upstream refuses, breaks off, answers something that is not a text, or stays
\* silent for llm_timeout.  A client closed under the call may fail with an error
\* nobody catches.
GenerateFails ==
  /\ ask.pc = "posted"
  /\ \E error \in {"LLMError", "LLMBadAnswer"} \cup
                  (IF http = "closed" THEN {"Exception"} ELSE {}) : Raise(error)
  /\ UNCHANGED <<tables, issued, http>>

Return ==
  /\ ask.pc = "ended"
  /\ ask' = NoAsk
  /\ UNCHANGED <<tables, issued, http>>

\* The end of lifespan closes the client, whoever still holds it.  Requests it has cut
\* off end with the process; the next one opens a client of its own.
Shutdown ==
  /\ \/ http = "open" /\ http' = "closed" /\ UNCHANGED ask
     \/ http = "closed" /\ http' = "open" /\ ask' = NoAsk
  /\ UNCHANGED <<tables, issued>>

Serve == EmbedQuery \/ Search \/ FetchChunks \/ FetchFilenames \/ CallLLM \/ Return

\* Other requests of the tenants, and new tenants; document ids are never drawn twice.
DocumentsChange ==
  /\ \/ \E o \in Owners, d \in DocIds \ issued, h \in Contents :
          Store!StoreDocument(o, d, h) /\ issued' = issued \cup {d}
     \/ \E o \in Owners, d \in DocIds : Store!RemoveDocument(o, d) /\ UNCHANGED issued
     \/ \E o \in Owners : Store!AddOwner(o) /\ UNCHANGED issued
     \/ \E gone \in SUBSET owners : Store!RemoveOwners(gone) /\ UNCHANGED issued
  /\ UNCHANGED <<ask, http>>

Next ==
  \/ \E o \in Owners : Ask(o)
  \/ Serve
  \/ Generate \/ GenerateFails
  \/ Shutdown
  \/ DocumentsChange

Spec == Init /\ [][Next]_vars

\* The server runs every step on, and the client's timeout ends a call of the LLM that
\* nothing else ends.  The LLM owes no answer.
FairSpec == Spec /\ WF_vars(Serve) /\ WF_vars(GenerateFails)
-----------------------------------------------------------------------------
Citation == [chunk : ChunkRow, filename : DocIds \cup {NULL}]

Query ==
  [pc : {"idle", "asked", "embedded", "searched", "fetched", "prompted", "posted", "ended"},
   tenant : Owners \cup {NULL}, ranked : Seq(ChunkRow), found : Seq(ChunkRow),
   citations : Seq(Citation), content : SUBSET Nat, status : {NULL} \cup Statuses]

TypeOK ==
  /\ Store!TypeOK
  /\ issued \subseteq DocIds
  /\ ask \in Query
  /\ ask.content \subseteq 1..Len(ask.citations)
  /\ http \in {"open", "closed"}

Cited == ask.citations

\* Passages are numbered nearest first and none twice, whatever disappeared between the
\* statements that found, fetched and named them.
CitationsKeepTheRanking ==
  \A i, j \in DOMAIN Cited : i < j =>
    /\ Far(Cited[i].chunk) <= Far(Cited[j].chunk)
    /\ Cited[i].chunk # Cited[j].chunk

\* A passage that was found is missing from the prompt, or shown without a name, only if
\* its document was removed while the question was being answered: it is not there any
\* more, and never will be.
MissingOnlyIfRemoved ==
  /\ \A i \in DOMAIN Cited : Cited[i].filename = NULL => Cited[i].chunk.doc \notin Visible
  /\ ask.pc \in {"fetched", "prompted", "posted"} =>
       \A c \in ToSet(ask.ranked) \ ToSet(ask.found) : c.doc \notin Visible

\* No statement finds, fetches or cites a passage of another tenant, although none of them
\* names the tenant and the policies of chunks and vectors do not either.
PassagesAreTheTenants ==
  \A c \in ToSet(ask.ranked) \cup ToSet(ask.found) \cup {Cited[i].chunk : i \in DOMAIN Cited} :
    \A x \in docs : x.id = c.doc => x.owner = ask.tenant

\* Every question is answered or refused, a silent LLM included.
EveryQuestionEnds == ask.pc # "idle" ~> ask.pc = "idle"
=============================================================================
