-------------------------------- MODULE Sweep --------------------------------
(***************************************************************************)
(* The evaluation script's sweep: every golden question is asked of the    *)
(* whole corpus at every chunk size, each size with a tenant of its own in *)
(* the test database.  A run can fail at every await; the script undoes    *)
(* nothing then, and the next run meets what it left.  The rows of the     *)
(* loops over sizes, files and questions come in any order.                *)
(***************************************************************************)
EXTENDS DocTables, FiniteSets

CONSTANTS
  ChunkSizes,  \* CHUNK_SIZES
  Files,       \* the corpus, by relative path
  Goldens,     \* lines goldens.jsonl may have
  MaxRuns      \* bound: how often the script is started

\* A constant list of sizes, and a file of lines.
ASSUME SweepAssumption == IsFiniteSet(ChunkSizes) /\ IsFiniteSet(Goldens)

VARIABLES
  corpus,      \* corpus[f]: the content of file f
  golds,       \* the lines of goldens.jsonl
  pc,
  tenants,     \* lifespan.tenants: the tenant of each chunk size set up so far
  stored,      \* the chunk sizes whose corpus is committed
  flushed,     \* documents of the open transaction
  results,
  owners, docs, \* committed: the owners, and documents with their file
  runs

run  == <<pc, tenants, stored, flushed, results, runs>>
vars == <<corpus, golds, run, owners, docs>>

Init ==
  /\ corpus \in [Files -> Contents]
  /\ golds \in SUBSET Goldens
  /\ pc = "started" /\ tenants = << >> /\ stored = {} /\ flushed = {} /\ results = {}
  /\ owners = {} /\ docs = {}
  /\ runs = 1
-----------------------------------------------------------------------------
\* A quote must match as often as its author says and be cut at word boundaries.
Resolves(a) ==
  a.document \in Files /\ a.matches = a.occurrence /\ a.matches > 0 /\ a.atWords

\* Goldens without an answer are dropped after resolving.
Asked == {g \in golds : g.tier # "unanswerable"}

\* main up to setup(): one quote that does not resolve ends the run.
ResolveGoldens ==
  /\ pc = "started"
  /\ pc' = IF \A g \in golds : \A a \in g.answers : Resolves(a) THEN "setup" ELSE "failed"
  /\ UNCHANGED <<corpus, golds, tenants, stored, flushed, results, runs, owners, docs>>

\* setup: a chunker and an anonymous tenant per size; the last one ends it.
MakeAnonymousTenant(size, o) ==
  /\ pc = "setup"
  /\ size \notin DOMAIN tenants /\ o \notin owners
  /\ owners' = owners \cup {o}
  /\ tenants' = [s \in DOMAIN tenants \cup {size} |-> IF s = size THEN o ELSE tenants[s]]
  /\ pc' = IF DOMAIN tenants' = ChunkSizes THEN "ingesting" ELSE "setup"
  /\ UNCHANGED <<corpus, golds, stored, flushed, results, runs, docs>>

\* What a session scoped to tenant o sees, its own flushed rows included.
Visible(o) == {x \in docs \cup flushed : x.owner = o}

\* process_corpus, one store_document: content the tenant has, or without words, ends
\* the run; autoflush shows each document to the check of the next.
StoreDocument(size, f) ==
  /\ pc = "ingesting" /\ size \notin stored
  /\ \A x \in flushed : x.owner = tenants[size]
  /\ f \notin {x.file : x \in flushed}
  /\ IF Size[corpus[f]] = 0 \/ \E x \in Visible(tenants[size]) : x.hash = corpus[f]
     THEN pc' = "failed" /\ flushed' = {}
     ELSE /\ flushed' = flushed \cup {[owner |-> tenants[size], file |-> f, hash |-> corpus[f]]}
          /\ UNCHANGED pc
  /\ UNCHANGED <<corpus, golds, tenants, stored, results, runs, owners, docs>>

\* The transaction of one size commits with its last file.
CommitCorpus(size) ==
  /\ pc = "ingesting" /\ size \notin stored
  /\ {x.file : x \in flushed} = Files /\ \A x \in flushed : x.owner = tenants[size]
  /\ docs' = docs \cup flushed
  /\ flushed' = {}
  /\ stored' = stored \cup {size}
  /\ pc' = IF stored' = ChunkSizes THEN "asking" ELSE "ingesting"
  /\ UNCHANGED <<corpus, golds, tenants, results, runs, owners>>

\* Mutated: the script's role bypasses the policies.
SearchedUnscoped(o) == docs

\* search_topk_chunks selects without a tenant: what it sees is up to the session.
Searched(o) == Visible(o)

\* One question at one size; the scores are a function of what the search could see.
Ask(size, g) ==
  /\ pc = "asking" /\ g \in Asked
  /\ ~ \E m \in results : m.size = size /\ m.golden = g
  /\ results' = results \cup {[size |-> size, golden |-> g, searched |-> Searched(tenants[size])]}
  /\ UNCHANGED <<corpus, golds, pc, tenants, stored, flushed, runs, owners, docs>>

\* Mutated: the session of cleanup is not scoped, so its DELETE matches no row.
DeletableUnscoped(o) == {}

Deletable(o) == Visible(o)

\* cleanup, one tenant: documents only, the tenants stay until they expire.
Cleanup(size) ==
  /\ pc = "asking" /\ size \in stored
  /\ Cardinality(results) = Cardinality(ChunkSizes \X Asked)
  /\ docs' = docs \ Deletable(tenants[size])
  /\ stored' = stored \ {size}
  /\ pc' = IF stored' = {} THEN "reported" ELSE "asking"
  /\ UNCHANGED <<corpus, golds, tenants, flushed, results, runs, owners>>

\* The database is gone, the process is killed: nothing handles it, and the open
\* transaction rolls back.
Fail ==
  /\ pc \notin {"failed", "reported"}
  /\ pc' = "failed"
  /\ flushed' = {}
  /\ UNCHANGED <<corpus, golds, tenants, stored, results, runs, owners, docs>>

\* The script is run again, after the corpus or the goldens were edited perhaps.
RunAgain ==
  /\ pc \in {"failed", "reported"} /\ runs < MaxRuns
  /\ corpus' \in [Files -> Contents] /\ golds' \in SUBSET Goldens
  /\ pc' = "started" /\ tenants' = << >> /\ stored' = {} /\ flushed' = {} /\ results' = {}
  /\ runs' = runs + 1
  /\ UNCHANGED <<owners, docs>>

Next ==
  \/ ResolveGoldens
  \/ \E size \in ChunkSizes :
       \/ \E o \in Owners : MakeAnonymousTenant(size, o)
       \/ \E f \in Files : StoreDocument(size, f)
       \/ CommitCorpus(size)
       \/ \E g \in golds : Ask(size, g)
       \/ Cleanup(size)
  \/ Fail
  \/ RunAgain

Spec == Init /\ [][Next]_vars
-----------------------------------------------------------------------------
\* Every score comes from a search of exactly the corpus of its run at its size:
\* nothing of another size, and nothing that a failed run left in the database.
MeasuredOnTheCorpus ==
  \A m \in results :
    m.searched = {[owner |-> tenants[m.size], file |-> f, hash |-> corpus[f]] : f \in Files}

\* A run that reports has measured every question at every size, and has left none of
\* its documents in the database.
ReportedIsCompleteAndClean ==
  pc = "reported" =>
    /\ {<<m.size, m.golden>> : m \in results} = ChunkSizes \X Asked
    /\ \A x \in docs : \A size \in ChunkSizes : x.owner # tenants[size]
=============================================================================
