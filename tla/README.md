# Groundwork in TLA+

Groundwork is a multi-tenant RAG service: FastAPI over PostgreSQL with pgvector and
row-level security, a sentence-transformers embedder, an LLM behind HTTP, and a small
web frontend. This directory holds TLA+ models of it, the TLC runs that check them and
the TLAPS proofs about them. Paths below are relative to the repository root.

## 1. Inventory

| Part | Code | State it keeps | Operations |
|---|---|---|---|
| Identity tables | `alembic/versions/2026_07_17_*`, `2026_07_21_*`, `models/{owner,user,session}.py` | `owners`, `users`, `sessions` | `registration`, `anonymous_mint`, `login_check`, `create_session_login`, `validate_session`, `whoami`, `logout`, `logout_everywhere`, `delete_account`, `sweep_owners`, `sweep_sessions` |
| Auth endpoints | `api/routes/auth.py`, `api/routes/dev.py`, `api/deps.py` | one open transaction per request; the browser's cookie | register, login, anonymous_login, logout, logout_everywhere, delete_account, auth/me, admin/cleanup |
| Document tables | `2026_07_11_*`, `models/{document,chunk,vector}.py`, `stores/` | `documents`, `chunks`, `vectors`, policies | add, get, list, remove, exists, search |
| Document endpoints | `api/routes/{ingest,query}.py`, `services/ingestor.py`, `api/deps.py`, `db/engine.py` | two open transactions per request, the connection pool, `app.owner_id` per connection | store, delete, documents/{id}, stored_documents/* |
| Chunking | `chunkings/` | `max_size`, `overlap` | `build_chunker`, `chunk_text` |
| Embedder | `embeddings/embedder.py` | the model and the lock around it | `embed_document`, `embed_query` |
| Retrieval, answers | `services/{retriever,answerer}.py`, `llm/` | none; three reads and one upstream call | `search_topk_chunks`, `get_answer`, `generate` |
| Metrics | `eval/metrics.py` | none | `merge`, `intersect_len`, `covered_len`, recall, precision, reciprocal rank |
| Evaluation sweep | `evaluation/evaluation_script.py` | a tenant and a corpus per chunk size in the test database, the scores | resolve, setup, ingest, ask, cleanup, report |
| Application | `api/main.py`, `exceptions/`, `config.py` | the services, the HTTP client of the lifespan | startup, shutdown, the status of each error |
| Frontend | `static/` | the view, the document list, the answer panel, the cookie jar | boot, the three views, upload, remove, ask |
| Sweep workflow | `.github/workflows/sweep.yaml` | none | monthly `POST /admin/cleanup` |

**How the parts interact.** The endpoints share nothing in memory but the connection
pool and the embedder's lock; they meet in PostgreSQL, at READ COMMITTED. Every request
gets a transaction from `get_db_session`; document requests get a second one from
`set_guc`, on a second connection that carries `app.owner_id` for the policies. Both are
FastAPI dependencies with `yield`: their exit code, which commits, runs **after** the
response is sent. SQLAlchemy queues `session.add` and `session.delete` until that commit
flushes them. An endpoint that raises rolls back before the error is answered.

**What is hard.** Decisions taken on rows another transaction is changing (a login
against a deletion of the account, two registrations of a name, two uploads of one
text). Work done between reading a row and writing on its strength (a password
verification, an embedding). Answers that are ahead of the commit. Cascades that reach
across tables the statement never looked at. Connections that are reused for another
tenant. A pool of which every request needs two, and a model of which there is one. A
borrowed client that is closed by its owner. A script that undoes nothing when it fails.
`PROJECT.json` lists each at its line.

**What makes each part correct.**

- *Identity tables:* a name belongs to one account for good, a token to one session; an
  owner is permanent exactly when it has credentials; ending one tenant ends no live row of
  another, its documents included; what has expired goes away.
- *Auth endpoints:* each committed request is one SQL function, whatever ran beside it; two
  registrations of a name have one winner; a deleted account gets no session back.
- *Document tables:* whole documents, one copy per tenant, none without an owner.
- *Document endpoints:* each committed request is one upload or removal of its own tenant; a
  connection returns to the pool without a tenant on it; requests never all wait for each
  other, and each ends.
- *Chunking:* no token is lost, no chunk exceeds the model, neighbours share the overlap.
- *Answers:* passages of the tenant only, in the order of their distance, each under its
  name while it has one; every question ends.
- *Metrics:* shared characters count once.
- *Evaluation sweep:* scores come from the run's own corpus and from nothing an earlier run
  left; a run that reports is complete and has cleaned up.
- *Frontend:* the view belongs to the session, late answers touch nobody else's view, rows
  are listed once, and every disabled button comes back.

## 2. Modules

```
AuthTables   rows, lifetimes                  DocTables   rows, passages
   |                                             |
AuthStore ------------- Tenants -------------- DocStore
   |    one database: every step is a step       |    |
   |    of AuthStore and of DocStore             |    Answers    changed by DocStore's actions
AuthRequests                                  DocRequests
   implements AuthStore                          implements DocStore

Chunker -- Evaluation -- SpanMetrics          AppShell      Sweep (on DocTables)
```

The theorems about a module are in a module of their own, named `...Proofs`: DocStore,
AuthRequests, DocRequests, Answers, AppShell and Sweep have one each; AuthStore and Tenants,
which extends it, share TenantsProofs; Chunker, SpanMetrics and Evaluation, which extends
both, share EvaluationProofs.

**AuthStore** is what the identity tables promise: each SQL function is one atomic action.
`now()` is the start of the calling transaction, so an action is taken in the name of an
instant `t` not later than the clock; `sweep_owners`' `<` and `validate_session`'s `>` are
kept apart. A `DELETE` over many rows removes the rows its statement saw, and a row
committed in between survives it; the bulk actions therefore take the removed rows as a
parameter. What a statement does to other tables by `ON DELETE CASCADE` is part of its
action.

**AuthRequests** is the endpoints. `req[r]` is a request with a program counter, `pend[r]`
what its transaction has written, `jar[b]` the cookie of a browser. A request runs
`sent -> (verified | validated | swept) -> answered -> exiting -> idle`: `Respond` hands
out the answer and the cookie, `Commit` applies `pend` afterwards; `raised -> idle` is the
rollback. A write that PostgreSQL would block on another transaction's row is an action
whose guard waits (`SessionsFree`, `OwnersFree`, `OwnerNotBeingDeleted`, `NameFree`); a
constraint that fails is a branch to `raised`. `Waits(r)` says of every request whether it is
held up by such a row. A transaction takes the locks of one
statement at once; PostgreSQL takes them row by row, so a deadlock between two
multi-row `DELETE`s, which it would detect and abort, has no counterpart here.
`AuthRequests` implements `AuthStore` with the committed tables as the mapping:
`ImplementsAuthStore` says that whatever is interleaved, each commit is one SQL function.

**DocStore** is what the document tables promise: an upload, a removal, the end of an
owner, each one atomic change of documents, chunks and vectors.

**Tenants** is the whole database: AuthStore extended by the document tables, which hang on
`owners` by a cascading foreign key. A step is a SQL function together with `Cascade`, or
an upload or a removal. DocStore's actions are taken from an instance of it over
`OwnerIds`, the owners the identity tables have.

**DocRequests** is the document endpoints over the pool. A request holds `auth` (the
connection of `get_db_session`, on which `validate_session` ran) and `data` (the one
`set_guc` scoped to its tenant); `guc[c]` is the setting of a connection. `Visible` is
the row-level policy, evaluated on the connection's setting and not on the request's
tenant, so a setting that leaked would show. `lock` is `Embedder._lock`: uploads and
questions take it in `Encode` and give it back in `Encoded`, whether the model returns or
raises, with both transactions open. A question then goes on to `Retrieve` and `Generate`,
whose statements and replies the Answers module has. The exit code of `set_guc` is
`FlushDocument`, `FlushPassages` (the unit of work inserts by foreign key) or
`FlushDelete`, then `Commit`; `Close` is the exit code of `get_db_session`. `lost` is a
flush that fails after the answer.
`delete_account` and `cleanup` appear as what they do to documents; which session a
cookie opens is left to AuthRequests, so `Validate` may find it expired at any time.
`DocRequests` implements `DocStore`.

**Chunker** is `build_chunker` and `chunk_text`. A text is what the tokenizer says of it:
the number of tokens, their character spans, its length; a tokenizer that gives no spans is
refused, as settings are that do not fit. `RoundedShare` is Python's
`round`, half to even. One action is one turn of the loop.

**Evaluation** puts **SpanMetrics**, the arithmetic of `eval/metrics.py`, on top of it: a
ranking is any set of the chunks that were cut, among chunks of another document, and a
golden quote is any span between word boundaries. Ratios are kept as a count and a
denominator. `Merge` is the sort, stable as Python's is, and then the loop; the loops of
`merge` and `covered_len` are recursive functions, one turn at each number, which is the form
in which the proofs can reason about them.

**Sweep** is the script around these metrics: it resolves the goldens, mints a tenant per
chunk size, ingests the corpus in one transaction per size, asks every question at every
size and cleans up. `Fail` may strike at every step and undoes only the open transaction;
`RunAgain` starts over, with an edited corpus perhaps, in the database as it was left. The
quotes are what resolving tells apart: how often one matches, how often its author says,
whether it is cut at words. A score is represented by the rows its search could see.

**Answers** is `POST /query/generate`. A query goes `asked -> embedded -> searched ->
fetched -> prompted -> posted -> ended`, and between any two of these steps tenants come and go,
upload and remove, by the actions of DocStore (`INSTANCE`). Each of the three statements
sees the tables as they are at its step, through the three policies: `Visible` is that of
documents, `SeenChunks` goes through it and `SeenVectors` through `SeenChunks`, as the
subselects of the migration do.
`Rankings` is the search: rows within the threshold, nearest first, at most `TopK`; the
HNSW index is approximate, so any of them may be missing. `Fetched` and `Named` are what
`search_topk_chunks` makes of the two reads after it. A reply is the set of the
markers in it, and `Generate` keeps those that name a passage. Every step can fail: the
request may get no connection (`Ask`), the model may raise (`EmbedQuery`), each statement
may (`Search`, `FetchChunks`, `FetchFilenames`), and `GenerateFails` is every error of
`LLMClient`, its timeout included. `StatusOf` is what each error is answered with: what is
no `AppError` is an opaque 500. `http` is the client of the application's lifespan, which
`LLMClient` borrows: `Shutdown` may close it at any time, before the call, when `CallLLM`
finds it closed (502), or under it, when httpx may raise an error nobody catches (500). The
query's session is taken as valid; how a request gets its two connections and its tenant is
DocRequests'.

**AppShell** is one browser tab. JavaScript runs one handler at a time and switches at an
`await`, so a handler is a task that is at a dialog or at a call, and one action takes it
from the end of that call to its next one. `view` is what is mounted; `replaceChildren`
leaves the handlers of the old view running on nodes nobody sees, which is the flag
`mounted`. Calls end by the `...Answered` actions or by `Fails`, with what each handler's
`catch` does. Of the list the view keeps how often it shows the documents of each tenant,
of the answer panel whose answer it shows. The server is not composed in: it may answer
whatever the endpoint can answer, a refusal at any time included. `overlapped` and
`refreshing` are history variables, for two account handlers and for two refreshes of the
list that were in flight at once: no action is guarded by them.

Modules named `MC...` give TLC constants, symmetry and inputs. `...Proofs` hold the
theorems. Operators commented *Mutated* are the wrong forms of the definition that
follows; each stands for a plausible bug, and with it in place of the definition TLC
reports the property it is paired with in `PROJECT.json`.

## 3. Runs

| Run | Question | Bounds |
|---|---|---|
| `tenants` | Do the SQL functions and the document operations keep one database consistent? | 3 owners, 1 name, 3 tokens, logins of 1 tick, anonymous tenants of 3, clock to 4, 2 document ids, 2 contents |
| `auth_requests` | Do concurrent requests amount to the SQL functions, and does one always go on? | 2 requests, 2 browsers, 2 owners, 1 name, 2 tokens, clock to 2, no crash, all endpoints but `auth/me` |
| `auth_liveness` | Does every request end, is what expired deleted? | 2 requests, 1 browser, 1 owner, 1 name, 1 token, clock to 2, 1 crash, all endpoints |
| `login_then_use` | Is an answered login usable, and can it be logged out? **No** | 2 requests, 2 browsers, register, login, logout, `auth/me` |
| `logout_everywhere_expired` | Does logout_everywhere end every session? **Not with an expired one** | 2 requests, 2 browsers, register, login, logout_everywhere |
| `doc_requests` | Do concurrent requests amount to the document store, in isolation and without a circular wait? | 2 requests, 2 owners, 2 document ids, contents of 0 and 1 chunks, 4 connections, 1 crash, all endpoints |
| `doc_liveness` | Does every request end when the pool is short and the LLM is slow? | 3 requests, 1 owner, 1 document id, 3 connections, questions and uploads, no crash |
| `upload_race` | Is a racing duplicate refused? **No, it is lost** | 2 requests, 1 owner, 4 connections |
| `answers` | What may a changing store, a failing LLM or a shutdown do to an answer? | 1 query, 2 owners, 3 documents of 1 or 2 chunks, `TopK` 2, replies with valid, too large and zero markers |
| `chunker` | Is no token lost, no window too large, the overlap exact, every score right? | windows 1 to 4, sizes 0 to 5 or none, ratios 0, 12, 50, 75 and 150 %, texts of up to 5 tokens with any gaps |
| `app_shell` | Can a late answer spoil the view? | 2 handlers in flight, 2 anonymous tenants |
| `sweep` | Can a failed run, or another size, touch the scores of a run? | 2 runs, 2 sizes, 2 files of 3 contents, any of 5 goldens, 4 owners |

**Why the bounds are enough.** Every interaction in this code is between two: two
transactions on one row, two requests on one pool, a step and the change that makes it
stale. Two requests, with a second owner and a second document for the other one to be
different from, reach each pair of steps in both orders. In `doc_requests` four connections
give both requests the two they need, so that two can flush at once and meet at a key, a row
or the model's lock; the pool is never short there. It is in `doc_liveness`, with three
connections for three requests: each can hold one and nobody gets a second, but only one at a
time has two, so keys and the model are hardly fought over. (With a fourth connection, where
two also meet at the model, questions alone make 49,216 states and uploads with listings
144,204, and all end too; with questions and uploads together TLC does not finish in five
minutes.) That shortage and contention together stop nobody is `NoDeadlock` of section 4, for
any pool. A clock of 2 with sessions of 1 tick has a session before, at and after its end,
which is where `<` and `>` differ; in `tenants` anonymous tenants outlive a login, so a
session can be older or younger than its owner's end. The largest overlap, the largest
window and the first text that needs three windows all lie within 5 tokens. In `answers` the
distances put a tie, a passage beyond the threshold and a nearest passage that is not its
document's first among 3 documents. Two handlers in flight are what it takes for one to
change what the other relies on. In `sweep` one size or one file of the second run can meet
every leftover of a failed first one; four owners are a tenant per size and run. What the
theorems of section 4 state holds beyond these bounds.

`CHECK_DEADLOCK FALSE` stands in `Chunker.cfg`, where a call that returned or was refused
has stopped, and in `Sweep.cfg`, where the last run of the script has.

**Symmetry** is used for owners, names, tokens, documents, requests, browsers and
connections, in runs without liveness properties. Nothing in the code orders them.

### Fairness

- `WF(Serve(r))` in AuthRequests and DocRequests, `WF(Serve)` in Answers: the event loop,
  the worker threads and PostgreSQL run every started request on. A request that waits for
  a row or a connection has no enabled step, so the runs show that the waits end.
- `SF(Encode(r))`: a thread that waits for the model gets it in the end. Whoever releases
  the lock needs a whole new request before it asks again, so it cannot be overtaken for
  ever by a thread that is always there first.
- `PoolTimeout` is one of the steps of `Serve`: SQLAlchemy's `pool_timeout`, 30 s by
  default, is what lets go of requests that hold one connection each.
- `SF(SendCleanup)` and `SF(SweepOwners)`: the workflow in `.github/workflows/sweep.yaml`
  comes back every month; a call that found the owner's rows locked is not the last one.
- `WF(GenerateFails)` and `WF(Fails(s))`: the LLM and the server, as seen by a browser,
  owe no answer, but the clients' timeouts (`llm_timeout`, 60 s; `REQUEST_TIMEOUT_MS`,
  90 s) do fire.
- Nothing is assumed of users, of crashes or of the clock.

### What the runs show

The concurrent endpoints, with all their waiting, their late commits and (in
`doc_requests`) a crash, change the committed tables only as the atomic specifications do:
`ImplementsAuthStore`, `ImplementsDocStore`. The two specifications fit together in one
database: `DocumentsFollowOwners`. So what is proved of the specifications holds of the
endpoints' committed states. On top of that:

- No step of the database takes live rows of two tenants (`LiveRowsEndOneTenantAtATime`) or
  documents of two tenants with a valid session (`TenantsInUseKeepDocuments`). A sweep takes
  neither of any tenant: no valid session (`SweepsEndNothingUsable`) and no document of a
  tenant that has one, although it looks at neither when it deletes owners, because every
  session ends with or before its owner (`SessionWithinOwner`). These properties go by
  `validate_session`'s comparison with the clock, not by the sweep's.
- A deleted account gets no session from a login that was under way
  (`DeletedOwnerGetsNoSession`), and a registration that lost is never told it won
  (`OneWinnerPerName`). A logout_everywhere with a valid session ends every session its
  account had when it was sent (`LogoutEverywhereCompletes`).
- Rows, connections and the model's lock never make everybody wait for each other: among the
  auth requests (`SomebodyProceeds`) although nothing keeps two cleanups from running at
  once, and among the document requests (`NoCircularWait`) because embedding is done before
  an upload holds any row.
- No statement on a pooled connection sees another tenant, since the setting ends with its
  transaction on every path out of a request (`TenantIsolation`, `PooledConnectionsAreClean`).
- The three snapshots of a query can only lose passages and names: the ranking survives
  (`CitationsKeepTheRanking`), a passage that is dropped or nameless is one that was removed
  (`MissingOnlyIfRemoved`). Nothing of another tenant is found, fetched or cited
  (`PassagesAreTheTenants`): without the policy of chunks that of vectors lets everything
  through.
- Scores of the evaluation come from the corpus of their own run and size, although the
  search names no tenant and a failed run leaves its rows (`MeasuredOnTheCorpus`).
- Mounting fresh nodes for every view is what keeps late answers harmless
  (`RowsAreTheSessions`), and clearing the list is enough to show rows once as long as
  refreshes do not overlap (`RowsAppearOnce`). The view follows the session as long as
  account actions do not overlap (`ViewMatchesSession`). When they do it need not: a login
  answered while the boot of "Continue anonymously" is under way ends with the anonymous
  view over the account's session.

### Disagreements with the repository's words

1. **An answered login may be refused** (`login_then_use`). `get_db_session` commits after
   the response (`api/deps.py:28-30`), `static/app.js:516-517` says "Login guarantees a
   valid registered session". The same run has a logout that overtakes the commit: it
   deletes no row, and the session it was to end is committed after it.
2. **logout_everywhere with an expired session ends nothing** (`logout_everywhere_expired`)
   and is answered with success (`api/routes/auth.py:130`); `static/app.js:688` says it
   "ends every active session for this account on all devices".
3. **A racing duplicate upload is answered with the id of a document that is never stored**
   (`upload_race`). The guard of `services/ingestor.py:71` surrounds `session.add`, which
   emits no SQL; the comment at `services/ingestor.py:57-58` says it covers this race.

## 4. Theorems

Checked by TLAPS for every value of the constants. What is assumed is only what the
modules state by name: `NULL` is no identifier and times are natural numbers (AuthTables),
a content's size is a natural number (DocTables, Tenants), the bound on crashes is a
natural number and `NULL` no request or connection (AuthRequests, DocRequests), the account
is no anonymous tenant (AppShell), settings, distances and markers are natural numbers and
`NULL` no status (Answers), chunk sizes and goldens are finite lists (Sweep), the chunker's
settings are integers and token spans come in text order, inside the text (Chunker), the
threshold of recall is a natural number (Evaluation).

- **DocStoreProofs.** The three invariants of the store, inductive together with typing,
  and from them that living tenants lose documents only one at a time.
- **TenantsProofs**, of the identity tables. The inductive invariant `IInv` is typing,
  `KeysUnique`, `NoOrphans`, `PermanentIffRegistered` and `SessionWithinOwner`. None but typing
  is inductive alone: that a session stays within its owner's lifetime needs that a login
  goes to an owner that never expires (`PermanentIffRegistered`) and that a fresh owner has
  no session yet (`NoOrphans`); these two need each other and the unique ids
  (`KeysUnique`). There is one lemma per SQL function; removals share `RemovalIInv`. From
  `IInv` follow the three action properties, `SweepsAreHarmless` and `OneTenantAtATime` by
  way of `SweepRemovesOnlyExpired`.
- **TenantsProofs**, of the joined tables. The joined database is both stores at once, so
  the theorems of both hold of it: `IdentityTables` drops the documents, `DocumentsFollow`
  is the refinement, and `NothingLeftOver` says what it gives the documents of a tenant that
  ends. `CascadeStutters` is where the invariant of the documents is needed: a cascade that
  removes no owner changes nothing because every document has one. `InUseKeep` rests on
  `SessionWithinOwner`: an owner a sweep deletes has no valid session. AuthRequestsProofs
  takes the identity tables from here, as the joined tables without documents.
- **AuthRequestsProofs.** `Inv` says what each request has written (`PendOK`), what it may
  rely on (`RequestOK`), what a logout_everywhere will have ended (`EverywhereOK`), and what
  any two open requests keep from each other (`Apart`). `Apart` is the row locks as facts: a
  login's owner is not in another's deletions, two minted owners differ, two registered
  names differ. It is inductive because each statement waits for the rows it needs, and it
  is what makes a commit one SQL function: with it `Refinement` follows one commit at a
  time, three invariants of the requests are parts of it, and what is proved of the tables
  holds of the endpoints (`AccountsAreWhole`, `CommitsEndOneTenant`, `CleanupsAreHarmless`).
  `NoDeadlock` needs one
  fact more, `DeletionsApart`. Every statement but the second one of a cleanup is the first
  to take rows, so only a cleanup that has deleted owners can wait while others wait for it
  (`HolderProceeds`); and two of those never coexist, because what one has found expired the
  next one finds expired too and waits for before it holds anything. `RequestsMoveOn` is the
  other way a request could fail to end: a step takes one request forward, by an order of the
  program counters (`Turn`), and leaves every other as it is.
- **DocRequestsProofs.** `Inv` has the same shape. `InsertsKeepTheirLocks` says that from
  its flush to its commit an upload's owner stays and its key stays free, and gives
  `Refinement`; `ConnsApart` says that a connection serves one request and carries its
  tenant, and gives `TenantsAreIsolated`. `FreshIds` is why a removal and an upload never
  meet on one id. `NothingWithoutOwner` and `CommitsLoseOneDocument` carry the store's
  theorems over to the endpoints. `NoDeadlock` follows the waits to their end: who waits for
  a row waits for a request that has flushed and only has to commit, who waits for the model
  waits for one that is encoding (`LockIsBusy`), and who waits for a connection can time out.
  `RequestsMoveOn` says the same here as of the auth requests; the order has eleven places.
- **AnswersProofs.** The documents change by DocStore's actions, so DocStore's invariant is
  part of `Inv`, and a question adds nothing to them (`QuestionsOnlyRead`). `Lasting` is the
  fact that carries a question over the changes: a passage it has seen either is still
  exactly what it was, or its document is gone, and because document ids are never drawn
  twice it stays gone. Hence a passage that fell out was removed
  (`OnlyTheRemovedIsMissing`), and one that is there still belongs to the tenant whose
  policies, each through the next, showed it (`ReadsAreOwn`). A step that fails changes
  nothing else (`RaiseInv`). `Nearest`, that a list is ordered and without repetition, passes
  from the search to what is kept of it because `InOrder` picks the remaining places in
  increasing order. `QuestionsMoveOn` orders the steps of a question.
- **SweepProofs.** `CorpusIsStored` says of every moment what the database holds of the
  tenants of this run: the whole corpus of a size that is stored, nothing of another. A
  failure keeps it because only committed rows stay, a new run because its tenants are new.
  `ResultsAreMeasurements` needs that questions are only asked while every corpus is stored,
  which is `StageOK`; that the cleanup, which counts the scores, begins when none is missing
  is `CountedIsMeasured`: no pair of a size and a question is measured twice, so as many
  scores as there are pairs are all of them.
- **AppShellProofs.** The argument is that of a lock nobody takes. While account handlers do
  not overlap, whoever changes the cookie is the only one who could, and asks whoami before
  it gives the view back; until then the view may be wrong, and afterwards it is a new one,
  which the handlers of the old one cannot write to. `Consistent` says so, `Settled` states
  follow. `ListOnce` needs no such condition but its own: one handler fills the list, which
  is empty until it does.
- **EvaluationProofs**, of the chunker. Any text, any setting, any tokenization with spans
  in order. `TokensAreCovered` speaks of the end of a run only; `IInv` says of every moment
  that the chunks so far cover the tokens up to `Reached`, that the next window starts
  `overlap` before it, and that the settings were accepted. `AppendWindow` is the step both
  kinds of window share; `Advance` is why cutting ends.
- **EvaluationProofs**, of the scores. `Scores` states `ScoresCountCharacters` of every text,
  setting and threshold; it rests on what the metrics compute for any list of spans. A loop
  is a recursive function on numbers, so an invariant of its turns is proved by taking the
  least turn at which it fails (`Least`, `MergeLoop`, `CoveredLoop`). The invariant of
  `merge` is that the spans so far hold exactly the characters of those read, in order and
  with a gap between neighbours of a document; that a turn keeps it (`JoinedStaysApart`)
  needs the sort, which `SortedIsSorted` shows to be a sorted permutation by counting ranks.
  That gives `MergeIsApart`. Spans that share no character add up (`CoveredLoop`), and
  `intersect_len` is the number of shared characters (`IntersectIsCounted`); together
  `CoverageIsCounted`, and since more spans have more characters, `CoverageGrows`.

**Only model-checked:** the liveness properties (`EveryRequestEnds` of both request modules,
`ExpiredDataIsPurged`, `EveryQuestionEnds`, `EveryHandlerEnds`): fairness is out of the
prover's reach. Their finite halves are proved where a request runs: any number of requests
never all wait (`NoDeadlock`) and no step takes one back (`RequestsMoveOn`); nor does a step of
a question (`QuestionsMoveOn`). In `NoCircularWait` the half that
a request which does not wait has an enabled step is about `ENABLED` and is left to TLC (the
other half, that one does not wait, is `NoDeadlock`); of the auth requests `EveryRequestEnds`
shows the same.

## 5. Not modelled

- **Values.** Password and token hashing (a token is its own name), the embedding model
  and distances (given as a function), the wording of prompts, answers and errors, document
  content and metadata, validation of request bodies, HTTP details, logging.
- **Application wiring.** The services are built once and never change; settings are
  constants. Only the HTTP client and the status of errors have behaviour, and are in
  Answers.
- **Migrations as such.** Their final schema is modelled; `alembic/env.py` is Alembic's
  runner, which opens a connection and applies them.
- **Frontend.** Opening a document in a dialog, the tabs of the form, focus, toasts and
  presentation: they hold no state another handler reads.
- **Evaluation.** The printing of the report.
- **The tokenizer's own state**, which the event loop and the thread that encodes share: it
  is inside the tokenizer library.
- **An answer that breaks off after its headers** in the frontend: its cookie would already be
  set when the handler fails. A tab whose logout_everywhere or deletion ends like that keeps
  the registered view without a session, as it does when a session expires, until its next
  call is refused. AppShell's `Fails` has answers that fail as a whole.
- **Spans without characters**, which `Span()` refuses: the script ends there, which is one of
  the failures `Sweep` has at every step. SpanMetrics computes with them as with others.
- **Deadlocks among multi-row `DELETE`s**, which PostgreSQL detects and aborts: a statement
  takes its locks at once in AuthRequests and DocRequests.

## 6. What comes next

1. AuthRequests and DocRequests over one database and one pool, so that auth requests
   compete for connections too; Tenants is the specification they would implement.
2. Several questions at once in Answers, on DocRequests' connections.
3. The frontend over AuthRequests in place of a server that may answer anything, to see
   which of its refusals a late commit causes.
