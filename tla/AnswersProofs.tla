--------------------------- MODULE AnswersProofs ---------------------------
(***************************************************************************)
(* Proofs about a question, for any tenants, documents, distances, limits  *)
(* and replies.                                                            *)
(*                                                                         *)
(* Nothing holds the rows a question has read: its three statements and    *)
(* the call of the LLM see whatever was committed before each of them.     *)
(* What lasts is in Lasting: an id is drawn once, so the document of a     *)
(* passage that was found belongs to the tenant for as long as it exists,  *)
(* and once it is gone it stays gone.                                      *)
(***************************************************************************)
EXTENDS Answers, SequenceTheorems, TLAPS

D == INSTANCE DocStoreProofs

\* What stays true of a passage once a statement has shown it.
Lasting(c) ==
  /\ c \in ChunkRow
  /\ c.doc \in issued
  /\ \A x \in docs : x.id = c.doc => x.owner = ask.tenant
  /\ c.doc \in Visible => c \in chunks

\* Nearest first, and none twice.
Nearest(s) == IsInjective(s) /\ \A i, j \in DOMAIN s : i < j => Far(s[i]) <= Far(s[j])

Passage(citations) == [i \in DOMAIN citations |-> citations[i].chunk]

ListsLast ==
  /\ \A i \in DOMAIN ask.ranked : Lasting(ask.ranked[i])
  /\ \A i \in DOMAIN ask.found : Lasting(ask.found[i])
  /\ \A i \in DOMAIN ask.citations : Lasting(ask.citations[i].chunk)

ListsAreRankings ==
  Nearest(ask.ranked) /\ Nearest(ask.found) /\ Nearest(Passage(ask.citations))

\* A question gets its text and its status together, at its end.
OpenUntilTheEnd == ask.pc # "ended" => ask.content = {} /\ ask.status = NULL

Inv ==
  /\ TypeOK
  /\ D!IInv
  /\ \A x \in docs : x.id \in issued
  /\ ListsLast
  /\ ListsAreRankings
  /\ MissingOnlyIfRemoved
  /\ OpenUntilTheEnd
-----------------------------------------------------------------------------
(* Sequences and the operators of the model. *)

\* What the document store's proofs assume of its constants.
LEMMA StoreAssumptions ==
  NULL \notin Owners \cup DocIds \cup Contents /\ Size \in [Contents -> Nat]
BY DocNullAssumption, SizeAssumption

LEMMA SeqFacts ==
  ASSUME NEW S, NEW s \in Seq(S)
  PROVE  /\ Len(s) \in Nat /\ DOMAIN s = 1..Len(s)
         /\ \A i \in DOMAIN s : s[i] \in S
BY LenProperties

LEMMA BoundedIsSeq ==
  ASSUME NEW S, NEW n \in Nat, NEW s \in BoundedSeq(S, n)
  PROVE  s \in Seq(S)
<1>1. PICK m \in 0..n : s \in [1..m -> S]
  BY DEF BoundedSeq, SeqOf
<1> QED BY <1>1, SeqDef

\* A function of the indices of a sequence is a sequence.
LEMMA ReindexedIsSeq ==
  ASSUME NEW S, NEW T, NEW s \in Seq(S), NEW t, t \in [DOMAIN s -> T]
  PROVE  t \in Seq(T) /\ Len(t) = Len(s)
<1>1. Len(s) \in Nat /\ t \in [1..Len(s) -> T]
  BY LenProperties
<1>2. t \in Seq(T)
  BY <1>1, SeqDef
<1>3. Len(t) \in Nat /\ 1..Len(t) = 1..Len(s)
  BY <1>1, <1>2, LenProperties
<1> QED BY <1>1, <1>2, <1>3

LEMMA EmptyIsNearest == DOMAIN <<>> = {} /\ Nearest(<<>>) /\ Nearest(Passage(<<>>))
<1>1. DOMAIN <<>> = {}
  OBVIOUS
<1> QED BY <1>1 DEF Nearest, Passage, IsInjective

\* The fetched list is the ranking without its holes: it is ordered as the ranking is,
\* holds passages of the ranking only, and every one that can still be read.
LEMMA FetchedFacts ==
  ASSUME NEW ranked \in Seq(ChunkRow), NEW found \in Fetched(ranked)
  PROVE  /\ found \in Seq(ChunkRow)
         /\ ToSet(found) = ToSet(ranked) \cap SeenChunks
         /\ Nearest(ranked) => Nearest(found)
<1> DEFINE kept == {i \in DOMAIN ranked : ranked[i] \in SeenChunks}
<1>1. PICK at \in InOrder(kept, Len(ranked)) : found = [i \in DOMAIN at |-> ranked[at[i]]]
  BY DEF Fetched
<1>2. /\ Len(ranked) \in Nat /\ DOMAIN ranked = 1..Len(ranked)
      /\ \A i \in DOMAIN ranked : ranked[i] \in ChunkRow
  BY SeqFacts
<1>3. /\ at \in Seq(kept) /\ ToSet(at) = kept
      /\ \A i, j \in DOMAIN at : i < j => at[i] < at[j]
  BY <1>1, <1>2, BoundedIsSeq DEF InOrder
<1>4. DOMAIN at = 1..Len(at) /\ \A i \in DOMAIN at : at[i] \in kept
  BY <1>3, SeqFacts
<1>5. DOMAIN found = DOMAIN at /\ \A i \in DOMAIN at : found[i] = ranked[at[i]]
  BY <1>1
<1>6. found \in [DOMAIN at -> ChunkRow]
  BY <1>1, <1>2, <1>4
<1>7. found \in Seq(ChunkRow)
  BY <1>3, <1>6, ReindexedIsSeq
<1>8. ToSet(found) = ToSet(ranked) \cap SeenChunks
  <2>1. \A i \in kept : \E j \in DOMAIN at : at[j] = i
    BY <1>3 DEF ToSet
  <2> QED BY <2>1, <1>4, <1>5 DEF ToSet
<1>9. ASSUME Nearest(ranked) PROVE Nearest(found)
  <2>1. \A i, j \in DOMAIN found : i < j => Far(found[i]) <= Far(found[j])
    BY <1>3, <1>4, <1>5, <1>9 DEF Nearest
  <2>2. ASSUME NEW i \in DOMAIN found, NEW j \in DOMAIN found, found[i] = found[j] PROVE i = j
    <3>1. at[i] = at[j]
      BY <1>4, <1>5, <1>9, <2>2 DEF Nearest, IsInjective
    <3>2. i \in Nat /\ j \in Nat /\ at[i] \in Nat /\ at[j] \in Nat
      BY <1>2, <1>3, <1>4, <1>5, <2>2, SeqFacts
    <3> QED BY <1>3, <1>5, <2>2, <3>1, <3>2
  <2> QED BY <2>1, <2>2 DEF Nearest, IsInjective
<1> QED BY <1>7, <1>8, <1>9

LEMMA NamedFacts ==
  ASSUME NEW found \in Seq(ChunkRow)
  PROVE  /\ Named(found) \in Seq(Citation)
         /\ DOMAIN Named(found) = DOMAIN found
         /\ \A i \in DOMAIN found : Named(found)[i].chunk = found[i]
         /\ Passage(Named(found)) = found
         /\ \A i \in DOMAIN found :
              Named(found)[i].filename = NULL => found[i].doc \notin Visible
<1>1. /\ DOMAIN found = 1..Len(found) /\ Len(found) \in Nat
      /\ \A i \in DOMAIN found : found[i] \in ChunkRow
  BY SeqFacts
<1>2. \A i \in DOMAIN found : found[i].doc \in DocIds
  BY <1>1 DEF ChunkRow
<1>3. Named(found) \in [DOMAIN found -> Citation]
  BY <1>1, <1>2 DEF Named, Citation
<1>4. Named(found) \in Seq(Citation)
  BY <1>3, ReindexedIsSeq
<1>5. /\ DOMAIN Named(found) = DOMAIN found
      /\ \A i \in DOMAIN found : Named(found)[i].chunk = found[i]
  BY DEF Named
<1>6. Passage(Named(found)) = found
  <2>1. found = [i \in DOMAIN found |-> found[i]]
    BY LenProperties
  <2> QED BY <1>5, <2>1 DEF Passage
<1>7. \A i \in DOMAIN found : Named(found)[i].filename = NULL => found[i].doc \notin Visible
  BY <1>2, DocNullAssumption DEF Named
<1> QED BY <1>4, <1>5, <1>6, <1>7

LEMMA StatusFacts == \A error \in Errors : StatusOf[error] \in Statuses
BY DEF StatusOf, Errors, Statuses
-----------------------------------------------------------------------------
(* The steps. *)

LEMMA InitInv == Init => Inv
<1> SUFFICES ASSUME Init PROVE Inv
  OBVIOUS
<1> USE DEF Init, NoAsk
<1>1. TypeOK
  BY DEF Store!Init, TypeOK, Store!TypeOK, Query, Statuses
<1>2. D!IInv
  <2>1. D!Init
    BY DEF D!Init, Store!Init
  <2> QED BY <2>1, D!InitIInv, StoreAssumptions
<1>3. ListsLast /\ ListsAreRankings /\ MissingOnlyIfRemoved
  BY EmptyIsNearest DEF ListsLast, ListsAreRankings, MissingOnlyIfRemoved, Cited
<1>4. \A x \in docs : x.id \in issued
  BY DEF Store!Init
<1> QED BY <1>1, <1>2, <1>3, <1>4 DEF Inv, OpenUntilTheEnd

\* A step of the question itself: the tables stay, and so does what it has read of them.
LEMMA QuietTables ==
  ASSUME Inv, UNCHANGED <<tables, issued>>
  PROVE  /\ D!IInv' /\ Store!TypeOK' /\ (issued \subseteq DocIds)'
         /\ (\A x \in docs : x.id \in issued)'
BY DEF tables, Inv, TypeOK, Store!TypeOK, D!IInv, D!TypeOK, D!OneCopyPerTenant,
       D!DocumentsAreWhole, D!DocumentsHaveOwners

LEMMA QuietPassages ==
  ASSUME UNCHANGED <<tables, issued>>, ask'.tenant = ask.tenant
  PROVE  Visible' = Visible /\ \A c : Lasting(c) <=> Lasting(c)'
BY DEF tables, Visible, Lasting

\* The question goes on with what it has read.
LEMMA Proceeds ==
  ASSUME Inv, UNCHANGED <<tables, issued>>, http' \in {"open", "closed"},
         ask' \in Query,
         ask'.tenant = ask.tenant, ask'.ranked = ask.ranked, ask'.found = ask.found,
         ask'.citations = ask.citations,
         ask'.content \subseteq 1..Len(ask.citations), OpenUntilTheEnd',
         ask'.pc \in {"fetched", "prompted", "posted"}
           => ask.pc \in {"fetched", "prompted", "posted"}
  PROVE  Inv'
<1>1. Visible' = Visible /\ \A c : Lasting(c) <=> Lasting(c)'
  BY QuietPassages
<1>2. TypeOK'
  BY QuietTables DEF TypeOK
<1>3. ListsLast' /\ ListsAreRankings'
  BY <1>1 DEF Inv, ListsLast, ListsAreRankings
<1>4. MissingOnlyIfRemoved'
  BY <1>1 DEF Inv, MissingOnlyIfRemoved, Cited
<1> QED BY <1>2, <1>3, <1>4, QuietTables DEF Inv

\* A question begins or is over: it has read nothing.
LEMMA StartsAfresh ==
  ASSUME Inv, UNCHANGED <<tables, issued>>, http' \in {"open", "closed"},
         NEW pc1 \in {"idle", "asked", "ended"}, NEW o \in Owners \cup {NULL},
         NEW status1 \in {NULL} \cup Statuses, pc1 # "ended" => status1 = NULL,
         ask' = [pc |-> pc1, tenant |-> o, ranked |-> <<>>, found |-> <<>>,
                 citations |-> <<>>, content |-> {}, status |-> status1]
  PROVE  Inv'
<1>1. ask' \in Query /\ ask'.content = {}
  BY DEF Query
<1>2. /\ ask'.ranked = <<>> /\ ask'.found = <<>> /\ ask'.citations = <<>>
      /\ ask'.pc \notin {"fetched", "prompted", "posted"}
  OBVIOUS
<1>3. TypeOK'
  BY <1>1, QuietTables DEF TypeOK
<1>4. ListsLast' /\ ListsAreRankings' /\ MissingOnlyIfRemoved'
  BY <1>2, EmptyIsNearest DEF ListsLast, ListsAreRankings, MissingOnlyIfRemoved, Cited
<1>5. OpenUntilTheEnd'
  BY DEF OpenUntilTheEnd
<1> QED BY <1>3, <1>4, <1>5, QuietTables DEF Inv

LEMMA RestartInv ==
  ASSUME Inv, Return \/ Shutdown \/ \E o \in Owners : Ask(o)
  PROVE  Inv'
<1>1. http \in {"open", "closed"}
  BY DEF Inv, TypeOK
<1>3. CASE ask' = NoAsk
  <2>1. UNCHANGED <<tables, issued>> /\ http' \in {"open", "closed"}
    BY <1>1 DEF Return, Shutdown, Ask
  <2>2. ask' = [pc |-> "idle", tenant |-> NULL, ranked |-> <<>>, found |-> <<>>,
                citations |-> <<>>, content |-> {}, status |-> NULL]
    BY <1>3 DEF NoAsk
  <2> QED BY <2>1, <2>2, StartsAfresh
<1>4. ASSUME NEW o \in Owners, Ask(o) PROVE Inv'
  <2>1. UNCHANGED <<tables, issued>> /\ http' \in {"open", "closed"}
    BY <1>1, <1>4 DEF Ask
  <2>2. CASE ask' = [pc |-> "asked", tenant |-> o, ranked |-> <<>>, found |-> <<>>,
                     citations |-> <<>>, content |-> {}, status |-> NULL]
    BY <2>1, <2>2, StartsAfresh
  <2>3. CASE ask' = [pc |-> "ended", tenant |-> o, ranked |-> <<>>, found |-> <<>>,
                     citations |-> <<>>, content |-> {}, status |-> StatusOf["Exception"]]
    <3>1. StatusOf["Exception"] \in Statuses
      BY StatusFacts DEF Errors
    <3> QED BY <2>1, <2>3, <3>1, StartsAfresh
  <2> QED BY <1>4, <2>2, <2>3 DEF Ask, NoAsk
<1>5. CASE UNCHANGED ask /\ Shutdown
  <2>1. UNCHANGED <<tables, issued>> /\ http' \in {"open", "closed"}
    BY <1>5 DEF Shutdown
  <2>2. /\ ask \in Query /\ ask.content \subseteq 1..Len(ask.citations) /\ OpenUntilTheEnd
    BY DEF Inv, TypeOK
  <2>3. OpenUntilTheEnd'
    BY <1>5, <2>2 DEF OpenUntilTheEnd
  <2> QED BY <1>5, <2>1, <2>2, <2>3, Proceeds
<1> QED BY <1>3, <1>4, <1>5 DEF Return, Shutdown

\* A step that fails ends the question without a text.
LEMMA RaiseInv ==
  ASSUME Inv, UNCHANGED <<tables, issued, http>>, ask.pc # "ended",
         NEW error \in Errors, Raise(error)
  PROVE  Inv'
<1>1. ask \in Query /\ http \in {"open", "closed"} /\ ask.content = {}
  BY DEF Inv, TypeOK, OpenUntilTheEnd
<1>2. StatusOf[error] \in Statuses
  BY StatusFacts
<1>3. /\ ask' \in Query /\ ask'.pc = "ended" /\ ask'.tenant = ask.tenant
      /\ ask'.ranked = ask.ranked /\ ask'.found = ask.found
      /\ ask'.citations = ask.citations /\ ask'.content = {}
  BY <1>1, <1>2 DEF Raise, Query
<1> QED BY <1>1, <1>3, Proceeds DEF OpenUntilTheEnd

\* Embedding the question, calling the LLM and every way the call can end.
LEMMA CallInv ==
  ASSUME Inv, EmbedQuery \/ CallLLM \/ Generate \/ GenerateFails
  PROVE  Inv'
<1>1. ask \in Query /\ http \in {"open", "closed"} /\ OpenUntilTheEnd
  BY DEF Inv, TypeOK
<1>2. UNCHANGED <<tables, issued, http>> /\ ask.pc \in {"asked", "prompted", "posted"}
  BY DEF EmbedQuery, CallLLM, Generate, GenerateFails
<1>3. ask.content = {} /\ ask.status = NULL
  BY <1>1, <1>2 DEF OpenUntilTheEnd
<1>4. ASSUME NEW pc1 \in {"embedded", "posted"}, Goto(pc1),
             pc1 = "posted" => ask.pc = "prompted"
      PROVE  Inv'
  <2>1. /\ ask' \in Query /\ ask'.pc = pc1 /\ ask'.tenant = ask.tenant
        /\ ask'.ranked = ask.ranked /\ ask'.found = ask.found
        /\ ask'.citations = ask.citations /\ ask'.content = {} /\ ask'.status = NULL
    BY <1>1, <1>3, <1>4 DEF Goto, Query
  <2> QED BY <1>1, <1>2, <1>4, <2>1, Proceeds DEF OpenUntilTheEnd
<1>5. ASSUME NEW status1 \in Statuses, NEW content1 \in SUBSET Nat,
             content1 \subseteq 1..Len(ask.citations),
             ask' = [ask EXCEPT !.pc = "ended", !.status = status1, !.content = content1]
      PROVE  Inv'
  <2>1. /\ ask' \in Query /\ ask'.pc = "ended" /\ ask'.tenant = ask.tenant
        /\ ask'.ranked = ask.ranked /\ ask'.found = ask.found
        /\ ask'.citations = ask.citations /\ ask'.content = content1
    BY <1>1, <1>5 DEF Query
  <2> QED BY <1>1, <1>2, <1>5, <2>1, Proceeds DEF OpenUntilTheEnd
<1>6. ASSUME NEW error \in Errors, Raise(error) PROVE Inv'
  BY <1>2, <1>6, RaiseInv
<1>7. CASE EmbedQuery
  BY <1>4, <1>6, <1>7 DEF EmbedQuery, Errors
<1>8. CASE CallLLM
  BY <1>4, <1>6, <1>8 DEF CallLLM, Errors
<1>9. CASE Generate
  <2>1. PICK reply \in Replies :
          ask' = [ask EXCEPT !.pc = "ended", !.status = 200,
                             !.content = Stripped(reply, Len(ask.citations))]
    BY <1>9 DEF Generate
  <2>2. reply \subseteq Nat /\ Len(ask.citations) \in Nat
    BY <1>1, <2>1, AnswersAssumption, LenProperties DEF Query
  <2>3. \A m \in Nat : 1 <= m /\ m <= Len(ask.citations) => m \in 1..Len(ask.citations)
    BY <2>2
  <2>4. PICK content1 : content1 = Stripped(reply, Len(ask.citations))
    OBVIOUS
  <2>5. content1 \in SUBSET Nat /\ content1 \subseteq 1..Len(ask.citations)
    BY <2>2, <2>3, <2>4 DEF Stripped
  <2>6. 200 \in Statuses
    BY DEF Statuses
  <2> QED BY <1>5, <2>1, <2>4, <2>5, <2>6
<1>10. CASE GenerateFails
  BY <1>6, <1>10 DEF GenerateFails, Errors
<1> QED BY <1>7, <1>8, <1>9, <1>10

\* The search: what it finds is the tenant's, because row-level security shows nothing
\* else and an id is one document's.
LEMMA SearchInv ==
  ASSUME Inv, Search
  PROVE  Inv'
<1> SUFFICES ASSUME \E s \in Rankings : ask' = [ask EXCEPT !.pc = "searched", !.ranked = s]
             PROVE  Inv'
  BY RaiseInv DEF Search, Errors
<1>1. PICK s \in Rankings : ask' = [ask EXCEPT !.pc = "searched", !.ranked = s]
  OBVIOUS
<1>2. /\ ask \in Query /\ http \in {"open", "closed"} /\ OpenUntilTheEnd
      /\ ask.pc = "embedded" /\ UNCHANGED <<tables, issued, http>>
  BY DEF Search, Inv, TypeOK
<1>3. s \in BoundedSeq(SeenVectors, TopK) /\ Nearest(s)
  <2>1. s \in BoundedSeq({v \in SeenVectors : Far(v) <= Threshold}, TopK) /\ Nearest(s)
    BY <1>1 DEF Rankings, Nearest
  <2> QED BY <2>1, AnswersAssumption DEF BoundedSeq, SeqOf
<1>4. s \in Seq(SeenVectors)
  BY <1>3, AnswersAssumption, BoundedIsSeq
<1>5. vectors = chunks /\ chunks \subseteq ChunkRow
  BY DEF Inv, D!IInv, D!DocumentsAreWhole, D!TypeOK, D!ChunkRow, ChunkRow
<1>6. \A c \in SeenVectors : Lasting(c)
  <2> SUFFICES ASSUME NEW c \in SeenVectors PROVE Lasting(c)
    OBVIOUS
  <2>1. c \in chunks /\ c \in ChunkRow /\ c.doc \in Visible
    BY <1>5 DEF SeenVectors, SeenChunks
  <2>2. PICK y \in docs : y.id = c.doc /\ y.owner = ask.tenant
    BY <2>1 DEF Visible
  <2>3. c.doc \in issued
    BY <2>2 DEF Inv
  <2>4. \A x \in docs : x.id = c.doc => x = y
    BY <2>2 DEF Inv, D!IInv, D!OneCopyPerTenant
  <2> QED BY <2>1, <2>2, <2>3, <2>4 DEF Lasting
<1>7. s \in Seq(ChunkRow) /\ \A i \in DOMAIN s : Lasting(s[i])
  BY <1>4, <1>5, <1>6, SeqFacts, SeqMonotonic DEF SeenVectors
<1>8. /\ ask' \in Query /\ ask'.pc = "searched" /\ ask'.tenant = ask.tenant
      /\ ask'.ranked = s /\ ask'.found = ask.found /\ ask'.citations = ask.citations
      /\ ask'.content = ask.content /\ ask'.status = ask.status
  BY <1>1, <1>2, <1>7 DEF Query
<1>9. Visible' = Visible /\ \A c : Lasting(c) <=> Lasting(c)'
  BY <1>2, <1>8, QuietPassages
<1>10. TypeOK'
  BY <1>2, <1>8, QuietTables DEF Inv, TypeOK
<1>11. ListsLast' /\ ListsAreRankings'
  BY <1>3, <1>7, <1>8, <1>9 DEF Inv, ListsLast, ListsAreRankings
<1>12. MissingOnlyIfRemoved'
  BY <1>8, <1>9 DEF Inv, MissingOnlyIfRemoved, Cited
<1> QED BY <1>2, <1>8, <1>10, <1>11, <1>12, QuietTables DEF Inv, OpenUntilTheEnd

\* The second statement: a passage it misses is one whose document is gone.
LEMMA FetchChunksInv ==
  ASSUME Inv, FetchChunks
  PROVE  Inv'
<1> SUFFICES ASSUME \E found \in Fetched(ask.ranked) :
                      ask' = [ask EXCEPT !.pc = "fetched", !.found = found]
             PROVE  Inv'
  BY RaiseInv DEF FetchChunks, Errors
<1>1. PICK found \in Fetched(ask.ranked) :
        ask' = [ask EXCEPT !.pc = "fetched", !.found = found]
  OBVIOUS
<1>2. /\ ask \in Query /\ http \in {"open", "closed"} /\ OpenUntilTheEnd
      /\ ask.pc = "searched" /\ UNCHANGED <<tables, issued, http>>
  BY DEF FetchChunks, Inv, TypeOK
<1>3. ask.ranked \in Seq(ChunkRow)
  BY <1>2 DEF Query
<1>4. /\ found \in Seq(ChunkRow) /\ Nearest(found)
      /\ ToSet(found) = ToSet(ask.ranked) \cap SeenChunks
  BY <1>1, <1>3, FetchedFacts DEF Inv, ListsAreRankings
<1>5. /\ ask' \in Query /\ ask'.pc = "fetched" /\ ask'.tenant = ask.tenant
      /\ ask'.ranked = ask.ranked /\ ask'.found = found /\ ask'.citations = ask.citations
      /\ ask'.content = ask.content /\ ask'.status = ask.status
  BY <1>1, <1>2, <1>4 DEF Query
<1>6. Visible' = Visible /\ \A c : Lasting(c) <=> Lasting(c)'
  BY <1>2, <1>5, QuietPassages
<1>7. TypeOK'
  BY <1>2, <1>5, QuietTables DEF Inv, TypeOK
<1>8. \A c \in ToSet(ask.ranked) : Lasting(c)
  BY DEF Inv, ListsLast, ToSet
<1>9. \A i \in DOMAIN found : Lasting(found[i])
  BY <1>4, <1>8 DEF ToSet
<1>10. ListsLast' /\ ListsAreRankings'
  BY <1>4, <1>5, <1>6, <1>9 DEF Inv, ListsLast, ListsAreRankings
<1>11. MissingOnlyIfRemoved'
  <2>1. \A c \in ToSet(ask.ranked) \ ToSet(found) : c.doc \notin Visible
    BY <1>4, <1>8 DEF Lasting, SeenChunks
  <2> QED BY <1>5, <1>6, <2>1 DEF Inv, MissingOnlyIfRemoved, Cited
<1> QED BY <1>2, <1>5, <1>7, <1>10, <1>11, QuietTables DEF Inv, OpenUntilTheEnd

\* The third: a passage without a name is one whose document is gone.
LEMMA FetchFilenamesInv ==
  ASSUME Inv, FetchFilenames
  PROVE  Inv'
<1>1. /\ ask \in Query /\ http \in {"open", "closed"} /\ OpenUntilTheEnd
      /\ ask.pc = "fetched" /\ UNCHANGED <<tables, issued, http>>
      /\ ask.content = {} /\ ask.status = NULL
  BY DEF FetchFilenames, Inv, TypeOK, OpenUntilTheEnd
<1>2. CASE ask' = [ask EXCEPT !.pc = "ended", !.status = 200]
  <2>1. /\ ask' \in Query /\ ask'.pc = "ended" /\ ask'.tenant = ask.tenant
        /\ ask'.ranked = ask.ranked /\ ask'.found = ask.found
        /\ ask'.citations = ask.citations /\ ask'.content = {}
    <3>1. 200 \in {NULL} \cup Statuses
      BY DEF Statuses
    <3> QED BY <1>1, <1>2, <3>1 DEF Query
  <2> QED BY <1>1, <2>1, Proceeds DEF OpenUntilTheEnd
<1>3. CASE ask' = [ask EXCEPT !.pc = "prompted", !.citations = Named(ask.found)]
  <2>1. ask.found \in Seq(ChunkRow)
    BY <1>1 DEF Query
  <2>2. /\ Named(ask.found) \in Seq(Citation)
        /\ DOMAIN Named(ask.found) = DOMAIN ask.found
        /\ \A i \in DOMAIN ask.found : Named(ask.found)[i].chunk = ask.found[i]
        /\ Passage(Named(ask.found)) = ask.found
        /\ \A i \in DOMAIN ask.found :
             Named(ask.found)[i].filename = NULL => ask.found[i].doc \notin Visible
    BY <2>1, NamedFacts
  <2>3. /\ ask' \in Query /\ ask'.pc = "prompted" /\ ask'.tenant = ask.tenant
        /\ ask'.ranked = ask.ranked /\ ask'.found = ask.found
        /\ ask'.citations = Named(ask.found) /\ ask'.content = {} /\ ask'.status = NULL
    BY <1>1, <1>3, <2>2 DEF Query
  <2>4. Visible' = Visible /\ \A c : Lasting(c) <=> Lasting(c)'
    BY <1>1, <2>3, QuietPassages
  <2>5. TypeOK'
    BY <1>1, <2>3, QuietTables DEF TypeOK
  <2>6. ListsLast' /\ ListsAreRankings'
    BY <2>2, <2>3, <2>4 DEF Inv, ListsLast, ListsAreRankings
  <2>7. MissingOnlyIfRemoved'
    BY <1>1, <2>2, <2>3, <2>4 DEF Inv, MissingOnlyIfRemoved, Cited
  <2> QED BY <2>3, <2>5, <2>6, <2>7, <1>1, QuietTables DEF Inv, OpenUntilTheEnd
<1>4. CASE Raise("Exception")
  BY <1>1, <1>4, RaiseInv DEF Errors
<1> QED BY <1>2, <1>3, <1>4 DEF FetchFilenames

\* What happens to the tables while a question is open is an operation of the store.
LEMMA ChangeIsStoreStep == DocumentsChange => Store!Next \/ UNCHANGED tables
BY DEF DocumentsChange, Store!Next, tables

LEMMA SameStore ==
  /\ D!Init <=> Store!Init
  /\ D!Next <=> Store!Next
  /\ (UNCHANGED D!vars <=> UNCHANGED tables) /\ (UNCHANGED Store!vars <=> UNCHANGED tables)
BY DEF D!Init, Store!Init, D!Next, Store!Next, D!vars, Store!vars, tables,
       D!StoreDocument, Store!StoreDocument, D!RemoveDocument, Store!RemoveDocument,
       D!AddOwner, Store!AddOwner, D!RemoveOwners, Store!RemoveOwners,
       D!Purge, Store!Purge, D!DocIdsOf, Store!DocIdsOf, D!Document, Store!Document,
       D!Passages, Store!Passages

\* A document that appears has a fresh id, and a document that goes takes its passages
\* with it.
LEMMA TablesMove ==
  ASSUME Inv, DocumentsChange
  PROVE  /\ issued \subseteq issued' /\ issued' \subseteq DocIds
         /\ \A x \in docs' : x.id \in issued'
         /\ \A x \in docs' : x \in docs \/ x.id \notin issued
         /\ \A c \in chunks : (\E x \in docs' : x.id = c.doc) => c \in chunks'
<1>1. issued \subseteq DocIds /\ \A x \in docs : x.id \in issued
  BY DEF Inv, TypeOK
<1>2. ASSUME NEW o \in Owners, NEW d \in DocIds \ issued, NEW h \in Contents,
             Store!StoreDocument(o, d, h), issued' = issued \cup {d}
      PROVE  /\ issued \subseteq issued' /\ issued' \subseteq DocIds
             /\ \A x \in docs' : x.id \in issued'
             /\ \A x \in docs' : x \in docs \/ x.id \notin issued
             /\ \A c \in chunks : (\E x \in docs' : x.id = c.doc) => c \in chunks'
  BY <1>1, <1>2 DEF Store!StoreDocument, Store!Document
<1>3. ASSUME NEW keep \in SUBSET docs, Store!Purge(keep), UNCHANGED issued
      PROVE  /\ issued \subseteq issued' /\ issued' \subseteq DocIds
             /\ \A x \in docs' : x.id \in issued'
             /\ \A x \in docs' : x \in docs \/ x.id \notin issued
             /\ \A c \in chunks : (\E x \in docs' : x.id = c.doc) => c \in chunks'
  BY <1>1, <1>3 DEF Store!Purge, Store!DocIdsOf
<1>4. CASE \E o \in Owners, d \in DocIds \ issued, h \in Contents :
             Store!StoreDocument(o, d, h) /\ issued' = issued \cup {d}
  BY <1>2, <1>4
<1>5. CASE \E o \in Owners, d \in DocIds : Store!RemoveDocument(o, d) /\ UNCHANGED issued
  <2>1. PICK d \in DocIds : Store!Purge({x \in docs : x.id # d}) /\ UNCHANGED issued
    BY <1>5 DEF Store!RemoveDocument
  <2> QED BY <1>3, <2>1
<1>6. CASE \E gone \in SUBSET owners : Store!RemoveOwners(gone) /\ UNCHANGED issued
  <2>1. PICK gone : Store!Purge({x \in docs : x.owner \notin gone}) /\ UNCHANGED issued
    BY <1>6 DEF Store!RemoveOwners
  <2> QED BY <1>3, <2>1
<1>7. CASE \E o \in Owners : Store!AddOwner(o) /\ UNCHANGED issued
  BY <1>1, <1>7 DEF Store!AddOwner
<1> QED BY <1>4, <1>5, <1>6, <1>7 DEF DocumentsChange

LEMMA DocumentsChangeInv ==
  ASSUME Inv, DocumentsChange
  PROVE  Inv'
<1>1. UNCHANGED <<ask, http>>
  BY DEF DocumentsChange
<1>2. D!IInv'
  <2>1. [D!Next]_(D!vars)
    BY ChangeIsStoreStep, SameStore
  <2> QED BY <2>1, D!NextIInv, StoreAssumptions DEF Inv
<1>3. TypeOK'
  <2>1. Store!TypeOK'
    BY <1>2 DEF D!IInv, D!TypeOK, Store!TypeOK, D!DocRow, Store!DocRow, D!ChunkRow,
                Store!ChunkRow
  <2> QED BY <1>1, <2>1, TablesMove DEF Inv, TypeOK
<1>4. ASSUME NEW c, c.doc \in issued, c.doc \in Visible' PROVE c.doc \in Visible
  BY <1>1, <1>4, TablesMove DEF Visible
<1>5. ASSUME NEW c, Lasting(c) PROVE Lasting(c)'
  <2>1. c.doc \in issued'
    BY <1>5, TablesMove DEF Lasting
  <2>2. \A x \in docs' : x.id = c.doc => x.owner = ask'.tenant
    BY <1>1, <1>5, TablesMove DEF Lasting
  <2>3. ASSUME c.doc \in Visible' PROVE c \in chunks'
    <3>1. c \in chunks
      BY <1>4, <1>5, <2>3 DEF Lasting
    <3> QED BY <2>3, <3>1, TablesMove DEF Visible
  <2> QED BY <1>5, <2>1, <2>2, <2>3 DEF Lasting
<1>6. ListsLast' /\ ListsAreRankings'
  BY <1>1, <1>5 DEF Inv, ListsLast, ListsAreRankings
<1>7. MissingOnlyIfRemoved'
  <2>1. ASSUME NEW i \in DOMAIN Cited', Cited'[i].filename = NULL
        PROVE  Cited'[i].chunk.doc \notin Visible'
    BY <1>1, <1>4, <2>1 DEF Inv, MissingOnlyIfRemoved, ListsLast, Lasting, Cited
  <2>2. ASSUME ask'.pc \in {"fetched", "prompted", "posted"},
               NEW c \in ToSet(ask'.ranked) \ ToSet(ask'.found)
        PROVE  c.doc \notin Visible'
    BY <1>1, <1>4, <2>2 DEF Inv, MissingOnlyIfRemoved, ListsLast, Lasting, ToSet
  <2> QED BY <2>1, <2>2 DEF MissingOnlyIfRemoved
<1>8. OpenUntilTheEnd'
  BY <1>1 DEF Inv, OpenUntilTheEnd
<1> QED BY <1>2, <1>3, <1>6, <1>7, <1>8, TablesMove DEF Inv
-----------------------------------------------------------------------------
\* Every step keeps the invariant.
LEMMA NextInv == Inv /\ [Next]_vars => Inv'
<1> SUFFICES ASSUME Inv, [Next]_vars PROVE Inv'
  OBVIOUS
<1>1. CASE UNCHANGED vars
  <2>1. /\ UNCHANGED <<tables, issued>> /\ http' = http /\ ask' = ask
    BY <1>1 DEF vars, tables
  <2>2. /\ ask \in Query /\ ask.content \subseteq 1..Len(ask.citations) /\ OpenUntilTheEnd
        /\ http \in {"open", "closed"}
    BY DEF Inv, TypeOK
  <2>3. OpenUntilTheEnd'
    BY <2>1, <2>2 DEF OpenUntilTheEnd
  <2> QED BY <2>1, <2>2, <2>3, Proceeds
<1> QED BY <1>1, RestartInv, CallInv, SearchInv, FetchChunksInv, FetchFilenamesInv,
           DocumentsChangeInv DEF Next, Serve

\* Every reachable state of a question satisfies the inductive invariant.
THEOREM Invariance == Spec => []Inv
BY InitInv, NextInv, PTL DEF Spec

\* The tables and the question keep their types, and an answer names no passage that was
\* not in its prompt.
THEOREM TypeCorrect == Spec => []TypeOK
BY Invariance, PTL DEF Inv

\* Whatever is removed between the search, the two statements after it and the call of
\* the LLM, the prompt's passages are numbered nearest first and none twice.
THEOREM RankingKept == Spec => []CitationsKeepTheRanking
<1>1. Inv => CitationsKeepTheRanking
  <2> SUFFICES ASSUME Inv, NEW i \in DOMAIN Cited, NEW j \in DOMAIN Cited, i < j
               PROVE  /\ Far(Cited[i].chunk) <= Far(Cited[j].chunk)
                      /\ Cited[i].chunk # Cited[j].chunk
    BY DEF CitationsKeepTheRanking
  <2>1. Nearest(Passage(Cited))
    BY DEF Inv, ListsAreRankings, Cited
  <2>2. i \in Nat /\ j \in Nat
    BY SeqFacts DEF Inv, TypeOK, Query, Cited
  <2>3. /\ DOMAIN Passage(Cited) = DOMAIN Cited
        /\ Passage(Cited)[i] = Cited[i].chunk /\ Passage(Cited)[j] = Cited[j].chunk
    BY DEF Passage
  <2> QED BY <2>1, <2>2, <2>3 DEF Nearest, IsInjective
<1> QED BY <1>1, Invariance, PTL

\* A passage that was found is missing from the prompt or has no name only if its
\* document is gone.
THEOREM OnlyTheRemovedIsMissing == Spec => []MissingOnlyIfRemoved
BY Invariance, PTL DEF Inv

\* No statement names the tenant, and yet nothing of another one is found, fetched or
\* cited: the policy of vectors goes through that of chunks, and that through documents'.
THEOREM ReadsAreOwn == Spec => []PassagesAreTheTenants
<1>1. Inv => PassagesAreTheTenants
  <2> SUFFICES ASSUME Inv,
                      NEW c \in ToSet(ask.ranked) \cup ToSet(ask.found)
                                   \cup {Cited[i].chunk : i \in DOMAIN Cited}
               PROVE  Lasting(c)
    BY DEF PassagesAreTheTenants, Lasting
  <2> QED BY DEF Inv, ListsLast, ToSet, Cited
<1> QED BY <1>1, Invariance, PTL

\* A question changes nothing: with questions in between, the tables still go by the
\* operations of the document store.
THEOREM QuestionsOnlyRead == Spec => Store!Spec
<1>1. Init => Store!Init
  BY DEF Init
<1>2. [Next]_vars => [Store!Next]_(Store!vars)
  <2>1. CASE DocumentsChange
    BY <2>1, ChangeIsStoreStep, SameStore
  <2>2. CASE ~ DocumentsChange /\ [Next]_vars
    <3>1. UNCHANGED tables
      BY <2>2 DEF Next, Serve, Ask, EmbedQuery, Search, FetchChunks, FetchFilenames, CallLLM,
                  Return, Generate, GenerateFails, Shutdown, vars, tables
    <3> QED BY <3>1, SameStore
  <2> QED BY <2>1, <2>2
<1> QED BY <1>1, <1>2, PTL DEF Spec, Store!Spec

\* The steps of a question, in order.
Turn(pc) ==
  CASE pc = "idle" -> 0     [] pc = "asked" -> 1    [] pc = "embedded" -> 2
    [] pc = "searched" -> 3 [] pc = "fetched" -> 4  [] pc = "prompted" -> 5
    [] pc = "posted" -> 6   [] pc = "ended" -> 7

\* Every step of a question takes it forward, so it takes at most seven to its end; it
\* starts afresh only then, or when the process it is answered by ends.
QuestionsAdvance ==
  [][\/ ask' = ask
     \/ Turn(ask.pc) < Turn(ask'.pc)
     \/ ask' = NoAsk /\ (ask.pc = "ended" \/ http = "closed")]_vars

\* No step takes a question back: what fairness has to drive is finite.
THEOREM QuestionsMoveOn == Spec => QuestionsAdvance
<1>1. Inv /\ [Next]_vars =>
        [\/ ask' = ask
         \/ Turn(ask.pc) < Turn(ask'.pc)
         \/ ask' = NoAsk /\ (ask.pc = "ended" \/ http = "closed")]_vars
  <2> SUFFICES ASSUME Inv, Next, ask' # ask,
                      ~ (ask' = NoAsk /\ (ask.pc = "ended" \/ http = "closed"))
               PROVE  Turn(ask.pc) < Turn(ask'.pc)
    OBVIOUS
  <2>1. ask \in Query
    BY DEF Inv, TypeOK
  <2>2. ASSUME NEW error, Raise(error) PROVE ask'.pc = "ended"
    BY <2>1, <2>2 DEF Raise, Query
  <2>3. ASSUME NEW pc1, Goto(pc1) PROVE ask'.pc = pc1
    BY <2>1, <2>3 DEF Goto, Query
  <2>4. CASE \E o \in Owners : Ask(o)
    <3>1. ask.pc = "idle" /\ ask'.pc \in {"asked", "ended"}
      BY <2>4 DEF Ask, NoAsk
    <3> QED BY <3>1 DEF Turn
  <2>5. CASE EmbedQuery
    <3>1. ask.pc = "asked" /\ ask'.pc \in {"ended", "embedded"}
      BY <2>2, <2>3, <2>5 DEF EmbedQuery
    <3> QED BY <3>1 DEF Turn
  <2>6. CASE Search /\ ~ Raise("Exception")
    <3>1. PICK s : ask' = [ask EXCEPT !.pc = "searched", !.ranked = s]
      BY <2>6 DEF Search
    <3>2. ask.pc = "embedded" /\ ask'.pc = "searched"
      BY <2>1, <2>6, <3>1 DEF Query, Search
    <3> QED BY <3>2 DEF Turn
  <2>7. CASE FetchChunks /\ ~ Raise("Exception")
    <3>1. PICK found : ask' = [ask EXCEPT !.pc = "fetched", !.found = found]
      BY <2>7 DEF FetchChunks
    <3>2. ask.pc = "searched" /\ ask'.pc = "fetched"
      BY <2>1, <2>7, <3>1 DEF Query, FetchChunks
    <3> QED BY <3>2 DEF Turn
  <2>8. CASE FetchFilenames /\ ~ Raise("Exception")
    <3>1. CASE ask' = [ask EXCEPT !.pc = "ended", !.status = 200]
      BY <2>1, <2>8, <3>1 DEF Query, FetchFilenames, Turn
    <3>2. CASE ask' = [ask EXCEPT !.pc = "prompted", !.citations = Named(ask.found)]
      BY <2>1, <2>8, <3>2 DEF Query, FetchFilenames, Turn
    <3> QED BY <2>8, <3>1, <3>2 DEF FetchFilenames
  <2>9. CASE CallLLM
    <3>1. ask.pc = "prompted" /\ ask'.pc \in {"ended", "posted"}
      BY <2>2, <2>3, <2>9 DEF CallLLM
    <3> QED BY <3>1 DEF Turn
  <2>10. CASE Generate
    <3>1. PICK content1 : ask' = [ask EXCEPT !.pc = "ended", !.status = 200, !.content = content1]
      BY <2>10 DEF Generate
    <3>2. ask.pc = "posted" /\ ask'.pc = "ended"
      BY <2>1, <2>10, <3>1 DEF Query, Generate
    <3> QED BY <3>2 DEF Turn
  <2>11. CASE GenerateFails
    <3>1. ask.pc = "posted" /\ ask'.pc = "ended"
      BY <2>2, <2>11 DEF GenerateFails
    <3> QED BY <3>1 DEF Turn
  <2>12. CASE (Search \/ FetchChunks \/ FetchFilenames) /\ Raise("Exception")
    <3>1. ask.pc \in {"embedded", "searched", "fetched"} /\ ask'.pc = "ended"
      BY <2>2, <2>12 DEF Search, FetchChunks, FetchFilenames
    <3> QED BY <3>1 DEF Turn
  <2> QED BY <2>4, <2>5, <2>6, <2>7, <2>8, <2>9, <2>10, <2>11, <2>12
          DEF Next, Serve, Return, Shutdown, DocumentsChange
<1> QED BY <1>1, Invariance, PTL DEF Spec, QuestionsAdvance
=============================================================================
