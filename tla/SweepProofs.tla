---------------------------- MODULE SweepProofs ----------------------------
(***************************************************************************)
(* What the sweep reports, proved for any corpus, goldens, chunk sizes and *)
(* tenants and any number of runs that fail anywhere.                      *)
(*                                                                         *)
(* The invariant says what the database holds of the tenants of this run,  *)
(* at every moment: the whole corpus of a size that is stored and nothing  *)
(* of another (CorpusIsStored).  It survives the runs because the tenants  *)
(* of a run are new and documents belong to an owner that is there.        *)
(***************************************************************************)
EXTENDS Sweep, FiniteSetTheorems, TLAPS

Stages == {"started", "setup", "ingesting", "asking", "failed", "reported"}

\* The document of file f at a chunk size, and those of the whole corpus.
Row(size, f) == [owner |-> tenants[size], file |-> f, hash |-> corpus[f]]
CorpusAt(size) == {Row(size, f) : f \in Files}

TypeOK ==
  /\ pc \in Stages
  /\ golds \subseteq Goldens
  /\ DOMAIN tenants \subseteq ChunkSizes
  /\ stored \subseteq DOMAIN tenants
  /\ \A s \in DOMAIN tenants : tenants[s] \in owners

\* Each size has a tenant of its own, and every document one that is there.
TenantsApart ==
  /\ \A s, t \in DOMAIN tenants : tenants[s] = tenants[t] => s = t
  /\ \A x \in docs : x.owner \in owners

CorpusIsStored ==
  \A s \in DOMAIN tenants :
    {x \in docs : x.owner = tenants[s]} = IF s \in stored THEN CorpusAt(s) ELSE {}

\* The open transaction holds files of a size that is not stored yet.
FlushedIsCorpus ==
  /\ \A x \in flushed : \E s \in DOMAIN tenants \ stored, f \in Files : x = Row(s, f)
  /\ pc # "ingesting" => flushed = {}

Measurements(S) == {<<m.size, m.golden>> : m \in S}
AllMeasured == Measurements(results) = ChunkSizes \X Asked

\* Every question is measured once at a size.
ResultsAreMeasurements ==
  /\ \A m \in results : /\ m.size \in DOMAIN tenants /\ m.golden \in Asked
                        /\ m.searched = CorpusAt(m.size)
  /\ \A m, n \in results : m.size = n.size /\ m.golden = n.golden => m = n

\* How far a run is: the cleanup begins when everything is measured.
StageOK ==
  /\ pc = "started" => DOMAIN tenants = {}
  /\ pc \in {"ingesting", "asking", "reported"} => DOMAIN tenants = ChunkSizes
  /\ pc = "asking" => stored = ChunkSizes \/ AllMeasured
  /\ pc = "reported" => stored = {} /\ AllMeasured

IInv ==
  /\ TypeOK
  /\ TenantsApart
  /\ CorpusIsStored
  /\ FlushedIsCorpus
  /\ ResultsAreMeasurements
  /\ StageOK
-----------------------------------------------------------------------------

\* Nothing is in the database before the first run.
LEMMA InitIInv == Init => IInv
<1> SUFFICES ASSUME Init PROVE IInv
  OBVIOUS
<1>1. DOMAIN tenants = {}
  BY DEF Init
<1> QED BY <1>1 DEF Init, IInv, TypeOK, Stages, TenantsApart, CorpusIsStored, FlushedIsCorpus,
                    ResultsAreMeasurements, StageOK

\* A step between two stages of a run that touches neither its documents nor its scores.
LEMMA StageIInv ==
  ASSUME IInv, UNCHANGED <<corpus, golds, tenants, stored, results, owners, docs>>,
         flushed' = {}, pc' \in Stages, StageOK'
  PROVE  IInv'
<1>1. CorpusIsStored'
  BY DEF IInv, CorpusIsStored, CorpusAt, Row
<1>2. ResultsAreMeasurements'
  BY DEF IInv, ResultsAreMeasurements, CorpusAt, Row, Asked
<1> QED BY <1>1, <1>2 DEF IInv, TypeOK, TenantsApart, FlushedIsCorpus

\* Resolving the goldens writes nothing.
LEMMA ResolveGoldensIInv == ASSUME IInv, ResolveGoldens PROVE IInv'
<1>1. flushed' = {} /\ pc' \in {"setup", "failed"}
  BY DEF ResolveGoldens, IInv, FlushedIsCorpus
<1>2. StageOK'
  BY <1>1 DEF StageOK
<1> QED BY <1>1, <1>2, StageIInv DEF ResolveGoldens, Stages

\* A failure takes the open transaction with it and nothing else.
LEMMA FailIInv == ASSUME IInv, Fail PROVE IInv'
<1>1. StageOK'
  BY DEF Fail, StageOK
<1> QED BY <1>1, StageIInv DEF Fail, Stages

\* The tenant of another size is new, so it has no documents.
LEMMA MakeAnonymousTenantIInv ==
  ASSUME IInv, NEW size \in ChunkSizes, NEW o, MakeAnonymousTenant(size, o)
  PROVE  IInv'
<1> USE DEF MakeAnonymousTenant
<1>1. DOMAIN tenants' = DOMAIN tenants \cup {size}
  OBVIOUS
<1>2. tenants'[size] = o /\ \A s \in DOMAIN tenants : tenants'[s] = tenants[s]
  OBVIOUS
<1>3. TypeOK'
  BY <1>1, <1>2 DEF IInv, TypeOK, Stages
<1>4. TenantsApart'
  BY <1>1, <1>2 DEF IInv, TypeOK, TenantsApart
<1>5. CorpusIsStored'
  <2> SUFFICES ASSUME NEW s \in DOMAIN tenants'
               PROVE  {x \in docs : x.owner = tenants'[s]}
                        = IF s \in stored THEN {[owner |-> tenants'[s], file |-> f,
                                                 hash |-> corpus[f]] : f \in Files} ELSE {}
    BY DEF CorpusIsStored, CorpusAt, Row
  <2>1. CASE s = size
    BY <1>2, <2>1 DEF IInv, TypeOK, TenantsApart
  <2>2. CASE s \in DOMAIN tenants
    BY <1>2, <2>2 DEF IInv, CorpusIsStored, CorpusAt, Row
  <2> QED BY <1>1, <2>1, <2>2
<1>6. FlushedIsCorpus' /\ pc' \in {"setup", "ingesting"}
  BY DEF IInv, FlushedIsCorpus
<1>7. ResultsAreMeasurements'
  <2>1. ASSUME NEW m \in results
        PROVE  m.size \in DOMAIN tenants' /\ m.golden \in Asked'
               /\ m.searched = {[owner |-> tenants'[m.size], file |-> f, hash |-> corpus[f]]
                                  : f \in Files}
    BY <1>1, <1>2, <2>1 DEF IInv, ResultsAreMeasurements, CorpusAt, Row, Asked
  <2> QED BY <2>1 DEF IInv, ResultsAreMeasurements, CorpusAt, Row
<1>8. StageOK'
  BY <1>6 DEF StageOK
<1> QED BY <1>3, <1>4, <1>5, <1>6, <1>7, <1>8 DEF IInv

\* store_document flushes one more file of a size that is not stored, or ends the run.
LEMMA StoreDocumentIInv ==
  ASSUME IInv, NEW size \in ChunkSizes, NEW f \in Files, StoreDocument(size, f)
  PROVE  IInv'
<1>1. CASE pc' = "failed" /\ flushed' = {}
  <2>1. StageOK'
    BY <1>1 DEF StageOK
  <2> QED BY <1>1, <2>1, StageIInv DEF StoreDocument, Stages
<1>2. CASE flushed' = flushed \cup {Row(size, f)} /\ pc' = pc
  <2>0. UNCHANGED <<corpus, golds, tenants, stored, results, owners, docs>>
        /\ pc = "ingesting" /\ size \notin stored
    BY DEF StoreDocument
  <2>1. size \in DOMAIN tenants \ stored
    BY <2>0 DEF IInv, StageOK
  <2>2. FlushedIsCorpus'
    BY <1>2, <2>0, <2>1 DEF IInv, FlushedIsCorpus, Row
  <2>3. CorpusIsStored'
    BY <2>0 DEF IInv, CorpusIsStored, CorpusAt, Row
  <2>4. ResultsAreMeasurements'
    BY <2>0 DEF IInv, ResultsAreMeasurements, CorpusAt, Row, Asked
  <2>5. StageOK'
    BY <1>2, <2>0 DEF IInv, StageOK
  <2> QED BY <1>2, <2>0, <2>2, <2>3, <2>4, <2>5 DEF IInv, TypeOK, TenantsApart
<1> QED BY <1>1, <1>2 DEF StoreDocument, Row

\* What commits for a size is its whole corpus, and no other size's tenant gets any of it.
LEMMA CommitCorpusIInv ==
  ASSUME IInv, NEW size \in ChunkSizes, CommitCorpus(size)
  PROVE  IInv'
<1> USE DEF CommitCorpus
<1>1. size \in DOMAIN tenants \ stored
  BY DEF IInv, StageOK
<1>2. flushed = CorpusAt(size)
  <2>1. ASSUME NEW x \in flushed PROVE x \in CorpusAt(size)
    <3>1. PICK s \in DOMAIN tenants, f \in Files : x = Row(s, f)
      BY <2>1 DEF IInv, FlushedIsCorpus
    <3>2. tenants[s] = tenants[size]
      BY <2>1, <3>1 DEF Row
    <3>3. s = size
      BY <1>1, <3>2 DEF IInv, TenantsApart
    <3> QED BY <3>1, <3>3 DEF CorpusAt
  <2>2. ASSUME NEW f \in Files PROVE Row(size, f) \in flushed
    <3>1. PICK x \in flushed : x.file = f
      BY <2>2
    <3>2. PICK g \in Files : x = Row(size, g)
      BY <2>1, <3>1 DEF CorpusAt
    <3>3. g = f
      BY <3>1, <3>2 DEF Row
    <3> QED BY <3>1, <3>2, <3>3
  <2> QED BY <2>1, <2>2 DEF CorpusAt
<1>3. CorpusIsStored'
  <2> SUFFICES ASSUME NEW s \in DOMAIN tenants
               PROVE  {x \in docs' : x.owner = tenants[s]}
                        = IF s \in stored' THEN CorpusAt(s) ELSE {}
    BY DEF CorpusIsStored, CorpusAt, Row
  <2>1. {x \in docs : x.owner = tenants[s]} = IF s \in stored THEN CorpusAt(s) ELSE {}
    BY DEF IInv, CorpusIsStored
  <2>2. \A x \in flushed : x.owner = tenants[s] <=> s = size
    BY <1>1 DEF IInv, TenantsApart
  <2>3. {x \in docs' : x.owner = tenants[s]}
          = {x \in docs : x.owner = tenants[s]} \cup IF s = size THEN flushed ELSE {}
    BY <2>2
  <2> QED BY <1>1, <1>2, <2>1, <2>3
<1>4. TenantsApart'
  <2>1. \A x \in flushed : x.owner \in owners
    BY <1>1 DEF IInv, TypeOK
  <2> QED BY <2>1 DEF IInv, TenantsApart
<1>5. FlushedIsCorpus'
  BY DEF FlushedIsCorpus
<1>6. ResultsAreMeasurements'
  BY DEF IInv, ResultsAreMeasurements, CorpusAt, Row, Asked
<1>7. StageOK'
  BY DEF IInv, StageOK
<1>8. TypeOK'
  BY <1>1 DEF IInv, TypeOK, Stages
<1> QED BY <1>3, <1>4, <1>5, <1>6, <1>7, <1>8 DEF IInv

\* A question is asked before the cleanup, so its search sees the whole corpus of its size.
LEMMA AskIInv ==
  ASSUME IInv, NEW size \in ChunkSizes, NEW g \in golds, Ask(size, g)
  PROVE  IInv'
<1> USE DEF Ask
<1>1. DOMAIN tenants = ChunkSizes
  BY DEF IInv, StageOK
<1>2. ~ AllMeasured
  <2>1. <<size, g>> \in ChunkSizes \X Asked
    OBVIOUS
  <2>2. <<size, g>> \notin Measurements(results)
    BY DEF Measurements
  <2> QED BY <2>1, <2>2 DEF AllMeasured
<1>3. size \in stored /\ stored = ChunkSizes
  BY <1>2 DEF IInv, StageOK
<1>4. Searched(tenants[size]) = CorpusAt(size)
  BY <1>1, <1>3 DEF Searched, Visible, IInv, CorpusIsStored, FlushedIsCorpus
<1>5. ResultsAreMeasurements'
  <2> DEFINE new == [size |-> size, golden |-> g, searched |-> CorpusAt(size)]
  <2>1. results' = results \cup {new}
    BY <1>4
  <2>2. Asked' = Asked /\ \A s : CorpusAt(s)' = CorpusAt(s)
    BY DEF Asked, CorpusAt, Row
  <2>3. \A m \in results : ~ (m.size = new.size /\ m.golden = new.golden)
    OBVIOUS
  <2>4. new.size \in DOMAIN tenants /\ new.golden \in Asked
        /\ new.searched = CorpusAt(new.size)
    BY <1>1
  <2> HIDE DEF new
  <2> QED BY <2>1, <2>2, <2>3, <2>4 DEF IInv, ResultsAreMeasurements
<1>6. CorpusIsStored' /\ FlushedIsCorpus'
  BY DEF IInv, CorpusIsStored, FlushedIsCorpus, CorpusAt, Row
<1>7. StageOK'
  BY <1>3 DEF IInv, StageOK
<1> QED BY <1>5, <1>6, <1>7 DEF IInv, TypeOK, TenantsApart

\* As many measurements as there are pairs are all of them: no pair is measured twice.
LEMMA CountedIsMeasured ==
  ASSUME IInv, DOMAIN tenants = ChunkSizes,
         Cardinality(results) = Cardinality(ChunkSizes \X Asked)
  PROVE  AllMeasured
<1> DEFINE pairs == ChunkSizes \X Asked
           pairOf == [m \in results |-> <<m.size, m.golden>>]
<1>1. IsFiniteSet(pairs)
  <2>1. Asked \in SUBSET Goldens
    BY DEF Asked, IInv, TypeOK
  <2>2. IsFiniteSet(Asked)
    BY <2>1, FS_Subset, SweepAssumption
  <2> QED BY <2>2, FS_Product, SweepAssumption
<1>2. pairOf \in Injection(results, pairs)
  BY DEF IInv, ResultsAreMeasurements, Injection, IsInjective
<1>3. pairOf \in Surjection(results, pairs)
  BY <1>1, <1>2, FS_Injection
<1>4. \A p \in pairs : \E m \in results : pairOf[m] = p
  BY <1>3 DEF Surjection
<1>5. \A p \in pairs : p \in Measurements(results)
  BY <1>4 DEF Measurements
<1>6. Measurements(results) \subseteq pairs
  BY DEF Measurements, IInv, ResultsAreMeasurements
<1> QED BY <1>5, <1>6 DEF AllMeasured

\* The cleanup of one size takes all documents of its tenant and of no other.
LEMMA CleanupIInv ==
  ASSUME IInv, NEW size \in ChunkSizes, Cleanup(size)
  PROVE  IInv'
<1> USE DEF Cleanup
<1>1. DOMAIN tenants = ChunkSizes /\ AllMeasured
  BY CountedIsMeasured DEF IInv, StageOK
<1>2. Deletable(tenants[size]) = {x \in docs : x.owner = tenants[size]}
  BY DEF Deletable, Visible, IInv, FlushedIsCorpus
<1>3. CorpusIsStored'
  <2> SUFFICES ASSUME NEW s \in DOMAIN tenants
               PROVE  {x \in docs' : x.owner = tenants[s]}
                        = IF s \in stored' THEN CorpusAt(s) ELSE {}
    BY DEF CorpusIsStored, CorpusAt, Row
  <2>1. {x \in docs : x.owner = tenants[s]} = IF s \in stored THEN CorpusAt(s) ELSE {}
    BY DEF IInv, CorpusIsStored
  <2>2. CASE s = size
    BY <1>2, <2>2
  <2>3. CASE s # size
    <3>1. tenants[s] # tenants[size]
      BY <1>1, <2>3 DEF IInv, TenantsApart
    <3> QED BY <1>2, <2>1, <2>3, <3>1
  <2> QED BY <2>2, <2>3
<1>4. AllMeasured'
  BY <1>1 DEF AllMeasured, Measurements, Asked
<1>5. StageOK'
  BY <1>1, <1>4 DEF StageOK
<1>6. ResultsAreMeasurements' /\ FlushedIsCorpus'
  BY DEF IInv, ResultsAreMeasurements, FlushedIsCorpus, CorpusAt, Row, Asked
<1>7. TypeOK' /\ TenantsApart'
  BY DEF IInv, TypeOK, TenantsApart, Stages
<1> QED BY <1>3, <1>5, <1>6, <1>7 DEF IInv

\* The next run starts with tenants and scores of its own.
LEMMA RunAgainIInv == ASSUME IInv, RunAgain PROVE IInv'
<1>1. DOMAIN tenants' = {}
  BY DEF RunAgain
<1> QED BY <1>1 DEF RunAgain, IInv, TypeOK, Stages, TenantsApart, CorpusIsStored,
                    FlushedIsCorpus, ResultsAreMeasurements, StageOK

\* Every step keeps the invariant.
LEMMA NextIInv == IInv /\ [Next]_vars => IInv'
<1> SUFFICES ASSUME IInv, [Next]_vars PROVE IInv'
  OBVIOUS
<1>1. ASSUME NEW size \in ChunkSizes,
             \/ \E o \in Owners : MakeAnonymousTenant(size, o)
             \/ \E f \in Files : StoreDocument(size, f)
             \/ CommitCorpus(size)
             \/ \E g \in golds : Ask(size, g)
             \/ Cleanup(size)
      PROVE  IInv'
  BY <1>1, MakeAnonymousTenantIInv, StoreDocumentIInv, CommitCorpusIInv, AskIInv, CleanupIInv
<1>2. CASE UNCHANGED vars
  <2>1. UNCHANGED <<corpus, golds, pc, tenants, stored, flushed, results, owners, docs>>
    BY <1>2 DEF vars, run
  <2> QED BY <2>1 DEF IInv, TypeOK, TenantsApart, CorpusIsStored, FlushedIsCorpus,
                      ResultsAreMeasurements, StageOK, CorpusAt, Row, Asked, AllMeasured
<1> QED BY <1>1, <1>2, ResolveGoldensIInv, FailIInv, RunAgainIInv DEF Next

\* The invariant holds in every reachable state.
THEOREM Invariance == Spec => []IInv
BY InitIInv, NextIInv, PTL DEF Spec

\* Every score of every run was measured on exactly the corpus of that run at its size:
\* earlier runs, wherever they failed, and the other sizes have no part in it.
THEOREM ScoresAreOfTheCorpus == Spec => []MeasuredOnTheCorpus
<1>1. IInv => MeasuredOnTheCorpus
  BY DEF IInv, ResultsAreMeasurements, MeasuredOnTheCorpus, CorpusAt, Row
<1> QED BY <1>1, Invariance, PTL

\* A run that reports has asked every question at every size and left no document.
THEOREM ReportsAreComplete == Spec => []ReportedIsCompleteAndClean
<1>1. IInv => ReportedIsCompleteAndClean
  <2> SUFFICES ASSUME IInv, pc = "reported"
               PROVE  /\ {<<m.size, m.golden>> : m \in results} = ChunkSizes \X Asked
                      /\ \A x \in docs, size \in ChunkSizes : x.owner # tenants[size]
    BY DEF ReportedIsCompleteAndClean
  <2>1. DOMAIN tenants = ChunkSizes /\ stored = {} /\ AllMeasured
    BY DEF IInv, StageOK
  <2>2. \A s \in ChunkSizes : {x \in docs : x.owner = tenants[s]} = {}
    BY <2>1 DEF IInv, CorpusIsStored
  <2> QED BY <2>1, <2>2 DEF AllMeasured, Measurements
<1> QED BY <1>1, Invariance, PTL
=============================================================================
