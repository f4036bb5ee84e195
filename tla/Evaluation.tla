----------------------------- MODULE Evaluation -----------------------------
(***************************************************************************)
(* The evaluation scores the very chunks the chunker cut: overlapping      *)
(* windows, in the order of the ranking, among those of other documents.   *)
(***************************************************************************)
EXTENDS Chunker, SpanMetrics

CONSTANT Tau   \* the threshold of recall, in percent

ASSUME TauAssumption == Tau \in Nat

Characters(s) == s.start .. s.end - 1

\* What main() makes of the retrieved chunks.
Retrieved(doc, ks) ==
  SetToSeq({CharSpan(doc, chunks[k].start, chunks[k].end) : k \in ks})

\* A golden quote: it starts and ends at a word boundary.
Quote(doc, first, last) == CharSpan(doc, text.at[first].start, text.at[last].end)
-----------------------------------------------------------------------------
\* Whatever chunks are retrieved, in whatever order and beside those of another
\* document, coverage counts each character of the golden answer once, although
\* neighbouring chunks share some; so recall never drops when more is retrieved.
\* Precision and rank count the chunks that hold half of it on their own.
ScoresCountCharacters ==
  pc = "returned" =>
    LET all == Retrieved(1, DOMAIN chunks)
        others == Retrieved(2, DOMAIN chunks)
    IN \A ks \in SUBSET (DOMAIN chunks), i \in 0..text.tokens - 1 :
         LET spans == Retrieved(1, ks)
             seen == UNION {Characters(spans[n]) : n \in DOMAIN spans}
         IN \A j \in i..text.tokens - 1 :
              LET gold == Quote(1, i, j)
                  hits == {n \in DOMAIN spans :
                             2 * Cardinality(Characters(spans[n]) \cap Characters(gold))
                               >= gold.end - gold.start}
              IN /\ CoveredLen(gold, others \o Reverse(spans)) =
                      Cardinality(Characters(gold) \cap seen)
                 /\ RecallCount(<<gold>>, spans, Tau) <= RecallCount(<<gold>>, all, Tau)
                 /\ PrecisionCount(<<gold>>, spans) = Cardinality(hits)
                 /\ FirstRelevant(<<gold>>, spans) = IF hits = {} THEN 0 ELSE Min(hits)
=============================================================================
