---------------------------- MODULE SpanMetrics ----------------------------
(***************************************************************************)
(* How retrieval is scored: a golden answer is a span of characters of a   *)
(* document, and recall asks how much of it the retrieved chunks cover.    *)
(* A document's name is its rank among the names.  Span() refuses a span   *)
(* without characters, which ends the script; the operators are defined on *)
(* such spans too.                                                         *)
(***************************************************************************)
EXTENDS Integers, SequencesExt

CharSpan(doc, start, end) == [doc |-> doc, start |-> start, end |-> end]

Before(a, b) == a.doc < b.doc \/ (a.doc = b.doc /\ a.start < b.start)

\* Position i comes no later than j: Python's sort keeps the order of equal keys.
NotAfter(spans, i, j) ==
  Before(spans[i], spans[j]) \/ (~ Before(spans[j], spans[i]) /\ i <= j)

\* The spans at the positions here, sorted.
Sorted(spans, here) ==
  LET Rank(i) == Cardinality({j \in here : NotAfter(spans, j, i)})
  IN [n \in 1..Cardinality(here) |-> spans[CHOOSE i \in here : Rank(i) = n]]

\* Mutated: a span is joined to the one before it only if they are the same.
JoinedApart(merged, s) ==
  IF merged # <<>> /\ Last(merged) = s THEN merged ELSE Append(merged, s)

\* One turn of merge's loop: s extends the span before it when they touch or overlap.
Joined(merged, s) ==
  IF merged = <<>> \/ Last(merged).doc # s.doc \/ s.start > Last(merged).end
  THEN Append(merged, s)
  ELSE [merged EXCEPT ![Len(merged)].end = Max({@, s.end})]

\* merge, of the spans at the positions here.
Merge(spans, here) ==
  LET sorted == Sorted(spans, here)
      after[n \in 0..Len(sorted)] == IF n = 0 THEN <<>> ELSE Joined(after[n - 1], sorted[n])
  IN after[Len(sorted)]

\* intersect_len, of two spans of one document.
IntersectLen(a, b) ==
  LET first == IF a.start > b.start THEN b ELSE a
      second == IF a.start > b.start THEN a ELSE b
  IN IF second.start >= first.end
     THEN 0
     ELSE IF first.end > second.end
          THEN (first.end - second.start) - (first.end - second.end)
          ELSE first.end - second.start

CoveredLen(gold, retrieved) ==
  LET merged == Merge(retrieved, {i \in DOMAIN retrieved : retrieved[i].doc = gold.doc})
      ret[n \in 0..Len(merged)] ==
        IF n = 0 THEN 0 ELSE ret[n - 1] + IntersectLen(merged[n], gold)
  IN ret[Len(merged)]

\* covered / length >= tau, tau in percent.
Covers(spans, gold, tau) == 100 * CoveredLen(gold, spans) >= tau * (gold.end - gold.start)

\* The numerator of recall; its denominator is the number of golds.
RecallCount(golds, spans, tau) == Cardinality({i \in DOMAIN golds : Covers(spans, golds[i], tau)})

IsRelevant(chunkSpan, golds, tau) == \E i \in DOMAIN golds : Covers(<<chunkSpan>>, golds[i], tau)

\* The positions of the spans that hold half of a gold on their own.
Relevant(golds, spans) == {n \in DOMAIN spans : IsRelevant(spans[n], golds, 50)}

\* The numerator of precision; its denominator is the number of spans.
PrecisionCount(golds, spans) == Cardinality(Relevant(golds, spans))

\* The rank reciprocal_rank takes the inverse of, 0 for none.
FirstRelevant(golds, spans) ==
  LET hits == Relevant(golds, spans) IN IF hits = {} THEN 0 ELSE Min(hits)
=============================================================================
