------------------------------- MODULE MCSweep -------------------------------
EXTENDS Sweep, TLC

CONSTANTS words, moreWords, noWords, f1, f2

SizeOfContents == [h \in Contents |-> IF h = noWords THEN 0 ELSE 1]

Answer(f, m, o, w) == [document |-> f, matches |-> m, occurrence |-> o, atWords |-> w]

\* A plain question, one over two files, one without an answer, one whose quote is
\* ambiguous and one whose quote was truncated.
GoldenLines ==
  {[tier |-> "lexical", answers |-> {Answer(f1, 1, 1, TRUE)}],
   [tier |-> "multi-hop", answers |-> {Answer(f1, 2, 2, TRUE), Answer(f2, 1, 1, TRUE)}],
   [tier |-> "unanswerable", answers |-> {}],
   [tier |-> "needle", answers |-> {Answer(f2, 2, 1, TRUE)}],
   [tier |-> "paraphrase", answers |-> {Answer(f2, 1, 1, FALSE)}]}
=============================================================================
