----------------------------- MODULE MCAnswers -----------------------------
EXTENDS Answers

CONSTANTS d1, d2, d3, short, long

SizeOfContents == short :> 1 @@ long :> 2

\* Two passages tie, one is beyond the threshold, and the nearest one of d1 is its second.
Distances == d1 :> (0 :> 2 @@ 1 :> 0) @@ d2 :> (0 :> 0 @@ 1 :> 1) @@ d3 :> (0 :> 1 @@ 1 :> 3)

\* Markers that name a passage, that are beyond the last one, and 0.
MCReplies == {{}, {0, 1}, {2, 3}}
=============================================================================
