--------------------------- MODULE MCDocRequests ---------------------------
EXTENDS DocRequests, TLC

CONSTANTS words, noWords

SizeOfContents == [h \in Contents |-> IF h = noWords THEN 0 ELSE 1]

Symmetry == Permutations(Requests) \cup Permutations(Owners)
              \cup Permutations(DocIds) \cup Permutations(Conns)
=============================================================================
