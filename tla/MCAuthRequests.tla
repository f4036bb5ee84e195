-------------------------- MODULE MCAuthRequests --------------------------
EXTENDS AuthRequests, TLC

Symmetry == Permutations(Requests) \cup Permutations(Browsers)
              \cup Permutations(Owners) \cup Permutations(Tokens)
=============================================================================
