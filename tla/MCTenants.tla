----------------------------- MODULE MCTenants -----------------------------
EXTENDS Tenants, TLC

OneChunkEach == [h \in Contents |-> 1]

Symmetry == Permutations(Owners) \cup Permutations(Names) \cup Permutations(Tokens)
              \cup Permutations(DocIds)
=============================================================================
