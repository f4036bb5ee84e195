----------------------------- MODULE MCChunker -----------------------------
EXTENDS Evaluation, FiniteSets

CONSTANT MaxTokens   \* bound: tokens of a text

\* n tokens of one character, a gap of one character before those in gapped; then
\* tail more characters.
TextOf(n, gapped, tail) ==
  LET End(i) == i + 1 + Cardinality(gapped \cap 0..i)
  IN [tokens |-> n,
      at |-> [i \in 0..n - 1 |-> [start |-> End(i) - 1, end |-> End(i)]],
      length |-> n + Cardinality(gapped) + tail]

BoundedTexts ==
  UNION {{TextOf(n, gapped, tail) : gapped \in SUBSET (0..n - 1), tail \in {0, 1}} :
           n \in 0..MaxTokens}
=============================================================================
