CONSTANTS
  None = None
  MaxTokens = 5
  Tau = 50
  Ceilings = {1, 2, 3, 4}
  ChunkSizes = {0, 1, 2, 3, 5}
  Percents = {0, 12, 50, 75, 150}
  Texts <- BoundedTexts
SPECIFICATION Spec
CHECK_DEADLOCK FALSE
INVARIANTS
  TokensAreCovered
  ChunksFitTheModel
  NeighboursOverlap
  ScoresCountCharacters
