CONSTANTS
  words = words
  moreWords = moreWords
  noWords = noWords
  f1 = f1
  f2 = f2
  NULL = NULL
  Owners = {o1, o2, o3, o4}
  DocIds = {}
  Contents = {words, moreWords, noWords}
  Size <- SizeOfContents
  ChunkSizes = {64, 254}
  Files = {f1, f2}
  Goldens <- GoldenLines
  MaxRuns = 2
SPECIFICATION Spec
CHECK_DEADLOCK FALSE
INVARIANTS
  MeasuredOnTheCorpus
  ReportedIsCompleteAndClean
