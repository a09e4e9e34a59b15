SPECIFICATION FairAsyncSpec
CONSTANTS
  a = a
  b = b
  c = c
  d = d
  None = None
  Seqs <- MCFour
  PromptLen <- MCPromptLimits
  MaxTokens <- MCMaxLimits
  Mode <- MCModeLimits
  NumSlots = 6
  NumRows = 4
  MaxBatchTokens = 4
  MaxBatchSeqs = 2
  MaxDecoding = 3
  ChunkSize = 3
  MinFinal = 2
  Window = 2
  FavorMin = 1
  MaxFaults = 0
  MaxInflight = 2
  NeedsHistory = FALSE
INVARIANTS
  NeverHangs
PROPERTIES
  FinishedIsFinal
  EveryRequestEnds
  EveryReleaseHappens
CHECK_DEADLOCK FALSE
