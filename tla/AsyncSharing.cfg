SPECIFICATION AsyncSpec
CONSTANTS
  a = a
  b = b
  c = c
  d = d
  None = None
  Seqs <- MCThree
  PromptLen <- MCPrompt
  MaxTokens <- MCMax
  Mode <- MCMode
  NumSlots = 6
  NumRows = 3
  MaxBatchTokens = 3
  MaxBatchSeqs = 2
  MaxDecoding = 2
  ChunkSize = 2
  MinFinal = 0
  Window = 1
  FavorMin = 0
  MaxFaults = 2
  MaxInflight = 2
  NeedsHistory = FALSE
INVARIANTS
  InflightExact
  NoReleaseInFlight
  FeedbackCurrent
  NoOrphanAsyncKV
CHECK_DEADLOCK FALSE
