SPECIFICATION FairSpec
CONSTANTS
  a = a
  b = b
  c = c
  None = None
  Seqs <- MCSeqs
  PromptLen <- MCPrompt
  MaxTokens <- MCMax
  Mode <- MCMode
  NumSlots = 8
  NumRows = 3
  MaxBatchTokens = 5
  MaxBatchSeqs = 3
  MaxDecoding = 3
  ChunkSize = 2
  MinFinal = 0
  Window = 2
  FavorMin = 1
  MaxFaults = 1
INVARIANTS
  OwnedOnce
  SlotsConserved
  PublishedOnce
  WindowsBacked
  EngineInv
  NoOrphanKV
  KVMatchesHistory
  NoSpuriousFailure
PROPERTIES
  EveryRequestEnds
CHECK_DEADLOCK FALSE
