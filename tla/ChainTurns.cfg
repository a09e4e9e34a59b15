SPECIFICATION Spec
CONSTANTS
  None = None
  MaxIds = 3
  Confs <- MCConfs
  NumSlots = 4
  NumRows = 2
  Budget = 2
  MaxLen = 6
  ChunkSize = 2
  Window = 1
  MaxTokens = 3
  NewTokens = {1, 2}
  MaxFaults = 1
INVARIANTS
  TypeOK
  RanksAgree
  IdleIsComplete
  NothingOrphaned
  RunningTurnIntact
  CopySourceStable
CHECK_DEADLOCK FALSE
