SPECIFICATION FairSpec
CONSTANTS
  None = None
  NumRanks = 2
  MaxIds = 3
  MaxChains = 4
  MaxTombstones = 1
  Modes = {"chain", "radix"}
  MaxFaults = 1
INVARIANTS
  IdentitiesExact
  RepliesMatchCalls
PROPERTIES
  CallsEnd
CHECK_DEADLOCK FALSE
