SPECIFICATION Spec
CONSTANTS
  None = None
  NumRanks = 2
  MaxIds = 3
  MaxChains = 4
  MaxTombstones = 1
  Modes = {"chain"}
  MaxFaults = 0
INVARIANTS
  ChainKeepsItsId
CHECK_DEADLOCK FALSE
