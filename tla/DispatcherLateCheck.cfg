SPECIFICATION DispatcherSpec
CONSTANTS
  turn1 = turn1
  turn2 = turn2
  load = load
  None = None
  Wakeup = Wakeup
  Stop = Stop
  Requests <- MCOne
  Turn <- MCTurn
  Controls <- MCNoCalls
  MaxOutput = 1
  MaxFaults = 1
INVARIANTS
  FinalErrorReachesClient
CHECK_DEADLOCK FALSE
