SPECIFICATION DispatcherSpec
CONSTANTS
  turn1 = turn1
  turn2 = turn2
  load = load
  None = None
  Wakeup = Wakeup
  Stop = Stop
  Requests <- MCTwo
  Turn <- MCTurn
  Controls <- MCCalls
  MaxOutput = 2
  MaxFaults = 1
INVARIANTS
  CancelNotLost
  EngineAgrees
  DeadLeavesNobodyWaiting
  DispatcherInv
PROPERTIES
  AnswersImplementLifecycle
CHECK_DEADLOCK FALSE
