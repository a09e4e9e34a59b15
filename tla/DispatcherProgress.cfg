SPECIFICATION FairDispatcherSpec
CONSTANTS
  turn1 = turn1
  turn2 = turn2
  load = load
  None = None
  Wakeup = Wakeup
  Stop = Stop
  Requests <- MCOne
  Turn <- MCTurn
  Controls <- MCCalls
  MaxOutput = 1
  MaxFaults = 1
PROPERTIES
  EverySubmissionEnds
  AwaitsEnd
  CloseEnds
CHECK_DEADLOCK FALSE
