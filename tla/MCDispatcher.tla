---------------------------- MODULE MCDispatcher ----------------------------
(* Instances of the dispatcher: one request, or two of which the second is *)
(* the next turn of the first one's chain.                                 *)
EXTENDS Dispatcher

CONSTANTS turn1, turn2, load

MCOne == {turn1}
MCTwo == {turn1, turn2}

MCTurn == [r \in Requests |-> IF r = turn1 THEN None ELSE turn1]

MCCalls   == {load}
MCNoCalls == {}
=============================================================================
