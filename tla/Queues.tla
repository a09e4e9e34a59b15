------------------------------- MODULE Queues -------------------------------
(* What Python's list comprehensions do to a queue.                        *)
EXTENDS Integers, Sequences, SequencesExt

\* The members of q that are in S, in the order of q.
Keep(q, S) ==
  LET upTo[i \in 0..Len(q)] ==
        IF i = 0 THEN <<>>
        ELSE IF q[i] \in S THEN Append(upTo[i - 1], q[i]) ELSE upTo[i - 1]
  IN  upTo[Len(q)]
=============================================================================
