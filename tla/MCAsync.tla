------------------------------- MODULE MCAsync -------------------------------
(* Instances of the asynchronous engine: two or three requests that fit, or *)
(* four at the limits, with at most two forwards in flight.                 *)
EXTENDS AsyncScheduler

CONSTANTS a, b, c, d

MCTwo   == {a, b}
MCThree == {a, b, c}
MCFour  == {a, b, c, d}

\* Prompts of one and of two chunks, several decode windows each.
MCPrompt == [s \in Seqs |-> IF s = a THEN 3 ELSE 2]
MCMax    == [s \in Seqs |-> 4]
MCMode   == [s \in Seqs |-> "chunked"]

\* A chunked prompt larger than the cache, a "full" one larger than a batch, a
\* "full" one that runs, and a chunked one whose decode outgrows the cache and
\* whose last chunk needs the minimum.
MCPromptLimits == [s \in Seqs |-> CASE s = a -> 7 [] s = b -> 5 [] s = c -> 3 [] OTHER -> 4]
MCMaxLimits    == [s \in Seqs |-> IF s = d THEN 4 ELSE 2]
MCModeLimits   == [s \in Seqs |-> IF s \in {b, c} THEN "full" ELSE "chunked"]
=============================================================================
