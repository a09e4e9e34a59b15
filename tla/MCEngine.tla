------------------------------ MODULE MCEngine ------------------------------
(* An instance of the synchronous engine: three requests in a cache that   *)
(* each fills alone, the third with a prompt of two chunks that computes   *)
(* half of itself beside two decodes.                                      *)
EXTENDS LLMEngine

CONSTANTS a, b, c

MCSeqs   == {a, b, c}
MCPrompt == [s \in Seqs |-> IF s = c THEN 4 ELSE 2]
MCMax    == [s \in Seqs |-> 4]
MCMode   == [s \in Seqs |-> "chunked"]
=============================================================================
