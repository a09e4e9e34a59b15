------------------------------ MODULE MCChain ------------------------------
(* Chain conversations that outgrow the device: one rank with and without  *)
(* host snapshots, and two ranks with them.                                *)
EXTENDS ChainCache

MCConfs == {[tp |-> 1, host |-> 0, history |-> 12],
            [tp |-> 1, host |-> 3, history |-> 6],
            [tp |-> 2, host |-> 3, history |-> 12]}
=============================================================================
