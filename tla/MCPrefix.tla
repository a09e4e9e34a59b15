------------------------------ MODULE MCPrefix ------------------------------
(* Three prompts on a device of three slots: two share two blocks, so that *)
(* a pass can admit both, and a third shares none, so that running it      *)
(* drives the others' blocks out.  One deployment evicts, with a limit on  *)
(* the blocks that the first prompt exceeds; the other offloads to a host  *)
(* that cannot keep all five blocks.                                       *)
EXTENDS PrefixCache, TLC

CONSTANTS a, b, c, d, e, r1, r2, r3

MCParent == (a :> Root) @@ (b :> a) @@ (c :> b) @@ (d :> Root) @@ (e :> d)
MCPath == (r1 :> <<a, b, c>>) @@ (r2 :> <<a, b>>) @@ (r3 :> <<d, e>>)
MCPrompt == (r1 :> 3) @@ (r2 :> 2) @@ (r3 :> 1)
MCConfs == {[host |-> 0, max |-> 2], [host |-> 4, max |-> 0]}

\* A prompt asked again after another one drove it out: its last block is always
\* computed, so it is published a second time, and then the completion's block.
MCAgainPath == (r1 :> <<a, b>>) @@ (r2 :> <<d, e>>)
MCAgainPrompt == (r1 :> 1) @@ (r2 :> 2)
MCOffload == {[host |-> 4, max |-> 0]}
=============================================================================
