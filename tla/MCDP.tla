-------------------------------- MODULE MCDP --------------------------------
(* Two replicas with room for one tombstone: enough chains to push the     *)
(* tombstone of a recreated one out.                                       *)
EXTENDS DPEngine
=============================================================================
