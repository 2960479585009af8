----------------------------- MODULE MCService ------------------------------
(***************************************************************************)
(* A small instance of Service: more runs than the pool has threads, each of *)
(* which may raise anywhere, edit its workspace, fail its checks or pass.    *)
(* What the gate decides does not matter to the pool: the plans have no      *)
(* premises.                                                                 *)
(***************************************************************************)
EXTENDS Service

CONSTANT core

MCInitialPlans == {[assumptions |-> {}, evidence_ids |-> {}]}

MCProbeLists == {<< >>}

MCPatches == {<<core>>}

MCPaths == {core}
=============================================================================
