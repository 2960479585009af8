----------------------------- MODULE MCConsole ------------------------------
(***************************************************************************)
(* Small instances of Console: clicks create up to two runs, each of which   *)
(* may stop before code, fail its checks, raise anywhere or pass.  How the   *)
(* gate got to its decision does not matter to the page.                     *)
(***************************************************************************)
EXTENDS Console

CONSTANTS a1, core

(* No premise, or one that is never probed and so stays unknown.            *)
MCInitialPlans ==
  {[assumptions |-> premises, evidence_ids |-> {}] :
     premises \in {{}, {[id |-> a1, load_bearing |-> TRUE]}}}

MCProbeLists == {<< >>}

MCPatches == {<<core>>}

MCPaths == {core}
=============================================================================
