---------------------------- MODULE MCPreflight -----------------------------
(***************************************************************************)
(* Two invocations in a row with every small plan and probe list.            *)
(***************************************************************************)
EXTENDS Preflight, TLC

CONSTANTS a1, a2, p1, p2

Premise(a, load_bearing) == [id |-> a, load_bearing |-> load_bearing]
Field(p, a) == [id |-> p, assumption_id |-> a, kind |-> "field_shape"]

MCInitialPlans ==
  {[assumptions |-> premises, evidence_ids |-> {}] :
     premises \in {{}, {Premise(a1, TRUE)}, {Premise(a1, TRUE), Premise(a2, FALSE)}}}

(* Nothing probed, the premise, the premise twice, another one.             *)
MCProbeLists ==
  {<< >>, <<Field(p1, a1)>>, <<Field(p1, a1), Field(p2, a1)>>, <<Field(p1, a2)>>}
=============================================================================
