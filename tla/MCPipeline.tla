----------------------------- MODULE MCPipeline -----------------------------
(***************************************************************************)
(* Small instances of Pipeline for TLC: the answers a model may give are    *)
(* chosen so that every branch of the gate, of the replan contract and of   *)
(* apply_patch is taken.                                                    *)
(***************************************************************************)
EXTENDS Pipeline, TLC

CONSTANTS a1, a2, p1, p2, core, rules, tests, other

Assume(a, load_bearing) == [id |-> a, load_bearing |-> load_bearing]
Field(p, a) == [id |-> p, assumption_id |-> a, kind |-> "field_shape"]
Order(p, a) == [id |-> p, assumption_id |-> a, kind |-> "ast_order"]
EV(p, part) == [probe |-> p, part |-> part]

(* No premise, one, one beside a premise that bears no load, two.           *)
MCInitialPlans ==
  {[assumptions |-> premises, evidence_ids |-> {}] :
     premises \in {{}, {Assume(a1, TRUE)},
                   {Assume(a1, TRUE), Assume(a2, FALSE)},
                   {Assume(a1, TRUE), Assume(a2, TRUE)}}}

(* Nothing probed, one premise, one premise twice, both premises, and two    *)
(* probes that share an id.                                                  *)
MCProbeLists ==
  {<< >>, <<Field(p1, a1)>>, <<Field(p1, a1), Field(p2, a1)>>,
   <<Field(p1, a1), Order(p2, a2)>>, <<Field(p1, a2), Field(p1, a1)>>}

MCRevisedPlans ==
  [assumptions  : {{}, {Assume(a2, TRUE)}, {Assume(a2, FALSE)}},
   evidence_ids : SUBSET {EV(p1, ""), EV(p2, ""), EV(p2, "A"), EV(p2, "B")}]

MCPaths == {core, rules, tests, other}
MCAllowlisted == {core, rules, tests}
MCDeniedPart == {tests}
MCInside == {core, rules, tests}

MCPatches == {<< >>, <<core>>, <<core, rules>>, <<core, tests>>, <<other>>}
=============================================================================
