-------------------------------- MODULE Gate --------------------------------
(***************************************************************************)
(* The pre-code gate of PlanProbe as pure operators: what a plan, a probe   *)
(* and a probe result are, how the gate reads the results               *)
(* (engine/gate.py) and when the pipeline accepts a revised plan          *)
(* (engine/pipeline.py, _unknown_load_bearing and _validate_replan).      *)
(*                                                                         *)
(* Lists whose order the code never reads (a plan's assumptions, the       *)
(* evidence it cites, the evidence of a result) are sets.  The list of     *)
(* results stays a sequence: the gate's dictionary keeps the LAST result   *)
(* of an assumption.                                                       *)
(***************************************************************************)
EXTENDS Naturals, Sequences

CONSTANTS AssumptionIds,   \* ids a plan may give its assumptions
          ProbeIds         \* ids the probe compiler may give its probes

Verdicts == {"verified", "contradicted", "unknown"}

ProbeKinds == {"mapping_all_equal", "field_shape", "pytest_node",
               "ast_order", "function_signature"}

(* EV-<probe>, or EV-<probe>-A and EV-<probe>-B for an ordering probe.     *)
EvidenceIds == [probe : ProbeIds, part : {"", "A", "B"}]

Assumptions == [id : AssumptionIds, load_bearing : BOOLEAN]

ImplementationPlan ==
  [assumptions : SUBSET Assumptions, evidence_ids : SUBSET EvidenceIds]

ProbeSpec == [id : ProbeIds, assumption_id : AssumptionIds, kind : ProbeKinds]

ProbeResult == [probe_id      : ProbeIds,
                assumption_id : AssumptionIds,
                verdict       : Verdicts,
                evidence      : SUBSET EvidenceIds]

GateDecision == [status              : {"pass", "block"},
                 blocked_assumptions : SUBSET AssumptionIds]

-----------------------------------------------------------------------------
(* Running one probe.                                                      *)

(* The evidence an executor attaches: none without a verdict, the two call *)
(* sites for an ordering probe, one reference otherwise.                   *)
EvidenceOf(spec, verdict) ==
  IF verdict = "unknown" THEN {}
  ELSE [probe : {spec.id},
        part  : IF spec.kind = "ast_order" THEN {"A", "B"} ELSE {""}]

ResultOf(spec, verdict) ==
  [probe_id      |-> spec.id,
   assumption_id |-> spec.assumption_id,
   verdict       |-> verdict,
   evidence      |-> EvidenceOf(spec, verdict)]

(* Every probe is run, in order, and an executor's exception is an         *)
(* "unknown" verdict: one result per probe, whatever the verdicts are.     *)
ProbeOutcomes(probes) ==
  { [i \in DOMAIN probes |-> ResultOf(probes[i], verdicts[i])] :
      verdicts \in [DOMAIN probes -> Verdicts] }

-----------------------------------------------------------------------------
(* The gate.                                                               *)

LoadBearing(plan) == {a.id : a \in {x \in plan.assumptions : x.load_bearing}}

(* by_assumption.get(a): the verdict of the last result about a, as a      *)
(* singleton; the empty set stands for None, no probe addressed a.         *)
LatestVerdict(results, a) ==
  {results[i].verdict : i \in {k \in DOMAIN results :
     /\ results[k].assumption_id = a
     /\ \A j \in DOMAIN results : results[j].assumption_id = a => j <= k}}

BlockedAssumptions(plan, results) ==
  {a \in LoadBearing(plan) :
     LatestVerdict(results, a) \subseteq {"contradicted", "unknown"}}

DecideGate(plan, results) ==
  LET blocked == BlockedAssumptions(plan, results) IN
  [status              |-> IF blocked = {} THEN "pass" ELSE "block",
   blocked_assumptions |-> blocked]

(* Variant: a premise that nobody probed is not counted.                   *)
UnknownVerdictsOnly(plan, results) ==
  {a \in LoadBearing(plan) : LatestVerdict(results, a) = {"unknown"}}

UnknownLoadBearing(plan, results) ==
  {a \in LoadBearing(plan) : LatestVerdict(results, a) \subseteq {"unknown"}}

-----------------------------------------------------------------------------
(* The fail-closed replan contract.                                        *)

ActualEvidence(results) ==
  UNION {results[i].evidence : i \in DOMAIN results}

(* Unlike the gate, the replan check looks at every result: a contradiction *)
(* is not forgotten when a later probe verifies the same assumption.       *)
ContradictedIds(results) ==
  {results[i].assumption_id :
     i \in {k \in DOMAIN results : results[k].verdict = "contradicted"}}

(* Variant: only contradictions that no later result shadows count.        *)
EvidenceOfLatestContradictions(initial, results) ==
  UNION {results[i].evidence : i \in {k \in DOMAIN results :
     /\ results[k].assumption_id \in LoadBearing(initial)
     /\ LatestVerdict(results, results[k].assumption_id) = {"contradicted"}}}

RequiredEvidence(initial, results) ==
  UNION {results[i].evidence : i \in {k \in DOMAIN results :
     results[k].assumption_id \in LoadBearing(initial)
                                    \cap ContradictedIds(results)}}

(* The error _validate_replan reports first, or "ok" for None.             *)
ValidateReplan(initial, revised, results) ==
  IF ~ (revised.evidence_ids \subseteq ActualEvidence(results)) THEN "invented"
  ELSE IF ~ (RequiredEvidence(initial, results) \subseteq revised.evidence_ids)
       THEN "missing"
  ELSE IF LoadBearing(revised) # {} THEN "new_premise"
  ELSE "ok"

(* The demo provider's replan: cite everything, assume nothing.            *)
DeterministicReplan(results) ==
  [assumptions |-> {}, evidence_ids |-> ActualEvidence(results)]
=============================================================================
