----------------------------- MODULE GateProofs -----------------------------
(***************************************************************************)
(* What the gate's decision and an accepted replan mean, for every plan and *)
(* every list of results; and, for the modules that extend this one,        *)
(* induction over numbers and the functions that loops compute.             *)
(***************************************************************************)
EXTENDS Gate, WellFoundedInduction, TLAPS

(* A premise's latest verdict, when it has one outside S, is the verdict of *)
(* its last result.                                                         *)
LEMMA LatestVerdictIsLast ==
  ASSUME NEW results, NEW a, NEW S,
         ~ (LatestVerdict(results, a) \subseteq S)
  PROVE  \E i \in DOMAIN results :
           /\ results[i].assumption_id = a
           /\ results[i].verdict \notin S
           /\ \A j \in DOMAIN results : results[j].assumption_id = a => j <= i
BY DEF LatestVerdict

(* The gate passes only when the last probe of every load-bearing premise   *)
(* verified it: a premise nobody probed blocks (gate.py:9-14).              *)
THEOREM PassMeansVerified ==
  ASSUME NEW plan \in ImplementationPlan, NEW results \in Seq(ProbeResult),
         DecideGate(plan, results).status = "pass"
  PROVE  \A a \in LoadBearing(plan) :
           \E i \in DOMAIN results :
             /\ results[i].assumption_id = a
             /\ results[i].verdict = "verified"
             /\ \A j \in DOMAIN results : results[j].assumption_id = a => j <= i
<1>1. BlockedAssumptions(plan, results) = {}
  BY DEF DecideGate
<1>2. TAKE a \in LoadBearing(plan)
<1>3. ~ (LatestVerdict(results, a) \subseteq {"contradicted", "unknown"})
  BY <1>1 DEF BlockedAssumptions
<1>4. PICK i \in DOMAIN results :
        /\ results[i].assumption_id = a
        /\ results[i].verdict \notin {"contradicted", "unknown"}
        /\ \A j \in DOMAIN results : results[j].assumption_id = a => j <= i
  BY <1>3, LatestVerdictIsLast
<1>5. results[i] \in ProbeResult
  BY <1>4
<1>6. results[i].verdict = "verified"
  BY <1>4, <1>5 DEF ProbeResult, Verdicts
<1>7. QED
  BY <1>4, <1>6

(* A run that stops on an unknown premise was blocked by the gate: the      *)
(* pipeline never stops silently (pipeline.py:57-65).                       *)
THEOREM UnknownMeansBlocked ==
  ASSUME NEW plan, NEW results
  PROVE  /\ UnknownLoadBearing(plan, results)
              \subseteq DecideGate(plan, results).blocked_assumptions
         /\ UnknownLoadBearing(plan, results) # {}
              => DecideGate(plan, results).status = "block"
BY DEF UnknownLoadBearing, DecideGate, BlockedAssumptions

(* Past the unknown check every load-bearing premise has a decided verdict. *)
LEMMA NoUnknownMeansSettled ==
  ASSUME NEW plan, NEW results, UnknownLoadBearing(plan, results) = {}
  PROVE  \A a \in LoadBearing(plan) :
           \E i \in DOMAIN results :
             /\ results[i].assumption_id = a
             /\ results[i].verdict # "unknown"
             /\ \A j \in DOMAIN results : results[j].assumption_id = a => j <= i
<1>1. TAKE a \in LoadBearing(plan)
<1>2. ~ (LatestVerdict(results, a) \subseteq {"unknown"})
  BY DEF UnknownLoadBearing
<1>3. QED
  BY <1>2, LatestVerdictIsLast

(* A replan that validates cites the evidence of every result contradicting *)
(* a load-bearing premise, shadowed by a later result or not, cites only    *)
(* evidence of executed probes, and has no load-bearing premise             *)
(* (pipeline.py:178-205).                                                   *)
THEOREM AcceptedReplanIsBound ==
  ASSUME NEW initial, NEW revised, NEW results,
         ValidateReplan(initial, revised, results) = "ok"
  PROVE  /\ \A i \in DOMAIN results :
              results[i].verdict = "contradicted"
                /\ results[i].assumption_id \in LoadBearing(initial)
              => results[i].evidence \subseteq revised.evidence_ids
         /\ \A e \in revised.evidence_ids :
              \E i \in DOMAIN results : e \in results[i].evidence
         /\ \A a \in revised.assumptions : ~ a.load_bearing
<1>1. /\ revised.evidence_ids \subseteq ActualEvidence(results)
      /\ RequiredEvidence(initial, results) \subseteq revised.evidence_ids
      /\ LoadBearing(revised) = {}
  BY DEF ValidateReplan
<1>2. ASSUME NEW i \in DOMAIN results,
             results[i].verdict = "contradicted",
             results[i].assumption_id \in LoadBearing(initial)
      PROVE  results[i].evidence \subseteq revised.evidence_ids
  <2>1. results[i].assumption_id \in ContradictedIds(results)
    BY <1>2 DEF ContradictedIds
  <2>2. results[i].evidence \subseteq RequiredEvidence(initial, results)
    BY <1>2, <2>1 DEF RequiredEvidence
  <2>3. QED
    BY <1>1, <2>2
<1>3. ASSUME NEW e \in revised.evidence_ids
      PROVE  \E i \in DOMAIN results : e \in results[i].evidence
  BY <1>1 DEF ActualEvidence
<1>4. ASSUME NEW a \in revised.assumptions
      PROVE  ~ a.load_bearing
  BY <1>1 DEF LoadBearing
<1>5. QED
  BY <1>2, <1>3, <1>4

(* The demo provider's answer always validates (deterministic.py:115-151).  *)
THEOREM DemoReplanValidates ==
  ASSUME NEW initial, NEW results
  PROVE  ValidateReplan(initial, DeterministicReplan(results), results) = "ok"
<1>1. RequiredEvidence(initial, results) \subseteq ActualEvidence(results)
  BY DEF RequiredEvidence, ActualEvidence
<1>2. LoadBearing(DeterministicReplan(results)) = {}
  BY DEF LoadBearing, DeterministicReplan
<1>3. DeterministicReplan(results).evidence_ids = ActualEvidence(results)
  BY DEF DeterministicReplan
<1>4. QED
  BY <1>1, <1>2, <1>3 DEF ValidateReplan

-----------------------------------------------------------------------------
(* Types, for the proofs about the pipeline.                                *)

(* What a probe returns is a result (models.py:60-66).                      *)
LEMMA OutcomesAreResults ==
  ASSUME NEW probes \in Seq(ProbeSpec), NEW results \in ProbeOutcomes(probes)
  PROVE  results \in Seq(ProbeResult)
<1>1. PICK verdicts \in [DOMAIN probes -> Verdicts] :
        results = [i \in DOMAIN probes |-> ResultOf(probes[i], verdicts[i])]
  BY DEF ProbeOutcomes
<1>2. ASSUME NEW i \in DOMAIN probes
      PROVE  ResultOf(probes[i], verdicts[i]) \in ProbeResult
  <2>1. probes[i] \in ProbeSpec /\ verdicts[i] \in Verdicts
    BY <1>1, <1>2
  <2>2. EvidenceOf(probes[i], verdicts[i]) \subseteq EvidenceIds
    BY <2>1 DEF EvidenceOf, EvidenceIds, ProbeSpec
  <2>3. QED
    BY <2>1, <2>2 DEF ResultOf, ProbeResult, ProbeSpec
<1>3. QED
  BY <1>1, <1>2

(* The gate returns a gate result (gate.py:6-27).                           *)
LEMMA GateDecisionType ==
  ASSUME NEW plan \in ImplementationPlan, NEW results
  PROVE  DecideGate(plan, results) \in GateDecision
<1>1. LoadBearing(plan) \subseteq AssumptionIds
  BY DEF LoadBearing, ImplementationPlan, Assumptions
<1>2. BlockedAssumptions(plan, results) \subseteq AssumptionIds
  BY <1>1 DEF BlockedAssumptions
<1>3. QED
  BY <1>2 DEF DecideGate, GateDecision

(* The demo provider replans to a plan (deterministic.py:115-151).          *)
LEMMA DemoReplanType ==
  ASSUME NEW results \in Seq(ProbeResult)
  PROVE  DeterministicReplan(results) \in ImplementationPlan
<1>1. ASSUME NEW i \in DOMAIN results
      PROVE  results[i].evidence \subseteq EvidenceIds
  <2>1. results[i] \in ProbeResult
    BY <1>1
  <2>2. QED
    BY <2>1 DEF ProbeResult
<1>2. ActualEvidence(results) \subseteq EvidenceIds
  BY <1>1 DEF ActualEvidence
<1>3. QED
  BY <1>2 DEF DeterministicReplan, ImplementationPlan

-----------------------------------------------------------------------------
(* Induction over numbers, with a set where the library's theorem has an    *)
(* operator, and the functions that the loops of the code compute.          *)

(* A set of numbers has a least one.                                        *)
LEMMA LeastOf ==
  ASSUME NEW S, S \subseteq Nat, S # {}
  PROVE  \E i \in S : \A j \in S : i <= j
<1>1. IsWellFoundedOn(OpToRel(<, Nat), Nat)
  BY NatLessThanWellFounded
<1>2. PICK i \in S : \A j \in S : ~ (<<j, i>> \in OpToRel(<, Nat))
  BY <1>1, WFMin, Zenon
<1>3. ASSUME NEW j \in S PROVE i <= j
  <2>1. i \in Nat /\ j \in Nat
    OBVIOUS
  <2>2. ~ (<<j, i>> \in OpToRel(<, Nat))
    BY <1>2
  <2>3. ASSUME j < i PROVE <<j, i>> \in OpToRel(<, Nat)
    BY <2>1, <2>3 DEF OpToRel
  <2>4. ~ (j < i)
    BY <2>2, <2>3
  <2>5. QED
    BY <2>1, <2>4
<1>4. QED
  BY <1>3

(* A set that holds 0 and with each number the next holds all up to n.      *)
LEMMA UpTo ==
  ASSUME NEW N \in Nat, NEW P, 0 \in P, \A n \in 1..N : n - 1 \in P => n \in P
  PROVE  \A n \in 0..N : n \in P
<1>1. SUFFICES ASSUME 0..N \ P # {} PROVE FALSE
  OBVIOUS
<1>2. PICK n \in 0..N \ P : \A m \in 0..N \ P : n <= m
  <2>1. 0..N \ P \subseteq Nat
    OBVIOUS
  <2>2. QED
    BY <1>1, <2>1, LeastOf
<1>3. n # 0
  BY <1>2
<1>4. n \in 1..N /\ n - 1 \in 0..N /\ ~ (n <= n - 1)
  BY <1>3
<1>5. n - 1 \in P
  BY <1>2, <1>4
<1>6. QED
  BY <1>4, <1>5

(* What a loop of N rounds holds after each, from what it holds at the      *)
(* start.                                                                   *)
IsLoop(f, N, S, start, F) ==
  /\ f \in [0..N -> S]
  /\ f[0] = start
  /\ \A n \in 1..N : f[n] = F[<<n, f[n - 1]>>]

(* Every loop whose rounds are functions of the one before is there.        *)
LEMMA LoopExists ==
  ASSUME NEW N \in Nat, NEW S, NEW start \in S, NEW F \in [(1..N) \X S -> S]
  PROVE  \E f : IsLoop(f, N, S, start, F)
<1> DEFINE Runs(n) == \E f : IsLoop(f, n, S, start, F)
           P == {n \in 0..N : Runs(n)}
<1>1. 0 \in P
  <2> DEFINE f == [i \in 0..0 |-> start]
  <2>1. f \in [0..0 -> S] /\ f[0] = start /\ 1..0 = {}
    OBVIOUS
  <2> HIDE DEF f
  <2>2. Runs(0)
    BY <2>1 DEF IsLoop
  <2> HIDE DEF Runs
  <2>3. QED
    BY <2>2
<1>2. ASSUME NEW n \in 1..N, n - 1 \in P PROVE n \in P
  <2>1. PICK g : /\ g \in [0..(n - 1) -> S]
                 /\ g[0] = start
                 /\ \A i \in 1..(n - 1) : g[i] = F[<<i, g[i - 1]>>]
    BY <1>2 DEF IsLoop
  <2> DEFINE f == [i \in 0..n |-> IF i = n THEN F[<<n, g[n - 1]>>] ELSE g[i]]
  <2>2. n - 1 \in 0..(n - 1) /\ g[n - 1] \in S
    BY <2>1
  <2>3. F[<<n, g[n - 1]>>] \in S
    BY <2>2
  <2>4. f \in [0..n -> S] /\ f[0] = start
    BY <2>1, <2>3
  <2>5. ASSUME NEW i \in 1..n PROVE f[i] = F[<<i, f[i - 1]>>]
    <3>1. i - 1 \in 0..n /\ i - 1 # n
      OBVIOUS
    <3>2. CASE i = n
      BY <3>1, <3>2
    <3>3. CASE i # n
      <4>1. i \in 1..(n - 1)
        BY <3>3
      <4>2. QED
        BY <2>1, <3>1, <3>3, <4>1
    <3>4. QED
      BY <3>2, <3>3
  <2> HIDE DEF f
  <2>6. Runs(n)
    BY <2>4, <2>5 DEF IsLoop
  <2> HIDE DEF Runs
  <2>7. QED
    BY <2>6
<1>3. N \in P
  <2> HIDE DEF P
  <2>1. QED
    BY <1>1, <1>2, UpTo
<1>4. QED
  BY <1>3
=============================================================================
