----------------------------- MODULE ProbeSuite -----------------------------
(***************************************************************************)
(* One probe after the other is run on a repository state and its verdict   *)
(* handed to the gate, as the frozen contract suite does                    *)
(* (planprobe/eval/probe_suite.py).  The suite's 24 cases are here as data, *)
(* six premise classes of four, each with the verdict it expects; Lab holds *)
(* further repository states and probes, without an expectation.            *)
(***************************************************************************)
EXTENDS Probes

CONSTANTS ProbeId, PremiseId,   \* the ids every case uses
          Lab                   \* further cases, expected = "any"

(* Definitions with no names in them but those they define and call.       *)
Mapping(name, values) ==
  [kind |-> "mapping", name |-> name, values |-> values, text |-> {<<0, name>>}]

Class(name, field, annotation) ==
  [kind |-> "class", name |-> name,
   fields |-> <<[name |-> field, annotation |-> annotation]>>,
   text |-> {<<0, name>>, <<1, field>>}]

Function(name, params, calls) ==
  [kind |-> "function", name |-> name, async |-> FALSE, params |-> params,
   calls |-> calls, outcome |-> "passes",
   text |-> {<<0, name>>} \cup UNION {{k} \X calls[k] : k \in DOMAIN calls}]

Test(name, outcome) ==
  [Function(name, << >>, << >>) EXCEPT !.outcome = outcome]

Readable(body) == [readable |-> TRUE, body |-> body]

Shape(class, field, shape) ==
  [id |-> ProbeId, assumption_id |-> PremiseId, kind |-> "field_shape",
   class |-> class, field |-> field, expected_shape |-> shape]

AllEqual(symbol, value) ==
  [id |-> ProbeId, assumption_id |-> PremiseId, kind |-> "mapping_all_equal",
   symbol |-> symbol, expected_value |-> value]

Node(test) ==
  [id |-> ProbeId, assumption_id |-> PremiseId, kind |-> "pytest_node",
   node |-> test]

Order(function, before, after) ==
  [id |-> ProbeId, assumption_id |-> PremiseId, kind |-> "ast_order",
   function |-> function, before |-> before, after |-> after]

Signature(function, params, mode) ==
  [id |-> ProbeId, assumption_id |-> PremiseId, kind |-> "function_signature",
   function |-> function, expected_params |-> params, mode |-> mode]

Case(body, probe, expected) ==
  [file |-> Readable(body), probe |-> probe, expected |-> expected,
   load_bearing |-> TRUE]

-----------------------------------------------------------------------------
(* The frozen cases.                                                       *)

SchemaCases ==
  {Case(<<Class("RewardRequest", "region", "plain")>>,
        Shape("RewardRequest", "region", "scalar"), "verified"),
   Case(<<Class("RewardRequest", "regions", "list_of")>>,
        Shape("RewardRequest", "regions", "scalar"), "contradicted"),
   Case(<<Class("RewardRequest", "player_id", "plain")>>,
        Shape("RewardRequest", "region", "scalar"), "unknown"),
   Case(<<Class("Audience", "regions", "list_of")>>,
        Shape("Audience", "regions", "list"), "verified")}

TimezoneCases ==
  {Case(<<Mapping("REGION_TIMEZONES", <<Quoted("UTC"), Quoted("UTC"), Quoted("UTC")>>)>>,
        AllEqual("REGION_TIMEZONES", "UTC"), "verified"),
   Case(<<Mapping("REGION_TIMEZONES",
                  <<Quoted("Asia/Seoul"), Quoted("Asia/Tokyo"),
                    Quoted("America/Los_Angeles")>>)>>,
        AllEqual("REGION_TIMEZONES", "UTC"), "contradicted"),
   Case(<< >>, AllEqual("REGION_TIMEZONES", "UTC"), "unknown"),
   Case(<<Mapping("SETTLEMENT_ZONES", <<Quoted("Asia/Seoul"), Quoted("Asia/Seoul")>>)>>,
        AllEqual("SETTLEMENT_ZONES", "Asia/Seoul"), "verified")}

RetryCases ==
  {Case(<<Test("test_retry_contract", "passes")>>,
        Node("test_retry_contract"), "verified"),
   Case(<<Test("test_retry_contract", "fails")>>,
        Node("test_retry_contract"), "contradicted"),
   Case(<<Test("test_other_contract", "passes")>>,
        Node("test_retry_contract"), "unknown"),
   Case(<<Test("test_retry_after_success_has_one_ledger_row", "passes")>>,
        Node("test_retry_after_success_has_one_ledger_row"), "verified")}

(* Two helpers, then the function that calls them on two lines.            *)
TwoCalls(function, first, second) ==
  <<Function(first, << >>, << >>), Function(second, << >>, << >>),
    Function(function, << >>, <<{first}, {second}>>)>>

OrderCases ==
  {Case(<<Function("Receipt", << >>, <<{"object"}>>),
          Function("claim", << >>, <<{"Receipt"}, {"append"}, {}>>)>>,
        Order("claim", "Receipt", "append"), "verified"),
   Case(TwoCalls("publish", "save", "validate"),
        Order("publish", "validate", "save"), "contradicted"),
   Case(<<Function("checkout", << >>, <<{}>>)>>,
        Order("checkout", "reserve", "commit"), "unknown"),
   Case(TwoCalls("assign", "check_capacity", "allocate"),
        Order("assign", "check_capacity", "allocate"), "verified")}

CompatibilityCases ==
  {Case(<<Function("publish_event", <<"event_id", "locale", "dry_run">>, << >>)>>,
        Signature("publish_event", <<"event_id", "locale">>, "subset"), "verified"),
   Case(<<Function("publish_event", <<"event_id", "language_code">>, << >>)>>,
        Signature("publish_event", <<"event_id", "locale">>, "subset"),
        "contradicted"),
   Case(<<Function("claim_v2", <<"player_id">>, << >>)>>,
        Signature("legacy_claim", <<"player_id">>, "subset"), "unknown"),
   Case(<<Function("reward_quote", <<"player_id", "region">>, << >>)>>,
        Signature("reward_quote", <<"player_id", "region">>, "exact"), "verified")}

OwnershipCases ==
  {Case(TwoCalls("edit_profile", "authorize_owner", "update_profile"),
        Order("edit_profile", "authorize_owner", "update_profile"), "verified"),
   Case(TwoCalls("edit_profile", "update_profile", "authorize_owner"),
        Order("edit_profile", "authorize_owner", "update_profile"), "contradicted"),
   Case(<<Function("delete_event", << >>, <<{}>>)>>,
        Order("delete_event", "require_admin", "delete"), "unknown"),
   Case(TwoCalls("remove_banner", "require_permission", "delete"),
        Order("remove_banner", "require_permission", "delete"), "verified")}

FrozenCases == SchemaCases \cup TimezoneCases \cup RetryCases
                 \cup OrderCases \cup CompatibilityCases \cup OwnershipCases

ExpectedGate(case) ==
  IF case.load_bearing /\ case.expected # "verified" THEN "block" ELSE "pass"

PlanFor(case) ==
  [assumptions  |-> {[id |-> PremiseId, load_bearing |-> case.load_bearing]},
   evidence_ids |-> {}]

(* A case is a file and a probe of a kind there is; what else the probe says *)
(* is not restricted.  Only the frozen cases come with an expectation.      *)
ASSUME CaseAssumption ==
  /\ \A c \in FrozenCases \cup Lab : c.file \in Files /\ c.probe.kind \in ProbeKinds
  /\ \A c \in Lab : c.expected = "any"

-----------------------------------------------------------------------------
VARIABLES case,     \* the repository state and the probe at hand
          answer,   \* what the probe found, or Unanswered
          gate      \* the gate's decision on it

vars == <<case, answer, gate>>

Unanswered == [verdict |-> "none", evidence |-> {}]

Init ==
  /\ case \in FrozenCases \cup Lab
  /\ answer = Unanswered
  /\ gate = [status |-> "pass", blocked_assumptions |-> {}]

(* Run the probe and ask the gate.  The suite itself calls run_probe, which *)
(* would end it where the wrapper answers; the wrapper is what the pipeline *)
(* and preflight call.                                                     *)
Probe ==
  /\ answer = Unanswered
  /\ case \in FrozenCases => ~ Raises(case.file, case.probe)
  /\ answer' = RunProbe(case.file, case.probe)
  /\ gate' = DecideGate(PlanFor(case), <<Report(case.probe, answer')>>)
  /\ UNCHANGED case

Spec == Init /\ [][Probe]_vars

-----------------------------------------------------------------------------
Answered == answer # Unanswered

(* No name and no field is defined twice, and no field is a collection that *)
(* is not spelled list[...].                                                *)
Plain ==
  LET body == case.file.body IN
  /\ \A i, j \in DOMAIN body : body[i].name = body[j].name => i = j
  /\ \A i \in DOMAIN body : body[i].kind = "class" =>
       \A j, k \in DOMAIN body[i].fields :
         /\ body[i].fields[j].name = body[i].fields[k].name => j = k
         /\ body[i].fields[j].annotation # "other_collection"

(* Every frozen case gets the verdict and the gate the suite expects, so    *)
(* the executors and the gate classify the suite without a false or a       *)
(* missed block (tests/test_probe_suite.py:14-23).                          *)
SuiteIsClassified ==
  Answered /\ case.expected # "any" =>
    answer.verdict = case.expected /\ gate.status = ExpectedGate(case)

(* A decided verdict says of the file what holds of the program Python      *)
(* builds from it, for all five executors (probes.py:65-198).               *)
VerdictIsTrue ==
  Answered /\ Plain /\ answer.verdict # "unknown" =>
    (answer.verdict = "verified" <=> Holds(case.file.body, case.probe))

(* The lines above the header of definition i that have the name in them.  *)
LinesAbove(body, i, name) ==
  UNION {{j} \X {k \in LinesWith(body[j], name) : j < i \/ k < 0} : j \in 1..i}

(* What a citation has to be: the header of the mapping or function that was *)
(* probed, the probed field of the probed class, a call of the probed        *)
(* function; of a test that ended, its header, but for a line above it that  *)
(* has its name in it, and then only such a line.                            *)
Grounds(body, probe, e) ==
  LET d == body[e.line[1]]
      k == e.line[2]
  IN CASE probe.kind = "mapping_all_equal" ->
            d.kind = "mapping" /\ d.name = probe.symbol /\ k = 0
       [] probe.kind = "function_signature" ->
            d.kind = "function" /\ d.name = probe.function /\ k = 0
       [] probe.kind = "field_shape" ->
            /\ d.kind = "class" /\ d.name = probe.class
            /\ k \in DOMAIN d.fields /\ d.fields[k].name = probe.field
       [] probe.kind = "ast_order" ->
            /\ d.kind = "function" /\ d.name = probe.function
            /\ k \in CallLines(d, IF e.part = "A" THEN probe.before ELSE probe.after)
       [] probe.kind = "pytest_node" ->
            LET test == FirstOf(Defining(body, "function", probe.node))
                above == LinesAbove(body, test, probe.node)
            IN /\ \A f \in Bound(body, "function", probe.node) : f.outcome # "hangs"
               /\ IF e.line = <<test, 0>> THEN above = {} ELSE e.line \in above

(* Evidence stands on the probed thing and carries the verdict: every line  *)
(* cited is one that Grounds describes, only a decided verdict cites any,   *)
(* and whoever probes the cited definition alone gets the same verdict.  A  *)
(* test's verdict is pytest's and is not in the line cited for it           *)
(* (probes.py:76-83, 101-106, 129-134, 156-166, 190-196).                   *)
EvidenceIsGrounded ==
  Answered =>
    /\ answer.evidence = {} <=> answer.verdict = "unknown"
    /\ \A e \in answer.evidence :
         /\ Grounds(case.file.body, case.probe, e)
         /\ case.probe.kind # "pytest_node" =>
              Execute(<<case.file.body[e.line[1]]>>, case.probe).verdict = answer.verdict

-----------------------------------------------------------------------------
(* field_shape "reads the type structure of the request schema ... and      *)
(* decides whether it is one region or several" (deterministic.py:93): a    *)
(* field verified as scalar is no collection.  Only the spelling list[...]  *)
(* is taken for one (probes.py:99).                                         *)
ScalarMeansScalar ==
  Answered /\ case.probe.kind = "field_shape"
    /\ answer.verdict = "verified" /\ case.probe.expected_shape = "scalar" =>
      \A e \in answer.evidence :
        case.file.body[e.line[1]].fields[e.line[2]].annotation = "plain"
=============================================================================
