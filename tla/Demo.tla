-------------------------------- MODULE Demo --------------------------------
(***************************************************************************)
(* PlanProbe's demo, end to end: the pipeline with the fixed answers of the *)
(* demo provider (agent/deterministic.py), where probes and checks are no   *)
(* longer arbitrary but what the executors and the test suites say of the   *)
(* reward service in the run's workspace.  Once a run is published, claims  *)
(* are made to the service as it was and as the run left it.                *)
(***************************************************************************)
EXTENDS Pipeline, Rewards

Exec == INSTANCE Probes WITH Names <- STRING, Values <- STRING

-----------------------------------------------------------------------------
(* What the demo provider answers.                                         *)

DemoPlan ==
  [assumptions  |-> {[id |-> a, load_bearing |-> TRUE] :
                       a \in {"A-UTC", "A-REGION", "A-IDEMPOTENCY", "A-ORDER"}},
   evidence_ids |-> {}]

DuplicateTest ==
  "test_duplicate_request_returns_same_receipt_and_single_ledger_entry"

DemoProbesExpecting(shape) ==
  <<[id |-> "PR-UTC", assumption_id |-> "A-UTC", kind |-> "mapping_all_equal",
     target |-> "config.py", symbol |-> "REGION_TIMEZONES", expected_value |-> "UTC"],
    [id |-> "PR-REGION", assumption_id |-> "A-REGION", kind |-> "field_shape",
     target |-> "models.py", class |-> "RewardRequest", field |-> "regions",
     expected_shape |-> shape],
    [id |-> "PR-IDEMPOTENCY", assumption_id |-> "A-IDEMPOTENCY",
     kind |-> "pytest_node", target |-> "tests/test_rewards.py",
     node |-> DuplicateTest],
    [id |-> "PR-ORDER", assumption_id |-> "A-ORDER", kind |-> "ast_order",
     target |-> "rewards.py", function |-> "claim_reward",
     before |-> "RewardReceipt", after |-> "append"]>>

(* Variant: the list the repository has is what the probe expects.         *)
ProbesForList == DemoProbesExpecting("list")

DemoProbes == DemoProbesExpecting("scalar")

DemoPatch == <<"models.py", "rewards.py">>

(* The probes as the pipeline sees them.                                   *)
ProbeList ==
  [i \in DOMAIN DemoProbes |->
     [id |-> DemoProbes[i].id, assumption_id |-> DemoProbes[i].assumption_id,
      kind |-> DemoProbes[i].kind]]

ASSUME DemoAssumption ==
  /\ Providers = {DemoProvider}
  /\ InitialPlans = {DemoPlan}
  /\ ProbeLists = {ProbeList}
  /\ Patches = {DemoPatch}

-----------------------------------------------------------------------------
(* The reward service with the edits made so far.                          *)

Has(edits, path) == \E i \in DOMAIN edits : edits[i] = path

(* The patched model requires fields the unpatched function does not give:  *)
(* claim_reward raises a ValidationError.                                   *)
HalfPatched(edits) == Has(edits, "models.py") /\ ~ Has(edits, "rewards.py")

(* Fields the model does not know are dropped by pydantic.                 *)
ReceiptFrom(edits, request) ==
  [(IF Has(edits, "rewards.py") THEN PatchedReceipt(request, 1)
    ELSE OriginalReceipt(request, 1))
   EXCEPT !.breakdown = IF Has(edits, "models.py") THEN @ ELSE << >>]

(* A test claims, claims again, and looks at the receipt and the ledger.   *)
ClaimedTwice(edits, request) ==
  LET receipt == ReceiptFrom(edits, request)
  IN Pay(Pay(Empty, request, receipt), request, [receipt EXCEPT !.claim_id = 2])

TestRequest(regions, days) ==
  [player_id |-> "player", regions |-> regions, idempotency_key |-> "claim",
   streak_days |-> days, now_utc |-> [hour |-> 2, dst |-> TRUE]]

SamePaidOnce(edits, request) ==
  LET after == ClaimedTwice(edits, request) IN
  /\ after.receipts["claim"] = ReceiptFrom(edits, request)
  /\ Len(after.ledger) = 1

(* The negative streak is refused by the request's schema in any case.     *)
ContractTestsPass(edits) ==
  /\ ~ HalfPatched(edits)
  /\ SamePaidOnce(edits, TestRequest(<<"KR", "JP">>, 3))
  /\ LET eligible == ReceiptFrom(edits, TestRequest(<<"KR", "JP", "US">>, 3)).eligible_regions
     IN \A i \in DOMAIN eligible : eligible[i] \in {"KR", "JP", "US"}

AcceptanceTestsPass(edits) ==
  LET five == TestRequest(<<"KR", "JP", "US">>, 5)
      thirty == TestRequest(<<"KR">>, 30)
  IN /\ ~ HalfPatched(edits)
     /\ SamePaidOnce(edits, five)
     /\ ReceiptFrom(edits, five).breakdown = <<100, 50, 150>>
     /\ ReceiptFrom(edits, five).coins = 150
     /\ ReceiptFrom(edits, thirty).breakdown[2] = 70

Outcome(passes) == IF passes THEN "pass" ELSE "fail"

Verified(edits) ==
  <<Outcome(ContractTestsPass(edits)), Outcome(AcceptanceTestsPass(edits))>>

(* Variant: the patched function writes the ledger before the receipt.     *)
LedgerFirst(edits) ==
  <<{"get"}, {}, {}, {"is_event_open"}, {}>>
    \o (IF Has(edits, "rewards.py")
        THEN <<{"min"}, {}, {"append"}, {"list"}, {"RewardReceipt"}, {"str", "uuid4"}>>
        ELSE <<{"RewardReceipt"}, {"str", "uuid4"}, {}, {"append"}, {"list"}>>)

(* The calls of claim_reward, line by line.                                *)
ClaimRewardCalls(edits) ==
  <<{"get"}, {}, {}, {"is_event_open"}, {}>>
    \o (IF Has(edits, "rewards.py") THEN <<{"min"}, {}>> ELSE << >>)
    \o <<{"RewardReceipt"}, {"str", "uuid4"}, {}, {"append"}, {"list"}>>

Field(name, annotation) == [name |-> name, annotation |-> annotation]

(* Only a test's name is looked for in the text of a file, and no line but  *)
(* the header has it (test_rewards.py:28).                                  *)
HeaderOf(name) == {<<0, name>>}

(* A slow machine does not get the test done in 30 seconds.                *)
SourceFile(path, edits, slow) ==
  [readable |-> TRUE,
   body |->
     CASE path = "config.py" ->
            <<[kind |-> "mapping", name |-> "REGION_TIMEZONES",
               values |-> <<Exec!Quoted("Asia/Seoul"), Exec!Quoted("Asia/Tokyo"),
                            Exec!Quoted("America/Los_Angeles")>>,
               text |-> HeaderOf("REGION_TIMEZONES")]>>
       [] path = "models.py" ->
            <<[kind |-> "class", name |-> "RewardRequest",
               fields |-> <<Field("player_id", "plain"), Field("regions", "list_of"),
                            Field("idempotency_key", "plain"),
                            Field("streak_days", "plain"), Field("now_utc", "plain")>>,
               text |-> HeaderOf("RewardRequest")]>>
       [] path = "rewards.py" ->
            <<[kind |-> "function", name |-> "claim_reward", async |-> FALSE,
               params |-> <<"request">>, calls |-> ClaimRewardCalls(edits),
               outcome |-> "passes", text |-> HeaderOf("claim_reward")]>>
       [] path = "tests/test_rewards.py" ->
            <<[kind |-> "function", name |-> DuplicateTest, async |-> FALSE,
               params |-> << >>, calls |-> <<{"claim_reward"}, {"claim_reward"}, {}>>,
               outcome |-> IF slow THEN "hangs"
                           ELSE IF ContractTestsPass(edits) THEN "passes" ELSE "fails",
               text |-> HeaderOf(DuplicateTest)]>>]

Observed(edits, slow) ==
  [i \in DOMAIN DemoProbes |->
     Exec!Report(DemoProbes[i],
       Exec!RunProbe(SourceFile(DemoProbes[i].target, edits, slow), DemoProbes[i]))]

-----------------------------------------------------------------------------
demoVars == <<vars, rewardVars>>

DemoInit == Init /\ RewardInit

DemoStep(r) ==
  /\ Start(r) \/ Execute(r)
  /\ results' \in {results} \cup
       {[results EXCEPT ![r] = Observed(workspace[r], slow)] : slow \in BOOLEAN}
  /\ checks' \in {checks, [checks EXCEPT ![r] = Verified(workspace[r])]}
  /\ UNCHANGED rewardVars

(* A published run's final workspace is used beside the original.          *)
Use ==
  /\ \E r \in Runs : packet[r] # None /\ packet[r].verdict = "ready_with_evidence"
  /\ RewardNext
  /\ UNCHANGED vars

DemoNext == Use \/ \E r \in Runs : DemoStep(r)

DemoSpec == DemoInit /\ [][DemoNext]_demoVars

-----------------------------------------------------------------------------
(* Whatever call of the run fails, with a source that can be read, a demo   *)
(* that ends with a packet shows what it is there to show: the two false    *)
(* premises were blocked before any code and nothing else was, the replan   *)
(* cites both contradictions, and the patched service passed; unless the    *)
(* idempotency test timed out, and then no code was written                 *)
(* (test_pipeline.py:18-29, smoke_live.py:74-77).                           *)
DemoIsAsShown ==
  \A r \in Runs : packet[r] # None =>
    LET blocked == packet[r].first_gate.blocked_assumptions
        false == {"A-UTC", "A-REGION"}
    IN /\ blocked \in {false, false \cup {"A-IDEMPOTENCY"}}
       /\ packet[r].verdict = "ready_with_evidence" <=> blocked = false
       /\ packet[r].verdict = "blocked" => workspace[r] = << >>
       /\ packet[r].verdict = "ready_with_evidence" =>
            {[probe |-> p, part |-> ""] : p \in {"PR-UTC", "PR-REGION"}}
              \subseteq packet[r].revised_plan.evidence_ids

(* What was true of the repository before the patch is true of the patched  *)
(* one: all probes, run again on the published source, answer as they did.  *)
(* On the way there the acceptance tests pass on the whole patch only, and  *)
(* the contract tests on all but the half-applied one                       *)
(* (deterministic.py:135-150, verification.py:12-51).                       *)
PremisesSurvivePatch ==
  \A r \in Runs :
    /\ packet[r] # None =>
         \E slow \in BOOLEAN :
           packet[r].probe_results = Observed(workspace[r], slow)
    /\ Verified(workspace[r]) =
         CASE workspace[r] = << >>     -> <<"pass", "fail">>
           [] workspace[r] = DemoPatch -> <<"pass", "pass">>
           [] OTHER                    -> <<"fail", "fail">>
=============================================================================
