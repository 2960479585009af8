------------------------------ MODULE Pipeline ------------------------------
(***************************************************************************)
(* One execution of PlanProbePipeline.execute per run: the model proposes  *)
(* a plan, probes test its premises, the gate and the replan contract      *)
(* decide whether code may be written, a bounded patch is applied edit by  *)
(* edit, and the verified result is published (engine/pipeline.py,         *)
(* engine/patching.py, engine/workspace.py, engine/verification.py).       *)
(*                                                                         *)
(* A step is what execute does between two points where another thread     *)
(* can observe the run or where a failure leaves different state behind:   *)
(* the call, the JSON file it writes and the store update that announces   *)
(* the next stage.  Any call may raise instead (Raise).                    *)
(***************************************************************************)
EXTENDS Gate

CONSTANTS Runs,            \* run ids
          Providers,       \* provider names the service accepts
          DemoProvider,    \* the deterministic demo provider
          Buildable,       \* providers whose constructor succeeds here
          InitialPlans,    \* plans a model may propose
          ProbeLists,      \* probe lists a model may compile
          RevisedPlans,    \* revised plans a model may answer with
          Patches,         \* patches a model may generate
          Paths,           \* paths a patch may name
          Allowlisted,     \* those under synthetic_app/liveops_service/
          DeniedPart,      \* those with a test, CI or planprobe component
          Inside,          \* those that resolve inside the workspace
          StoreReliable,   \* whether store calls outside the try succeed
          None             \* Python's None

ASSUME ProviderAssumption ==
  /\ DemoProvider \in Providers
  /\ Buildable \subseteq Providers

(* Every answer of a model is schema-validated before the pipeline sees it. *)
ASSUME SchemaAssumption ==
  /\ InitialPlans \subseteq ImplementationPlan
  /\ ProbeLists \subseteq Seq(ProbeSpec)
  /\ RevisedPlans \subseteq ImplementationPlan
  /\ Patches \subseteq Seq(Paths)

ASSUME PathAssumption ==
  Allowlisted \subseteq Paths /\ DeniedPart \subseteq Paths /\ Inside \subseteq Paths

ASSUME StoreAssumption == StoreReliable \in BOOLEAN

ASSUME NoneAssumption ==
  /\ None \notin ImplementationPlan
  /\ None \notin Seq(Paths)

VARIABLES
  stage, events, packet, provider,                    \* the row of the store
  pc,                                                 \* the executing thread
  initialPlan, probes, results, gate,                 \* its locals, in the
  revised, patch, checks,                             \* order they are set
  workspace, artifacts, packetFile, finalWorkspace    \* the run's directory

recordVars  == <<stage, events, packet, provider>>
premiseVars == <<initialPlan, probes, results, gate>>
codingVars  == <<revised, patch, checks>>
localVars   == <<premiseVars, codingVars>>
diskVars    == <<workspace, artifacts, packetFile, finalWorkspace>>
vars        == <<recordVars, pc, localVars, diskVars>>

-----------------------------------------------------------------------------
Stages == {"queued", "planning", "extracting_assumptions", "probing",
           "blocked_before_code", "replanning", "coding", "verifying",
           "complete", "failed"}

RunPacket == [initial_plan  : ImplementationPlan,
              probes        : Seq(ProbeSpec),
              probe_results : Seq(ProbeResult),
              first_gate    : GateDecision,
              revised_plan  : ImplementationPlan \cup {None},
              patch         : Seq(Paths) \cup {None},
              checks        : Seq({"pass", "fail"}),
              verdict       : {"ready_with_evidence", "blocked"}]

ASSUME PacketAssumption == None \notin RunPacket

(* A local that is not assigned yet holds a blank that no step reads.      *)
NoPlan == [assumptions |-> {}, evidence_ids |-> {}]
NoGate == [status |-> "pass", blocked_assumptions |-> {}]

NoCopy == [state |-> "absent", edits |-> << >>]

(* The points of execute inside its try block.                             *)
Guarded == {"create_workspace", "plan", "compile_probes", "run_probes",
            "check_unknown", "replan", "generate_patch", "apply_patch",
            "run_checks", "write_packet", "copy_workspace", "publish",
            "write_blocked", "publish_blocked"}

(* "killed" is where Service leaves a thread whose process died.           *)
Locations == Guarded \cup
  {"absent", "queued", "except", "returned", "raised", "killed"}

TypeOK ==
  /\ stage \in [Runs -> Stages \cup {"absent"}]
  /\ events \in [Runs -> Seq(Stages)]
  /\ packet \in [Runs -> RunPacket \cup {None}]
  /\ provider \in [Runs -> Providers \cup {None}]
  /\ pc \in [Runs -> Locations]
  /\ initialPlan \in [Runs -> ImplementationPlan]
  /\ probes \in [Runs -> Seq(ProbeSpec)]
  /\ results \in [Runs -> Seq(ProbeResult)]
  /\ gate \in [Runs -> GateDecision]
  /\ revised \in [Runs -> ImplementationPlan \cup {None}]
  /\ patch \in [Runs -> Seq(Paths) \cup {None}]
  /\ checks \in [Runs -> Seq({"pass", "fail"})]
  /\ workspace \in [Runs -> Seq(Paths)]
  /\ artifacts \in [Runs -> SUBSET {"initial-plan", "probes", "probe-results",
                                    "revised-plan", "patch"}]
  /\ packetFile \in [Runs -> RunPacket \cup {None}]
  /\ finalWorkspace \in [Runs -> [state : {"absent", "partial", "complete"},
                                  edits : Seq(Paths)]]

Init ==
  /\ stage = [r \in Runs |-> "absent"]
  /\ events = [r \in Runs |-> << >>]
  /\ packet = [r \in Runs |-> None]
  /\ provider = [r \in Runs |-> None]
  /\ pc = [r \in Runs |-> "absent"]
  /\ initialPlan = [r \in Runs |-> NoPlan]
  /\ probes = [r \in Runs |-> << >>]
  /\ results = [r \in Runs |-> << >>]
  /\ gate = [r \in Runs |-> NoGate]
  /\ revised = [r \in Runs |-> None]
  /\ patch = [r \in Runs |-> None]
  /\ checks = [r \in Runs |-> << >>]
  /\ workspace = [r \in Runs |-> << >>]
  /\ artifacts = [r \in Runs |-> {}]
  /\ packetFile = [r \in Runs |-> None]
  /\ finalWorkspace = [r \in Runs |-> NoCopy]

-----------------------------------------------------------------------------
At(r, here) == pc[r] = here
Goto(r, there) == pc' = [pc EXCEPT ![r] = there]

(* Variant: the trail is overwritten.                                      *)
AnnounceOverwriting(r, s) ==
  /\ stage' = [stage EXCEPT ![r] = s]
  /\ events' = [events EXCEPT ![r] = <<s>>]

(* _event: store.update with a stage and the event that names it.          *)
Announce(r, s) ==
  /\ stage' = [stage EXCEPT ![r] = s]
  /\ events' = [events EXCEPT ![r] = Append(@, s)]

(* _write of one of the JSON files beside the packet.                      *)
Save(r, name) == artifacts' = [artifacts EXCEPT ![r] = @ \cup {name}]

(* start: a fresh id and its row, queued and without events.               *)
Start(r) ==
  /\ At(r, "absent")
  /\ stage' = [stage EXCEPT ![r] = "queued"]
  /\ \E p \in Providers : provider' = [provider EXCEPT ![r] = p]
  /\ Goto(r, "queued")
  /\ UNCHANGED <<events, packet, localVars, diskVars>>

(* store.get and build_provider run before the try block is entered.       *)
Begin(r) ==
  /\ At(r, "queued")
  /\ provider[r] \in Buildable
  /\ Goto(r, "create_workspace")
  /\ UNCHANGED <<recordVars, localVars, diskVars>>

(* ... so what they raise leaves execute at once, and nothing is recorded. *)
BeginRaises(r) ==
  /\ At(r, "queued")
  /\ provider[r] \notin Buildable \/ ~ StoreReliable
  /\ Goto(r, "raised")
  /\ UNCHANGED <<recordVars, localVars, diskVars>>

CreateWorkspace(r) ==
  /\ At(r, "create_workspace")
  /\ workspace' = [workspace EXCEPT ![r] = << >>]
  /\ Announce(r, "planning")
  /\ Goto(r, "plan")
  /\ UNCHANGED <<packet, provider, localVars, artifacts, packetFile, finalWorkspace>>

Plan(r) ==
  /\ At(r, "plan")
  /\ \E p \in InitialPlans : initialPlan' = [initialPlan EXCEPT ![r] = p]
  /\ Save(r, "initial-plan")
  /\ Announce(r, "extracting_assumptions")
  /\ Goto(r, "compile_probes")
  /\ UNCHANGED <<packet, provider, probes, results, gate, codingVars,
                 workspace, packetFile, finalWorkspace>>

CompileProbes(r) ==
  /\ At(r, "compile_probes")
  /\ \E ps \in ProbeLists : probes' = [probes EXCEPT ![r] = ps]
  /\ Save(r, "probes")
  /\ Announce(r, "probing")
  /\ Goto(r, "run_probes")
  /\ UNCHANGED <<packet, provider, initialPlan, results, gate, codingVars,
                 workspace, packetFile, finalWorkspace>>

RunProbes(r) ==
  /\ At(r, "run_probes")
  /\ \E outcome \in ProbeOutcomes(probes[r]) :
       LET decision == DecideGate(initialPlan[r], outcome) IN
       /\ results' = [results EXCEPT ![r] = outcome]
       /\ gate' = [gate EXCEPT ![r] = decision]
       /\ IF decision.status = "block" THEN Announce(r, "blocked_before_code")
          ELSE UNCHANGED <<stage, events>>
  /\ Save(r, "probe-results")
  /\ Goto(r, "check_unknown")
  /\ UNCHANGED <<packet, provider, initialPlan, probes, codingVars,
                 workspace, packetFile, finalWorkspace>>

(* An unknown premise cannot be replanned away.                            *)
StopOnUnknown(r) ==
  /\ At(r, "check_unknown")
  /\ UnknownLoadBearing(initialPlan[r], results[r]) # {}
  /\ Goto(r, "write_blocked")
  /\ UNCHANGED <<recordVars, localVars, diskVars>>

(* Variant: unknown premises are replanned like contradicted ones.         *)
GoOnRegardless(r) ==
  /\ At(r, "check_unknown")
  /\ Announce(r, "replanning")
  /\ Goto(r, "replan")
  /\ UNCHANGED <<packet, provider, localVars, diskVars>>

GoOnToReplan(r) ==
  /\ At(r, "check_unknown")
  /\ UnknownLoadBearing(initialPlan[r], results[r]) = {}
  /\ Announce(r, "replanning")
  /\ Goto(r, "replan")
  /\ UNCHANGED <<packet, provider, localVars, diskVars>>

(* What the provider of run r may answer: the demo provider is a function  *)
(* of the results, a model answers anything that fits the schema.          *)
Replies(r) ==
  IF provider[r] = DemoProvider
  THEN {DeterministicReplan(results[r])}
  ELSE RevisedPlans

ReplanError(r, answer) ==
  ValidateReplan(initialPlan[r], answer, results[r]) # "ok"

ReplanRejected(r) ==
  /\ At(r, "replan")
  /\ \E answer \in Replies(r) :
       /\ ReplanError(r, answer)
       /\ revised' = [revised EXCEPT ![r] = answer]
  /\ Save(r, "revised-plan")
  /\ Goto(r, "write_blocked")
  /\ UNCHANGED <<recordVars, premiseVars, patch, checks,
                 workspace, packetFile, finalWorkspace>>

ReplanAccepted(r) ==
  /\ At(r, "replan")
  /\ \E answer \in Replies(r) :
       /\ ~ ReplanError(r, answer)
       /\ revised' = [revised EXCEPT ![r] = answer]
  /\ Save(r, "revised-plan")
  /\ Announce(r, "coding")
  /\ Goto(r, "generate_patch")
  /\ UNCHANGED <<packet, provider, premiseVars, patch, checks,
                 workspace, packetFile, finalWorkspace>>

-----------------------------------------------------------------------------
(* Coding: apply_patch walks the edits; each is checked and written before *)
(* the next one is looked at, so a refused edit leaves its predecessors.   *)

GeneratePatch(r) ==
  /\ At(r, "generate_patch")
  /\ \E edits \in Patches : patch' = [patch EXCEPT ![r] = edits]
  /\ Goto(r, "apply_patch")
  /\ UNCHANGED <<recordVars, premiseVars, revised, checks, diskVars>>

(* Variant: the denied parts are not looked at.                            *)
EditableByPrefix(path) == path \in Allowlisted /\ path \in Inside

Editable(path) ==
  /\ path \in Allowlisted
  /\ path \notin DeniedPart
  /\ path \in Inside

NextEdit(r) == patch[r][Len(workspace[r]) + 1]

EditsRemain(r) == Len(workspace[r]) < Len(patch[r])

(* The old text matches exactly once: the edit is written.                 *)
ApplyEdit(r) ==
  /\ At(r, "apply_patch")
  /\ EditsRemain(r)
  /\ Editable(NextEdit(r))
  /\ workspace' = [workspace EXCEPT ![r] = Append(@, NextEdit(r))]
  /\ UNCHANGED <<recordVars, pc, localVars, artifacts, packetFile, finalWorkspace>>

(* The path is refused, or the old text is missing or ambiguous (which the *)
(* path alone does not tell): apply_patch raises.                          *)
RefuseEdit(r) ==
  /\ At(r, "apply_patch")
  /\ EditsRemain(r)
  /\ Goto(r, "except")
  /\ UNCHANGED <<recordVars, localVars, diskVars>>

(* The patch is recorded only once every edit is in.                       *)
PatchApplied(r) ==
  /\ At(r, "apply_patch")
  /\ ~ EditsRemain(r)
  /\ Save(r, "patch")
  /\ Announce(r, "verifying")
  /\ Goto(r, "run_checks")
  /\ UNCHANGED <<packet, provider, localVars, workspace, packetFile, finalWorkspace>>

-----------------------------------------------------------------------------
(* Verification and publication.                                           *)

VerdictOf(outcomes) ==
  IF \A i \in DOMAIN outcomes : outcomes[i] = "pass"
  THEN "ready_with_evidence" ELSE "blocked"

(* The contract tests, then the acceptance tests; both always run.         *)
RunChecks(r) ==
  /\ At(r, "run_checks")
  /\ \E existing, acceptance \in {"pass", "fail"} :
       checks' = [checks EXCEPT ![r] = <<existing, acceptance>>]
  /\ Goto(r, "write_packet")
  /\ UNCHANGED <<recordVars, premiseVars, revised, patch, diskVars>>

(* The packet is built from the locals.                                    *)
PacketWith(r, edits, outcomes, verdict) ==
  [initial_plan  |-> initialPlan[r],
   probes        |-> probes[r],
   probe_results |-> results[r],
   first_gate    |-> gate[r],
   revised_plan  |-> revised[r],
   patch         |-> edits,
   checks        |-> outcomes,
   verdict       |-> verdict]

(* Variant: the packet leaves the patch out.                               *)
PacketWithoutPatch(r) == PacketWith(r, None, checks[r], VerdictOf(checks[r]))

CodedPacket(r) == PacketWith(r, patch[r], checks[r], VerdictOf(checks[r]))

(* Variant: the gate's status is taken for the verdict.                    *)
PacketWithGateStatus(r) == PacketWith(r, None, << >>, gate[r].status)

BlockedPacket(r) == PacketWith(r, None, << >>, "blocked")

WritePacket(r) ==
  /\ At(r, "write_packet")
  /\ packetFile' = [packetFile EXCEPT ![r] = CodedPacket(r)]
  /\ Goto(r, "copy_workspace")
  /\ UNCHANGED <<recordVars, localVars, workspace, artifacts, finalWorkspace>>

CopyWorkspace(r) ==
  /\ At(r, "copy_workspace")
  /\ finalWorkspace' = [finalWorkspace EXCEPT
       ![r] = [state |-> "complete", edits |-> workspace[r]]]
  /\ Goto(r, "publish")
  /\ UNCHANGED <<recordVars, localVars, workspace, artifacts, packetFile>>

(* copytree stops half way.                                                *)
CopyFails(r) ==
  /\ At(r, "copy_workspace")
  /\ finalWorkspace' = [finalWorkspace EXCEPT
       ![r] = [state |-> "partial", edits |-> << >>]]
  /\ Goto(r, "except")
  /\ UNCHANGED <<recordVars, localVars, workspace, artifacts, packetFile>>

(* Variant: the update names the stage and forgets the packet.             *)
StoreStageOnly(r, content) ==
  /\ Announce(r, "complete")
  /\ Goto(r, "returned")
  /\ UNCHANGED <<packet, provider, localVars, diskVars>>

(* store.update with the packet: one transaction.                          *)
StorePacket(r, content) ==
  /\ Announce(r, "complete")
  /\ packet' = [packet EXCEPT ![r] = content]
  /\ Goto(r, "returned")
  /\ UNCHANGED <<provider, localVars, diskVars>>

Publish(r) ==
  /\ At(r, "publish")
  /\ StorePacket(r, CodedPacket(r))

(* _finish_blocked, for both ways of stopping before code.                 *)
WriteBlockedPacket(r) ==
  /\ At(r, "write_blocked")
  /\ packetFile' = [packetFile EXCEPT ![r] = BlockedPacket(r)]
  /\ Goto(r, "publish_blocked")
  /\ UNCHANGED <<recordVars, localVars, workspace, artifacts, finalWorkspace>>

PublishBlocked(r) ==
  /\ At(r, "publish_blocked")
  /\ StorePacket(r, BlockedPacket(r))

-----------------------------------------------------------------------------
(* Failure.                                                                *)

(* Variant: the handler also covers what follows the last update.          *)
RaiseAfterUpdate(r) ==
  /\ pc[r] \in Guarded \cup {"returned"}
  /\ Goto(r, "except")
  /\ UNCHANGED <<recordVars, localVars, diskVars>>

(* Any call inside the try block raises before its effect.                 *)
Raise(r) ==
  /\ pc[r] \in Guarded
  /\ Goto(r, "except")
  /\ UNCHANGED <<recordVars, localVars, diskVars>>

(* Variant: the failed stage is written without its event.                 *)
RecordFailureWithoutEvent(r) ==
  /\ At(r, "except")
  /\ stage' = [stage EXCEPT ![r] = "failed"]
  /\ Goto(r, "raised")
  /\ UNCHANGED <<events, packet, provider, localVars, diskVars>>

RecordFailure(r) ==
  /\ At(r, "except")
  /\ Announce(r, "failed")
  /\ Goto(r, "raised")
  /\ UNCHANGED <<packet, provider, localVars, diskVars>>

(* The handler's own store.update fails: the run keeps its last stage.     *)
RecordFailureFails(r) ==
  /\ At(r, "except")
  /\ ~ StoreReliable
  /\ Goto(r, "raised")
  /\ UNCHANGED <<recordVars, localVars, diskVars>>

-----------------------------------------------------------------------------
(* The thread that executes run r.                                         *)
Continue(r) ==
  \/ CreateWorkspace(r) \/ Plan(r) \/ CompileProbes(r) \/ RunProbes(r)
  \/ StopOnUnknown(r) \/ GoOnToReplan(r)
  \/ ReplanRejected(r) \/ ReplanAccepted(r)
  \/ GeneratePatch(r) \/ ApplyEdit(r) \/ RefuseEdit(r) \/ PatchApplied(r)
  \/ RunChecks(r) \/ WritePacket(r) \/ CopyWorkspace(r) \/ CopyFails(r)
  \/ Publish(r) \/ WriteBlockedPacket(r) \/ PublishBlocked(r)
  \/ Raise(r) \/ RecordFailure(r) \/ RecordFailureFails(r)

Execute(r) == Begin(r) \/ BeginRaises(r) \/ Continue(r)

Next == \E r \in Runs : Start(r) \/ Execute(r)

Spec == Init /\ [][Next]_vars

(* Every call execute makes returns or raises: model requests, probes and  *)
(* checks run under a timeout, everything else is local.                   *)
FairSpec == Spec /\ \A r \in Runs : WF_vars(Execute(r))

-----------------------------------------------------------------------------
(* Safety.                                                                 *)

Terminal == {"complete", "failed"}

TrailHas(r, s) == \E i \in DOMAIN events[r] : events[r][i] = s

(* Source is edited only after every load-bearing premise of the initial    *)
(* plan was probed and its latest verdict is not unknown                    *)
(* (PRODUCT_SPEC.md:42; pipeline.py:65-84 guards generate_patch at 108).   *)
PremisesSettledBeforeEdit ==
  \A r \in Runs : workspace[r] # << >> =>
    \A a \in LoadBearing(initialPlan[r]) :
      \E i \in DOMAIN results[r] :
        /\ results[r][i].assumption_id = a
        /\ results[r][i].verdict # "unknown"
        /\ \A j \in DOMAIN results[r] :
             results[r][j].assumption_id = a => j <= i

(* Source is edited only under a revised plan that cites the evidence of    *)
(* every result that contradicts a load-bearing premise, cites nothing no   *)
(* probe produced, and brings no load-bearing premise of its own            *)
(* (PRODUCT_SPEC.md:43-45; pipeline.py:178-205).                            *)
RevisionBoundToEvidence ==
  \A r \in Runs : workspace[r] # << >> =>
    /\ revised[r] # None
    /\ \A i \in DOMAIN results[r] :
         results[r][i].verdict = "contradicted"
           /\ results[r][i].assumption_id \in LoadBearing(initialPlan[r])
         => results[r][i].evidence \subseteq revised[r].evidence_ids
    /\ \A e \in revised[r].evidence_ids :
         \E i \in DOMAIN results[r] : e \in results[r][i].evidence
    /\ \A a \in revised[r].assumptions : ~ a.load_bearing

(* A published packet that carries a patch describes the source as it is:   *)
(* every edit of the patch is in, in order and nothing else, the final copy *)
(* is whole, and no edit touched the verification surface.  Ready means     *)
(* that both suites ran on that source and passed (pipeline.py:107-154).    *)
CodedPacketMatchesSource ==
  \A r \in Runs : packet[r] # None /\ packet[r].patch # None =>
    /\ workspace[r] = packet[r].patch
    /\ finalWorkspace[r] = [state |-> "complete", edits |-> packet[r].patch]
    /\ \A i \in DOMAIN packet[r].patch : packet[r].patch[i] \notin DeniedPart
    /\ packet[r].verdict = "ready_with_evidence"
         => packet[r].checks = <<"pass", "pass">>

(* A packet published without a patch is a run that stopped before code:    *)
(* verdict blocked, source pristine, no patch and no final copy on disk,    *)
(* and coding was never announced (pipeline.py:207-259).                    *)
BlockedBeforeCodeIsPristine ==
  \A r \in Runs : packet[r] # None /\ packet[r].patch = None =>
    /\ packet[r].verdict = "blocked"
    /\ workspace[r] = << >>
    /\ "patch" \notin artifacts[r]
    /\ finalWorkspace[r] = NoCopy
    /\ ~ TrailHas(r, "coding")

(* The store shows a packet exactly when the run is complete, and then      *)
(* packet.json holds the same one: two writes with steps between them       *)
(* (pipeline.py:143-154 and 249-259).                                       *)
StoreAndDiskAgree ==
  \A r \in Runs :
    /\ packet[r] # None <=> stage[r] = "complete"
    /\ packet[r] # None => packetFile[r] = packet[r]

Rank == [queued |-> 0, planning |-> 1, extracting_assumptions |-> 2,
         probing |-> 3, blocked_before_code |-> 4, replanning |-> 5,
         coding |-> 6, verifying |-> 7, complete |-> 8, failed |-> 8]

(* The trail a client reads only moves forward, ends at the stage shown and *)
(* skips nothing but the optional blocked event: coding was preceded by     *)
(* replanning, replanning by probing (pipeline.py:46-154, store.py:58-65).  *)
TrailIsConsistent ==
  \A r \in Runs :
    /\ \A i, j \in DOMAIN events[r] :
         i < j => Rank[events[r][i]] < Rank[events[r][j]]
    /\ events[r] # << >> => events[r][Len(events[r])] = stage[r]
    /\ events[r] = << >> => stage[r] \in {"absent", "queued"}
    /\ TrailHas(r, "coding") => TrailHas(r, "replanning")
    /\ TrailHas(r, "replanning") => TrailHas(r, "probing")

(* The terminal stages are final: once a client has read complete or        *)
(* failed, neither the row nor the run's directory changes again            *)
(* (pipeline.py:148-163: nothing may raise after the last update).          *)
SettledIsFinal ==
  [][\A r \in Runs : stage[r] \in Terminal =>
       /\ UNCHANGED <<stage[r], events[r], packet[r]>>
       /\ UNCHANGED <<workspace[r], artifacts[r], packetFile[r],
                      finalWorkspace[r]>>]_vars

(* The trail is append-only, and source changes only between the coding and *)
(* the verifying announcement (pipeline.py:107-112).                        *)
TrailGrowsAndSourceIsGuarded ==
  [][\A r \in Runs :
       /\ Len(events[r]) <= Len(events'[r])
       /\ \A i \in DOMAIN events[r] : events'[r][i] = events[r][i]
       /\ workspace'[r] # workspace[r] => stage[r] = "coding"]_vars

-----------------------------------------------------------------------------
(* The strengthening that makes the safety properties inductive.           *)

BeforeCoding == {"queued", "planning", "extracting_assumptions", "probing",
                 "blocked_before_code", "replanning"}

(* The stage the store shows while the thread is at a location.            *)
StageInv ==
  \A r \in Runs :
    /\ pc[r] = "absent" <=> stage[r] = "absent"
    /\ pc[r] \in {"queued", "create_workspace"} => stage[r] = "queued"
    /\ pc[r] = "plan" => stage[r] = "planning"
    /\ pc[r] = "compile_probes" => stage[r] = "extracting_assumptions"
    /\ pc[r] = "run_probes" => stage[r] = "probing"
    /\ pc[r] = "check_unknown" => stage[r] \in {"probing", "blocked_before_code"}
    /\ pc[r] = "replan" => stage[r] = "replanning"
    /\ pc[r] \in {"write_blocked", "publish_blocked"} => stage[r] \in BeforeCoding
    /\ pc[r] \in {"generate_patch", "apply_patch"} => stage[r] = "coding"
    /\ pc[r] \in {"run_checks", "write_packet", "copy_workspace", "publish"}
         => stage[r] = "verifying"
    /\ pc[r] = "except" => stage[r] \notin Terminal
    /\ stage[r] \in Terminal => pc[r] \in {"returned", "raised"}

(* The decision to write code was taken on this plan and these results.    *)
Cleared(r) ==
  /\ UnknownLoadBearing(initialPlan[r], results[r]) = {}
  /\ revised[r] # None
  /\ ValidateReplan(initialPlan[r], revised[r], results[r]) = "ok"

ClearedInv ==
  \A r \in Runs :
    /\ pc[r] = "replan" => UnknownLoadBearing(initialPlan[r], results[r]) = {}
    /\ stage[r] \in {"coding", "verifying"} \/ workspace[r] # << >> => Cleared(r)
    /\ workspace[r] # << >> => stage[r] \notin BeforeCoding \cup {"absent"}

Inv == TypeOK /\ StageInv /\ ClearedInv

-----------------------------------------------------------------------------
(* Liveness.                                                               *)

(* A client that polls an accepted run sees complete or failed in the end   *)
(* (tests/test_api.py:19, web/app.ts:209).                                  *)
AcceptedRunSettles ==
  \A r \in Runs : stage[r] = "queued" ~> stage[r] \in Terminal

-----------------------------------------------------------------------------
(* What the documents say and the code does not do.                        *)

(* "A load-bearing contradicted or unknown premise returns a blocking       *)
(* gate" (preflight.py:51): the gate blocks whenever an executed probe      *)
(* contradicted, or could not decide, a load-bearing premise.  The gate     *)
(* only reads the last result of each premise (gate.py:7).                  *)
ContradictionBlocks ==
  \A r \in Runs : pc[r] = "check_unknown" =>
    \A i \in DOMAIN results[r] :
      /\ results[r][i].verdict # "verified"
      /\ results[r][i].assumption_id
            \in LoadBearing(initialPlan[r])
      => gate[r].status = "block"

-----------------------------------------------------------------------------
(* The pipeline implements the interlock.                                  *)

PhaseOf(s) ==
  CASE s = "absent" -> "idle"
    [] s \in {"coding", "verifying"} -> "cleared"
    [] s = "complete" -> "concluded"
    [] s = "failed" -> "failed"
    [] OTHER -> "gathering"

Tested(outcome) ==
  {a \in AssumptionIds : ~ (LatestVerdict(outcome, a) \subseteq {"unknown"})}

Promise == INSTANCE Interlock WITH
  Runs     <- Runs,
  Premises <- AssumptionIds,
  Source   <- {path \in Paths : Editable(path)},
  phase    <- [r \in Runs |-> PhaseOf(stage[r])],
  premises <- [r \in Runs |-> LoadBearing(initialPlan[r])],
  tested   <- [r \in Runs |-> Tested(results[r])],
  edits    <- workspace,
  outcome  <- [r \in Runs |-> IF packet[r] # None
                              THEN packet[r].verdict ELSE "none"]

(* Every step of execute is a step of the interlock or leaves it alone:     *)
(* premises are fixed before testing, code waits for every premise to be    *)
(* tested, a run never cleared concludes blocked with pristine source.      *)
ImplementsInterlock == Promise!Spec
=============================================================================
