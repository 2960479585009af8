--------------------------- MODULE PipelineProofs ---------------------------
(***************************************************************************)
(* Proofs about the pipeline, for any number of runs, any answers of the    *)
(* models that fit the schema and any failures.  First one execution: types *)
(* and the interlock before code.  Then what a run leaves behind: the       *)
(* published packet is the truth about source and disk, the trail tells the *)
(* stages in order, what has settled stays, runs get on and end on record,  *)
(* a packet can be judged again from itself, and the pipeline keeps the     *)
(* promise of Interlock.                                                    *)
(***************************************************************************)
EXTENDS Pipeline, GateProofs

(* Types (models.py).                                                       *)
LEMMA InitTypeOK == Init => TypeOK
BY DEF Init, TypeOK, NoPlan, NoGate, NoCopy, Locations, Stages,
       ImplementationPlan, GateDecision

(* What the operators of Gate return are values of the rows                 *)
(* (gate.py:6-27).                                                          *)
LEMMA RepliesType ==
  ASSUME TypeOK, NEW r \in Runs, NEW answer \in Replies(r)
  PROVE  answer \in ImplementationPlan
<1>1. results[r] \in Seq(ProbeResult)
  BY DEF TypeOK
<1>2. QED
  BY <1>1, DemoReplanType, SchemaAssumption DEF Replies

(* A packet built from them is one too (pipeline.py:165-259).               *)
LEMMA PacketType ==
  ASSUME TypeOK, NEW r \in Runs
  PROVE  /\ CodedPacket(r) \in RunPacket
         /\ BlockedPacket(r) \in RunPacket
<1>1. VerdictOf(checks[r]) \in {"ready_with_evidence", "blocked"}
  BY DEF VerdictOf
<1>2. ASSUME NEW edits \in Seq(Paths) \cup {None},
             NEW outcomes \in Seq({"pass", "fail"}),
             NEW verdict \in {"ready_with_evidence", "blocked"}
      PROVE  PacketWith(r, edits, outcomes, verdict) \in RunPacket
  BY DEF TypeOK, PacketWith, RunPacket
<1>3. patch[r] \in Seq(Paths) \cup {None} /\ checks[r] \in Seq({"pass", "fail"})
  BY DEF TypeOK
<1>4. CodedPacket(r) \in RunPacket
  BY <1>1, <1>2, <1>3 DEF CodedPacket
<1>5. << >> \in Seq({"pass", "fail"})
  OBVIOUS
<1>6. BlockedPacket(r) \in RunPacket
  BY <1>2, <1>5 DEF BlockedPacket
<1>7. QED
  BY <1>4, <1>6

(* Types survive every step of every run (pipeline.py:34-163).              *)
LEMMA NextTypeOK == TypeOK /\ [Next]_vars => TypeOK'
<1> SUFFICES ASSUME TypeOK, [Next]_vars PROVE TypeOK'
  OBVIOUS
<1> USE DEF TypeOK, At, Goto, Save, Announce, Locations, Guarded, Stages,
            recordVars, premiseVars, codingVars, localVars, diskVars
<1>0. CASE UNCHANGED vars
  BY <1>0 DEF vars
<1>1. ASSUME NEW r \in Runs, Start(r) PROVE TypeOK'
  BY <1>1 DEF Start
<1>2. ASSUME NEW r \in Runs, Begin(r) PROVE TypeOK'
  BY <1>2 DEF Begin
<1>3. ASSUME NEW r \in Runs, BeginRaises(r) PROVE TypeOK'
  BY <1>3 DEF BeginRaises
<1>4. ASSUME NEW r \in Runs, CreateWorkspace(r) PROVE TypeOK'
  BY <1>4 DEF CreateWorkspace
<1>5. ASSUME NEW r \in Runs, Plan(r) PROVE TypeOK'
  BY <1>5, SchemaAssumption DEF Plan
<1>6. ASSUME NEW r \in Runs, CompileProbes(r) PROVE TypeOK'
  BY <1>6, SchemaAssumption DEF CompileProbes
<1>7. ASSUME NEW r \in Runs, RunProbes(r) PROVE TypeOK'
  <2>1. PICK outcome \in ProbeOutcomes(probes[r]) :
          /\ results' = [results EXCEPT ![r] = outcome]
          /\ gate' = [gate EXCEPT ![r] = DecideGate(initialPlan[r], outcome)]
    BY <1>7 DEF RunProbes
  <2>2. outcome \in Seq(ProbeResult)
    BY <2>1, OutcomesAreResults
  <2>3. DecideGate(initialPlan[r], outcome) \in GateDecision
    BY GateDecisionType
  <2>4. /\ stage' \in [Runs -> Stages \cup {"absent"}]
        /\ events' \in [Runs -> Seq(Stages)]
    <3>1. \/ /\ stage' = [stage EXCEPT ![r] = "blocked_before_code"]
             /\ events' = [events EXCEPT ![r] = Append(@, "blocked_before_code")]
          \/ stage' = stage /\ events' = events
      BY <1>7 DEF RunProbes
    <3>2. CASE /\ stage' = [stage EXCEPT ![r] = "blocked_before_code"]
               /\ events' = [events EXCEPT ![r] = Append(@, "blocked_before_code")]
      <4>1. stage' \in [Runs -> Stages \cup {"absent"}]
        BY <3>2
      <4>2. events' \in [Runs -> Seq(Stages)]
        BY <3>2
      <4>3. QED
        BY <4>1, <4>2
    <3>3. CASE stage' = stage /\ events' = events
      BY <3>3
    <3>4. QED
      BY <3>1, <3>2, <3>3
  <2>5. /\ results' \in [Runs -> Seq(ProbeResult)]
        /\ gate' \in [Runs -> GateDecision]
    BY <2>1, <2>2, <2>3
  <2>6. QED
    BY <1>7, <2>4, <2>5 DEF RunProbes
<1>8. ASSUME NEW r \in Runs, StopOnUnknown(r) PROVE TypeOK'
  BY <1>8 DEF StopOnUnknown
<1>9. ASSUME NEW r \in Runs, GoOnToReplan(r) PROVE TypeOK'
  BY <1>9 DEF GoOnToReplan
<1>10. ASSUME NEW r \in Runs, ReplanRejected(r) PROVE TypeOK'
  BY <1>10, RepliesType DEF ReplanRejected
<1>11. ASSUME NEW r \in Runs, ReplanAccepted(r) PROVE TypeOK'
  BY <1>11, RepliesType DEF ReplanAccepted
<1>12. ASSUME NEW r \in Runs, GeneratePatch(r) PROVE TypeOK'
  BY <1>12, SchemaAssumption DEF GeneratePatch
<1>13. ASSUME NEW r \in Runs, ApplyEdit(r) PROVE TypeOK'
  BY <1>13, PathAssumption DEF ApplyEdit, Editable
<1>14. ASSUME NEW r \in Runs, RefuseEdit(r) PROVE TypeOK'
  BY <1>14 DEF RefuseEdit
<1>15. ASSUME NEW r \in Runs, PatchApplied(r) PROVE TypeOK'
  BY <1>15 DEF PatchApplied
<1>16. ASSUME NEW r \in Runs, RunChecks(r) PROVE TypeOK'
  BY <1>16 DEF RunChecks
<1>17. ASSUME NEW r \in Runs, WritePacket(r) PROVE TypeOK'
  BY <1>17, PacketType DEF WritePacket
<1>18. ASSUME NEW r \in Runs, CopyWorkspace(r) PROVE TypeOK'
  BY <1>18 DEF CopyWorkspace
<1>19. ASSUME NEW r \in Runs, CopyFails(r) PROVE TypeOK'
  BY <1>19 DEF CopyFails
<1>20. ASSUME NEW r \in Runs, Publish(r) PROVE TypeOK'
  BY <1>20, PacketType DEF Publish, StorePacket
<1>21. ASSUME NEW r \in Runs, WriteBlockedPacket(r) PROVE TypeOK'
  BY <1>21, PacketType DEF WriteBlockedPacket
<1>22. ASSUME NEW r \in Runs, PublishBlocked(r) PROVE TypeOK'
  BY <1>22, PacketType DEF PublishBlocked, StorePacket
<1>23. ASSUME NEW r \in Runs, Raise(r) PROVE TypeOK'
  BY <1>23 DEF Raise
<1>24. ASSUME NEW r \in Runs, RecordFailure(r) PROVE TypeOK'
  BY <1>24 DEF RecordFailure
<1>25. ASSUME NEW r \in Runs, RecordFailureFails(r) PROVE TypeOK'
  BY <1>25 DEF RecordFailureFails
<1>26. QED
  BY <1>0, <1>1, <1>2, <1>3, <1>4, <1>5, <1>6, <1>7, <1>8, <1>9, <1>10,
     <1>11, <1>12, <1>13, <1>14, <1>15, <1>16, <1>17, <1>18, <1>19, <1>20,
     <1>21, <1>22, <1>23, <1>24, <1>25
  DEF Next, Execute, Continue

(* In every reachable state every variable has its type.                    *)
THEOREM TypeCorrect == Spec => []TypeOK
<1>1. QED
  BY InitTypeOK, NextTypeOK, PTL DEF Spec

-----------------------------------------------------------------------------
(* The stage a client reads follows the thread.                             *)
LEMMA InitStageInv == Init => StageInv
BY DEF Init, StageInv, BeforeCoding, Terminal

(* So does the stage each point of execute runs in (pipeline.py:46-154).    *)
LEMMA NextStageInv == TypeOK /\ StageInv /\ [Next]_vars => StageInv'
<1> SUFFICES ASSUME TypeOK, StageInv, [Next]_vars PROVE StageInv'
  OBVIOUS
<1> USE DEF TypeOK, StageInv, BeforeCoding, Terminal, Stages, Guarded,
            At, Goto, Announce, recordVars
<1>0. CASE UNCHANGED vars
  BY <1>0 DEF vars
<1>1. ASSUME NEW r \in Runs, Start(r) PROVE StageInv'
  BY <1>1 DEF Start
<1>2. ASSUME NEW r \in Runs, Begin(r) PROVE StageInv'
  BY <1>2 DEF Begin
<1>3. ASSUME NEW r \in Runs, BeginRaises(r) PROVE StageInv'
  BY <1>3 DEF BeginRaises
<1>4. ASSUME NEW r \in Runs, CreateWorkspace(r) PROVE StageInv'
  BY <1>4 DEF CreateWorkspace
<1>5. ASSUME NEW r \in Runs, Plan(r) PROVE StageInv'
  BY <1>5 DEF Plan
<1>6. ASSUME NEW r \in Runs, CompileProbes(r) PROVE StageInv'
  BY <1>6 DEF CompileProbes
<1>7. ASSUME NEW r \in Runs, RunProbes(r) PROVE StageInv'
  BY <1>7 DEF RunProbes
<1>8. ASSUME NEW r \in Runs, StopOnUnknown(r) PROVE StageInv'
  BY <1>8 DEF StopOnUnknown
<1>9. ASSUME NEW r \in Runs, GoOnToReplan(r) PROVE StageInv'
  BY <1>9 DEF GoOnToReplan
<1>10. ASSUME NEW r \in Runs, ReplanRejected(r) PROVE StageInv'
  BY <1>10 DEF ReplanRejected
<1>11. ASSUME NEW r \in Runs, ReplanAccepted(r) PROVE StageInv'
  BY <1>11 DEF ReplanAccepted
<1>12. ASSUME NEW r \in Runs, GeneratePatch(r) PROVE StageInv'
  BY <1>12 DEF GeneratePatch
<1>13. ASSUME NEW r \in Runs, ApplyEdit(r) PROVE StageInv'
  BY <1>13 DEF ApplyEdit
<1>14. ASSUME NEW r \in Runs, RefuseEdit(r) PROVE StageInv'
  BY <1>14 DEF RefuseEdit
<1>15. ASSUME NEW r \in Runs, PatchApplied(r) PROVE StageInv'
  BY <1>15 DEF PatchApplied
<1>16. ASSUME NEW r \in Runs, RunChecks(r) PROVE StageInv'
  BY <1>16 DEF RunChecks
<1>17. ASSUME NEW r \in Runs, WritePacket(r) PROVE StageInv'
  BY <1>17 DEF WritePacket
<1>18. ASSUME NEW r \in Runs, CopyWorkspace(r) PROVE StageInv'
  BY <1>18 DEF CopyWorkspace
<1>19. ASSUME NEW r \in Runs, CopyFails(r) PROVE StageInv'
  BY <1>19 DEF CopyFails
<1>20. ASSUME NEW r \in Runs, Publish(r) PROVE StageInv'
  BY <1>20 DEF Publish, StorePacket
<1>21. ASSUME NEW r \in Runs, WriteBlockedPacket(r) PROVE StageInv'
  BY <1>21 DEF WriteBlockedPacket
<1>22. ASSUME NEW r \in Runs, PublishBlocked(r) PROVE StageInv'
  BY <1>22 DEF PublishBlocked, StorePacket
<1>23. ASSUME NEW r \in Runs, Raise(r) PROVE StageInv'
  BY <1>23 DEF Raise
<1>24. ASSUME NEW r \in Runs, RecordFailure(r) PROVE StageInv'
  BY <1>24 DEF RecordFailure
<1>25. ASSUME NEW r \in Runs, RecordFailureFails(r) PROVE StageInv'
  BY <1>25 DEF RecordFailureFails
<1>26. QED
  BY <1>0, <1>1, <1>2, <1>3, <1>4, <1>5, <1>6, <1>7, <1>8, <1>9, <1>10,
     <1>11, <1>12, <1>13, <1>14, <1>15, <1>16, <1>17, <1>18, <1>19, <1>20,
     <1>21, <1>22, <1>23, <1>24, <1>25
  DEF Next, Execute, Continue

-----------------------------------------------------------------------------
(* Code is written only under the plan, results and replan that were cleared. *)
LEMMA InitClearedInv == Init => ClearedInv
BY DEF Init, ClearedInv, BeforeCoding

(* So does what the gate established, once coding may begin                 *)
(* (pipeline.py:60-107).                                                    *)
LEMMA NextClearedInv ==
  TypeOK /\ StageInv /\ ClearedInv /\ [Next]_vars => ClearedInv'
<1> SUFFICES ASSUME TypeOK, StageInv, ClearedInv, [Next]_vars PROVE ClearedInv'
  OBVIOUS
<1> USE DEF TypeOK, StageInv, ClearedInv, Cleared, BeforeCoding, Terminal,
            Stages, Guarded, At, Goto, Announce, recordVars, premiseVars,
            codingVars, localVars, diskVars
<1>0. CASE UNCHANGED vars
  BY <1>0 DEF vars
<1>1. ASSUME NEW r \in Runs, Start(r) PROVE ClearedInv'
  BY <1>1 DEF Start
<1>2. ASSUME NEW r \in Runs, Begin(r) PROVE ClearedInv'
  BY <1>2 DEF Begin
<1>3. ASSUME NEW r \in Runs, BeginRaises(r) PROVE ClearedInv'
  BY <1>3 DEF BeginRaises
<1>4. ASSUME NEW r \in Runs, CreateWorkspace(r) PROVE ClearedInv'
  BY <1>4 DEF CreateWorkspace
<1>5. ASSUME NEW r \in Runs, Plan(r) PROVE ClearedInv'
  BY <1>5 DEF Plan
<1>6. ASSUME NEW r \in Runs, CompileProbes(r) PROVE ClearedInv'
  BY <1>6 DEF CompileProbes
<1>7. ASSUME NEW r \in Runs, RunProbes(r) PROVE ClearedInv'
  <2>1. workspace[r] = << >> /\ workspace' = workspace
    BY <1>7 DEF RunProbes
  <2>2. PICK outcome :
          /\ results' = [results EXCEPT ![r] = outcome]
          /\ stage' \in {stage, [stage EXCEPT ![r] = "blocked_before_code"]}
    BY <1>7 DEF RunProbes
  <2>3. stage'[r] \in BeforeCoding /\ pc'[r] = "check_unknown"
    BY <1>7, <2>2 DEF RunProbes
  <2>4. ASSUME NEW s \in Runs, s # r
        PROVE  /\ stage'[s] = stage[s] /\ pc'[s] = pc[s]
               /\ results'[s] = results[s]
    BY <1>7, <2>2, <2>4 DEF RunProbes
  <2>5. initialPlan' = initialPlan /\ revised' = revised
    BY <1>7 DEF RunProbes
  <2>6. ASSUME NEW s \in Runs, s # r
        PROVE  /\ UnknownLoadBearing(initialPlan[s], results[s])'
                    = UnknownLoadBearing(initialPlan[s], results[s])
               /\ Cleared(s)' = Cleared(s)
    BY <2>4, <2>5, <2>6
  <2>7. ASSUME NEW s \in Runs
        PROVE  /\ pc'[s] = "replan" => UnknownLoadBearing(initialPlan[s], results[s])' = {}
               /\ stage'[s] \in {"coding", "verifying"} \/ workspace'[s] # << >> => Cleared(s)'
               /\ workspace'[s] # << >> => stage'[s] \notin BeforeCoding \cup {"absent"}
    <3>1. CASE s = r
      BY <2>1, <2>3, <3>1
    <3>2. CASE s # r
      BY <2>1, <2>4, <2>6, <3>2
    <3>3. QED
      BY <3>1, <3>2
  <2>8. QED
    BY <2>7
<1>8. ASSUME NEW r \in Runs, StopOnUnknown(r) PROVE ClearedInv'
  BY <1>8 DEF StopOnUnknown
<1>9. ASSUME NEW r \in Runs, GoOnToReplan(r) PROVE ClearedInv'
  BY <1>9 DEF GoOnToReplan
<1>10. ASSUME NEW r \in Runs, ReplanRejected(r) PROVE ClearedInv'
  BY <1>10 DEF ReplanRejected
<1>11. ASSUME NEW r \in Runs, ReplanAccepted(r) PROVE ClearedInv'
  <2>1. PICK answer \in Replies(r) :
          /\ ~ ReplanError(r, answer)
          /\ revised' = [revised EXCEPT ![r] = answer]
    BY <1>11 DEF ReplanAccepted
  <2>2. answer # None
    BY <2>1, RepliesType, NoneAssumption
  <2>3. /\ UnknownLoadBearing(initialPlan[r], results[r]) = {}
        /\ ValidateReplan(initialPlan[r], answer, results[r]) = "ok"
    BY <1>11, <2>1 DEF ReplanAccepted, ReplanError
  <2>4. UNCHANGED <<initialPlan, results, workspace>>
    BY <1>11 DEF ReplanAccepted
  <2>5. Cleared(r)'
    BY <2>1, <2>2, <2>3, <2>4
  <2>6. stage'[r] = "coding" /\ pc'[r] = "generate_patch"
    BY <1>11 DEF ReplanAccepted
  <2>7. ASSUME NEW s \in Runs, s # r
        PROVE  /\ stage'[s] = stage[s] /\ pc'[s] = pc[s]
               /\ revised'[s] = revised[s]
    BY <1>11, <2>1, <2>7 DEF ReplanAccepted
  <2>8. ASSUME NEW s \in Runs, s # r
        PROVE  /\ UnknownLoadBearing(initialPlan[s], results[s])'
                    = UnknownLoadBearing(initialPlan[s], results[s])
               /\ Cleared(s)' = Cleared(s)
    BY <2>4, <2>7, <2>8
  <2>9. ASSUME NEW s \in Runs
        PROVE  /\ pc'[s] = "replan" => UnknownLoadBearing(initialPlan[s], results[s])' = {}
               /\ stage'[s] \in {"coding", "verifying"} \/ workspace'[s] # << >> => Cleared(s)'
               /\ workspace'[s] # << >> => stage'[s] \notin BeforeCoding \cup {"absent"}
    <3>1. CASE s = r
      BY <2>5, <2>6, <3>1
    <3>2. CASE s # r
      BY <2>4, <2>7, <2>8, <3>2
    <3>3. QED
      BY <3>1, <3>2
  <2>10. QED
    BY <2>9
<1>12. ASSUME NEW r \in Runs, GeneratePatch(r) PROVE ClearedInv'
  BY <1>12 DEF GeneratePatch
<1>13. ASSUME NEW r \in Runs, ApplyEdit(r) PROVE ClearedInv'
  BY <1>13 DEF ApplyEdit
<1>14. ASSUME NEW r \in Runs, RefuseEdit(r) PROVE ClearedInv'
  BY <1>14 DEF RefuseEdit
<1>15. ASSUME NEW r \in Runs, PatchApplied(r) PROVE ClearedInv'
  BY <1>15 DEF PatchApplied
<1>16. ASSUME NEW r \in Runs, RunChecks(r) PROVE ClearedInv'
  BY <1>16 DEF RunChecks
<1>17. ASSUME NEW r \in Runs, WritePacket(r) PROVE ClearedInv'
  BY <1>17 DEF WritePacket
<1>18. ASSUME NEW r \in Runs, CopyWorkspace(r) PROVE ClearedInv'
  BY <1>18 DEF CopyWorkspace
<1>19. ASSUME NEW r \in Runs, CopyFails(r) PROVE ClearedInv'
  BY <1>19 DEF CopyFails
<1>20. ASSUME NEW r \in Runs, Publish(r) PROVE ClearedInv'
  BY <1>20 DEF Publish, StorePacket
<1>21. ASSUME NEW r \in Runs, WriteBlockedPacket(r) PROVE ClearedInv'
  BY <1>21 DEF WriteBlockedPacket
<1>22. ASSUME NEW r \in Runs, PublishBlocked(r) PROVE ClearedInv'
  BY <1>22 DEF PublishBlocked, StorePacket
<1>23. ASSUME NEW r \in Runs, Raise(r) PROVE ClearedInv'
  BY <1>23 DEF Raise
<1>24. ASSUME NEW r \in Runs, RecordFailure(r) PROVE ClearedInv'
  BY <1>24 DEF RecordFailure
<1>25. ASSUME NEW r \in Runs, RecordFailureFails(r) PROVE ClearedInv'
  BY <1>25 DEF RecordFailureFails
<1>26. QED
  BY <1>0, <1>1, <1>2, <1>3, <1>4, <1>5, <1>6, <1>7, <1>8, <1>9, <1>10,
     <1>11, <1>12, <1>13, <1>14, <1>15, <1>16, <1>17, <1>18, <1>19, <1>20,
     <1>21, <1>22, <1>23, <1>24, <1>25
  DEF Next, Execute, Continue

-----------------------------------------------------------------------------
(* The three together hold in every state of every instance                 *)
(* (pipeline.py:34-163).                                                    *)
THEOREM Invariance == Spec => []Inv
<1>1. Init => Inv
  BY InitTypeOK, InitStageInv, InitClearedInv DEF Inv
<1>2. Inv /\ [Next]_vars => Inv'
  BY NextTypeOK, NextStageInv, NextClearedInv DEF Inv
<1>3. QED
  BY <1>1, <1>2, PTL DEF Spec

(* What was cleared was settled and bound to evidence.                      *)
LEMMA ClearedIsSettled == Inv => PremisesSettledBeforeEdit /\ RevisionBoundToEvidence
<1>1. Inv => PremisesSettledBeforeEdit
  <2> SUFFICES ASSUME Inv, NEW r \in Runs, workspace[r] # << >>
               PROVE  \A a \in LoadBearing(initialPlan[r]) :
                        \E i \in DOMAIN results[r] :
                          /\ results[r][i].assumption_id = a
                          /\ results[r][i].verdict # "unknown"
                          /\ \A j \in DOMAIN results[r] :
                               results[r][j].assumption_id = a => j <= i
    BY DEF PremisesSettledBeforeEdit
  <2>1. UnknownLoadBearing(initialPlan[r], results[r]) = {}
    BY DEF Inv, ClearedInv, Cleared
  <2>2. QED
    BY <2>1, NoUnknownMeansSettled
<1>2. Inv => RevisionBoundToEvidence
  <2> SUFFICES ASSUME Inv, NEW r \in Runs, workspace[r] # << >>
               PROVE  /\ revised[r] # None
                      /\ \A i \in DOMAIN results[r] :
                           results[r][i].verdict = "contradicted"
                             /\ results[r][i].assumption_id
                                  \in LoadBearing(initialPlan[r])
                           => results[r][i].evidence
                                \subseteq revised[r].evidence_ids
                      /\ \A e \in revised[r].evidence_ids :
                           \E i \in DOMAIN results[r] :
                             e \in results[r][i].evidence
                      /\ \A a \in revised[r].assumptions : ~ a.load_bearing
    BY DEF RevisionBoundToEvidence
  <2>1. /\ revised[r] # None
        /\ ValidateReplan(initialPlan[r], revised[r], results[r]) = "ok"
    BY DEF Inv, ClearedInv, Cleared
  <2>2. QED
    BY <2>1, AcceptedReplanIsBound
<1>3. QED
  BY <1>1, <1>2

(* The interlock, first half: no source edit before every load-bearing      *)
(* premise has a decided verdict (PRODUCT_SPEC.md:42).                      *)
THEOREM EditsFollowSettledPremises == Spec => []PremisesSettledBeforeEdit
BY ClearedIsSettled, Invariance, PTL

(* The interlock, second half: the plan that source is edited under cites   *)
(* every contradiction and nothing unproven (PRODUCT_SPEC.md:43-45).        *)
THEOREM EditsFollowBoundRevision == Spec => []RevisionBoundToEvidence
BY ClearedIsSettled, Invariance, PTL

-----------------------------------------------------------------------------
(* A run's row, thread, locals and directory stay as they are.              *)
Same(r) ==
  /\ stage'[r] = stage[r] /\ events'[r] = events[r] /\ packet'[r] = packet[r]
  /\ provider'[r] = provider[r] /\ pc'[r] = pc[r]
  /\ initialPlan'[r] = initialPlan[r] /\ probes'[r] = probes[r]
  /\ results'[r] = results[r] /\ gate'[r] = gate[r]
  /\ revised'[r] = revised[r] /\ patch'[r] = patch[r] /\ checks'[r] = checks[r]
  /\ workspace'[r] = workspace[r] /\ artifacts'[r] = artifacts[r]
  /\ packetFile'[r] = packetFile[r] /\ finalWorkspace'[r] = finalWorkspace[r]

(* A step of one run leaves every other run alone.                          *)
LEMMA OthersStay ==
  ASSUME TypeOK, NEW r \in Runs, Start(r) \/ Execute(r), NEW s \in Runs, s # r
  PROVE  Same(s)
<1> USE DEF TypeOK, Same, Goto, Save, Announce, recordVars, premiseVars,
            codingVars, localVars, diskVars
<1>1. CASE Start(r)
  BY <1>1 DEF Start
<1>2. CASE Begin(r)
  BY <1>2 DEF Begin
<1>3. CASE BeginRaises(r)
  BY <1>3 DEF BeginRaises
<1>4. CASE CreateWorkspace(r)
  BY <1>4 DEF CreateWorkspace
<1>5. CASE Plan(r)
  BY <1>5 DEF Plan
<1>6. CASE CompileProbes(r)
  BY <1>6 DEF CompileProbes
<1>7. CASE RunProbes(r)
  BY <1>7 DEF RunProbes
<1>8. CASE StopOnUnknown(r)
  BY <1>8 DEF StopOnUnknown
<1>9. CASE GoOnToReplan(r)
  BY <1>9 DEF GoOnToReplan
<1>10. CASE ReplanRejected(r)
  BY <1>10 DEF ReplanRejected
<1>11. CASE ReplanAccepted(r)
  BY <1>11 DEF ReplanAccepted
<1>12. CASE GeneratePatch(r)
  BY <1>12 DEF GeneratePatch
<1>13. CASE ApplyEdit(r)
  BY <1>13 DEF ApplyEdit
<1>14. CASE RefuseEdit(r)
  BY <1>14 DEF RefuseEdit
<1>15. CASE PatchApplied(r)
  BY <1>15 DEF PatchApplied
<1>16. CASE RunChecks(r)
  BY <1>16 DEF RunChecks
<1>17. CASE WritePacket(r)
  BY <1>17 DEF WritePacket
<1>18. CASE CopyWorkspace(r)
  BY <1>18 DEF CopyWorkspace
<1>19. CASE CopyFails(r)
  BY <1>19 DEF CopyFails
<1>20. CASE Publish(r)
  BY <1>20 DEF Publish, StorePacket
<1>21. CASE WriteBlockedPacket(r)
  BY <1>21 DEF WriteBlockedPacket
<1>22. CASE PublishBlocked(r)
  BY <1>22 DEF PublishBlocked, StorePacket
<1>23. CASE Raise(r)
  BY <1>23 DEF Raise
<1>24. CASE RecordFailure(r)
  BY <1>24 DEF RecordFailure
<1>25. CASE RecordFailureFails(r)
  BY <1>25 DEF RecordFailureFails
<1>26. QED
  BY <1>1, <1>2, <1>3, <1>4, <1>5, <1>6, <1>7, <1>8, <1>9, <1>10,
     <1>11, <1>12, <1>13, <1>14, <1>15, <1>16, <1>17, <1>18, <1>19,
     <1>20, <1>21, <1>22, <1>23, <1>24, <1>25
  DEF Execute, Continue

-----------------------------------------------------------------------------
(* The edits made are the first edits of the patch, none of them denied;    *)
(* from run_checks on, all of the patch.                                    *)
EditInv(r) ==
  /\ pc[r] \in {"apply_patch", "run_checks", "write_packet", "copy_workspace",
                "publish"} =>
       /\ patch[r] # None
       /\ Len(workspace[r]) <= Len(patch[r])
       /\ \A i \in DOMAIN workspace[r] :
            workspace[r][i] = patch[r][i] /\ patch[r][i] \notin DeniedPart
  /\ pc[r] \in {"run_checks", "write_packet", "copy_workspace", "publish"} =>
       workspace[r] = patch[r]
  /\ pc[r] = "generate_patch" => workspace[r] = << >>

(* A trail contains a stage.                                                *)
Told(s, trail) == \E i \in DOMAIN trail : trail[i] = s

(* Before coding is announced nothing of it is there.                       *)
UntouchedInv(r) ==
  stage[r] \in BeforeCoding \cup {"absent"} =>
    /\ workspace[r] = << >>
    /\ "patch" \notin artifacts[r]
    /\ finalWorkspace[r] = NoCopy
    /\ ~ Told("coding", events[r])

(* What is on its way to publication agrees with the locals; what is        *)
(* published, with the file.                                                *)
WrittenInv(r) ==
  /\ pc[r] \in {"write_packet", "copy_workspace", "publish"} => Len(checks[r]) = 2
  /\ pc[r] \in {"copy_workspace", "publish"} => packetFile[r] = CodedPacket(r)
  /\ pc[r] = "publish" =>
       finalWorkspace[r] = [state |-> "complete", edits |-> workspace[r]]
  /\ pc[r] = "publish_blocked" => packetFile[r] = BlockedPacket(r)
  /\ packet[r] # None <=> stage[r] = "complete"
  /\ packet[r] # None => packetFile[r] = packet[r]

(* Two sequences of one length with the same members are one.               *)
LEMMA SameSequence ==
  ASSUME NEW S, NEW s \in Seq(S), NEW t \in Seq(S), Len(s) = Len(t),
         \A i \in DOMAIN s : s[i] = t[i]
  PROVE  s = t
<1>1. /\ s = [i \in 1..Len(s) |-> s[i]] /\ DOMAIN s = 1..Len(s)
      /\ t = [i \in 1..Len(t) |-> t[i]]
  OBVIOUS
<1>2. QED
  BY <1>1

(* A packet is not None.                                                    *)
LEMMA PacketIsSome ==
  ASSUME TypeOK, NEW r \in Runs
  PROVE  CodedPacket(r) # None /\ BlockedPacket(r) # None
BY PacketType, PacketAssumption

(* Before the probes ran there are no results.                              *)
UntestedInv(r) ==
  pc[r] \in {"absent", "queued", "create_workspace", "plan", "compile_probes",
             "run_probes"} => results[r] = << >>

(* Results come from run_probes only (pipeline.py:57).                      *)
LEMMA UntestedStep ==
  ASSUME TypeOK, StageInv, NEW r \in Runs, UntestedInv(r), Start(r) \/ Execute(r)
  PROVE  UntestedInv(r)'
<1> USE DEF TypeOK, StageInv, BeforeCoding, Terminal, At, Goto, Save, Announce,
            recordVars, premiseVars, codingVars, localVars, diskVars,
            UntestedInv
<1>1. CASE Start(r)
  BY <1>1 DEF Start
<1>2. CASE Begin(r)
  BY <1>2 DEF Begin
<1>3. CASE BeginRaises(r)
  BY <1>3 DEF BeginRaises
<1>4. CASE CreateWorkspace(r)
  BY <1>4 DEF CreateWorkspace
<1>5. CASE Plan(r)
  BY <1>5 DEF Plan
<1>6. CASE CompileProbes(r)
  BY <1>6 DEF CompileProbes
<1>7. CASE RunProbes(r)
  BY <1>7 DEF RunProbes
<1>8. CASE StopOnUnknown(r)
  BY <1>8 DEF StopOnUnknown
<1>9. CASE GoOnToReplan(r)
  BY <1>9 DEF GoOnToReplan
<1>10. CASE ReplanRejected(r)
  BY <1>10 DEF ReplanRejected
<1>11. CASE ReplanAccepted(r)
  BY <1>11 DEF ReplanAccepted
<1>12. CASE GeneratePatch(r)
  BY <1>12 DEF GeneratePatch
<1>13. CASE ApplyEdit(r)
  BY <1>13 DEF ApplyEdit
<1>14. CASE RefuseEdit(r)
  BY <1>14 DEF RefuseEdit
<1>15. CASE PatchApplied(r)
  BY <1>15 DEF PatchApplied
<1>16. CASE RunChecks(r)
  BY <1>16 DEF RunChecks
<1>17. CASE WritePacket(r)
  BY <1>17 DEF WritePacket
<1>18. CASE CopyWorkspace(r)
  BY <1>18 DEF CopyWorkspace
<1>19. CASE CopyFails(r)
  BY <1>19 DEF CopyFails
<1>20. CASE Publish(r)
  BY <1>20 DEF Publish, StorePacket
<1>21. CASE WriteBlockedPacket(r)
  BY <1>21 DEF WriteBlockedPacket
<1>22. CASE PublishBlocked(r)
  BY <1>22 DEF PublishBlocked, StorePacket
<1>23. CASE Raise(r)
  BY <1>23 DEF Raise
<1>24. CASE RecordFailure(r)
  BY <1>24 DEF RecordFailure
<1>25. CASE RecordFailureFails(r)
  BY <1>25 DEF RecordFailureFails
<1>26. QED
  BY <1>1, <1>2, <1>3, <1>4, <1>5, <1>6, <1>7, <1>8, <1>9, <1>10,
     <1>11, <1>12, <1>13, <1>14, <1>15, <1>16, <1>17, <1>18, <1>19,
     <1>20, <1>21, <1>22, <1>23, <1>24, <1>25
  DEF Execute, Continue

(* apply_patch writes edit after edit (patching.py:9-39).                   *)
LEMMA EditStep ==
  ASSUME TypeOK, StageInv, NEW r \in Runs, UntouchedInv(r), EditInv(r), Start(r) \/ Execute(r)
  PROVE  EditInv(r)'
<1> USE DEF TypeOK, StageInv, BeforeCoding, Terminal, At, Goto, Save, Announce,
            recordVars, premiseVars, codingVars, localVars, diskVars,
            EditInv, UntouchedInv
<1>1. CASE Start(r)
  BY <1>1 DEF Start
<1>2. CASE Begin(r)
  BY <1>2 DEF Begin
<1>3. CASE BeginRaises(r)
  BY <1>3 DEF BeginRaises
<1>4. CASE CreateWorkspace(r)
  BY <1>4 DEF CreateWorkspace
<1>5. CASE Plan(r)
  BY <1>5 DEF Plan
<1>6. CASE CompileProbes(r)
  BY <1>6 DEF CompileProbes
<1>7. CASE RunProbes(r)
  BY <1>7 DEF RunProbes
<1>8. CASE StopOnUnknown(r)
  BY <1>8 DEF StopOnUnknown
<1>9. CASE GoOnToReplan(r)
  BY <1>9 DEF GoOnToReplan
<1>10. CASE ReplanRejected(r)
  BY <1>10 DEF ReplanRejected
<1>11. CASE ReplanAccepted(r)
  BY <1>11 DEF ReplanAccepted
<1>12. CASE GeneratePatch(r)
  <2>1. PICK edits \in Patches : patch' = [patch EXCEPT ![r] = edits]
    BY <1>12 DEF GeneratePatch
  <2>2. edits \in Seq(Paths) /\ edits # None /\ patch'[r] = edits
    BY <2>1, SchemaAssumption, NoneAssumption
  <2>3. workspace'[r] = << >> /\ pc'[r] = "apply_patch"
    BY <1>12 DEF GeneratePatch
  <2>4. QED
    BY <2>2, <2>3
<1>13. CASE ApplyEdit(r)
  <2>1. /\ workspace[r] \in Seq(Paths) /\ patch[r] \in Seq(Paths)
        /\ Len(workspace[r]) < Len(patch[r])
        /\ workspace'[r] = Append(workspace[r], patch[r][Len(workspace[r]) + 1])
        /\ patch[r][Len(workspace[r]) + 1] \notin DeniedPart
        /\ patch'[r] = patch[r] /\ patch[r] # None /\ pc'[r] = "apply_patch"
    BY <1>13 DEF ApplyEdit, EditsRemain, NextEdit, Editable
  <2>2. \A i \in DOMAIN workspace[r] :
          workspace[r][i] = patch[r][i] /\ patch[r][i] \notin DeniedPart
    BY <1>13 DEF ApplyEdit
  <2>3. /\ Len(workspace'[r]) <= Len(patch[r])
        /\ \A i \in DOMAIN workspace'[r] :
             workspace'[r][i] = patch[r][i] /\ patch[r][i] \notin DeniedPart
    BY <2>1, <2>2
  <2>4. QED
    BY <2>1, <2>3
<1>14. CASE RefuseEdit(r)
  BY <1>14 DEF RefuseEdit
<1>15. CASE PatchApplied(r)
  <2>1. /\ workspace[r] \in Seq(Paths) /\ patch[r] \in Seq(Paths) /\ patch[r] # None
        /\ Len(workspace[r]) <= Len(patch[r]) /\ ~ (Len(workspace[r]) < Len(patch[r]))
        /\ \A i \in DOMAIN workspace[r] :
             workspace[r][i] = patch[r][i] /\ patch[r][i] \notin DeniedPart
    BY <1>15 DEF PatchApplied, EditsRemain
  <2>2. /\ Len(workspace[r]) = Len(patch[r])
        /\ \A i \in DOMAIN workspace[r] : workspace[r][i] = patch[r][i]
    BY <2>1
  <2>3. workspace[r] = patch[r]
    <3> DEFINE s == workspace[r]
               t == patch[r]
    <3>1. s \in Seq(Paths) /\ t \in Seq(Paths) /\ Len(s) = Len(t)
      BY <2>1, <2>2
    <3>2. \A i \in DOMAIN s : s[i] = t[i]
      BY <2>2
    <3> HIDE DEF s, t
    <3>3. s = t
      BY ONLY <3>1, <3>2, SameSequence
    <3>4. QED
      BY <3>3 DEF s, t
  <2>4. /\ workspace'[r] = workspace[r] /\ patch'[r] = patch[r]
        /\ pc'[r] = "run_checks"
    BY <1>15 DEF PatchApplied
  <2>5. QED
    BY <2>1, <2>3, <2>4
<1>16. CASE RunChecks(r)
  BY <1>16 DEF RunChecks
<1>17. CASE WritePacket(r)
  BY <1>17 DEF WritePacket
<1>18. CASE CopyWorkspace(r)
  BY <1>18 DEF CopyWorkspace
<1>19. CASE CopyFails(r)
  BY <1>19 DEF CopyFails
<1>20. CASE Publish(r)
  BY <1>20 DEF Publish, StorePacket
<1>21. CASE WriteBlockedPacket(r)
  BY <1>21 DEF WriteBlockedPacket
<1>22. CASE PublishBlocked(r)
  BY <1>22 DEF PublishBlocked, StorePacket
<1>23. CASE Raise(r)
  BY <1>23 DEF Raise
<1>24. CASE RecordFailure(r)
  BY <1>24 DEF RecordFailure
<1>25. CASE RecordFailureFails(r)
  BY <1>25 DEF RecordFailureFails
<1>26. QED
  BY <1>1, <1>2, <1>3, <1>4, <1>5, <1>6, <1>7, <1>8, <1>9, <1>10,
     <1>11, <1>12, <1>13, <1>14, <1>15, <1>16, <1>17, <1>18, <1>19,
     <1>20, <1>21, <1>22, <1>23, <1>24, <1>25
  DEF Execute, Continue

(* packet.json, the final copy and the row, in that order                   *)
(* (pipeline.py:143-154 and 249-259).                                       *)
LEMMA WrittenStep ==
  ASSUME TypeOK, StageInv, NEW r \in Runs, WrittenInv(r), Start(r) \/ Execute(r)
  PROVE  WrittenInv(r)'
<1> USE DEF TypeOK, StageInv, BeforeCoding, Terminal, At, Goto, Save, Announce,
            recordVars, premiseVars, codingVars, localVars, diskVars,
            WrittenInv, CodedPacket, BlockedPacket, PacketWith
<1>1. CASE Start(r)
  BY <1>1 DEF Start
<1>2. CASE Begin(r)
  BY <1>2 DEF Begin
<1>3. CASE BeginRaises(r)
  BY <1>3 DEF BeginRaises
<1>4. CASE CreateWorkspace(r)
  BY <1>4 DEF CreateWorkspace
<1>5. CASE Plan(r)
  BY <1>5 DEF Plan
<1>6. CASE CompileProbes(r)
  BY <1>6 DEF CompileProbes
<1>7. CASE RunProbes(r)
  BY <1>7 DEF RunProbes
<1>8. CASE StopOnUnknown(r)
  BY <1>8 DEF StopOnUnknown
<1>9. CASE GoOnToReplan(r)
  BY <1>9 DEF GoOnToReplan
<1>10. CASE ReplanRejected(r)
  BY <1>10 DEF ReplanRejected
<1>11. CASE ReplanAccepted(r)
  BY <1>11 DEF ReplanAccepted
<1>12. CASE GeneratePatch(r)
  BY <1>12 DEF GeneratePatch
<1>13. CASE ApplyEdit(r)
  BY <1>13 DEF ApplyEdit
<1>14. CASE RefuseEdit(r)
  BY <1>14 DEF RefuseEdit
<1>15. CASE PatchApplied(r)
  BY <1>15 DEF PatchApplied
<1>16. CASE RunChecks(r)
  BY <1>16 DEF RunChecks
<1>17. CASE WritePacket(r)
  BY <1>17 DEF WritePacket
<1>18. CASE CopyWorkspace(r)
  BY <1>18 DEF CopyWorkspace
<1>19. CASE CopyFails(r)
  BY <1>19 DEF CopyFails
<1>20. CASE Publish(r)
  <2>1. CodedPacket(r) # None
    BY PacketIsSome
  <2>2. /\ packet'[r] = CodedPacket(r) /\ packetFile'[r] = CodedPacket(r)
        /\ stage'[r] = "complete" /\ pc'[r] = "returned"
    BY <1>20 DEF Publish, StorePacket
  <2>3. QED
    BY <2>1, <2>2
<1>21. CASE WriteBlockedPacket(r)
  BY <1>21 DEF WriteBlockedPacket
<1>22. CASE PublishBlocked(r)
  <2>1. BlockedPacket(r) # None
    BY PacketIsSome
  <2>2. /\ packet'[r] = BlockedPacket(r) /\ packetFile'[r] = BlockedPacket(r)
        /\ stage'[r] = "complete" /\ pc'[r] = "returned"
    BY <1>22 DEF PublishBlocked, StorePacket
  <2>3. QED
    BY <2>1, <2>2
<1>23. CASE Raise(r)
  BY <1>23 DEF Raise
<1>24. CASE RecordFailure(r)
  BY <1>24 DEF RecordFailure
<1>25. CASE RecordFailureFails(r)
  BY <1>25 DEF RecordFailureFails
<1>26. QED
  BY <1>1, <1>2, <1>3, <1>4, <1>5, <1>6, <1>7, <1>8, <1>9, <1>10,
     <1>11, <1>12, <1>13, <1>14, <1>15, <1>16, <1>17, <1>18, <1>19,
     <1>20, <1>21, <1>22, <1>23, <1>24, <1>25
  DEF Execute, Continue

-----------------------------------------------------------------------------
(* The stages a run goes through.                                           *)

(* A step tells no stage or the one it moves the run to, which is a later   *)
(* one (pipeline.py:46-154).                                                *)
StageFollows(r) ==
  /\ \/ /\ events'[r] = events[r]
        /\ stage'[r] = stage[r] \/ (stage[r] = "absent" /\ stage'[r] = "queued")
     \/ /\ events'[r] = Append(events[r], stage'[r])
        /\ stage[r] \in Stages /\ stage'[r] \in Stages
        /\ Rank[stage[r]] < Rank[stage'[r]]
        /\ stage'[r] = "coding" => stage[r] = "replanning"
        /\ stage'[r] = "replanning" => pc[r] = "check_unknown"
  /\ pc'[r] = "check_unknown" => stage[r] = "probing"

(* The stages of the happy path rise, failed above them all                 *)
(* (models.py:12-24).                                                       *)
LEMMA RankOrder ==
  /\ Rank["queued"] = 0 /\ Rank["planning"] = 1
  /\ Rank["extracting_assumptions"] = 2 /\ Rank["probing"] = 3
  /\ Rank["blocked_before_code"] = 4 /\ Rank["replanning"] = 5
  /\ Rank["coding"] = 6 /\ Rank["verifying"] = 7
  /\ Rank["complete"] = 8 /\ Rank["failed"] = 8
BY DEF Rank

(* A step tells no stage or moves on to the one it tells.                   *)
LEMMA StageMovesOn ==
  ASSUME TypeOK, StageInv, NEW r \in Runs, Start(r) \/ Execute(r)
  PROVE  StageFollows(r)
<1> USE DEF TypeOK, StageInv, BeforeCoding, Terminal, At, Goto, Save, Announce,
            recordVars, premiseVars, codingVars, localVars, diskVars, Guarded, Stages,
            StageFollows
<1> USE RankOrder
<1>1. CASE Start(r)
  BY <1>1 DEF Start
<1>2. CASE Begin(r)
  <2>1. events'[r] = events[r] /\ stage'[r] = stage[r] /\ pc'[r] # "check_unknown"
    BY <1>2 DEF Begin, At, Goto, Guarded, recordVars, TypeOK, Locations
  <2>2. QED
    BY ONLY <2>1 DEF StageFollows
<1>3. CASE BeginRaises(r)
  <2>1. events'[r] = events[r] /\ stage'[r] = stage[r] /\ pc'[r] # "check_unknown"
    BY <1>3 DEF BeginRaises, At, Goto, Guarded, recordVars, TypeOK, Locations
  <2>2. QED
    BY ONLY <2>1 DEF StageFollows
<1>4. CASE CreateWorkspace(r)
  BY <1>4 DEF CreateWorkspace
<1>5. CASE Plan(r)
  BY <1>5 DEF Plan
<1>6. CASE CompileProbes(r)
  BY <1>6 DEF CompileProbes
<1>7. CASE RunProbes(r)
  <2>1. stage[r] = "probing" /\ stage \in [Runs -> Stages \cup {"absent"}]
    BY <1>7 DEF RunProbes
  <2>2. \/ events'[r] = events[r] /\ stage'[r] = stage[r]
        \/ /\ events'[r] = Append(events[r], "blocked_before_code")
           /\ stage'[r] = "blocked_before_code"
    BY <1>7 DEF RunProbes
  <2>3. QED
    BY ONLY <2>1, <2>2, RankOrder DEF StageFollows, Stages
<1>8. CASE StopOnUnknown(r)
  <2>1. events'[r] = events[r] /\ stage'[r] = stage[r] /\ pc'[r] # "check_unknown"
    BY <1>8 DEF StopOnUnknown, At, Goto, Guarded, recordVars, TypeOK, Locations
  <2>2. QED
    BY ONLY <2>1 DEF StageFollows
<1>9. CASE GoOnToReplan(r)
  BY <1>9 DEF GoOnToReplan
<1>10. CASE ReplanRejected(r)
  <2>1. events'[r] = events[r] /\ stage'[r] = stage[r] /\ pc'[r] # "check_unknown"
    BY <1>10 DEF ReplanRejected, At, Goto, Guarded, recordVars, TypeOK, Locations
  <2>2. QED
    BY ONLY <2>1 DEF StageFollows
<1>11. CASE ReplanAccepted(r)
  BY <1>11 DEF ReplanAccepted
<1>12. CASE GeneratePatch(r)
  <2>1. events'[r] = events[r] /\ stage'[r] = stage[r] /\ pc'[r] # "check_unknown"
    BY <1>12 DEF GeneratePatch, At, Goto, Guarded, recordVars, TypeOK, Locations
  <2>2. QED
    BY ONLY <2>1 DEF StageFollows
<1>13. CASE ApplyEdit(r)
  <2>1. events'[r] = events[r] /\ stage'[r] = stage[r] /\ pc'[r] # "check_unknown"
    BY <1>13 DEF ApplyEdit, At, Guarded, recordVars, TypeOK, Locations
  <2>2. QED
    BY ONLY <2>1 DEF StageFollows
<1>14. CASE RefuseEdit(r)
  <2>1. events'[r] = events[r] /\ stage'[r] = stage[r] /\ pc'[r] # "check_unknown"
    BY <1>14 DEF RefuseEdit, At, Goto, Guarded, recordVars, TypeOK, Locations
  <2>2. QED
    BY ONLY <2>1 DEF StageFollows
<1>15. CASE PatchApplied(r)
  BY <1>15 DEF PatchApplied
<1>16. CASE RunChecks(r)
  <2>1. events'[r] = events[r] /\ stage'[r] = stage[r] /\ pc'[r] # "check_unknown"
    BY <1>16 DEF RunChecks, At, Goto, Guarded, recordVars, TypeOK, Locations
  <2>2. QED
    BY ONLY <2>1 DEF StageFollows
<1>17. CASE WritePacket(r)
  <2>1. events'[r] = events[r] /\ stage'[r] = stage[r] /\ pc'[r] # "check_unknown"
    BY <1>17 DEF WritePacket, At, Goto, Guarded, recordVars, TypeOK, Locations
  <2>2. QED
    BY ONLY <2>1 DEF StageFollows
<1>18. CASE CopyWorkspace(r)
  <2>1. events'[r] = events[r] /\ stage'[r] = stage[r] /\ pc'[r] # "check_unknown"
    BY <1>18 DEF CopyWorkspace, At, Goto, Guarded, recordVars, TypeOK, Locations
  <2>2. QED
    BY ONLY <2>1 DEF StageFollows
<1>19. CASE CopyFails(r)
  <2>1. events'[r] = events[r] /\ stage'[r] = stage[r] /\ pc'[r] # "check_unknown"
    BY <1>19 DEF CopyFails, At, Goto, Guarded, recordVars, TypeOK, Locations
  <2>2. QED
    BY ONLY <2>1 DEF StageFollows
<1>20. CASE Publish(r)
  BY <1>20 DEF Publish, StorePacket
<1>21. CASE WriteBlockedPacket(r)
  <2>1. events'[r] = events[r] /\ stage'[r] = stage[r] /\ pc'[r] # "check_unknown"
    BY <1>21 DEF WriteBlockedPacket, At, Goto, Guarded, recordVars, TypeOK, Locations
  <2>2. QED
    BY ONLY <2>1 DEF StageFollows
<1>22. CASE PublishBlocked(r)
  BY <1>22 DEF PublishBlocked, StorePacket
<1>23. CASE Raise(r)
  <2>1. events'[r] = events[r] /\ stage'[r] = stage[r] /\ pc'[r] # "check_unknown"
    BY <1>23 DEF Raise, At, Goto, Guarded, recordVars, TypeOK, Locations
  <2>2. QED
    BY ONLY <2>1 DEF StageFollows
<1>24. CASE RecordFailure(r)
  BY <1>24 DEF RecordFailure
<1>25. CASE RecordFailureFails(r)
  <2>1. events'[r] = events[r] /\ stage'[r] = stage[r] /\ pc'[r] # "check_unknown"
    BY <1>25 DEF RecordFailureFails, At, Goto, Guarded, recordVars, TypeOK, Locations
  <2>2. QED
    BY ONLY <2>1 DEF StageFollows
<1>26. QED
  BY <1>1, <1>2, <1>3, <1>4, <1>5, <1>6, <1>7, <1>8, <1>9, <1>10,
     <1>11, <1>12, <1>13, <1>14, <1>15, <1>16, <1>17, <1>18, <1>19,
     <1>20, <1>21, <1>22, <1>23, <1>24, <1>25
  DEF Execute, Continue

(* What was told stays told; the new stage is told last.                    *)
LEMMA ToldAppends ==
  ASSUME NEW S, NEW trail \in Seq(S), NEW s \in S, NEW x
  PROVE  Told(x, Append(trail, s)) <=> Told(x, trail) \/ x = s
<1>1. /\ DOMAIN Append(trail, s) = DOMAIN trail \cup {Len(trail) + 1}
      /\ \A i \in DOMAIN trail : Append(trail, s)[i] = trail[i]
      /\ Append(trail, s)[Len(trail) + 1] = s
  OBVIOUS
<1>2. QED
  BY <1>1 DEF Told

(* Nothing of the coding phase is there before coding is announced          *)
(* (pipeline.py:46-107).                                                    *)
LEMMA UntouchedStep ==
  ASSUME TypeOK, StageInv, NEW r \in Runs, UntouchedInv(r), Start(r) \/ Execute(r)
  PROVE  UntouchedInv(r)'
<1> SUFFICES ASSUME stage'[r] \in BeforeCoding \cup {"absent"}
             PROVE  /\ workspace'[r] = << >>
                    /\ "patch" \notin artifacts'[r]
                    /\ finalWorkspace'[r] = NoCopy
                    /\ ~ Told("coding", events'[r])
  BY DEF UntouchedInv
<1>1. StageFollows(r)
  BY StageMovesOn
<1>2. stage[r] \in BeforeCoding \cup {"absent"} /\ stage'[r] # "coding"
  BY <1>1, RankOrder DEF StageFollows, BeforeCoding, Stages
<1>3. /\ workspace[r] = << >> /\ "patch" \notin artifacts[r]
      /\ finalWorkspace[r] = NoCopy /\ ~ Told("coding", events[r])
  BY <1>2 DEF UntouchedInv
<1>4. ~ Told("coding", events'[r])
  <2>1. events[r] \in Seq(Stages)
    BY DEF TypeOK
  <2>2. CASE events'[r] = events[r]
    BY <1>3, <2>2
  <2>3. CASE events'[r] = Append(events[r], stage'[r]) /\ stage'[r] \in Stages
    <3>1. Told("coding", Append(events[r], stage'[r])) <=>
            Told("coding", events[r]) \/ "coding" = stage'[r]
      BY <2>1, <2>3, ToldAppends
    <3>2. QED
      BY <1>2, <1>3, <2>3, <3>1
  <2>4. QED
    BY <1>1, <2>2, <2>3 DEF StageFollows
<1>5. /\ workspace'[r] = << >> /\ "patch" \notin artifacts'[r]
      /\ finalWorkspace'[r] = NoCopy
  <2> USE <1>2, <1>3 DEF TypeOK, StageInv, BeforeCoding, At, Goto, Save, Announce,
            recordVars, premiseVars, codingVars, localVars, diskVars
  <2>1. CASE Start(r)
    BY <2>1 DEF Start
  <2>2. CASE Begin(r)
    BY <2>2 DEF Begin
  <2>3. CASE BeginRaises(r)
    BY <2>3 DEF BeginRaises
  <2>4. CASE CreateWorkspace(r)
    BY <2>4 DEF CreateWorkspace
  <2>5. CASE Plan(r)
    BY <2>5 DEF Plan
  <2>6. CASE CompileProbes(r)
    BY <2>6 DEF CompileProbes
  <2>7. CASE RunProbes(r)
    BY <2>7 DEF RunProbes
  <2>8. CASE StopOnUnknown(r)
    BY <2>8 DEF StopOnUnknown
  <2>9. CASE GoOnToReplan(r)
    BY <2>9 DEF GoOnToReplan
  <2>10. CASE ReplanRejected(r)
    BY <2>10 DEF ReplanRejected
  <2>11. CASE ReplanAccepted(r)
    BY <2>11 DEF ReplanAccepted
  <2>12. CASE GeneratePatch(r)
    BY <2>12 DEF GeneratePatch
  <2>13. CASE ApplyEdit(r)
    BY <2>13 DEF ApplyEdit
  <2>14. CASE RefuseEdit(r)
    BY <2>14 DEF RefuseEdit
  <2>15. CASE PatchApplied(r)
    BY <2>15 DEF PatchApplied
  <2>16. CASE RunChecks(r)
    BY <2>16 DEF RunChecks
  <2>17. CASE WritePacket(r)
    BY <2>17 DEF WritePacket
  <2>18. CASE CopyWorkspace(r)
    BY <2>18 DEF CopyWorkspace
  <2>19. CASE CopyFails(r)
    BY <2>19 DEF CopyFails
  <2>20. CASE Publish(r)
    BY <2>20 DEF Publish, StorePacket
  <2>21. CASE WriteBlockedPacket(r)
    BY <2>21 DEF WriteBlockedPacket
  <2>22. CASE PublishBlocked(r)
    BY <2>22 DEF PublishBlocked, StorePacket
  <2>23. CASE Raise(r)
    BY <2>23 DEF Raise
  <2>24. CASE RecordFailure(r)
    BY <2>24 DEF RecordFailure
  <2>25. CASE RecordFailureFails(r)
    BY <2>25 DEF RecordFailureFails
  <2>26. QED
    BY <2>1, <2>2, <2>3, <2>4, <2>5, <2>6, <2>7, <2>8, <2>9, <2>10,
       <2>11, <2>12, <2>13, <2>14, <2>15, <2>16, <2>17, <2>18, <2>19,
       <2>20, <2>21, <2>22, <2>23, <2>24, <2>25
    DEF Execute, Continue
<1>6. QED
  BY <1>4, <1>5

-----------------------------------------------------------------------------
(* The trail (pipeline.py:46-154, store.py:58-65).                          *)

LastStage(trail) == trail[Len(trail)]

TrailInv(r) ==
  /\ \A i, j \in DOMAIN events[r] :
       i < j => Rank[events[r][i]] < Rank[events[r][j]]
  /\ events[r] # << >> => LastStage(events[r]) = stage[r]
  /\ events[r] = << >> => stage[r] \in {"absent", "queued"}
  /\ Told("coding", events[r]) => Told("replanning", events[r])
  /\ Told("replanning", events[r]) => Told("probing", events[r])
  /\ pc[r] = "check_unknown" => Told("probing", events[r])

(* The last stage of a trail has been told.                                 *)
LEMMA LastIsTold ==
  ASSUME NEW S, NEW trail \in Seq(S), trail # << >>
  PROVE  Told(LastStage(trail), trail)
BY DEF Told, LastStage

(* Ranks are numbers.                                                       *)
LEMMA RankIsNat == \A s \in Stages : Rank[s] \in Nat
BY RankOrder DEF Stages

(* A later stage keeps the ranks rising.                                    *)
LEMMA RisingAppends ==
  ASSUME NEW trail \in Seq(Stages), NEW s \in Stages,
         \A i, j \in DOMAIN trail : i < j => Rank[trail[i]] < Rank[trail[j]],
         trail # << >> => Rank[LastStage(trail)] < Rank[s]
  PROVE  \A i, j \in DOMAIN Append(trail, s) :
           i < j => Rank[Append(trail, s)[i]] < Rank[Append(trail, s)[j]]
<1>1. /\ DOMAIN trail = 1..Len(trail) /\ Len(trail) \in Nat
      /\ DOMAIN Append(trail, s) = 1..(Len(trail) + 1)
      /\ \A i \in DOMAIN trail : Append(trail, s)[i] = trail[i] /\ trail[i] \in Stages
      /\ Append(trail, s)[Len(trail) + 1] = s
  OBVIOUS
<1>2. \A i \in DOMAIN trail : Rank[trail[i]] < Rank[s]
  <2> SUFFICES ASSUME NEW i \in DOMAIN trail PROVE Rank[trail[i]] < Rank[s]
    OBVIOUS
  <2>1. trail # << >> /\ Len(trail) \in DOMAIN trail
    BY <1>1
  <2>2. Rank[trail[Len(trail)]] < Rank[s]
    BY <2>1 DEF LastStage
  <2>3. i = Len(trail) \/ Rank[trail[i]] < Rank[trail[Len(trail)]]
    BY <1>1, <2>1
  <2>4. /\ Rank[trail[i]] \in Nat /\ Rank[trail[Len(trail)]] \in Nat
        /\ Rank[s] \in Nat
    BY <1>1, <2>1, RankIsNat
  <2>5. QED
    BY <2>2, <2>3, <2>4
<1>3. QED
  BY <1>1, <1>2

(* The trail ends with the stage of the row (store.py:58-65).               *)
LEMMA TrailStep ==
  ASSUME TypeOK, StageInv, NEW r \in Runs, TrailInv(r), Start(r) \/ Execute(r)
  PROVE  TrailInv(r)'
<1>1. StageFollows(r)
  BY StageMovesOn
<1>2. events[r] \in Seq(Stages) /\ (stage[r] \in Stages \/ stage[r] = "absent")
  BY DEF TypeOK
<1>3. events[r] # << >> => stage[r] \in Stages /\ Told(stage[r], events[r])
  BY <1>2, LastIsTold DEF TrailInv, LastStage
<1>4. stage[r] = "probing" => Told("probing", events[r])
  BY <1>3 DEF TrailInv
<1>5. CASE events'[r] = events[r]
           /\ (stage'[r] = stage[r] \/ (stage[r] = "absent" /\ stage'[r] = "queued"))
  <2>1. events[r] # << >> => LastStage(events[r]) = stage'[r]
    <3>1. "absent" \notin Stages
      BY DEF Stages
    <3>2. QED
      BY <1>3, <1>5, <3>1 DEF TrailInv
  <2>2. events[r] = << >> => stage'[r] \in {"absent", "queued"}
    BY <1>5 DEF TrailInv
  <2>3. pc'[r] = "check_unknown" => Told("probing", events[r])
    BY <1>1, <1>4 DEF StageFollows
  <2>4. QED
    BY <1>5, <2>1, <2>2, <2>3 DEF TrailInv
<1>6. CASE /\ events'[r] = Append(events[r], stage'[r])
           /\ stage[r] \in Stages /\ stage'[r] \in Stages
           /\ Rank[stage[r]] < Rank[stage'[r]]
           /\ stage'[r] = "coding" => stage[r] = "replanning"
           /\ stage'[r] = "replanning" => pc[r] = "check_unknown"
  <2> DEFINE s == stage'[r]
             trail == events[r]
             after == Append(trail, s)
  <2>1. \A x : Told(x, after) <=> Told(x, trail) \/ x = s
    BY <1>2, <1>6, ToldAppends
  <2>2. \A i, j \in DOMAIN after : i < j => Rank[after[i]] < Rank[after[j]]
    <3>1. trail # << >> => Rank[LastStage(trail)] < Rank[s]
      BY <1>6 DEF TrailInv
    <3>2. \A i, j \in DOMAIN trail : i < j => Rank[trail[i]] < Rank[trail[j]]
      BY DEF TrailInv
    <3>3. QED
      BY <1>2, <1>6, <3>1, <3>2, RisingAppends
  <2>3. after # << >> /\ LastStage(after) = s
    BY <1>2, <1>6 DEF LastStage
  <2>4. Told("coding", after) => Told("replanning", after)
    BY <1>3, <1>6, <2>1 DEF TrailInv
  <2>5. Told("replanning", after) => Told("probing", after)
    BY <1>6, <2>1 DEF TrailInv
  <2>6. pc'[r] = "check_unknown" => Told("probing", after)
    BY <1>1, <1>4, <2>1 DEF StageFollows
  <2>7. events'[r] = after
    BY <1>6
  <2> HIDE DEF after
  <2>8. QED
    BY <2>2, <2>3, <2>4, <2>5, <2>6, <2>7 DEF TrailInv
<1>7. QED
  BY <1>1, <1>5, <1>6 DEF StageFollows

-----------------------------------------------------------------------------
(* A settled run takes no step (pipeline.py:148-163).                       *)
LEMMA SettledIsOver ==
  ASSUME StageInv, NEW r \in Runs, stage[r] \in Terminal
  PROVE  ~ (Start(r) \/ Execute(r))
<1>1. pc[r] \in {"returned", "raised"}
  BY DEF StageInv
<1>2. QED
  BY <1>1 DEF At, Guarded, Execute, Continue, Start, Begin, BeginRaises,
     CreateWorkspace, Plan, CompileProbes, RunProbes, StopOnUnknown,
     GoOnToReplan, ReplanRejected, ReplanAccepted, GeneratePatch, ApplyEdit,
     RefuseEdit, PatchApplied, RunChecks, WritePacket, CopyWorkspace,
     CopyFails, Publish, WriteBlockedPacket, PublishBlocked, Raise,
     RecordFailure, RecordFailureFails

(* What is published is the truth about source, disk and trail.             *)
PublishedInv(r) ==
  /\ packet[r] # None /\ packet[r].patch # None =>
       /\ workspace[r] = packet[r].patch
       /\ finalWorkspace[r] = [state |-> "complete", edits |-> packet[r].patch]
       /\ \A i \in DOMAIN packet[r].patch : packet[r].patch[i] \notin DeniedPart
       /\ packet[r].verdict = "ready_with_evidence"
            => packet[r].checks = <<"pass", "pass">>
       /\ UnknownLoadBearing(packet[r].initial_plan, packet[r].probe_results) = {}
  /\ packet[r] # None /\ packet[r].patch = None =>
       /\ packet[r].verdict = "blocked"
       /\ workspace[r] = << >>
       /\ "patch" \notin artifacts[r]
       /\ finalWorkspace[r] = NoCopy
       /\ ~ Told("coding", events[r])

(* Without a failed or untested premise, every premise passed               *)
(* (gate.py:6-27).                                                          *)
LEMMA AllPassed ==
  ASSUME NEW outcomes \in Seq({"pass", "fail"}), Len(outcomes) = 2,
         VerdictOf(outcomes) = "ready_with_evidence"
  PROVE  outcomes = <<"pass", "pass">>
<1>1. \A i \in DOMAIN outcomes : outcomes[i] = "pass"
  BY DEF VerdictOf
<1>2. QED
  BY <1>1

(* A step of a run keeps what is published of it true.                      *)
LEMMA PublishedStep ==
  ASSUME TypeOK, StageInv, ClearedInv, NEW r \in Runs, EditInv(r), UntouchedInv(r),
         WrittenInv(r), PublishedInv(r), Start(r) \/ Execute(r)
  PROVE  PublishedInv(r)'
<1>1. packet[r] = None
  BY SettledIsOver DEF WrittenInv, Terminal
<1>2. CASE Publish(r)
  <2>1. /\ packet'[r] = CodedPacket(r)
        /\ UNCHANGED <<workspace, finalWorkspace, patch, checks>>
    BY <1>2 DEF Publish, StorePacket, localVars, codingVars, diskVars, TypeOK
  <2>2. /\ CodedPacket(r).patch = patch[r] /\ CodedPacket(r).checks = checks[r]
        /\ CodedPacket(r).verdict = VerdictOf(checks[r])
        /\ CodedPacket(r).initial_plan = initialPlan[r]
        /\ CodedPacket(r).probe_results = results[r]
    BY DEF CodedPacket, PacketWith
  <2>3. pc[r] = "publish"
    BY <1>2 DEF Publish, At
  <2>4. /\ patch[r] # None /\ workspace[r] = patch[r]
        /\ \A i \in DOMAIN workspace[r] : patch[r][i] \notin DeniedPart
    BY <2>3 DEF EditInv
  <2>5. finalWorkspace[r] = [state |-> "complete", edits |-> workspace[r]]
    BY <2>3 DEF WrittenInv
  <2>6. VerdictOf(checks[r]) = "ready_with_evidence" => checks[r] = <<"pass", "pass">>
    <3>1. Len(checks[r]) = 2 /\ checks[r] \in Seq({"pass", "fail"})
      BY <2>3 DEF WrittenInv, TypeOK
    <3>2. QED
      BY <3>1, AllPassed
  <2>7. UnknownLoadBearing(initialPlan[r], results[r]) = {}
    BY <2>3 DEF StageInv, ClearedInv, Cleared
  <2>8. QED
    BY <2>1, <2>2, <2>4, <2>5, <2>6, <2>7 DEF PublishedInv
<1>3. CASE PublishBlocked(r)
  <2>1. /\ packet'[r] = BlockedPacket(r)
        /\ UNCHANGED <<workspace, finalWorkspace, artifacts>>
        /\ events'[r] = Append(events[r], "complete")
    BY <1>3 DEF PublishBlocked, StorePacket, Announce, diskVars, TypeOK
  <2>2. BlockedPacket(r).patch = None /\ BlockedPacket(r).verdict = "blocked"
    BY DEF BlockedPacket, PacketWith
  <2>3. stage[r] \in BeforeCoding
    BY <1>3 DEF PublishBlocked, At, StageInv
  <2>4. /\ workspace[r] = << >> /\ "patch" \notin artifacts[r]
        /\ finalWorkspace[r] = NoCopy /\ ~ Told("coding", events[r])
    BY <2>3 DEF UntouchedInv
  <2>5. ~ Told("coding", events'[r])
    <3>1. events[r] \in Seq(Stages) /\ "complete" \in Stages
      BY DEF TypeOK, Stages
    <3>2. QED
      BY <2>1, <2>4, <3>1, ToldAppends
  <2>6. QED
    BY <2>1, <2>2, <2>4, <2>5 DEF PublishedInv
<1>4. CASE ~ (Publish(r) \/ PublishBlocked(r))
  <2>1. packet' = packet
    BY <1>4 DEF Execute, Continue, recordVars, Start, Begin, BeginRaises,
       CreateWorkspace, Plan, CompileProbes, RunProbes, StopOnUnknown,
       GoOnToReplan, ReplanRejected, ReplanAccepted, GeneratePatch, ApplyEdit,
       RefuseEdit, PatchApplied, RunChecks, WritePacket, CopyWorkspace,
       CopyFails, WriteBlockedPacket, Raise, RecordFailure, RecordFailureFails
  <2>2. QED
    BY <1>1, <2>1 DEF PublishedInv
<1>5. QED
  BY <1>2, <1>3, <1>4

-----------------------------------------------------------------------------
PublicationInv ==
  \A r \in Runs : /\ UntestedInv(r) /\ EditInv(r) /\ UntouchedInv(r)
                  /\ WrittenInv(r) /\ TrailInv(r) /\ PublishedInv(r)

(* Nothing is published at first.                                           *)
LEMMA PublicationStarts == Init => PublicationInv
<1> SUFFICES ASSUME Init, NEW r \in Runs
             PROVE  /\ UntestedInv(r) /\ EditInv(r) /\ UntouchedInv(r)
                    /\ WrittenInv(r) /\ TrailInv(r) /\ PublishedInv(r)
  BY DEF PublicationInv
<1>1. events[r] = << >> /\ DOMAIN events[r] = {} /\ ~ (\E s : Told(s, events[r]))
  BY DEF Init, Told
<1>2. QED
  BY <1>1 DEF Init, UntestedInv, EditInv, UntouchedInv, WrittenInv, TrailInv, PublishedInv

(* A run left alone keeps its part of the invariant.                        *)
LEMMA SameKeeps ==
  ASSUME NEW r \in Runs, Same(r), UntestedInv(r), EditInv(r),
         UntouchedInv(r), WrittenInv(r), TrailInv(r), PublishedInv(r)
  PROVE  (/\ UntestedInv(r) /\ EditInv(r) /\ UntouchedInv(r)
          /\ WrittenInv(r) /\ TrailInv(r) /\ PublishedInv(r))'
<1>1. EditInv(r)'
  BY DEF EditInv, Same
<1>2. UntouchedInv(r)'
  BY DEF UntouchedInv, Same
<1>3. WrittenInv(r)'
  BY DEF WrittenInv, Same, CodedPacket, BlockedPacket, PacketWith
<1>4. TrailInv(r)'
  BY DEF TrailInv, Same
<1>5. PublishedInv(r)'
  BY DEF PublishedInv, Same
<1>6. UntestedInv(r)'
  BY DEF UntestedInv, Same
<1>7. QED
  BY <1>1, <1>2, <1>3, <1>4, <1>5, <1>6

(* Every step of every run keeps the invariant (pipeline.py:34-163).        *)
LEMMA PublicationHolds == Inv /\ PublicationInv /\ [Next]_vars => PublicationInv'
<1> SUFFICES ASSUME Inv, PublicationInv, [Next]_vars, NEW s \in Runs
             PROVE  (/\ UntestedInv(s) /\ EditInv(s) /\ UntouchedInv(s)
                     /\ WrittenInv(s) /\ TrailInv(s) /\ PublishedInv(s))'
  BY DEF PublicationInv
<1>1. /\ TypeOK /\ StageInv /\ ClearedInv /\ UntestedInv(s) /\ EditInv(s)
      /\ UntouchedInv(s) /\ WrittenInv(s) /\ TrailInv(s) /\ PublishedInv(s)
  BY DEF Inv, PublicationInv
<1>2. CASE UNCHANGED vars
  <2>1. Same(s)
    BY <1>2 DEF vars, Same, recordVars, localVars, premiseVars, codingVars, diskVars
  <2>2. QED
    BY <1>1, <2>1, SameKeeps
<1>3. ASSUME NEW r \in Runs, Start(r) \/ Execute(r), r # s
      PROVE  Same(s)
  BY <1>1, <1>3, OthersStay
<1>4. CASE Start(s) \/ Execute(s)
  BY <1>1, <1>4, UntestedStep, EditStep, UntouchedStep, WrittenStep, TrailStep,
     PublishedStep
<1>5. QED
  BY <1>1, <1>2, <1>3, <1>4, SameKeeps DEF Next

(* Hence it holds in every state.                                           *)
LEMMA Published == Spec => [](Inv /\ PublicationInv)
BY Invariance, PublicationStarts, PublicationHolds, PTL DEF Spec

(* A published patch is the source as it is, verified (pipeline.py:107-154). *)
THEOREM PatchIsPublishedAsApplied == Spec => []CodedPacketMatchesSource
<1>1. PublicationInv => CodedPacketMatchesSource
  BY DEF PublicationInv, PublishedInv, CodedPacketMatchesSource
<1>2. QED
  BY <1>1, Published, PTL

(* A packet without a patch leaves no trace of coding (pipeline.py:207-259). *)
THEOREM BlockedLeavesNoTrace == Spec => []BlockedBeforeCodeIsPristine
<1>1. PublicationInv => BlockedBeforeCodeIsPristine
  BY DEF PublicationInv, PublishedInv, BlockedBeforeCodeIsPristine, TrailHas, Told
<1>2. QED
  BY <1>1, Published, PTL

(* Row and packet.json hold one packet (pipeline.py:143-154 and 249-259).   *)
THEOREM RowIsFile == Spec => []StoreAndDiskAgree
<1>1. PublicationInv => StoreAndDiskAgree
  BY DEF PublicationInv, WrittenInv, StoreAndDiskAgree
<1>2. QED
  BY <1>1, Published, PTL

(* The trail tells the stages in order (pipeline.py:46-154).                *)
THEOREM TrailTellsStages == Spec => []TrailIsConsistent
<1>1. PublicationInv => TrailIsConsistent
  BY DEF PublicationInv, TrailInv, TrailIsConsistent, TrailHas, Told, LastStage
<1>2. QED
  BY <1>1, Published, PTL

(* What has settled stays as it is (pipeline.py:148-163).                   *)
LEMMA SettledStays ==
  ASSUME Inv, [Next]_vars, NEW s \in Runs, stage[s] \in Terminal
  PROVE  Same(s)
<1>1. CASE UNCHANGED vars
  BY <1>1 DEF vars, Same, recordVars, localVars, premiseVars, codingVars, diskVars
<1>2. ASSUME NEW r \in Runs, Start(r) \/ Execute(r) PROVE Same(s)
  BY <1>2, SettledIsOver, OthersStay DEF Inv
<1>3. QED
  BY <1>1, <1>2 DEF Next

(* Complete and failed are final, for the row and for the directory         *)
(* (pipeline.py:148-163).                                                   *)
THEOREM TerminalIsFinal == Spec => SettledIsFinal
<1>1. Inv /\ [Next]_vars =>
        \A r \in Runs : stage[r] \in Terminal =>
          /\ UNCHANGED <<stage[r], events[r], packet[r]>>
          /\ UNCHANGED <<workspace[r], artifacts[r], packetFile[r], finalWorkspace[r]>>
  BY SettledStays DEF Same
<1>2. QED
  BY <1>1, Invariance, PTL DEF Spec, SettledIsFinal

(* A step of a run appends to its trail, and edits while coding             *)
(* (pipeline.py:107-112, store.py:60).                                      *)
LEMMA OwnTrailGrows ==
  ASSUME TypeOK, StageInv, PublicationInv, NEW r \in Runs, Start(r) \/ Execute(r)
  PROVE  /\ Len(events[r]) <= Len(events'[r])
         /\ \A i \in DOMAIN events[r] : events'[r][i] = events[r][i]
         /\ workspace'[r] # workspace[r] => stage[r] = "coding"
<1>1. events[r] \in Seq(Stages)
  BY DEF TypeOK
<1>2. StageFollows(r)
  BY StageMovesOn
<1>3. /\ Len(events[r]) <= Len(events'[r])
      /\ \A i \in DOMAIN events[r] : events'[r][i] = events[r][i]
  BY <1>1, <1>2 DEF StageFollows
<1>4. ApplyEdit(r) => stage[r] = "coding"
  BY DEF ApplyEdit, At, StageInv
<1>5. CreateWorkspace(r) => workspace'[r] = workspace[r]
  <2>1. CreateWorkspace(r) => pc[r] = "create_workspace" /\ workspace'[r] = << >>
    BY DEF CreateWorkspace, At, TypeOK
  <2>2. pc[r] = "create_workspace" => stage[r] = "queued"
    BY DEF StageInv
  <2>3. QED
    BY <2>1, <2>2 DEF PublicationInv, UntouchedInv, BeforeCoding
<1>6. ApplyEdit(r) \/ CreateWorkspace(r) \/ workspace' = workspace
  BY DEF Execute, Continue, localVars, diskVars, Start, Begin, BeginRaises,
     Plan, CompileProbes, RunProbes, StopOnUnknown, GoOnToReplan,
     ReplanRejected, ReplanAccepted, GeneratePatch, RefuseEdit, PatchApplied,
     RunChecks, WritePacket, CopyWorkspace, CopyFails, Publish,
     WriteBlockedPacket, PublishBlocked, StorePacket, Raise, RecordFailure,
     RecordFailureFails
<1>7. QED
  BY <1>3, <1>4, <1>5, <1>6

(* So does every step, to every trail.                                      *)
LEMMA TrailsGrow ==
  ASSUME Inv, PublicationInv, [Next]_vars, NEW s \in Runs
  PROVE  /\ Len(events[s]) <= Len(events'[s])
         /\ \A i \in DOMAIN events[s] : events'[s][i] = events[s][i]
         /\ workspace'[s] # workspace[s] => stage[s] = "coding"
<1>1. TypeOK /\ StageInv
  BY DEF Inv
<1>2. events[s] \in Seq(Stages)
  BY <1>1 DEF TypeOK
<1>3. CASE events'[s] = events[s] /\ workspace'[s] = workspace[s]
  BY <1>2, <1>3
<1>4. CASE UNCHANGED vars
  BY <1>3, <1>4 DEF vars, recordVars, diskVars
<1>5. ASSUME NEW r \in Runs, Start(r) \/ Execute(r), r # s
      PROVE  events'[s] = events[s] /\ workspace'[s] = workspace[s]
  BY <1>1, <1>5, OthersStay DEF Same
<1>6. CASE Start(s) \/ Execute(s)
  BY <1>1, <1>6, OwnTrailGrows
<1>7. QED
  BY <1>3, <1>4, <1>5, <1>6 DEF Next

(* The trail is append-only and source changes only while coding            *)
(* (pipeline.py:107-112, store.py:60).                                      *)
THEOREM TrailGrowsSourceWaits == Spec => TrailGrowsAndSourceIsGuarded
<1>1. Inv /\ PublicationInv /\ [Next]_vars =>
        \A r \in Runs :
          /\ Len(events[r]) <= Len(events'[r])
          /\ \A i \in DOMAIN events[r] : events'[r][i] = events[r][i]
          /\ workspace'[r] # workspace[r] => stage[r] = "coding"
  BY TrailsGrow
<1>2. QED
  BY <1>1, Published, PTL DEF Spec, TrailGrowsAndSourceIsGuarded

-----------------------------------------------------------------------------
(* A run gets on: each of its steps takes it nearer to its end.             *)

(* The most steps a thread is from its end, the edits of the patch apart.   *)
Ahead ==
  [absent |-> 15, queued |-> 14, create_workspace |-> 13, plan |-> 12,
   compile_probes |-> 11, run_probes |-> 10, check_unknown |-> 9, replan |-> 8,
   generate_patch |-> 7, apply_patch |-> 6, run_checks |-> 5, write_packet |-> 4,
   copy_workspace |-> 3, publish |-> 2, except |-> 1, write_blocked |-> 3,
   publish_blocked |-> 2, returned |-> 0, raised |-> 0, killed |-> 0]

(* The order of the points of execute (pipeline.py:34-163).                 *)
LEMMA AheadOrder ==
  /\ Ahead["absent"] = 15 /\ Ahead["queued"] = 14
  /\ Ahead["create_workspace"] = 13 /\ Ahead["plan"] = 12
  /\ Ahead["compile_probes"] = 11 /\ Ahead["run_probes"] = 10
  /\ Ahead["check_unknown"] = 9 /\ Ahead["replan"] = 8
  /\ Ahead["generate_patch"] = 7 /\ Ahead["apply_patch"] = 6
  /\ Ahead["run_checks"] = 5 /\ Ahead["write_packet"] = 4
  /\ Ahead["copy_workspace"] = 3 /\ Ahead["publish"] = 2
  /\ Ahead["except"] = 1 /\ Ahead["write_blocked"] = 3
  /\ Ahead["publish_blocked"] = 2 /\ Ahead["returned"] = 0
  /\ Ahead["raised"] = 0 /\ Ahead["killed"] = 0
BY DEF Ahead

(* A step takes a run on, or makes the next of the edits of its patch.      *)
Descends(r) ==
  \/ Ahead[pc'[r]] < Ahead[pc[r]]
  \/ /\ pc[r] = "apply_patch" /\ pc'[r] = pc[r] /\ patch'[r] = patch[r]
     /\ Len(workspace'[r]) = Len(workspace[r]) + 1
     /\ Len(workspace'[r]) <= Len(patch[r])

(* No step of execute goes back or waits (pipeline.py:34-163).              *)
LEMMA StepDescends ==
  ASSUME TypeOK, NEW r \in Runs, EditInv(r), Start(r) \/ Execute(r)
  PROVE  Descends(r)
<1>1. CASE Start(r)
  <2>1. pc[r] = "absent" /\ pc'[r] = "queued"
    BY <1>1 DEF Start, At, Goto, TypeOK
  <2>2. QED
    BY <2>1, AheadOrder DEF Descends
<1>2. CASE Begin(r)
  <2>1. pc[r] = "queued" /\ pc'[r] = "create_workspace"
    BY <1>2 DEF Begin, At, Goto, TypeOK
  <2>2. QED
    BY <2>1, AheadOrder DEF Descends
<1>3. CASE BeginRaises(r)
  <2>1. pc[r] = "queued" /\ pc'[r] = "raised"
    BY <1>3 DEF BeginRaises, At, Goto, TypeOK
  <2>2. QED
    BY <2>1, AheadOrder DEF Descends
<1>4. CASE CreateWorkspace(r)
  <2>1. pc[r] = "create_workspace" /\ pc'[r] = "plan"
    BY <1>4 DEF CreateWorkspace, At, Goto, TypeOK
  <2>2. QED
    BY <2>1, AheadOrder DEF Descends
<1>5. CASE Plan(r)
  <2>1. pc[r] = "plan" /\ pc'[r] = "compile_probes"
    BY <1>5 DEF Plan, At, Goto, TypeOK
  <2>2. QED
    BY <2>1, AheadOrder DEF Descends
<1>6. CASE CompileProbes(r)
  <2>1. pc[r] = "compile_probes" /\ pc'[r] = "run_probes"
    BY <1>6 DEF CompileProbes, At, Goto, TypeOK
  <2>2. QED
    BY <2>1, AheadOrder DEF Descends
<1>7. CASE RunProbes(r)
  <2>1. pc[r] = "run_probes" /\ pc'[r] = "check_unknown"
    BY <1>7 DEF RunProbes, At, Goto, TypeOK
  <2>2. QED
    BY <2>1, AheadOrder DEF Descends
<1>8. CASE StopOnUnknown(r)
  <2>1. pc[r] = "check_unknown" /\ pc'[r] = "write_blocked"
    BY <1>8 DEF StopOnUnknown, At, Goto, TypeOK
  <2>2. QED
    BY <2>1, AheadOrder DEF Descends
<1>9. CASE GoOnToReplan(r)
  <2>1. pc[r] = "check_unknown" /\ pc'[r] = "replan"
    BY <1>9 DEF GoOnToReplan, At, Goto, TypeOK
  <2>2. QED
    BY <2>1, AheadOrder DEF Descends
<1>10. CASE ReplanRejected(r)
  <2>1. pc[r] = "replan" /\ pc'[r] = "write_blocked"
    BY <1>10 DEF ReplanRejected, At, Goto, TypeOK
  <2>2. QED
    BY <2>1, AheadOrder DEF Descends
<1>11. CASE ReplanAccepted(r)
  <2>1. pc[r] = "replan" /\ pc'[r] = "generate_patch"
    BY <1>11 DEF ReplanAccepted, At, Goto, TypeOK
  <2>2. QED
    BY <2>1, AheadOrder DEF Descends
<1>12. CASE GeneratePatch(r)
  <2>1. pc[r] = "generate_patch" /\ pc'[r] = "apply_patch"
    BY <1>12 DEF GeneratePatch, At, Goto, TypeOK
  <2>2. QED
    BY <2>1, AheadOrder DEF Descends
<1>13. CASE ApplyEdit(r)
  <2>1. /\ pc[r] = "apply_patch" /\ pc'[r] = pc[r] /\ patch'[r] = patch[r]
        /\ Len(workspace[r]) < Len(patch[r])
        /\ workspace'[r] = Append(workspace[r], NextEdit(r))
    BY <1>13 DEF ApplyEdit, At, EditsRemain, localVars, codingVars, TypeOK
  <2>2. workspace[r] \in Seq(Paths) /\ patch[r] \in Seq(Paths)
    BY <2>1 DEF TypeOK, EditInv
  <2>3. Len(workspace'[r]) = Len(workspace[r]) + 1
    BY <2>1, <2>2
  <2>4. QED
    BY <2>1, <2>2, <2>3 DEF Descends
<1>14. CASE RefuseEdit(r)
  <2>1. pc[r] = "apply_patch" /\ pc'[r] = "except"
    BY <1>14 DEF RefuseEdit, At, Goto, TypeOK
  <2>2. QED
    BY <2>1, AheadOrder DEF Descends
<1>15. CASE PatchApplied(r)
  <2>1. pc[r] = "apply_patch" /\ pc'[r] = "run_checks"
    BY <1>15 DEF PatchApplied, At, Goto, TypeOK
  <2>2. QED
    BY <2>1, AheadOrder DEF Descends
<1>16. CASE RunChecks(r)
  <2>1. pc[r] = "run_checks" /\ pc'[r] = "write_packet"
    BY <1>16 DEF RunChecks, At, Goto, TypeOK
  <2>2. QED
    BY <2>1, AheadOrder DEF Descends
<1>17. CASE WritePacket(r)
  <2>1. pc[r] = "write_packet" /\ pc'[r] = "copy_workspace"
    BY <1>17 DEF WritePacket, At, Goto, TypeOK
  <2>2. QED
    BY <2>1, AheadOrder DEF Descends
<1>18. CASE CopyWorkspace(r)
  <2>1. pc[r] = "copy_workspace" /\ pc'[r] = "publish"
    BY <1>18 DEF CopyWorkspace, At, Goto, TypeOK
  <2>2. QED
    BY <2>1, AheadOrder DEF Descends
<1>19. CASE CopyFails(r)
  <2>1. pc[r] = "copy_workspace" /\ pc'[r] = "except"
    BY <1>19 DEF CopyFails, At, Goto, TypeOK
  <2>2. QED
    BY <2>1, AheadOrder DEF Descends
<1>20. CASE Publish(r)
  <2>1. pc[r] = "publish" /\ pc'[r] = "returned"
    BY <1>20 DEF Publish, StorePacket, At, Goto, TypeOK
  <2>2. QED
    BY <2>1, AheadOrder DEF Descends
<1>21. CASE WriteBlockedPacket(r)
  <2>1. pc[r] = "write_blocked" /\ pc'[r] = "publish_blocked"
    BY <1>21 DEF WriteBlockedPacket, At, Goto, TypeOK
  <2>2. QED
    BY <2>1, AheadOrder DEF Descends
<1>22. CASE PublishBlocked(r)
  <2>1. pc[r] = "publish_blocked" /\ pc'[r] = "returned"
    BY <1>22 DEF PublishBlocked, StorePacket, At, Goto, TypeOK
  <2>2. QED
    BY <2>1, AheadOrder DEF Descends
<1>23. CASE Raise(r)
  <2>1. pc[r] \in Guarded /\ pc'[r] = "except"
    BY <1>23 DEF Raise, Goto, TypeOK
  <2>2. QED
    BY <2>1, AheadOrder DEF Guarded, Descends
<1>24. CASE RecordFailure(r)
  <2>1. pc[r] = "except" /\ pc'[r] = "raised"
    BY <1>24 DEF RecordFailure, At, Goto, TypeOK
  <2>2. QED
    BY <2>1, AheadOrder DEF Descends
<1>25. CASE RecordFailureFails(r)
  <2>1. pc[r] = "except" /\ pc'[r] = "raised"
    BY <1>25 DEF RecordFailureFails, At, Goto, TypeOK
  <2>2. QED
    BY <2>1, AheadOrder DEF Descends
<1>26. QED
  BY <1>1, <1>2, <1>3, <1>4, <1>5, <1>6, <1>7, <1>8, <1>9, <1>10,
     <1>11, <1>12, <1>13, <1>14, <1>15, <1>16, <1>17, <1>18, <1>19, <1>20,
     <1>21, <1>22, <1>23, <1>24, <1>25
  DEF Execute, Continue

(* A step takes one run on and leaves the others alone.                     *)
LEMMA RunsGetOn ==
  ASSUME Inv, PublicationInv, [Next]_vars, NEW s \in Runs
  PROVE  Same(s) \/ Descends(s)
<1>1. CASE UNCHANGED vars
  BY <1>1 DEF vars, Same, recordVars, localVars, premiseVars, codingVars, diskVars
<1>2. ASSUME NEW r \in Runs, Start(r) \/ Execute(r) PROVE Same(s) \/ Descends(s)
  BY <1>2, OthersStay, StepDescends DEF Inv, PublicationInv
<1>3. QED
  BY <1>1, <1>2 DEF Next

(* Whatever models answer and calls raise, a run can take but so many       *)
(* steps: no step of execute repeats one, and each edit is made once        *)
(* (pipeline.py:34-163, patching.py:17-36).  With the fairness of FairSpec  *)
(* this is why a run settles.                                               *)
THEOREM RunsDescend == Spec => [][\A r \in Runs : Same(r) \/ Descends(r)]_vars
<1>1. Inv /\ PublicationInv /\ [Next]_vars => \A r \in Runs : Same(r) \/ Descends(r)
  BY RunsGetOn
<1>2. QED
  BY <1>1, Published, PTL DEF Spec

(* The end of a thread is in its row, but for a store that fails and a      *)
(* provider that cannot be built.                                           *)
EndsInv(r) ==
  /\ pc[r] = "returned" => stage[r] = "complete"
  /\ pc[r] = "raised" => \/ stage[r] = "failed"
                         \/ ~ StoreReliable
                         \/ stage[r] = "queued" /\ provider[r] \notin Buildable

(* The last step of a run records how it ended (pipeline.py:148-163).       *)
LEMMA StepEnds ==
  ASSUME TypeOK, StageInv, NEW r \in Runs, Start(r) \/ Execute(r)
  PROVE  EndsInv(r)'
<1>1. CASE Start(r)
  <2>1. pc'[r] \notin {"returned", "raised"}
    BY <1>1 DEF Start, At, Goto, TypeOK
  <2>2. QED
    BY <2>1 DEF EndsInv
<1>2. CASE Begin(r)
  <2>1. pc'[r] \notin {"returned", "raised"}
    BY <1>2 DEF Begin, At, Goto, TypeOK
  <2>2. QED
    BY <2>1 DEF EndsInv
<1>3. CASE BeginRaises(r)
  <2>1. pc[r] = "queued" /\ pc'[r] = "raised" /\ stage'[r] = stage[r]
        /\ provider'[r] = provider[r] /\ (provider[r] \notin Buildable \/ ~ StoreReliable)
    BY <1>3 DEF BeginRaises, At, Goto, recordVars, TypeOK
  <2>2. stage[r] = "queued"
    BY <2>1 DEF StageInv
  <2>3. QED
    BY ONLY <2>1, <2>2 DEF EndsInv
<1>4. CASE CreateWorkspace(r)
  <2>1. pc'[r] \notin {"returned", "raised"}
    BY <1>4 DEF CreateWorkspace, At, Goto, TypeOK
  <2>2. QED
    BY <2>1 DEF EndsInv
<1>5. CASE Plan(r)
  <2>1. pc'[r] \notin {"returned", "raised"}
    BY <1>5 DEF Plan, At, Goto, TypeOK
  <2>2. QED
    BY <2>1 DEF EndsInv
<1>6. CASE CompileProbes(r)
  <2>1. pc'[r] \notin {"returned", "raised"}
    BY <1>6 DEF CompileProbes, At, Goto, TypeOK
  <2>2. QED
    BY <2>1 DEF EndsInv
<1>7. CASE RunProbes(r)
  <2>1. pc'[r] \notin {"returned", "raised"}
    BY <1>7 DEF RunProbes, At, Goto, TypeOK
  <2>2. QED
    BY <2>1 DEF EndsInv
<1>8. CASE StopOnUnknown(r)
  <2>1. pc'[r] \notin {"returned", "raised"}
    BY <1>8 DEF StopOnUnknown, At, Goto, TypeOK
  <2>2. QED
    BY <2>1 DEF EndsInv
<1>9. CASE GoOnToReplan(r)
  <2>1. pc'[r] \notin {"returned", "raised"}
    BY <1>9 DEF GoOnToReplan, At, Goto, TypeOK
  <2>2. QED
    BY <2>1 DEF EndsInv
<1>10. CASE ReplanRejected(r)
  <2>1. pc'[r] \notin {"returned", "raised"}
    BY <1>10 DEF ReplanRejected, At, Goto, TypeOK
  <2>2. QED
    BY <2>1 DEF EndsInv
<1>11. CASE ReplanAccepted(r)
  <2>1. pc'[r] \notin {"returned", "raised"}
    BY <1>11 DEF ReplanAccepted, At, Goto, TypeOK
  <2>2. QED
    BY <2>1 DEF EndsInv
<1>12. CASE GeneratePatch(r)
  <2>1. pc'[r] \notin {"returned", "raised"}
    BY <1>12 DEF GeneratePatch, At, Goto, TypeOK
  <2>2. QED
    BY <2>1 DEF EndsInv
<1>13. CASE ApplyEdit(r)
  <2>1. pc'[r] \notin {"returned", "raised"}
    BY <1>13 DEF ApplyEdit, At, Goto, TypeOK, localVars
  <2>2. QED
    BY <2>1 DEF EndsInv
<1>14. CASE RefuseEdit(r)
  <2>1. pc'[r] \notin {"returned", "raised"}
    BY <1>14 DEF RefuseEdit, At, Goto, TypeOK
  <2>2. QED
    BY <2>1 DEF EndsInv
<1>15. CASE PatchApplied(r)
  <2>1. pc'[r] \notin {"returned", "raised"}
    BY <1>15 DEF PatchApplied, At, Goto, TypeOK
  <2>2. QED
    BY <2>1 DEF EndsInv
<1>16. CASE RunChecks(r)
  <2>1. pc'[r] \notin {"returned", "raised"}
    BY <1>16 DEF RunChecks, At, Goto, TypeOK
  <2>2. QED
    BY <2>1 DEF EndsInv
<1>17. CASE WritePacket(r)
  <2>1. pc'[r] \notin {"returned", "raised"}
    BY <1>17 DEF WritePacket, At, Goto, TypeOK
  <2>2. QED
    BY <2>1 DEF EndsInv
<1>18. CASE CopyWorkspace(r)
  <2>1. pc'[r] \notin {"returned", "raised"}
    BY <1>18 DEF CopyWorkspace, At, Goto, TypeOK
  <2>2. QED
    BY <2>1 DEF EndsInv
<1>19. CASE CopyFails(r)
  <2>1. pc'[r] \notin {"returned", "raised"}
    BY <1>19 DEF CopyFails, At, Goto, TypeOK
  <2>2. QED
    BY <2>1 DEF EndsInv
<1>20. CASE Publish(r)
  <2>1. pc'[r] = "returned" /\ stage'[r] = "complete"
    BY <1>20 DEF Publish, StorePacket, Announce, Goto, TypeOK
  <2>2. QED
    BY ONLY <2>1 DEF EndsInv
<1>21. CASE WriteBlockedPacket(r)
  <2>1. pc'[r] \notin {"returned", "raised"}
    BY <1>21 DEF WriteBlockedPacket, At, Goto, TypeOK
  <2>2. QED
    BY <2>1 DEF EndsInv
<1>22. CASE PublishBlocked(r)
  <2>1. pc'[r] = "returned" /\ stage'[r] = "complete"
    BY <1>22 DEF PublishBlocked, StorePacket, Announce, Goto, TypeOK
  <2>2. QED
    BY ONLY <2>1 DEF EndsInv
<1>23. CASE Raise(r)
  <2>1. pc'[r] \notin {"returned", "raised"}
    BY <1>23 DEF Raise, At, Goto, TypeOK
  <2>2. QED
    BY <2>1 DEF EndsInv
<1>24. CASE RecordFailure(r)
  <2>1. pc'[r] = "raised" /\ stage'[r] = "failed"
    BY <1>24 DEF RecordFailure, Announce, Goto, TypeOK
  <2>2. QED
    BY ONLY <2>1 DEF EndsInv
<1>25. CASE RecordFailureFails(r)
  <2>1. pc'[r] = "raised" /\ ~ StoreReliable
    BY <1>25 DEF RecordFailureFails, Goto, TypeOK
  <2>2. QED
    BY ONLY <2>1 DEF EndsInv
<1>26. QED
  BY <1>1, <1>2, <1>3, <1>4, <1>5, <1>6, <1>7, <1>8, <1>9, <1>10,
     <1>11, <1>12, <1>13, <1>14, <1>15, <1>16, <1>17, <1>18, <1>19, <1>20,
     <1>21, <1>22, <1>23, <1>24, <1>25
  DEF Execute, Continue

(* Every step keeps what is known of the ends.                              *)
LEMMA EndsHold ==
  ASSUME Inv, [Next]_vars, NEW s \in Runs, EndsInv(s)
  PROVE  EndsInv(s)'
<1>1. Same(s) => EndsInv(s)'
  BY DEF Same, EndsInv
<1>2. UNCHANGED vars => Same(s)
  BY DEF vars, Same, recordVars, localVars, premiseVars, codingVars, diskVars
<1>3. ASSUME NEW r \in Runs, Start(r) \/ Execute(r) PROVE EndsInv(s)'
  BY <1>1, <1>3, OthersStay, StepEnds DEF Inv
<1>4. QED
  BY <1>1, <1>2, <1>3 DEF Next

(* A thread that ended left its run complete or failed, except where the    *)
(* store failed it or, before the try block, its provider could not be      *)
(* built: that row stays queued (pipeline.py:39-43 and 155-163).            *)
THEOREM EndsAreRecorded == Spec => [](\A r \in Runs : EndsInv(r))
<1>1. Init => \A r \in Runs : EndsInv(r)
  BY DEF Init, EndsInv
<1>2. Inv /\ (\A r \in Runs : EndsInv(r)) /\ [Next]_vars => (\A r \in Runs : EndsInv(r))'
  BY EndsHold
<1>3. QED
  BY <1>1, <1>2, Invariance, PTL DEF Spec

-----------------------------------------------------------------------------
(* What is published can be judged again from what is published with it.    *)

(* Where the locals of execute hold an answer of the gate.                  *)
Judged == {"check_unknown", "replan", "generate_patch", "apply_patch", "run_checks",
           "write_packet", "copy_workspace", "publish", "write_blocked",
           "publish_blocked"}

(* Code was stopped for a reason: a premise is not known, or the revision   *)
(* does not keep the contract.                                              *)
Stopped(plan, answer, outcome) ==
  \/ UnknownLoadBearing(plan, outcome) # {}
  \/ answer # None /\ ValidateReplan(plan, answer, outcome) # "ok"

(* Code was let through: neither is so.                                     *)
LetThrough(plan, answer, outcome) ==
  /\ UnknownLoadBearing(plan, outcome) = {}
  /\ answer # None /\ ValidateReplan(plan, answer, outcome) = "ok"

(* A packet agrees with itself.                                             *)
Consistent(content) ==
  /\ content.probe_results \in ProbeOutcomes(content.probes)
  /\ content.first_gate = DecideGate(content.initial_plan, content.probe_results)
  /\ IF content.patch = None
     THEN /\ Stopped(content.initial_plan, content.revised_plan, content.probe_results)
          /\ content.verdict = "blocked"
     ELSE /\ LetThrough(content.initial_plan, content.revised_plan, content.probe_results)
          /\ content.verdict = VerdictOf(content.checks)

JudgedInv(r) ==
  /\ pc[r] \in Judged => /\ results[r] \in ProbeOutcomes(probes[r])
                         /\ gate[r] = DecideGate(initialPlan[r], results[r])
  /\ pc[r] \in {"write_blocked", "publish_blocked"} =>
       Stopped(initialPlan[r], revised[r], results[r])
  /\ packet[r] # None => Consistent(packet[r])

(* The locals the packet is built from are the ones that were judged        *)
(* (pipeline.py:57-97 and 207-259).                                         *)
LEMMA JudgedStep ==
  ASSUME TypeOK, StageInv, ClearedInv, NEW r \in Runs, EditInv(r), WrittenInv(r),
         JudgedInv(r), Start(r) \/ Execute(r)
  PROVE  JudgedInv(r)'
<1>0. packet[r] = None
  BY SettledIsOver DEF WrittenInv, Terminal
<1> USE DEF TypeOK, At, Goto, Save, Announce, recordVars, premiseVars, codingVars,
            localVars, diskVars, JudgedInv, Judged
<1>1. CASE Start(r)
  BY <1>0, <1>1 DEF Start
<1>2. CASE Begin(r)
  BY <1>0, <1>2 DEF Begin
<1>3. CASE BeginRaises(r)
  BY <1>0, <1>3 DEF BeginRaises
<1>4. CASE CreateWorkspace(r)
  BY <1>0, <1>4 DEF CreateWorkspace
<1>5. CASE Plan(r)
  BY <1>0, <1>5 DEF Plan
<1>6. CASE CompileProbes(r)
  BY <1>0, <1>6 DEF CompileProbes
<1>7. CASE RunProbes(r)
  <2>1. PICK outcome \in ProbeOutcomes(probes[r]) :
          /\ results' = [results EXCEPT ![r] = outcome]
          /\ gate' = [gate EXCEPT ![r] = DecideGate(initialPlan[r], outcome)]
    BY <1>7 DEF RunProbes
  <2>2. /\ pc'[r] = "check_unknown" /\ packet'[r] = packet[r]
        /\ probes'[r] = probes[r] /\ initialPlan'[r] = initialPlan[r]
    BY <1>7 DEF RunProbes
  <2>3. results'[r] = outcome /\ gate'[r] = DecideGate(initialPlan[r], outcome)
    BY <2>1
  <2>4. QED
    BY <1>0, <2>2, <2>3
<1>8. CASE StopOnUnknown(r)
  BY <1>0, <1>8 DEF StopOnUnknown, Stopped
<1>9. CASE GoOnToReplan(r)
  BY <1>0, <1>9 DEF GoOnToReplan
<1>10. CASE ReplanRejected(r)
  <2>1. PICK answer \in Replies(r) :
          ReplanError(r, answer) /\ revised' = [revised EXCEPT ![r] = answer]
    BY <1>10 DEF ReplanRejected
  <2>2. answer \in ImplementationPlan /\ answer # None
    BY <2>1, RepliesType, NoneAssumption
  <2>3. revised'[r] = answer /\ Stopped(initialPlan[r], answer, results[r])
    BY <2>1, <2>2 DEF ReplanError, Stopped
  <2>4. /\ UNCHANGED <<premiseVars, packet>>
        /\ pc[r] = "replan" /\ pc'[r] = "write_blocked"
    BY <1>10 DEF ReplanRejected
  <2>5. QED
    BY <1>0, <2>3, <2>4
<1>11. CASE ReplanAccepted(r)
  BY <1>0, <1>11 DEF ReplanAccepted
<1>12. CASE GeneratePatch(r)
  BY <1>0, <1>12 DEF GeneratePatch
<1>13. CASE ApplyEdit(r)
  BY <1>0, <1>13 DEF ApplyEdit
<1>14. CASE RefuseEdit(r)
  BY <1>0, <1>14 DEF RefuseEdit
<1>15. CASE PatchApplied(r)
  BY <1>0, <1>15 DEF PatchApplied
<1>16. CASE RunChecks(r)
  BY <1>0, <1>16 DEF RunChecks
<1>17. CASE WritePacket(r)
  BY <1>0, <1>17 DEF WritePacket
<1>18. CASE CopyWorkspace(r)
  BY <1>0, <1>18 DEF CopyWorkspace
<1>19. CASE CopyFails(r)
  BY <1>0, <1>19 DEF CopyFails
<1>20. CASE Publish(r)
  <2>1. pc[r] = "publish" /\ pc'[r] = "returned" /\ packet'[r] = CodedPacket(r)
    BY <1>20 DEF Publish, StorePacket
  <2>2. patch[r] # None /\ stage[r] = "verifying"
    BY <2>1 DEF EditInv, StageInv
  <2>3. LetThrough(initialPlan[r], revised[r], results[r])
    BY <2>2 DEF ClearedInv, Cleared, LetThrough
  <2>4. Consistent(CodedPacket(r))
    BY <2>1, <2>2, <2>3 DEF CodedPacket, PacketWith, Consistent
  <2>5. QED
    BY <2>1, <2>4
<1>21. CASE WriteBlockedPacket(r)
  BY <1>0, <1>21 DEF WriteBlockedPacket
<1>22. CASE PublishBlocked(r)
  <2>1. /\ pc[r] = "publish_blocked" /\ pc'[r] = "returned"
        /\ packet'[r] = BlockedPacket(r)
    BY <1>22 DEF PublishBlocked, StorePacket
  <2>2. Consistent(BlockedPacket(r))
    BY <2>1 DEF BlockedPacket, PacketWith, Consistent
  <2>3. QED
    BY <2>1, <2>2
<1>23. CASE Raise(r)
  BY <1>0, <1>23 DEF Raise, Guarded
<1>24. CASE RecordFailure(r)
  BY <1>0, <1>24 DEF RecordFailure
<1>25. CASE RecordFailureFails(r)
  BY <1>0, <1>25 DEF RecordFailureFails
<1>26. QED
  BY <1>1, <1>2, <1>3, <1>4, <1>5, <1>6, <1>7, <1>8, <1>9, <1>10,
     <1>11, <1>12, <1>13, <1>14, <1>15, <1>16, <1>17, <1>18, <1>19, <1>20,
     <1>21, <1>22, <1>23, <1>24, <1>25
  DEF Execute, Continue

(* Every step of every run keeps what is judged.                            *)
LEMMA JudgedHolds ==
  ASSUME Inv, PublicationInv, [Next]_vars, NEW s \in Runs, JudgedInv(s)
  PROVE  JudgedInv(s)'
<1>1. Same(s) => JudgedInv(s)'
  BY DEF Same, JudgedInv
<1>2. UNCHANGED vars => Same(s)
  BY DEF vars, Same, recordVars, localVars, premiseVars, codingVars, diskVars
<1>3. ASSUME NEW r \in Runs, Start(r) \/ Execute(r) PROVE JudgedInv(s)'
  BY <1>1, <1>3, OthersStay, JudgedStep DEF Inv, PublicationInv
<1>4. QED
  BY <1>1, <1>2, <1>3 DEF Next

(* Hence it holds in every state.                                           *)
LEMMA JudgedAlways == Spec => [](Inv /\ (\A r \in Runs : JudgedInv(r)))
<1>1. Init => \A r \in Runs : JudgedInv(r)
  BY DEF Init, JudgedInv, Judged
<1>2. Inv /\ PublicationInv /\ (\A r \in Runs : JudgedInv(r)) /\ [Next]_vars
        => (\A r \in Runs : JudgedInv(r))'
  BY JudgedHolds
<1>3. QED
  BY <1>1, <1>2, Published, PTL DEF Spec

(* Whoever reads a published packet can judge the run again: its results    *)
(* are answers to its probes, one each and in their order, its gate is what *)
(* these results give, and it carries a patch exactly when no premise was   *)
(* unknown and the revision kept the contract (pipeline.py:57-97, 207-259). *)
THEOREM PacketsAgreeWithThemselves ==
  Spec => [](\A r \in Runs : packet[r] # None => Consistent(packet[r]))
<1>1. (\A r \in Runs : JudgedInv(r)) =>
        \A r \in Runs : packet[r] # None => Consistent(packet[r])
  BY DEF JudgedInv
<1>2. QED
  BY <1>1, JudgedAlways, PTL

(* What was not verified stopped the gate or was probed again, later, and   *)
(* verified then.                                                           *)
Counts(plan, outcome, decision) ==
  \A i \in DOMAIN outcome :
    outcome[i].verdict # "verified" /\ outcome[i].assumption_id \in LoadBearing(plan) =>
      \/ decision.status = "block"
      \/ \E j \in DOMAIN outcome : /\ i < j
                                  /\ outcome[j].assumption_id = outcome[i].assumption_id
                                  /\ outcome[j].verdict = "verified"

(* The gate forgets a contradiction only for a later verification of the    *)
(* same premise (gate.py:7-14).                                             *)
LEMMA GateCounts ==
  ASSUME NEW plan \in ImplementationPlan, NEW outcome \in Seq(ProbeResult)
  PROVE  Counts(plan, outcome, DecideGate(plan, outcome))
<1> DEFINE decision == DecideGate(plan, outcome)
<1> SUFFICES ASSUME NEW i \in DOMAIN outcome, outcome[i].verdict # "verified",
                    outcome[i].assumption_id \in LoadBearing(plan),
                    decision.status # "block"
             PROVE  \E j \in DOMAIN outcome :
                      /\ i < j
                      /\ outcome[j].assumption_id = outcome[i].assumption_id
                      /\ outcome[j].verdict = "verified"
  BY DEF Counts
<1>1. decision.status = "pass"
  BY DEF DecideGate
<1>2. PICK j \in DOMAIN outcome :
        /\ outcome[j].assumption_id = outcome[i].assumption_id
        /\ outcome[j].verdict = "verified"
        /\ \A k \in DOMAIN outcome :
             outcome[k].assumption_id = outcome[i].assumption_id => k <= j
  BY <1>1, PassMeansVerified
<1>3. i <= j /\ i # j /\ i \in Nat /\ j \in Nat
  BY <1>2
<1>4. QED
  BY <1>2, <1>3

(* Finding 2 of the README is all there is to it: in a run or in a packet,  *)
(* a load-bearing premise that a probe did not verify passes the gate only  *)
(* when a later probe of the same premise verified it (gate.py:6-27,        *)
(* pipeline.py:57-59).                                                      *)
THEOREM OnlyLaterProbesForgive ==
  Spec => [](\A r \in Runs :
               /\ pc[r] \in Judged => Counts(initialPlan[r], results[r], gate[r])
               /\ packet[r] # None =>
                    Counts(packet[r].initial_plan, packet[r].probe_results,
                           packet[r].first_gate))
<1>1. ASSUME TypeOK, NEW r \in Runs, JudgedInv(r)
      PROVE  /\ pc[r] \in Judged => Counts(initialPlan[r], results[r], gate[r])
             /\ packet[r] # None =>
                  Counts(packet[r].initial_plan, packet[r].probe_results,
                         packet[r].first_gate)
  <2>1. initialPlan[r] \in ImplementationPlan /\ results[r] \in Seq(ProbeResult)
    BY <1>1 DEF TypeOK
  <2>2. packet[r] # None => /\ packet[r].initial_plan \in ImplementationPlan
                            /\ packet[r].probe_results \in Seq(ProbeResult)
    BY <1>1 DEF TypeOK, RunPacket
  <2>3. pc[r] \in Judged => gate[r] = DecideGate(initialPlan[r], results[r])
    BY <1>1 DEF JudgedInv
  <2>4. packet[r] # None => packet[r].first_gate
          = DecideGate(packet[r].initial_plan, packet[r].probe_results)
    BY <1>1 DEF JudgedInv, Consistent
  <2>5. QED
    BY <2>1, <2>2, <2>3, <2>4, GateCounts
<1>2. Inv /\ (\A r \in Runs : JudgedInv(r)) =>
        \A r \in Runs :
          /\ pc[r] \in Judged => Counts(initialPlan[r], results[r], gate[r])
          /\ packet[r] # None =>
               Counts(packet[r].initial_plan, packet[r].probe_results,
                      packet[r].first_gate)
  BY <1>1 DEF Inv
<1>3. QED
  BY <1>2, JudgedAlways, PTL

-----------------------------------------------------------------------------
(* The pipeline keeps the promise of Interlock (PRODUCT_SPEC.md:19-25).     *)

PhaseBar == [r \in Runs |-> PhaseOf(stage[r])]
PremisesBar == [r \in Runs |-> LoadBearing(initialPlan[r])]
TestedBar == [r \in Runs |-> Tested(results[r])]
OutcomeOf(content) == IF content # None THEN content.verdict ELSE "none"
OutcomeBar == [r \in Runs |-> OutcomeOf(packet[r])]

(* The phases of the stages.                                                *)
LEMMA PhaseTable ==
  /\ PhaseOf("absent") = "idle"
  /\ \A s \in BeforeCoding : PhaseOf(s) = "gathering"
  /\ PhaseOf("coding") = "cleared" /\ PhaseOf("verifying") = "cleared"
  /\ PhaseOf("complete") = "concluded" /\ PhaseOf("failed") = "failed"
BY DEF PhaseOf, BeforeCoding

(* What the step of a run does to the abstract state.                       *)
LEMMA BarsMove ==
  ASSUME TypeOK, NEW r \in Runs, Start(r) \/ Execute(r)
  PROVE  /\ PhaseBar' = [PhaseBar EXCEPT ![r] = PhaseOf(stage'[r])]
         /\ PremisesBar' = [PremisesBar EXCEPT ![r] = LoadBearing(initialPlan'[r])]
         /\ TestedBar' = [TestedBar EXCEPT ![r] = Tested(results'[r])]
         /\ workspace' = [workspace EXCEPT ![r] = workspace'[r]]
         /\ OutcomeBar' = [OutcomeBar EXCEPT ![r] = OutcomeOf(packet'[r])]
<1>1. \A s \in Runs : s # r =>
        /\ stage'[s] = stage[s] /\ initialPlan'[s] = initialPlan[s]
        /\ results'[s] = results[s] /\ workspace'[s] = workspace[s]
        /\ packet'[s] = packet[s]
  BY OthersStay DEF Same
<1>2. workspace \in [Runs -> Seq(Paths)] /\ workspace' \in [Runs -> Seq(Paths)]
  <2>1. TypeOK'
    BY NextTypeOK DEF Next
  <2>2. QED
    BY <2>1 DEF TypeOK
<1>3. PhaseBar' = [PhaseBar EXCEPT ![r] = PhaseOf(stage'[r])]
  BY <1>1 DEF PhaseBar
<1>4. PremisesBar' = [PremisesBar EXCEPT ![r] = LoadBearing(initialPlan'[r])]
  BY <1>1 DEF PremisesBar
<1>5. TestedBar' = [TestedBar EXCEPT ![r] = Tested(results'[r])]
  BY <1>1 DEF TestedBar
<1>6. workspace' = [workspace EXCEPT ![r] = workspace'[r]]
  BY <1>1, <1>2
<1>7. OutcomeBar' = [OutcomeBar EXCEPT ![r] = OutcomeOf(packet'[r])]
  BY <1>1 DEF OutcomeBar
<1>8. QED
  BY <1>3, <1>4, <1>5, <1>6, <1>7

(* The values the abstract state has for one run.                           *)
LEMMA BarsAre ==
  ASSUME NEW r \in Runs
  PROVE  /\ PhaseBar[r] = PhaseOf(stage[r])
         /\ PremisesBar[r] = LoadBearing(initialPlan[r])
         /\ TestedBar[r] = Tested(results[r])
         /\ OutcomeBar[r] = OutcomeOf(packet[r])
BY DEF PhaseBar, PremisesBar, TestedBar, OutcomeBar

(* The abstract state is one of functions on the runs.                      *)
LEMMA BarsHaveDomain ==
  /\ PhaseBar = [r \in Runs |-> PhaseBar[r]]
  /\ PremisesBar = [r \in Runs |-> PremisesBar[r]]
  /\ TestedBar = [r \in Runs |-> TestedBar[r]]
  /\ OutcomeBar = [r \in Runs |-> OutcomeBar[r]]
BY DEF PhaseBar, PremisesBar, TestedBar, OutcomeBar

(* What a step leaves of the abstract state when it leaves the run's.       *)
LEMMA BarsStay ==
  ASSUME TypeOK, NEW r \in Runs, Start(r) \/ Execute(r)
  PROVE  /\ PhaseOf(stage'[r]) = PhaseOf(stage[r]) => PhaseBar' = PhaseBar
         /\ initialPlan'[r] = initialPlan[r] => PremisesBar' = PremisesBar
         /\ results'[r] = results[r] => TestedBar' = TestedBar
         /\ workspace'[r] = workspace[r] => workspace' = workspace
         /\ packet'[r] = packet[r] => OutcomeBar' = OutcomeBar
<1>1. workspace = [s \in Runs |-> workspace[s]]
  BY DEF TypeOK
<1>2. QED
  BY <1>1, BarsMove, BarsAre, BarsHaveDomain

(* A step that is one of the interlock's, for the actions of execute that   *)
(* do something it knows of.                                                *)
Kept == TypeOK /\ StageInv /\ ClearedInv /\ PublicationInv

(* start accepts a run (pipeline.py:34-37).                                 *)
LEMMA StartAccepts ==
  ASSUME Kept, NEW r \in Runs, Start(r)
  PROVE  Promise!Accept(r)
<1>1. /\ stage[r] = "absent" /\ stage'[r] = "queued"
      /\ UNCHANGED <<initialPlan, results, workspace, packet>>
  BY DEF Start, At, Kept, TypeOK, StageInv, localVars, premiseVars, diskVars
<1>2. PhaseOf(stage[r]) = "idle" /\ PhaseOf(stage'[r]) = "gathering"
  BY <1>1, PhaseTable DEF BeforeCoding
<1>3. /\ PhaseBar[r] = "idle" /\ PhaseBar' = [PhaseBar EXCEPT ![r] = "gathering"]
      /\ PremisesBar' = PremisesBar /\ TestedBar' = TestedBar
      /\ workspace' = workspace /\ OutcomeBar' = OutcomeBar
  BY <1>1, <1>2, BarsMove, BarsAre, BarsStay DEF Kept
<1>4. QED
  BY <1>3 DEF Promise!Accept, PhaseBar, PremisesBar, TestedBar, OutcomeBar, OutcomeOf

(* The plan declares the premises (pipeline.py:46-50).                      *)
LEMMA PlanDeclares ==
  ASSUME Kept, NEW r \in Runs, Plan(r)
  PROVE  Promise!Declare(r)
<1>1. /\ stage[r] = "planning" /\ stage'[r] = "extracting_assumptions"
      /\ pc[r] = "plan" /\ initialPlan'[r] \in InitialPlans
      /\ UNCHANGED <<results, workspace, packet>>
  BY DEF Plan, At, Announce, Kept, TypeOK, StageInv
<1>2. Start(r) \/ Execute(r)
  BY DEF Execute, Continue
<1>3. PhaseOf(stage[r]) = "gathering" /\ PhaseOf(stage'[r]) = "gathering"
  BY <1>1, PhaseTable DEF BeforeCoding
<1>4. LoadBearing(initialPlan'[r]) \in SUBSET AssumptionIds
  <2>1. initialPlan'[r] \in ImplementationPlan
    BY <1>1, SchemaAssumption
  <2>2. QED
    BY <2>1 DEF LoadBearing, ImplementationPlan, Assumptions
<1>5. Tested(results[r]) = {}
  <2>1. results[r] = << >>
    BY <1>1 DEF Kept, PublicationInv, UntestedInv
  <2>2. QED
    BY <2>1 DEF Tested, LatestVerdict
<1>6. /\ PhaseBar[r] = "gathering" /\ TestedBar[r] = {}
      /\ PremisesBar' = [PremisesBar EXCEPT ![r] = LoadBearing(initialPlan'[r])]
      /\ PhaseBar' = PhaseBar /\ TestedBar' = TestedBar
      /\ workspace' = workspace /\ OutcomeBar' = OutcomeBar
  BY <1>1, <1>2, <1>3, <1>5, BarsMove, BarsAre, BarsStay DEF Kept
<1>7. QED
  BY <1>4, <1>6 DEF Promise!Declare, PhaseBar, PremisesBar, TestedBar, OutcomeBar, OutcomeOf

(* run_probes tests them (pipeline.py:57).                                  *)
LEMMA ProbingTests ==
  ASSUME Kept, NEW r \in Runs, RunProbes(r)
  PROVE  Promise!Test(r)
<1>1. /\ stage[r] = "probing" /\ pc[r] = "run_probes"
      /\ UNCHANGED <<initialPlan, workspace, packet>>
  BY DEF RunProbes, At, Kept, StageInv
<1>2. stage'[r] \in {"probing", "blocked_before_code"}
  <2>1. stage' \in {stage, [stage EXCEPT ![r] = "blocked_before_code"]}
    BY DEF RunProbes, Announce
  <2>2. QED
    BY <1>1, <2>1 DEF Kept, TypeOK
<1>3. Start(r) \/ Execute(r)
  BY DEF Execute, Continue
<1>4. PhaseOf(stage[r]) = "gathering" /\ PhaseOf(stage'[r]) = "gathering"
  BY <1>1, <1>2, PhaseTable DEF BeforeCoding
<1>5. Tested(results[r]) = {} /\ Tested(results'[r]) \in SUBSET AssumptionIds
  <2>1. results[r] = << >>
    BY <1>1 DEF Kept, PublicationInv, UntestedInv
  <2>2. QED
    BY <2>1 DEF Tested, LatestVerdict
<1>6. /\ PhaseBar[r] = "gathering" /\ TestedBar[r] = {}
      /\ TestedBar' = [TestedBar EXCEPT ![r] = Tested(results'[r])]
      /\ PhaseBar' = PhaseBar /\ PremisesBar' = PremisesBar
      /\ workspace' = workspace /\ OutcomeBar' = OutcomeBar
  BY <1>1, <1>3, <1>4, <1>5, BarsMove, BarsAre, BarsStay DEF Kept
<1>7. QED
  BY <1>5, <1>6 DEF Promise!Test, PhaseBar, PremisesBar, TestedBar, OutcomeBar, OutcomeOf

(* An open gate clears the run for edits (pipeline.py:104-107).             *)
LEMMA AcceptingClears ==
  ASSUME Kept, NEW r \in Runs, ReplanAccepted(r)
  PROVE  Promise!Clear(r)
<1>1. /\ stage[r] = "replanning" /\ stage'[r] = "coding" /\ pc[r] = "replan"
      /\ UNCHANGED <<initialPlan, results, workspace, packet>>
  BY DEF ReplanAccepted, At, Announce, Kept, TypeOK, StageInv, premiseVars
<1>2. Start(r) \/ Execute(r)
  BY DEF Execute, Continue
<1>3. PhaseOf(stage[r]) = "gathering" /\ PhaseOf(stage'[r]) = "cleared"
  BY <1>1, PhaseTable DEF BeforeCoding
<1>4. LoadBearing(initialPlan[r]) \subseteq Tested(results[r])
  <2>1. UnknownLoadBearing(initialPlan[r], results[r]) = {}
    BY <1>1 DEF Kept, ClearedInv
  <2>2. LoadBearing(initialPlan[r]) \subseteq AssumptionIds
    BY DEF Kept, TypeOK, LoadBearing, ImplementationPlan, Assumptions
  <2>3. QED
    BY <2>1, <2>2 DEF UnknownLoadBearing, Tested
<1>5. /\ PhaseBar[r] = "gathering" /\ PremisesBar[r] \subseteq TestedBar[r]
      /\ PhaseBar' = [PhaseBar EXCEPT ![r] = "cleared"]
      /\ PremisesBar' = PremisesBar /\ TestedBar' = TestedBar
      /\ workspace' = workspace /\ OutcomeBar' = OutcomeBar
  BY <1>1, <1>2, <1>3, <1>4, BarsMove, BarsAre, BarsStay DEF Kept
<1>6. QED
  BY <1>5 DEF Promise!Clear, PhaseBar, PremisesBar, TestedBar, OutcomeBar, OutcomeOf

(* Each edit of apply_patch is an edit (patching.py:9-39).                  *)
LEMMA ApplyingEdits ==
  ASSUME Kept, NEW r \in Runs, ApplyEdit(r)
  PROVE  Promise!Edit(r)
<1>1. /\ stage[r] = "coding" /\ stage' = stage
      /\ UNCHANGED <<initialPlan, results, packet>>
      /\ pc[r] = "apply_patch"
      /\ workspace' = [workspace EXCEPT ![r] = Append(@, NextEdit(r))]
      /\ Editable(NextEdit(r))
  BY DEF ApplyEdit, At, Kept, StageInv, recordVars, localVars, premiseVars
<1>2. Start(r) \/ Execute(r)
  BY DEF Execute, Continue
<1>3. NextEdit(r) \in {path \in Paths : Editable(path)}
  BY <1>1, PathAssumption DEF Editable
<1>4. PhaseOf(stage[r]) = "cleared" /\ PhaseOf(stage'[r]) = "cleared"
  BY <1>1, PhaseTable
<1>5. /\ PhaseBar[r] = "cleared" /\ PhaseBar' = PhaseBar
      /\ PremisesBar' = PremisesBar /\ TestedBar' = TestedBar
      /\ OutcomeBar' = OutcomeBar
  BY <1>1, <1>2, <1>4, BarsAre, BarsStay DEF Kept
<1>6. QED
  BY <1>1, <1>3, <1>5 DEF Promise!Edit, PhaseBar, PremisesBar, TestedBar, OutcomeBar, OutcomeOf

(* The packet in the row concludes (pipeline.py:154 and 259).               *)
LEMMA PublishingConcludes ==
  ASSUME Kept, NEW r \in Runs, Publish(r) \/ PublishBlocked(r)
  PROVE  Promise!Conclude(r)
<1>1. /\ stage'[r] = "complete"
      /\ UNCHANGED <<initialPlan, results, workspace>>
  BY DEF Publish, PublishBlocked, StorePacket, Announce, Kept, TypeOK,
         localVars, premiseVars, diskVars
<1>2. Start(r) \/ Execute(r)
  BY DEF Execute, Continue
<1>3. PhaseOf(stage'[r]) = "concluded"
  BY <1>1, PhaseTable
<1>4. \/ /\ PhaseOf(stage[r]) = "gathering" /\ workspace[r] = << >>
         /\ OutcomeOf(packet'[r]) = "blocked"
      \/ /\ PhaseOf(stage[r]) = "cleared"
         /\ OutcomeOf(packet'[r]) \in {"ready_with_evidence", "blocked"}
  <2>1. CASE Publish(r)
    <3>1. stage[r] = "verifying" /\ packet'[r] = CodedPacket(r)
      BY <2>1 DEF Publish, StorePacket, At, Kept, TypeOK, StageInv
    <3>2. CodedPacket(r) # None /\ CodedPacket(r).verdict = VerdictOf(checks[r])
      BY PacketIsSome DEF Kept, CodedPacket, PacketWith
    <3>3. QED
      BY <3>1, <3>2, PhaseTable DEF OutcomeOf, VerdictOf
  <2>2. CASE PublishBlocked(r)
    <3>1. stage[r] \in BeforeCoding /\ packet'[r] = BlockedPacket(r)
      BY <2>2 DEF PublishBlocked, StorePacket, At, Kept, TypeOK, StageInv
    <3>2. BlockedPacket(r) # None
      BY PacketIsSome DEF Kept
    <3>3. BlockedPacket(r).verdict = "blocked"
      BY DEF BlockedPacket, PacketWith
    <3>4. workspace[r] = << >>
      BY <3>1 DEF Kept, PublicationInv, UntouchedInv
    <3>5. QED
      BY <3>1, <3>2, <3>3, <3>4, PhaseTable DEF OutcomeOf
  <2>3. QED
    BY <2>1, <2>2
<1>5. /\ PhaseBar[r] = PhaseOf(stage[r])
      /\ PhaseBar' = [PhaseBar EXCEPT ![r] = "concluded"]
      /\ OutcomeBar' = [OutcomeBar EXCEPT ![r] = OutcomeOf(packet'[r])]
      /\ PremisesBar' = PremisesBar /\ TestedBar' = TestedBar /\ workspace' = workspace
  BY <1>1, <1>2, <1>3, BarsMove, BarsAre, BarsStay DEF Kept
<1>6. \/ /\ PhaseBar[r] = "gathering" /\ workspace[r] = << >>
         /\ OutcomeBar' = [OutcomeBar EXCEPT ![r] = "blocked"]
      \/ /\ PhaseBar[r] = "cleared"
         /\ \E verdict \in {"ready_with_evidence", "blocked"} :
              OutcomeBar' = [OutcomeBar EXCEPT ![r] = verdict]
  BY <1>4, <1>5
<1>7. QED
  BY <1>5, <1>6 DEF Promise!Conclude, PhaseBar, PremisesBar, TestedBar, OutcomeBar, OutcomeOf

(* An exception fails the run (pipeline.py:156-163).                        *)
LEMMA FailingFails ==
  ASSUME Kept, NEW r \in Runs, RecordFailure(r)
  PROVE  Promise!Fail(r)
<1>1. /\ stage[r] \notin {"complete", "failed", "absent"} /\ stage'[r] = "failed"
      /\ stage[r] \in Stages
      /\ UNCHANGED <<initialPlan, results, workspace, packet>>
  BY DEF RecordFailure, Announce, At, Kept, TypeOK, StageInv, Terminal,
         localVars, premiseVars, diskVars
<1>2. Start(r) \/ Execute(r)
  BY DEF Execute, Continue
<1>3. /\ PhaseOf(stage[r]) \in {"gathering", "cleared"}
      /\ PhaseOf(stage'[r]) = "failed"
  BY <1>1, PhaseTable DEF BeforeCoding, Stages
<1>4. /\ PhaseBar[r] \in {"gathering", "cleared"}
      /\ PhaseBar' = [PhaseBar EXCEPT ![r] = "failed"]
      /\ PremisesBar' = PremisesBar /\ TestedBar' = TestedBar
      /\ workspace' = workspace /\ OutcomeBar' = OutcomeBar
  BY <1>1, <1>2, <1>3, BarsMove, BarsAre, BarsStay DEF Kept
<1>5. QED
  BY <1>4 DEF Promise!Fail, PhaseBar, PremisesBar, TestedBar, OutcomeBar, OutcomeOf

(* What the interlock knows of is otherwise left alone.                     *)
Quiet(r) ==
  /\ PhaseOf(stage'[r]) = PhaseOf(stage[r])
  /\ initialPlan'[r] = initialPlan[r] /\ results'[r] = results[r]
  /\ workspace'[r] = workspace[r] /\ packet'[r] = packet[r]

(* The other steps leave it all alone (pipeline.py:41-154).                 *)
LEMMA OtherStepsAreQuiet ==
  ASSUME Kept, NEW r \in Runs, Execute(r),
         ~ (Plan(r) \/ RunProbes(r) \/ ReplanAccepted(r) \/ ApplyEdit(r)),
         ~ (Publish(r) \/ PublishBlocked(r) \/ RecordFailure(r))
  PROVE  Quiet(r)
<1> USE PhaseTable DEF Kept, TypeOK, StageInv, BeforeCoding, At, Goto, Announce, Quiet,
        recordVars, premiseVars, codingVars, localVars, diskVars
<1>1. CASE CreateWorkspace(r)
  <2>1. stage[r] = "queued" /\ stage'[r] = "planning" /\ workspace'[r] = << >>
    BY <1>1 DEF CreateWorkspace
  <2>2. workspace[r] = << >>
    BY <2>1 DEF PublicationInv, UntouchedInv
  <2>3. QED
    BY <1>1, <2>1, <2>2 DEF CreateWorkspace
<1>2. CASE CompileProbes(r)
  BY <1>2 DEF CompileProbes
<1>3. CASE GoOnToReplan(r)
  BY <1>3 DEF GoOnToReplan
<1>4. CASE PatchApplied(r)
  BY <1>4 DEF PatchApplied
<1>5. CASE \/ Begin(r) \/ BeginRaises(r) \/ StopOnUnknown(r) \/ ReplanRejected(r)
           \/ GeneratePatch(r) \/ RefuseEdit(r) \/ RunChecks(r) \/ WritePacket(r)
           \/ CopyWorkspace(r) \/ CopyFails(r) \/ WriteBlockedPacket(r)
           \/ Raise(r) \/ RecordFailureFails(r)
  <2>1. UNCHANGED <<stage, initialPlan, results, workspace, packet>>
    BY ONLY <1>5 DEF recordVars, premiseVars, codingVars, localVars, diskVars, Begin,
       BeginRaises, StopOnUnknown, ReplanRejected, GeneratePatch, RefuseEdit,
       RunChecks, WritePacket, CopyWorkspace, CopyFails, WriteBlockedPacket,
       Raise, RecordFailureFails
  <2>2. QED
    BY ONLY <2>1 DEF Quiet
<1>6. QED
  BY <1>1, <1>2, <1>3, <1>4, <1>5 DEF Execute, Continue

(* Nothing is promised of a run that was not accepted (pipeline.py:34-37).  *)
LEMMA PromiseStarts == Init => Promise!Init
<1> SUFFICES ASSUME Init PROVE Promise!Init
  OBVIOUS
<1>1. LoadBearing(NoPlan) = {}
  BY DEF LoadBearing, NoPlan
<1>2. Tested(<< >>) = {}
  BY DEF Tested, LatestVerdict
<1>3. \A r \in Runs : /\ PhaseOf(stage[r]) = "idle"
                      /\ LoadBearing(initialPlan[r]) = {}
                      /\ Tested(results[r]) = {} /\ packet[r] = None
  BY <1>1, <1>2, PhaseTable DEF Init
<1>4. workspace = [r \in Runs |-> << >>]
  BY DEF Init
<1>5. QED
  BY <1>3, <1>4 DEF Promise!Init

(* Every step of execute is a step of the interlock or leaves it alone      *)
(* (pipeline.py:41-163).                                                    *)
LEMMA PromiseSteps ==
  Inv /\ PublicationInv /\ [Next]_vars => [Promise!Next]_(Promise!vars)
<1> SUFFICES ASSUME Inv, PublicationInv, [Next]_vars
             PROVE  Promise!Next \/ UNCHANGED Promise!vars
  OBVIOUS
<1>1. Kept
  BY DEF Kept, Inv
<1>2. CASE UNCHANGED vars
  BY <1>2 DEF vars, Promise!vars, recordVars, localVars, premiseVars, diskVars
<1>3. ASSUME NEW r \in Runs, Start(r) \/ Execute(r)
      PROVE  Promise!Next \/ UNCHANGED Promise!vars
  <2>1. \/ Promise!Accept(r) \/ Promise!Declare(r) \/ Promise!Test(r)
        \/ Promise!Clear(r) \/ Promise!Edit(r) \/ Promise!Conclude(r)
        \/ Promise!Fail(r) \/ Quiet(r)
    BY <1>1, <1>3, StartAccepts, PlanDeclares, ProbingTests, AcceptingClears,
       ApplyingEdits, PublishingConcludes, FailingFails, OtherStepsAreQuiet
  <2>2. CASE Quiet(r)
    <3>1. /\ PhaseBar' = PhaseBar /\ PremisesBar' = PremisesBar
          /\ TestedBar' = TestedBar /\ workspace' = workspace
          /\ OutcomeBar' = OutcomeBar
      BY <1>1, <1>3, <2>2, BarsStay DEF Kept, Quiet
    <3>2. QED
      BY <3>1 DEF Promise!vars, PhaseBar, PremisesBar, TestedBar, OutcomeBar, OutcomeOf
  <2>3. QED
    BY <2>1, <2>2 DEF Promise!Next
<1>4. QED
  BY <1>2, <1>3 DEF Next

(* Hence the pipeline keeps the promise (PRODUCT_SPEC.md:19-25 and 42-47).  *)
THEOREM PipelineKeepsPromise == Spec => ImplementsInterlock
BY PromiseStarts, PromiseSteps, Published, PTL
DEF Spec, ImplementsInterlock, Promise!Spec
=============================================================================
