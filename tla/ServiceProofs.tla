---------------------------- MODULE ServiceProofs ----------------------------
(***************************************************************************)
(* Proofs about the service and its page, for any number of runs, workers,  *)
(* process deaths and polls: what holds of one execution survives the death *)
(* of the process, a run is executed at most once, what a dead process left *)
(* is left alone, no run is abandoned without a cause, and the page tells   *)
(* the truth about the run it posted.                                       *)
(***************************************************************************)
EXTENDS Console, PipelineProofs, FiniteSetTheorems

(* What is known of the runs, and of the process.                           *)
RunsInv == Inv /\ PublicationInv

(* The invariants of the pipeline hold when the service starts.             *)
LEMMA RunsStart == ServiceInit => RunsInv
BY InitTypeOK, InitStageInv, InitClearedInv, PublicationStarts
DEF ServiceInit, RunsInv, Inv

(* Except for its death, the process does what the pipeline does.           *)
LEMMA ServiceSteps == [ServiceNext]_serviceVars => [Next]_vars \/ Crash
<1> SUFFICES ASSUME ServiceNext, ~ Crash PROVE [Next]_vars
  BY DEF serviceVars, vars
<1>1. CASE Restart
  BY <1>1 DEF Restart
<1>2. ASSUME NEW r \in Runs, CreateRun(r) \/ Submit(r) \/ Take(r) \/ Work(r)
      PROVE  [Next]_vars
  BY <1>2 DEF CreateRun, Submit, Take, Work, Next, Execute
<1>3. QED
  BY <1>1, <1>2 DEF ServiceNext

(* The death of the process moves threads and nothing else.                 *)
LEMMA CrashKills ==
  ASSUME TypeOK, Crash
  PROVE  /\ \A r \in Runs : \/ pc'[r] = pc[r] /\ r \notin Running
                            \/ pc'[r] = "killed" /\ r \in Running
         /\ pc' \in [Runs -> Locations]
         /\ UNCHANGED <<recordVars, localVars, diskVars>>
<1>1. UNCHANGED <<recordVars, localVars, diskVars>>
  BY DEF Crash
<1>2. pc' = [r \in Runs |-> IF r \in Running THEN "killed" ELSE pc[r]]
  BY DEF Crash
<1>3. pc \in [Runs -> Locations] /\ "killed" \in Locations
  BY DEF TypeOK, Locations
<1>4. QED
  BY <1>1, <1>2, <1>3

(* The death of the process leaves rows and directories as they were        *)
(* (store.py:29-69).                                                        *)
LEMMA CrashKeepsRuns == RunsInv /\ Crash => RunsInv'
<1> SUFFICES ASSUME RunsInv, Crash PROVE RunsInv'
  OBVIOUS
<1>1. TypeOK /\ StageInv /\ ClearedInv /\ PublicationInv
  BY DEF RunsInv, Inv
<1>2. /\ \A r \in Runs : \/ pc'[r] = pc[r] /\ r \notin Running
                         \/ pc'[r] = "killed" /\ r \in Running
      /\ pc' \in [Runs -> Locations]
      /\ UNCHANGED <<recordVars, localVars, diskVars>>
  BY <1>1, CrashKills
<1>3. /\ UNCHANGED <<stage, events, packet, provider>>
      /\ UNCHANGED <<initialPlan, probes, results, gate, revised, patch, checks>>
      /\ UNCHANGED <<workspace, artifacts, packetFile, finalWorkspace>>
  BY <1>2 DEF recordVars, localVars, premiseVars, codingVars, diskVars
<1>4. TypeOK'
  BY <1>1, <1>2, <1>3 DEF TypeOK
<1>5. StageInv'
  BY <1>1, <1>2, <1>3 DEF StageInv, Running, Guarded, Terminal
<1>6. ClearedInv'
  BY <1>1, <1>2, <1>3 DEF ClearedInv, Cleared
<1>7. ASSUME NEW r \in Runs
      PROVE  (/\ UntestedInv(r) /\ EditInv(r) /\ UntouchedInv(r)
              /\ WrittenInv(r) /\ TrailInv(r) /\ PublishedInv(r))'
  <2>1. /\ UntestedInv(r) /\ EditInv(r) /\ UntouchedInv(r)
        /\ WrittenInv(r) /\ TrailInv(r) /\ PublishedInv(r)
    BY <1>1 DEF PublicationInv
  <2>2. UntestedInv(r)'
    BY <1>2, <1>3, <2>1 DEF UntestedInv
  <2>3. EditInv(r)'
    BY <1>2, <1>3, <2>1 DEF EditInv
  <2>4. UntouchedInv(r)'
    BY <1>3, <2>1 DEF UntouchedInv
  <2>5. WrittenInv(r)'
    BY <1>2, <1>3, <2>1 DEF WrittenInv, CodedPacket, BlockedPacket, PacketWith
  <2>6. TrailInv(r)'
    BY <1>2, <1>3, <2>1 DEF TrailInv
  <2>7. PublishedInv(r)'
    BY <1>3, <2>1 DEF PublishedInv
  <2>8. QED
    BY <2>2, <2>3, <2>4, <2>5, <2>6, <2>7
<1>8. QED
  BY <1>4, <1>5, <1>6, <1>7 DEF RunsInv, Inv, PublicationInv

(* Every step of the service keeps them (main.py:19-52).                    *)
LEMMA RunsHold == RunsInv /\ [ServiceNext]_serviceVars => RunsInv'
<1>1. RunsInv /\ [Next]_vars => RunsInv'
  BY NextTypeOK, NextStageInv, NextClearedInv, PublicationHolds DEF RunsInv, Inv
<1>2. QED
  BY <1>1, ServiceSteps, CrashKeepsRuns

(* What is proved of one execution holds whenever processes die             *)
(* (main.py:17-19).                                                         *)
THEOREM DeathBreaksNothing ==
  ServiceSpec => [](/\ PremisesSettledBeforeEdit /\ RevisionBoundToEvidence
                    /\ CodedPacketMatchesSource /\ BlockedBeforeCodeIsPristine
                    /\ StoreAndDiskAgree /\ TrailIsConsistent)
<1>1. RunsInv => PremisesSettledBeforeEdit /\ RevisionBoundToEvidence
  BY ClearedIsSettled DEF RunsInv
<1>2. RunsInv => CodedPacketMatchesSource /\ BlockedBeforeCodeIsPristine
  BY DEF RunsInv, PublicationInv, PublishedInv, CodedPacketMatchesSource,
     BlockedBeforeCodeIsPristine, TrailHas, Told
<1>3. RunsInv => StoreAndDiskAgree
  BY DEF RunsInv, PublicationInv, WrittenInv, StoreAndDiskAgree
<1>4. RunsInv => TrailIsConsistent
  <2>1. RunsInv => \A r \in Runs : TrailInv(r)
    BY DEF RunsInv, PublicationInv
  <2>2. QED
    BY <2>1 DEF TrailInv, TrailIsConsistent, TrailHas, Told, LastStage
<1>5. QED
  BY <1>1, <1>2, <1>3, <1>4, RunsStart, RunsHold, PTL DEF ServiceSpec

(* Nor does the death of the process change a settled run, cut a trail or   *)
(* edit source (store.py:29-69).                                            *)
THEOREM DeathRewritesNothing ==
  ServiceSpec => SettledIsFinal /\ TrailGrowsAndSourceIsGuarded
<1>1. ASSUME RunsInv, [ServiceNext]_serviceVars, NEW s \in Runs
      PROVE  /\ stage[s] \in Terminal =>
                  /\ UNCHANGED <<stage[s], events[s], packet[s]>>
                  /\ UNCHANGED <<workspace[s], artifacts[s], packetFile[s], finalWorkspace[s]>>
             /\ Len(events[s]) <= Len(events'[s])
             /\ \A i \in DOMAIN events[s] : events'[s][i] = events[s][i]
             /\ workspace'[s] # workspace[s] => stage[s] = "coding"
  <2>1. CASE [Next]_vars
    BY <1>1, <2>1, SettledStays, TrailsGrow DEF RunsInv, Same
  <2>2. CASE Crash
    <3>1. UNCHANGED <<recordVars, diskVars>>
      BY <2>2 DEF Crash
    <3>2. events[s] \in Seq(Stages)
      BY <1>1 DEF RunsInv, Inv, TypeOK
    <3>3. QED
      BY <3>1, <3>2 DEF recordVars, diskVars
  <2>3. QED
    BY <1>1, <2>1, <2>2, ServiceSteps
<1>2. RunsInv /\ [ServiceNext]_serviceVars =>
        \A r \in Runs : stage[r] \in Terminal =>
          /\ UNCHANGED <<stage[r], events[r], packet[r]>>
          /\ UNCHANGED <<workspace[r], artifacts[r], packetFile[r], finalWorkspace[r]>>
  BY <1>1
<1>3. RunsInv /\ [ServiceNext]_serviceVars =>
        \A r \in Runs :
          /\ Len(events[r]) <= Len(events'[r])
          /\ \A i \in DOMAIN events[r] : events'[r][i] = events[r][i]
          /\ workspace'[r] # workspace[r] => stage[r] = "coding"
  BY <1>1
<1>4. QED
  BY <1>2, <1>3, RunsStart, RunsHold, PTL
  DEF ServiceSpec, SettledIsFinal, TrailGrowsAndSourceIsGuarded

-----------------------------------------------------------------------------
(* A run waits in one place, once, and the pool is not overdrawn.           *)
PlaceInv ==
  /\ queue \in Seq(Runs) /\ submitting \subseteq Runs
  /\ \A i, j \in DOMAIN queue : queue[i] = queue[j] => i = j
  /\ submitting \cap Queued = {}
  /\ \A r \in submitting \cup Queued :
       pc[r] = "queued" /\ stage[r] = "queued" /\ workspace[r] = << >>
  /\ IsFiniteSet(Running) /\ Cardinality(Running) <= MaxWorkers

(* At first no run is anywhere.                                             *)
LEMMA PlaceStarts == ServiceInit => PlaceInv
<1> SUFFICES ASSUME ServiceInit PROVE PlaceInv
  OBVIOUS
<1>1. queue = << >> /\ DOMAIN queue = {} /\ submitting = {} /\ Queued = {}
  BY DEF ServiceInit, Queued
<1>2. Running = {}
  BY DEF ServiceInit, Init, Running, Guarded
<1>3. QED
  BY <1>1, <1>2, FS_EmptySet, PoolAssumption DEF PlaceInv

(* A thread that goes on was running (pipeline.py:41-163).                  *)
LEMMA ContinueRuns ==
  ASSUME TypeOK, NEW r \in Runs, Continue(r)
  PROVE  pc[r] \in Guarded \cup {"except"}
BY DEF Continue, At, Guarded, CreateWorkspace, Plan, CompileProbes, RunProbes,
   StopOnUnknown, GoOnToReplan, ReplanRejected, ReplanAccepted, GeneratePatch,
   ApplyEdit, RefuseEdit, PatchApplied, RunChecks, WritePacket, CopyWorkspace,
   CopyFails, Publish, WriteBlockedPacket, PublishBlocked, Raise,
   RecordFailure, RecordFailureFails

(* Fewer threads are no problem for the pool.                               *)
LEMMA PoolShrinks ==
  ASSUME NEW S, IsFiniteSet(S), Cardinality(S) <= MaxWorkers, NEW T \in SUBSET S
  PROVE  IsFiniteSet(T) /\ Cardinality(T) <= MaxWorkers
<1>1. /\ IsFiniteSet(T) /\ Cardinality(T) <= Cardinality(S)
      /\ Cardinality(S) \in Nat /\ Cardinality(T) \in Nat
  BY FS_Subset, FS_CardinalityType
<1>2. QED
  BY <1>1, PoolAssumption

(* Only runs are queued.                                                    *)
LEMMA QueuedAreRuns == PlaceInv => Queued \subseteq Runs
BY DEF PlaceInv, Queued

(* A posted run is in no place yet (main.py:50).                            *)
LEMMA CreateRunKeepsPlaces ==
  ASSUME RunsInv, PlaceInv, NEW r \in Runs, CreateRun(r)
  PROVE  PlaceInv'
<1>1. /\ pc[r] = "absent" /\ pc' = [pc EXCEPT ![r] = "queued"]
      /\ stage' = [stage EXCEPT ![r] = "queued"] /\ workspace' = workspace
      /\ submitting' = submitting \cup {r} /\ queue' = queue
  BY DEF CreateRun, Start, At, Goto, diskVars
<1>2. TypeOK /\ stage[r] = "absent" /\ workspace[r] = << >>
  BY <1>1 DEF RunsInv, Inv, StageInv, PublicationInv, UntouchedInv
<1>3. r \notin submitting \cup Queued /\ Queued' = Queued
  BY <1>1 DEF PlaceInv, Queued
<1>4. \A s \in (submitting \cup Queued)' :
        pc'[s] = "queued" /\ stage'[s] = "queued" /\ workspace'[s] = << >>
  <2>1. pc \in [Runs -> Locations] /\ stage \in [Runs -> Stages \cup {"absent"}]
    BY <1>2 DEF TypeOK
  <2>2. (submitting \cup Queued)' = submitting \cup Queued \cup {r}
    BY <1>1, <1>3
  <2>3. pc'[r] = "queued" /\ stage'[r] = "queued" /\ workspace'[r] = << >>
    BY <1>1, <1>2, <2>1
  <2>4. \A s \in submitting \cup Queued :
          pc'[s] = "queued" /\ stage'[s] = "queued" /\ workspace'[s] = << >>
    <3>1. submitting \cup Queued \subseteq Runs
      BY QueuedAreRuns DEF PlaceInv
    <3>2. \A s \in submitting \cup Queued :
            pc[s] = "queued" /\ stage[s] = "queued" /\ workspace[s] = << >>
      BY DEF PlaceInv
    <3>3. QED
      BY <1>1, <2>1, <3>1, <3>2
  <2>5. QED
    BY <2>2, <2>3, <2>4
<1>5. Running' = Running
  BY <1>1, <1>2 DEF Running, Guarded, TypeOK
<1>6. QED
  BY <1>1, <1>3, <1>4, <1>5 DEF PlaceInv

(* A submitted run gets one place in the queue (main.py:51).                *)
LEMMA SubmitKeepsPlaces ==
  ASSUME RunsInv, PlaceInv, NEW r \in Runs, Submit(r)
  PROVE  PlaceInv'
<1>1. /\ UNCHANGED <<pc, stage, workspace>> /\ r \in submitting
      /\ submitting' = submitting \ {r} /\ queue' = Append(queue, r)
  BY DEF Submit, vars, recordVars, diskVars
<1>2. /\ DOMAIN queue' = DOMAIN queue \cup {Len(queue) + 1}
      /\ \A i \in DOMAIN queue : queue'[i] = queue[i]
      /\ queue'[Len(queue) + 1] = r /\ queue' \in Seq(Runs)
      /\ Len(queue) + 1 \notin DOMAIN queue
  BY <1>1 DEF PlaceInv
<1>3. Queued' = Queued \cup {r}
  BY <1>2 DEF Queued
<1>4. \A i \in DOMAIN queue : queue[i] # r
  BY <1>1 DEF PlaceInv, Queued
<1>5. \A i, j \in DOMAIN queue' : queue'[i] = queue'[j] => i = j
  BY <1>2, <1>4 DEF PlaceInv
<1>6. Running' = Running
  BY <1>1 DEF Running
<1>7. QED
  BY <1>1, <1>2, <1>3, <1>5, <1>6 DEF PlaceInv

(* A worker takes the head of the queue, which is there once.               *)
LEMMA TakeKeepsPlaces ==
  ASSUME RunsInv, PlaceInv, NEW r \in Runs, Take(r)
  PROVE  PlaceInv'
<1>1. /\ queue # << >> /\ r = Head(queue) /\ queue' = Tail(queue)
      /\ submitting' = submitting /\ Cardinality(Running) < MaxWorkers
      /\ UNCHANGED <<stage, workspace>>
      /\ \E there \in {"create_workspace", "raised"} : pc' = [pc EXCEPT ![r] = there]
  BY DEF Take, Begin, BeginRaises, Goto, recordVars, diskVars
<1>2. /\ queue' \in Seq(Runs) /\ r = queue[1] /\ 1 \in DOMAIN queue
      /\ \A i \in DOMAIN queue' : i + 1 \in DOMAIN queue /\ queue'[i] = queue[i + 1]
                                  /\ i + 1 # 1 /\ i \in Nat
  BY <1>1 DEF PlaceInv
<1>3. \A i, j \in DOMAIN queue' : queue'[i] = queue'[j] => i = j
  BY <1>2 DEF PlaceInv
<1>4. Queued' \subseteq Queued /\ r \notin Queued' /\ r \in Queued
  BY <1>2 DEF PlaceInv, Queued
<1>5. r \notin submitting
  BY <1>4 DEF PlaceInv
<1>6. \A s \in submitting \cup Queued' : pc'[s] = pc[s]
  <2>1. pc \in [Runs -> Locations] /\ Queued' \subseteq Runs
    BY <1>4, QueuedAreRuns DEF RunsInv, Inv, TypeOK
  <2>2. QED
    BY <1>1, <1>4, <1>5, <2>1 DEF PlaceInv
<1>7. Running' \in SUBSET (Running \cup {r})
  <2>1. pc \in [Runs -> Locations]
    BY DEF RunsInv, Inv, TypeOK
  <2>2. QED
    BY <1>1, <2>1 DEF Running
<1>8. IsFiniteSet(Running \cup {r}) /\ Cardinality(Running \cup {r}) <= MaxWorkers
  <2>1. IsFiniteSet(Running) /\ Cardinality(Running) \in Nat
    BY FS_CardinalityType DEF PlaceInv
  <2>2. /\ IsFiniteSet(Running \cup {r})
        /\ Cardinality(Running \cup {r}) \in {Cardinality(Running), Cardinality(Running) + 1}
    BY <2>1, FS_AddElement
  <2>3. Cardinality(Running) < MaxWorkers /\ MaxWorkers \in Nat
    BY <1>1, PoolAssumption
  <2>4. QED
    BY <2>1, <2>2, <2>3
<1>9. IsFiniteSet(Running') /\ Cardinality(Running') <= MaxWorkers
  BY <1>7, <1>8, PoolShrinks
<1>10. QED
  BY <1>1, <1>2, <1>3, <1>4, <1>6, <1>9 DEF PlaceInv

(* The work of a thread on its run moves no run.                            *)
LEMMA WorkKeepsPlaces ==
  ASSUME RunsInv, PlaceInv, NEW r \in Runs, Work(r)
  PROVE  PlaceInv'
<1>1. /\ UNCHANGED <<queue, submitting>> /\ Continue(r)
      /\ TypeOK /\ (Start(r) \/ Execute(r))
  BY DEF Work, processVars, RunsInv, Inv, Execute
<1>2. r \in Running
  BY <1>1, ContinueRuns DEF Running
<1>3. r \notin submitting \cup Queued
  BY <1>2 DEF PlaceInv, Running, Guarded
<1>4. \A s \in Runs \ {r} : pc'[s] = pc[s] /\ stage'[s] = stage[s]
                            /\ workspace'[s] = workspace[s]
  BY <1>1, OthersStay DEF Same
<1>5. Running' \in SUBSET Running
  BY <1>2, <1>4 DEF Running
<1>6. IsFiniteSet(Running') /\ Cardinality(Running') <= MaxWorkers
  BY <1>5, PoolShrinks DEF PlaceInv
<1>7. submitting \cup Queued \subseteq Runs \ {r} /\ Queued' = Queued
  BY <1>1, <1>3 DEF PlaceInv, Queued
<1>8. QED
  BY <1>1, <1>4, <1>6, <1>7 DEF PlaceInv

(* Every step keeps each run in one place (main.py:19-52).                  *)
LEMMA PlacesHold ==
  RunsInv /\ PlaceInv /\ [ServiceNext]_serviceVars => PlaceInv'
<1> SUFFICES ASSUME RunsInv, PlaceInv, [ServiceNext]_serviceVars PROVE PlaceInv'
  OBVIOUS
<1>1. CASE Crash
  <2>1. queue' = << >> /\ submitting' = {}
    BY <1>1 DEF Crash
  <2>2. Running' = {}
    BY <1>1, CrashKills DEF RunsInv, Inv, Running, Guarded
  <2>3. Queued' = {} /\ DOMAIN queue' = {}
    BY <2>1 DEF Queued
  <2>4. QED
    BY <2>1, <2>2, <2>3, FS_EmptySet, PoolAssumption DEF PlaceInv
<1>2. CASE Restart \/ UNCHANGED serviceVars
  <2>1. UNCHANGED <<queue, submitting, pc, stage, workspace>>
    BY <1>2 DEF Restart, serviceVars, processVars, vars, recordVars, diskVars
  <2>2. Queued' = Queued /\ Running' = Running
    BY <2>1 DEF Queued, Running
  <2>3. QED
    BY <2>1, <2>2 DEF PlaceInv
<1>3. ASSUME NEW r \in Runs, CreateRun(r) \/ Submit(r) \/ Take(r) \/ Work(r)
      PROVE  PlaceInv'
  BY <1>3, CreateRunKeepsPlaces, SubmitKeepsPlaces, TakeKeepsPlaces, WorkKeepsPlaces
<1>4. QED
  BY <1>1, <1>2, <1>3 DEF ServiceNext

(* Hence both invariants hold in every state.                               *)
LEMMA ServiceHolds == ServiceSpec => [](RunsInv /\ PlaceInv)
BY RunsStart, PlaceStarts, RunsHold, PlacesHold, PTL DEF ServiceSpec

(* A run is accepted, queued or with a thread, and once (main.py:17-19 and  *)
(* 46-52).                                                                  *)
THEOREM NoRunIsTakenTwice == ServiceSpec => []EachRunIsInOnePlace
<1>1. PlaceInv => EachRunIsInOnePlace
  BY DEF PlaceInv, EachRunIsInOnePlace
<1>2. QED
  BY <1>1, ServiceHolds, PTL

(* Nobody goes on with the run of a dead process (main.py:17-19,            *)
(* store.py:11-29).                                                         *)
THEOREM OrphanStaysAsItWas == ServiceSpec => OrphanIsNeverResumed
<1>1. ASSUME RunsInv, PlaceInv, [ServiceNext]_serviceVars,
             NEW s \in Runs, Orphaned(s)
      PROVE  /\ Orphaned(s)'
             /\ UNCHANGED <<stage[s], events[s], packet[s], workspace[s],
                            artifacts[s], packetFile[s], finalWorkspace[s]>>
  <2>1. TypeOK /\ StageInv
    BY <1>1 DEF RunsInv, Inv
  <2>2. pc[s] # "absent" /\ s \notin submitting \cup Queued \cup Running
    BY <1>1, <2>1 DEF Orphaned, StageInv
  <2>3. CASE Crash
    <3>1. /\ pc'[s] = pc[s]
          /\ UNCHANGED <<recordVars, localVars, diskVars>>
      BY <2>1, <2>2, <2>3, CrashKills
    <3>2. submitting' = {} /\ Queued' = {}
      BY <2>3 DEF Crash, Queued
    <3>3. s \notin Running'
      BY <2>2, <3>1 DEF Running
    <3>4. QED
      BY <1>1, <3>1, <3>2, <3>3 DEF Orphaned, recordVars, diskVars
  <2>4. CASE Restart \/ UNCHANGED serviceVars
    BY <1>1, <2>4 DEF Restart, serviceVars, processVars, vars, recordVars, diskVars,
       Orphaned, Queued, Running
  <2>5. ASSUME NEW r \in Runs, CreateRun(r) \/ Submit(r) \/ Take(r) \/ Work(r)
        PROVE  /\ Orphaned(s)'
               /\ UNCHANGED <<stage[s], events[s], packet[s], workspace[s],
                              artifacts[s], packetFile[s], finalWorkspace[s]>>
    <3>1. r # s
      <4>1. CreateRun(r) => pc[r] = "absent"
        BY DEF CreateRun, Start, At
      <4>2. Submit(r) => r \in submitting
        BY DEF Submit
      <4>3. Take(r) => r \in Queued
        BY <1>1 DEF Take, PlaceInv, Queued
      <4>4. Work(r) => r \in Running
        BY <2>1, ContinueRuns DEF Work, Running
      <4>5. QED
        BY <2>2, <2>5, <4>1, <4>2, <4>3, <4>4
    <3>2. Same(s)
      <4>1. Start(r) \/ Execute(r) \/ UNCHANGED vars
        BY <2>5 DEF CreateRun, Submit, Take, Work, Execute
      <4>2. UNCHANGED vars => Same(s)
        BY DEF vars, Same, recordVars, localVars, premiseVars, codingVars, diskVars
      <4>3. QED
        BY <2>1, <3>1, <4>1, <4>2, OthersStay
    <3>3. s \notin submitting'
      BY <2>2, <2>5, <3>1 DEF CreateRun, Submit, Take, Work, processVars
    <3>4. s \notin Queued'
      <4>1. CASE queue' = queue
        BY <2>2, <4>1 DEF Queued
      <4>2. CASE queue' = Append(queue, r)
        BY <1>1, <2>2, <3>1, <4>2 DEF Queued, PlaceInv
      <4>3. CASE queue # << >> /\ queue' = Tail(queue)
        BY <1>1, <2>2, <4>3 DEF Queued, PlaceInv
      <4>4. QED
        BY <2>5, <4>1, <4>2, <4>3 DEF CreateRun, Submit, Take, Work, processVars
    <3>5. s \notin Running'
      BY <2>2, <3>2 DEF Running, Same
    <3>6. QED
      BY <1>1, <3>2, <3>3, <3>4, <3>5 DEF Orphaned, Same
  <2>6. QED
    BY <1>1, <2>3, <2>4, <2>5 DEF ServiceNext
<1>2. RunsInv /\ PlaceInv /\ [ServiceNext]_serviceVars =>
        \A r \in Runs : Orphaned(r) =>
          /\ Orphaned(r)'
          /\ UNCHANGED <<stage[r], events[r], packet[r], workspace[r],
                         artifacts[r], packetFile[r], finalWorkspace[r]>>
  BY <1>1
<1>3. QED
  BY <1>2, ServiceHolds, PTL DEF ServiceSpec, OrphanIsNeverResumed

-----------------------------------------------------------------------------
(* A step of the service takes each run on or leaves it alone: nothing is   *)
(* done twice, by one process or by one after another (main.py:19-52,       *)
(* pipeline.py:34-163).                                                     *)
THEOREM RunsDescendToo ==
  ServiceSpec => [][\A r \in Runs : Same(r) \/ Descends(r)]_serviceVars
<1>1. ASSUME RunsInv, Crash, NEW s \in Runs
      PROVE  Same(s) \/ Descends(s)
  <2>1. TypeOK /\ UNCHANGED <<recordVars, localVars, diskVars>>
    BY <1>1 DEF RunsInv, Inv, Crash
  <2>2. CASE s \in Running
    <3>1. pc'[s] = "killed" /\ pc[s] \in Guarded \cup {"except"}
      BY <1>1, <2>1, <2>2, CrashKills DEF Running
    <3>2. QED
      BY <3>1, AheadOrder DEF Guarded, Descends
  <2>3. CASE s \notin Running
    <3>1. pc'[s] = pc[s]
      BY <1>1, <2>1, <2>3, CrashKills
    <3>2. QED
      BY <2>1, <3>1 DEF Same, recordVars, localVars, premiseVars, codingVars, diskVars
  <2>4. QED
    BY <2>2, <2>3
<1>2. RunsInv /\ [ServiceNext]_serviceVars => \A r \in Runs : Same(r) \/ Descends(r)
  BY <1>1, ServiceSteps, RunsGetOn DEF RunsInv
<1>3. QED
  BY <1>2, RunsStart, RunsHold, PTL DEF ServiceSpec

(* What is known of a run whose packet or thread is at an end.              *)
AccountInv(r) ==
  /\ EndsInv(r)
  /\ JudgedInv(r)
  /\ pc[r] = "killed" => crashes > 0
  /\ pc[r] = "queued" => r \in submitting \cup Queued \/ crashes > 0

(* A thread that goes on neither waits for a worker nor is killed           *)
(* (pipeline.py:41-163).                                                    *)
LEMMA ContinueGoesOn ==
  ASSUME TypeOK, NEW r \in Runs, Continue(r)
  PROVE  pc'[r] \notin {"queued", "killed"}
BY DEF Continue, At, Goto, TypeOK, Guarded, localVars, codingVars, CreateWorkspace,
   Plan, CompileProbes, RunProbes, StopOnUnknown, GoOnToReplan, ReplanRejected,
   ReplanAccepted, GeneratePatch, ApplyEdit, RefuseEdit, PatchApplied, RunChecks,
   WritePacket, CopyWorkspace, CopyFails, Publish, StorePacket, WriteBlockedPacket,
   PublishBlocked, Raise, RecordFailure, RecordFailureFails

(* A worker that takes a run takes it alone out of the queue.               *)
LEMMA TakeLeavesQueue ==
  ASSUME PlaceInv, NEW r \in Runs, Take(r)
  PROVE  Queued \subseteq Queued' \cup {r}
<1>1. queue \in Seq(Runs) /\ queue # << >> /\ r = Head(queue) /\ queue' = Tail(queue)
  BY DEF PlaceInv, Take
<1>2. ASSUME NEW i \in DOMAIN queue
      PROVE  queue[i] = r \/ \E j \in DOMAIN queue' : queue'[j] = queue[i]
  <2>1. CASE i = 1
    BY <1>1, <2>1
  <2>2. CASE i # 1
    <3>1. i - 1 \in DOMAIN queue' /\ queue'[i - 1] = queue[i]
      BY <1>1, <1>2, <2>2
    <3>2. QED
      BY <3>1
  <2>3. QED
    BY <2>1, <2>2
<1>3. QED
  BY <1>2 DEF Queued

(* Every step of the service keeps the account of a run (main.py:19-52).    *)
LEMMA AccountsHold ==
  ASSUME RunsInv, PlaceInv, crashes \in Nat, [ServiceNext]_serviceVars,
         NEW s \in Runs, AccountInv(s)
  PROVE  AccountInv(s)'
<1> USE DEF AccountInv
<1>1. Inv /\ PublicationInv /\ TypeOK
  BY DEF RunsInv, Inv
<1>2. CASE Crash
  <2>1. /\ UNCHANGED <<recordVars, localVars, diskVars>> /\ crashes' > 0
    BY <1>2 DEF Crash
  <2>2. pc'[s] = pc[s] \/ pc'[s] = "killed"
    BY <1>1, <1>2, CrashKills
  <2>3. EndsInv(s)'
    BY <2>1, <2>2 DEF EndsInv, recordVars
  <2>4. JudgedInv(s)'
    BY <2>1, <2>2 DEF JudgedInv, Judged, recordVars, localVars, premiseVars, codingVars
  <2>5. QED
    BY <2>1, <2>3, <2>4
<1>3. CASE [Next]_vars /\ ~ Crash
  <2>1. EndsInv(s)' /\ JudgedInv(s)'
    BY <1>1, <1>3, EndsHold, JudgedHolds
  <2>2. crashes' = crashes
    BY <1>3 DEF ServiceNext, serviceVars, processVars, Restart, CreateRun, Submit,
       Take, Work
  <2>3. (pc[s] = "killed" => crashes > 0)'
    <3>1. pc'[s] = "killed" => pc[s] = "killed"
      <4>1. ASSUME NEW r \in Runs, Start(r) \/ Execute(r), pc'[s] = "killed"
            PROVE  pc[s] = "killed"
        <5>1. CASE r = s
          BY <1>1, <4>1, <5>1, ContinueGoesOn
          DEF Execute, Start, Begin, BeginRaises, Goto, TypeOK
        <5>2. CASE r # s
          BY <1>1, <4>1, <5>2, OthersStay DEF Same
        <5>3. QED
          BY <5>1, <5>2
      <4>2. QED
        BY <1>3, <4>1 DEF Next, vars
    <3>2. QED
      BY <2>2, <3>1
  <2>4. (pc[s] = "queued" => s \in submitting \cup Queued \/ crashes > 0)'
    <3> SUFFICES ASSUME pc'[s] = "queued", ~ (crashes > 0)
                 PROVE  s \in submitting' \cup Queued'
      BY <2>2
    <3>1. CASE UNCHANGED serviceVars
      BY <3>1 DEF serviceVars, vars, processVars, Queued
    <3>2. CASE Restart
      BY <3>2 DEF Restart, vars, Queued
    <3>3. ASSUME NEW r \in Runs, CreateRun(r) PROVE s \in submitting' \cup Queued'
      <4>1. submitting' = submitting \cup {r} /\ queue' = queue
            /\ pc' = [pc EXCEPT ![r] = "queued"]
        BY <3>3 DEF CreateRun, Start, Goto
      <4>2. Queued' = Queued /\ (s = r \/ pc[s] = "queued")
        BY <1>1, <4>1 DEF Queued, TypeOK
      <4>3. QED
        BY <4>1, <4>2
    <3>4. ASSUME NEW r \in Runs, Submit(r) PROVE s \in submitting' \cup Queued'
      <4>1. /\ submitting' = submitting \ {r} /\ queue' = Append(queue, r)
            /\ pc' = pc /\ queue \in Seq(Runs)
        BY <3>4 DEF Submit, vars, PlaceInv
      <4>2. Queued \cup {r} \subseteq Queued'
        <5>1. ASSUME NEW i \in DOMAIN queue PROVE queue[i] \in Queued'
          BY <4>1, <5>1 DEF Queued
        <5>2. r \in Queued'
          <6>1. Len(queue) + 1 \in DOMAIN queue' /\ queue'[Len(queue) + 1] = r
            BY <4>1
          <6>2. QED
            BY <6>1 DEF Queued
        <5>3. QED
          BY <5>1, <5>2 DEF Queued
      <4>3. QED
        BY <4>1, <4>2
    <3>5. ASSUME NEW r \in Runs, Take(r) PROVE s \in submitting' \cup Queued'
      <4>1. /\ submitting' = submitting
            /\ \E there \in {"create_workspace", "raised"} :
                 pc' = [pc EXCEPT ![r] = there]
        BY <3>5 DEF Take, Begin, BeginRaises, Goto
      <4>2. s # r /\ pc[s] = "queued"
        BY <1>1, <4>1 DEF TypeOK
      <4>3. QED
        BY <3>5, <4>1, <4>2, TakeLeavesQueue
    <3>6. ASSUME NEW r \in Runs, Work(r) PROVE s \in submitting' \cup Queued'
      <4>1. Continue(r) /\ submitting' = submitting /\ Queued' = Queued
        BY <3>6 DEF Work, processVars, Queued
      <4>2. s # r
        BY <1>1, <4>1, ContinueGoesOn
      <4>3. pc[s] = "queued"
        BY <1>1, <4>1, <4>2, OthersStay DEF Execute, Same
      <4>4. QED
        BY <4>1, <4>3
    <3>7. QED
      BY <1>3, <3>1, <3>2, <3>3, <3>4, <3>5, <3>6 DEF ServiceNext
  <2>5. QED
    BY <2>1, <2>3, <2>4
<1>4. QED
  BY <1>2, <1>3, ServiceSteps

(* Every run has its account in every state.                                *)
LEMMA AccountsAlways ==
  ServiceSpec => [](RunsInv /\ (\A r \in Runs : AccountInv(r)))
<1> DEFINE Deaths == crashes \in Nat
           Accounts == \A r \in Runs : AccountInv(r)
<1>1. ServiceInit => Deaths /\ Accounts
  BY DEF ServiceInit, Init, AccountInv, EndsInv, JudgedInv, Judged
<1>2. Deaths /\ [ServiceNext]_serviceVars => Deaths'
  BY DEF ServiceNext, serviceVars, processVars, Crash, Restart, CreateRun, Submit,
     Take, Work
<1>3. RunsInv /\ PlaceInv /\ Deaths /\ Accounts /\ [ServiceNext]_serviceVars => Accounts'
  BY AccountsHold
<1> HIDE DEF Deaths, Accounts
<1>4. ServiceSpec => []Deaths
  BY <1>1, <1>2, PTL DEF ServiceSpec
<1>5. ServiceSpec => []Accounts
  BY <1>1, <1>3, <1>4, ServiceHolds, PTL DEF ServiceSpec
<1>6. ServiceSpec => [](RunsInv /\ Accounts)
  BY <1>5, ServiceHolds, PTL
<1>7. QED
  BY <1>6 DEF Accounts

(* A run that nobody works on any more though it has not settled was left   *)
(* by a process that died or by a store that failed, or it is still queued  *)
(* for a provider that cannot be built: finding 1 of the README is all that *)
(* one process with a working store leaves behind (main.py:46-52,           *)
(* pipeline.py:39-43 and 155-163).                                          *)
THEOREM OrphansHaveACause ==
  ServiceSpec => [](\A r \in Runs : Orphaned(r) =>
                      \/ crashes > 0
                      \/ ~ StoreReliable
                      \/ stage[r] = "queued" /\ provider[r] \notin Buildable)
<1>1. ASSUME RunsInv, NEW r \in Runs, AccountInv(r), Orphaned(r)
      PROVE  \/ crashes > 0
             \/ ~ StoreReliable
             \/ stage[r] = "queued" /\ provider[r] \notin Buildable
  <2>1. pc[r] \in Locations /\ pc[r] \notin Guarded \cup {"except"}
    BY <1>1 DEF RunsInv, Inv, TypeOK, Orphaned, Running
  <2>2. pc[r] # "absent"
    BY <1>1 DEF RunsInv, Inv, StageInv, Orphaned
  <2>3. pc[r] # "returned"
    BY <1>1 DEF AccountInv, EndsInv, Orphaned, Terminal
  <2>4. CASE pc[r] = "queued"
    BY <1>1, <2>4 DEF AccountInv, Orphaned
  <2>5. CASE pc[r] = "killed"
    BY <1>1, <2>5 DEF AccountInv
  <2>6. CASE pc[r] = "raised"
    BY <1>1, <2>6 DEF AccountInv, EndsInv, Orphaned, Terminal
  <2>7. QED
    BY <2>1, <2>2, <2>3, <2>4, <2>5, <2>6 DEF Locations
<1>2. RunsInv /\ (\A r \in Runs : AccountInv(r)) =>
        \A r \in Runs : Orphaned(r) =>
          \/ crashes > 0
          \/ ~ StoreReliable
          \/ stage[r] = "queued" /\ provider[r] \notin Buildable
  BY <1>1
<1>3. QED
  BY <1>2, AccountsAlways, PTL

(* Whenever processes die, a packet in the table agrees with itself         *)
(* (pipeline.py:57-97 and 207-259, store.py:58-65).                         *)
THEOREM PacketsAgreeInTheTable ==
  ServiceSpec => [](\A r \in Runs : packet[r] # None => Consistent(packet[r]))
<1>1. (\A r \in Runs : AccountInv(r)) =>
        \A r \in Runs : packet[r] # None => Consistent(packet[r])
  BY DEF AccountInv, JudgedInv
<1>2. QED
  BY <1>1, AccountsAlways, PTL

-----------------------------------------------------------------------------
(* The service keeps the promise of the pipeline: no death of the process   *)
(* edits, tests or publishes anything (main.py:17-19, store.py:29-69).      *)
THEOREM ServiceKeepsPromise == ServiceSpec => ImplementsInterlock
<1>1. ServiceInit => Promise!Init
  BY PromiseStarts DEF ServiceInit
<1>2. RunsInv /\ [ServiceNext]_serviceVars => [Promise!Next]_(Promise!vars)
  <2>1. Crash => UNCHANGED Promise!vars
    BY DEF Crash, Promise!vars, recordVars, localVars, premiseVars, diskVars
  <2>2. QED
    BY <2>1, ServiceSteps, PromiseSteps DEF RunsInv
<1>3. QED
  BY <1>1, <1>2, ServiceHolds, PTL DEF ServiceSpec, ImplementsInterlock, Promise!Spec

-----------------------------------------------------------------------------
(* The page.  While it watches, it has a run; the row on its way is one the *)
(* run had, and the last one if it shows an end; a verdict is claimed only  *)
(* while the page is idle, of the packet in the store.                      *)
PageTypeInv ==
  /\ page \in {"idle", "posting", "accepting", "polling", "rendering"}
  /\ run \in Runs \cup {None}
  /\ polls \in 0..MaxPolls
  /\ page = "polling" \/ page = "rendering" => polls < MaxPolls
  /\ page = "accepting" => polls = 0
  /\ page = "posting" => polls = 0
  /\ reply \in Record \cup {None}
  /\ pill \in Stages \cup {"idle", "started", "passed", "stopped"}
  /\ overview \in {"idle", "running", "success", "blocked", "error"}
  /\ panels \in [run : Runs \cup {None}, packet : RunPacket \cup {None},
                 banner : Runs \cup {None}]

WatchInv ==
  page \in {"accepting", "polling", "rendering"} =>
    run \in Runs /\ stage[run] # "absent"

ReplyInv ==
  page = "rendering" =>
    /\ reply \in Record
    /\ reply.packet # None <=> reply.stage = "complete"
    /\ reply.stage \in Terminal => stage[run] = reply.stage /\ packet[run] = reply.packet

ClaimInv ==
  overview \in {"success", "blocked"} =>
    /\ page = "idle" /\ run \in Runs
    /\ stage[run] = "complete"
    /\ panels.run = run
    /\ panels.packet = packet[run]
    /\ panels.packet.first_gate.status = "block" => panels.banner = run
    /\ overview = "success" <=> panels.packet.verdict = "ready_with_evidence"
    /\ overview = "success" <=> pill = "passed"

PageInv == PageTypeInv /\ WatchInv /\ ReplyInv /\ ClaimInv /\ WatchEndsForAReason

(* A row that is there stays there, and an end that is shown stays shown    *)
(* (store.py:29-69, pipeline.py:148-163).                                   *)
LEMMA RowsStay ==
  ASSUME RunsInv, [ServiceNext]_serviceVars, NEW s \in Runs
  PROVE  /\ stage[s] # "absent" => stage'[s] # "absent"
         /\ stage[s] \in Terminal => stage'[s] = stage[s] /\ packet'[s] = packet[s]
<1>1. Inv /\ TypeOK /\ StageInv
  BY DEF RunsInv, Inv
<1>2. CASE Crash \/ UNCHANGED vars
  BY <1>2 DEF Crash, vars, recordVars
<1>3. ASSUME NEW r \in Runs, Start(r) \/ Execute(r)
      PROVE  /\ stage[s] # "absent" => stage'[s] # "absent"
             /\ stage[s] \in Terminal => stage'[s] = stage[s] /\ packet'[s] = packet[s]
  <2>1. stage[s] \in Terminal => Same(s)
    BY <1>1, <1>3, SettledStays DEF Next
  <2>2. r # s => Same(s)
    BY <1>1, <1>3, OthersStay
  <2>3. r = s => (stage[s] # "absent" => stage'[s] # "absent")
    BY <1>1, <1>3, StageMovesOn DEF StageFollows, Stages
  <2>4. QED
    BY <2>1, <2>2, <2>3 DEF Same
<1>4. QED
  BY <1>2, <1>3, ServiceSteps DEF Next

(* The page does nothing to the service but post (app.ts:184-211).          *)
LEMMA ConsoleSteps ==
  PlaceInv /\ [ConsoleNext]_consoleVars => [ServiceNext]_serviceVars
<1>1. ASSUME PlaceInv, ConsoleNext PROVE [ServiceNext]_serviceVars
  <2>1. Click \/ PostFails \/ Fetch \/ FetchFails \/ Render => UNCHANGED serviceVars
    BY DEF Click, PostFails, Fetch, FetchFails, Render, ShowError
  <2>2. Accepted => ServiceNext
    BY <1>1 DEF Accepted, Submit, PlaceInv, ServiceNext
  <2>3. ASSUME NEW r \in Runs, Post(r) \/ Serve(r) PROVE ServiceNext
    BY <2>3 DEF Post, Serve, ServiceNext
  <2>4. DieOrRecover => ServiceNext
    BY DEF DieOrRecover, ServiceNext
  <2>5. QED
    BY <1>1, <2>1, <2>2, <2>3, <2>4 DEF ConsoleNext, PageStep
<1>2. QED
  BY <1>1 DEF consoleVars

(* What holds of the service holds of it under the page.                    *)
LEMMA ServiceHoldsUnderPage == ConsoleSpec => [](RunsInv /\ PlaceInv)
<1>1. ConsoleInit => RunsInv /\ PlaceInv
  BY RunsStart, PlaceStarts DEF ConsoleInit
<1>2. RunsInv /\ PlaceInv /\ [ConsoleNext]_consoleVars => RunsInv' /\ PlaceInv'
  BY ConsoleSteps, RunsHold, PlacesHold
<1>3. QED
  BY <1>1, <1>2, PTL DEF ConsoleSpec

(* The page is a client of the service and nothing more: what is proved of  *)
(* ServiceSpec holds under it (app.ts:184-221).                             *)
THEOREM PageOnlyAsks == ConsoleSpec => ServiceSpec
<1>1. ConsoleInit => ServiceInit
  BY DEF ConsoleInit
<1>2. QED
  BY <1>1, ConsoleSteps, ServiceHoldsUnderPage, PTL DEF ConsoleSpec, ServiceSpec

(* Nothing is claimed at first.                                             *)
LEMMA PageStarts == ConsoleInit => PageInv
BY PollAssumption
DEF ConsoleInit, NoPanels, PageInv, PageTypeInv, WatchInv, ReplyInv, ClaimInv,
    WatchEndsForAReason

(* What the page shows stays true whatever the service does meanwhile       *)
(* (app.ts:197-221).                                                        *)
LEMMA PageIsPatient ==
  ASSUME RunsInv, PageInv, [ServiceNext]_serviceVars, UNCHANGED pageVars
  PROVE  PageInv'
<1>1. UNCHANGED <<page, run, polls, reply, pill, overview, panels>>
  BY DEF pageVars
<1>2. run \in Runs =>
        /\ stage[run] # "absent" => stage'[run] # "absent"
        /\ stage[run] \in Terminal =>
             stage'[run] = stage[run] /\ packet'[run] = packet[run]
  BY RowsStay
<1>3. PageTypeInv'
  BY <1>1 DEF PageInv, PageTypeInv
<1>4. WatchInv'
  BY <1>1, <1>2 DEF PageInv, WatchInv
<1>5. ReplyInv'
  BY <1>1, <1>2 DEF PageInv, WatchInv, ReplyInv
<1>6. ClaimInv'
  BY <1>1, <1>2 DEF PageInv, ClaimInv, Terminal
<1>7. WatchEndsForAReason'
  BY <1>1, <1>2 DEF PageInv, PageTypeInv, WatchEndsForAReason
<1>8. QED
  BY <1>3, <1>4, <1>5, <1>6, <1>7 DEF PageInv

(* A row as the server reads it (main.py:54-58, store.py:67-69).            *)
LEMMA RowIsWhole ==
  ASSUME RunsInv, NEW r \in Runs, stage[r] # "absent"
  PROVE  /\ RecordOf(r) \in Record
         /\ RecordOf(r).packet # None <=> RecordOf(r).stage = "complete"
<1>1. /\ stage[r] \in Stages \cup {"absent"} /\ packet[r] \in RunPacket \cup {None}
  BY DEF RunsInv, Inv, TypeOK
<1>2. packet[r] # None <=> stage[r] = "complete"
  BY DEF RunsInv, PublicationInv, WrittenInv
<1>3. QED
  BY <1>1, <1>2 DEF Record, RecordOf

(* Every step of the page keeps what it shows true (app.ts:103-221).        *)
LEMMA RenderKeepsPage ==
  ASSUME PageInv, Render, RunsInv
  PROVE  PageInv'
<1>1. /\ page = "rendering" /\ run \in Runs /\ reply \in Record /\ polls < MaxPolls
      /\ reply.packet # None <=> reply.stage = "complete"
      /\ reply.stage \in Terminal => stage[run] = reply.stage /\ packet[run] = reply.packet
      /\ overview \notin {"success", "blocked"}
      /\ reply.stage \in Stages /\ reply.packet \in RunPacket \cup {None}
  BY DEF Render, PageInv, PageTypeInv, WatchInv, ReplyInv, ClaimInv, Record
<1>2. /\ polls' = polls + 1 /\ polls' \in 0..MaxPolls /\ reply' = None
      /\ run' = run /\ stage' = stage /\ packet' = packet
      /\ \/ page' = "idle" /\ (reply.stage \in Terminal \/ polls' = MaxPolls)
         \/ page' = "polling" /\ reply.stage \notin Terminal /\ polls' < MaxPolls
  <2>1. /\ polls' = polls + 1 /\ reply' = None
        /\ run' = run /\ stage' = stage /\ packet' = packet
        /\ page' = IF Ends(reply.stage) \/ polls' = MaxPolls THEN "idle" ELSE "polling"
    BY DEF Render, serviceVars, vars, recordVars
  <2>2. polls \in 0..MaxPolls
    BY DEF PageInv, PageTypeInv
  <2>3. polls' \in 0..MaxPolls /\ (polls' # MaxPolls => polls' < MaxPolls)
    BY <1>1, <2>1, <2>2, PollAssumption
  <2>4. QED
    BY <2>1, <2>3 DEF Ends
<1>3. CASE reply.packet = None
  <2>1. pill' = reply.stage /\ overview' = overview /\ panels' = panels
    BY <1>3 DEF Render, RenderPacket
  <2>2. reply.stage \in Terminal => reply.stage = "failed"
    BY <1>1, <1>3 DEF Terminal
  <2>3. PageTypeInv'
    BY <1>1, <1>2, <2>1 DEF PageInv, PageTypeInv
  <2>4. WatchInv'
    BY <1>1, <1>2 DEF Render, PageInv, WatchInv
  <2>5. WatchEndsForAReason'
    BY <1>1, <1>2, <2>1, <2>2 DEF WatchEndsForAReason
  <2>6. ReplyInv' /\ ClaimInv'
    BY <1>1, <1>2, <2>1 DEF ReplyInv, ClaimInv
  <2>7. QED
    BY <2>3, <2>4, <2>5, <2>6 DEF PageInv
<1>4. CASE reply.packet # None
  <2> DEFINE banner == IF reply.packet.first_gate.status = "block" THEN run
                       ELSE panels.banner
  <2>1. /\ pill' = IF reply.packet.verdict = "ready_with_evidence"
                   THEN "passed" ELSE "stopped"
        /\ overview' = IF reply.packet.verdict = "ready_with_evidence"
                       THEN "success" ELSE "blocked"
        /\ panels' = [run |-> run, packet |-> reply.packet, banner |-> banner]
    BY <1>4 DEF Render, RenderPacket, Summary, Filled
  <2>2. /\ reply.stage = "complete" /\ page' = "idle"
        /\ stage[run] = "complete" /\ packet[run] = reply.packet
    BY <1>1, <1>2, <1>4 DEF Terminal
  <2>3. PageTypeInv'
    BY <1>1, <1>2, <2>1, <2>2 DEF PageInv, PageTypeInv
  <2>4. ClaimInv'
    BY <1>1, <1>2, <2>1, <2>2 DEF ClaimInv
  <2>5. WatchEndsForAReason'
    BY <1>1, <1>2, <2>1, <2>2 DEF WatchEndsForAReason, Terminal
  <2>6. WatchInv' /\ ReplyInv'
    BY <2>2 DEF WatchInv, ReplyInv
  <2>7. QED
    BY <2>3, <2>4, <2>5, <2>6 DEF PageInv
<1>5. QED
  BY <1>3, <1>4

(* So do its other steps (app.ts:184-221).                                  *)
LEMMA PageHolds ==
  RunsInv /\ PlaceInv /\ PageInv /\ [ConsoleNext]_consoleVars => PageInv'
<1> SUFFICES ASSUME RunsInv, PlaceInv, PageInv, [ConsoleNext]_consoleVars
             PROVE  PageInv'
  OBVIOUS
<1>1. [ServiceNext]_serviceVars
  BY ConsoleSteps
<1>2. CASE UNCHANGED pageVars
  BY <1>1, <1>2, PageIsPatient
<1>3. CASE Click
  <2>1. /\ page' = "posting" /\ pill' = "started" /\ overview' = "running"
        /\ polls' = 0 /\ reply' = None /\ UNCHANGED <<run, panels>>
    BY <1>3 DEF Click
  <2>2. PageTypeInv'
    BY <2>1, PollAssumption DEF PageInv, PageTypeInv
  <2>3. QED
    BY <2>1, <2>2 DEF PageInv, WatchInv, ReplyInv, ClaimInv, WatchEndsForAReason
<1>4. ASSUME NEW r \in Runs, Post(r) PROVE PageInv'
  <2>1. /\ page = "posting" /\ run' = r /\ page' = "accepting" /\ stage'[r] = "queued"
        /\ UNCHANGED <<polls, reply, pill, overview, panels>>
    BY <1>4 DEF Post, CreateRun, Start, RunsInv, Inv, TypeOK
  <2>2. PageTypeInv'
    BY <2>1 DEF PageInv, PageTypeInv
  <2>3. QED
    BY <2>1, <2>2 DEF PageInv, WatchInv, ReplyInv, ClaimInv, WatchEndsForAReason
<1>5. CASE Accepted
  <2>1. /\ page = "accepting" /\ page' = "polling" /\ stage' = stage
        /\ UNCHANGED <<run, polls, reply, pill, overview, panels>>
    BY <1>5 DEF Accepted, Submit, vars, recordVars
  <2>2. PageTypeInv'
    BY <2>1, PollAssumption DEF PageInv, PageTypeInv
  <2>3. QED
    BY <2>1, <2>2 DEF PageInv, WatchInv, ReplyInv, ClaimInv, WatchEndsForAReason
<1>6. CASE PostFails \/ FetchFails
  <2>1. /\ page' = "idle" /\ pill' = "failed" /\ overview' = "error"
        /\ run' \in {run, None} /\ UNCHANGED <<polls, reply, panels>>
    BY <1>6 DEF PostFails, FetchFails, ShowError
  <2>2. PageTypeInv'
    BY <2>1 DEF PageInv, PageTypeInv, Stages
  <2>3. QED
    BY <2>1, <2>2 DEF PageInv, WatchInv, ReplyInv, ClaimInv, WatchEndsForAReason
<1>7. CASE Fetch
  <2>1. /\ page = "polling" /\ page' = "rendering" /\ reply' = RecordOf(run)
        /\ stage' = stage /\ packet' = packet
        /\ UNCHANGED <<run, polls, pill, overview, panels>>
    BY <1>7 DEF Fetch, serviceVars, vars, recordVars
  <2>2. run \in Runs /\ stage[run] # "absent"
    BY <2>1 DEF PageInv, WatchInv
  <2>3. /\ RecordOf(run) \in Record
        /\ RecordOf(run).packet # None <=> RecordOf(run).stage = "complete"
        /\ RecordOf(run).stage = stage[run] /\ RecordOf(run).packet = packet[run]
    BY <2>2, RowIsWhole DEF RecordOf
  <2>4. PageTypeInv'
    BY <2>1, <2>3 DEF PageInv, PageTypeInv
  <2>5. ReplyInv'
    BY <2>1, <2>3 DEF ReplyInv
  <2>6. QED
    BY <2>1, <2>2, <2>4, <2>5 DEF PageInv, WatchInv, ClaimInv, WatchEndsForAReason
<1>8. CASE Render
  BY <1>8, RenderKeepsPage
<1>9. ConsoleNext => Click \/ PageStep \/ UNCHANGED pageVars
  BY DEF ConsoleNext, DieOrRecover, Serve
<1>10. QED
  BY <1>2, <1>3, <1>4, <1>5, <1>6, <1>7, <1>8, <1>9 DEF PageStep, consoleVars

(* Hence it holds in every state.                                           *)
LEMMA PageTellsTruth == ConsoleSpec => [](RunsInv /\ PlaceInv /\ PageInv)
BY ServiceHoldsUnderPage, PageStarts, PageHolds, PTL DEF ConsoleSpec

(* "Passed" is said of the run posted last, and is earned: its source is    *)
(* the patch shown, checked and copied whole, after every premise shown     *)
(* was tested (app.ts:110-115, pipeline.py:107-154).                        *)
THEOREM PassedIsEarned == ConsoleSpec => []SuccessIsEarned
<1>1. RunsInv /\ PageInv => SuccessIsEarned
  <2> SUFFICES ASSUME RunsInv, PageInv, overview = "success"
               PROVE  /\ run # None /\ panels.run = run /\ pill = "passed"
                      /\ panels.packet.checks = <<"pass", "pass">>
                      /\ workspace[run] = panels.packet.patch
                      /\ finalWorkspace[run] =
                           [state |-> "complete", edits |-> panels.packet.patch]
                      /\ UnknownLoadBearing(panels.packet.initial_plan,
                                            panels.packet.probe_results) = {}
    BY DEF SuccessIsEarned
  <2>1. /\ run \in Runs /\ stage[run] = "complete" /\ panels.run = run
        /\ panels.packet = packet[run] /\ pill = "passed"
        /\ packet[run].verdict = "ready_with_evidence"
    BY DEF PageInv, ClaimInv
  <2>2. packet[run] # None /\ PublishedInv(run)
    BY <2>1 DEF RunsInv, PublicationInv, WrittenInv
  <2>3. packet[run].patch # None
    BY <2>1, <2>2 DEF PublishedInv
  <2>4. QED
    BY <2>1, <2>2, <2>3, RunIdAssumption DEF PublishedInv
<1>2. QED
  BY <1>1, PageTellsTruth, PTL

(* Headline, pill and panels tell of one run and of the packet in the store *)
(* (app.ts:123-171 and 199-208).                                            *)
THEOREM HeadlineIsThePacket == ConsoleSpec => []HeadlineAgreesWithPanels
<1>1. PageInv => HeadlineAgreesWithPanels
  BY DEF PageInv, ClaimInv, HeadlineAgreesWithPanels
<1>2. QED
  BY <1>1, PageTellsTruth, PTL

(* The page never gives up on a run that is going on before its polls are   *)
(* used up, and shows the end there was (app.ts:197-221).                   *)
THEOREM WatchEndsForCause == ConsoleSpec => []WatchEndsForAReason
<1>1. PageInv => WatchEndsForAReason
  BY DEF PageInv
<1>2. QED
  BY <1>1, PageTellsTruth, PTL

(* A page that says "running" waits for its post, or has a run and watches  *)
(* it until it failed or the polls are used up.                             *)
RunningInv ==
  overview = "running" =>
    \/ page = "posting"
    \/ /\ run \in Runs
       /\ page = "idle" => stage[run] = "failed" \/ polls = MaxPolls

(* Every step of page and service keeps it so (app.ts:184-221).             *)
LEMMA RunningHolds ==
  RunsInv /\ PlaceInv /\ PageInv /\ RunningInv /\ [ConsoleNext]_consoleVars => RunningInv'
<1> SUFFICES ASSUME RunsInv, PlaceInv, PageInv, RunningInv, [ConsoleNext]_consoleVars
             PROVE  RunningInv'
  OBVIOUS
<1>1. CASE UNCHANGED pageVars
  <2>1. run \in Runs => (stage[run] = "failed" => stage'[run] = "failed")
    BY ConsoleSteps, RowsStay DEF Terminal
  <2>2. QED
    BY <1>1, <2>1 DEF RunningInv, pageVars
<1>2. CASE Click
  BY <1>2 DEF Click, RunningInv
<1>3. ASSUME NEW r \in Runs, Post(r) PROVE RunningInv'
  BY <1>3 DEF Post, RunningInv
<1>4. CASE Accepted
  BY <1>4 DEF Accepted, PageInv, WatchInv, RunningInv
<1>5. CASE PostFails \/ FetchFails
  BY <1>5 DEF PostFails, FetchFails, ShowError, RunningInv
<1>6. CASE Fetch
  BY <1>6 DEF Fetch, PageInv, WatchInv, RunningInv
<1>7. CASE Render
  <2>1. /\ page = "rendering" /\ run \in Runs /\ run' = run /\ stage' = stage
        /\ page' = IF Ends(reply.stage) \/ polls' = MaxPolls THEN "idle" ELSE "polling"
        /\ reply.packet # None <=> reply.stage = "complete"
        /\ reply.stage \in Terminal => stage[run] = reply.stage
    BY <1>7 DEF Render, PageInv, WatchInv, ReplyInv, serviceVars, vars, recordVars
  <2>2. CASE reply.packet = None
    <3>1. Ends(reply.stage) => stage'[run] = "failed"
      BY <2>1, <2>2 DEF Ends, Terminal
    <3>2. QED
      BY <2>1, <3>1 DEF RunningInv
  <2>3. CASE reply.packet # None
    <3>1. overview' \in {"success", "blocked"}
      BY <1>7, <2>3 DEF Render, RenderPacket, Summary
    <3>2. QED
      BY <3>1 DEF RunningInv
  <2>4. QED
    BY <2>2, <2>3
<1>8. ConsoleNext => Click \/ PageStep \/ UNCHANGED pageVars
  BY DEF ConsoleNext, DieOrRecover, Serve
<1>9. QED
  BY <1>1, <1>2, <1>3, <1>4, <1>5, <1>6, <1>7, <1>8 DEF PageStep, consoleVars

(* Finding 4 of the README is all there is to it: a page that says a run is *)
(* being compared though it watches none was watching a run that failed, or *)
(* its polls are used up (app.ts:176 and 197-221).                          *)
THEOREM UnwatchedHasFailed ==
  ConsoleSpec => [](overview = "running" /\ page = "idle" =>
                      run \in Runs /\ (stage[run] = "failed" \/ polls = MaxPolls))
<1>1. ConsoleInit => RunningInv
  BY DEF ConsoleInit, RunningInv
<1>2. RunningInv => (overview = "running" /\ page = "idle" =>
                       run \in Runs /\ (stage[run] = "failed" \/ polls = MaxPolls))
  BY DEF RunningInv
<1>3. QED
  BY <1>1, <1>2, RunningHolds, PageTellsTruth, PTL DEF ConsoleSpec

(* Types of the process and of the page (main.py:17-19, app.ts:1-40).       *)
THEOREM ConsoleTypes == ConsoleSpec => []ConsoleTypeOK
<1> DEFINE ProcessInv == up \in BOOLEAN /\ crashes \in 0..MaxCrashes
<1>1. ConsoleInit => ProcessInv
  BY PoolAssumption DEF ConsoleInit, ServiceInit
<1>2. ProcessInv /\ [ServiceNext]_serviceVars => ProcessInv'
  <2> SUFFICES ASSUME ProcessInv, [ServiceNext]_serviceVars PROVE ProcessInv'
    OBVIOUS
  <2>1. CASE Crash
    <3>1. up' = FALSE /\ crashes' = crashes + 1 /\ crashes < MaxCrashes
      BY <2>1 DEF Crash
    <3>2. crashes \in 0..MaxCrashes /\ MaxCrashes \in Nat
      BY PoolAssumption
    <3>3. crashes + 1 \in 0..MaxCrashes
      BY <3>1, <3>2
    <3>4. QED
      BY <3>1, <3>3
  <2>2. CASE Restart \/ UNCHANGED serviceVars
    BY <2>2 DEF Restart, serviceVars, processVars
  <2>3. ASSUME NEW r \in Runs, CreateRun(r) \/ Submit(r) \/ Take(r) \/ Work(r)
        PROVE  ProcessInv'
    BY <2>3 DEF CreateRun, Submit, Take, Work, processVars
  <2>4. QED
    BY <2>1, <2>2, <2>3 DEF ServiceNext
<1>3. PlaceInv /\ ProcessInv /\ [ConsoleNext]_consoleVars => ProcessInv'
  BY <1>2, ConsoleSteps
<1>4. RunsInv /\ PlaceInv /\ PageInv /\ ProcessInv => ConsoleTypeOK
  BY DEF RunsInv, Inv, PlaceInv, PageInv, PageTypeInv, ConsoleTypeOK, ServiceTypeOK
<1> HIDE DEF ProcessInv
<1>5. QED
  BY <1>1, <1>3, <1>4, PageTellsTruth, PTL DEF ConsoleSpec
=============================================================================
