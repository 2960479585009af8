------------------------------ MODULE Service -------------------------------
(***************************************************************************)
(* The web service around the pipeline (planprobe/main.py): POST /api/runs  *)
(* creates the row and then submits execute to a pool of MaxWorkers         *)
(* threads, whose results nobody reads.  The process may die at any time    *)
(* and be started again: the store and the runs' directories survive, the   *)
(* executor's queue and its threads do not, and nothing looks for           *)
(* unfinished rows.                                                         *)
(***************************************************************************)
EXTENDS Pipeline, FiniteSets

CONSTANTS MaxWorkers,   \* ThreadPoolExecutor(max_workers=2)
          MaxCrashes    \* bound on process deaths

ASSUME PoolAssumption ==
  /\ MaxWorkers \in Nat \ {0}
  /\ MaxCrashes \in Nat

VARIABLES up,           \* the process is running
          submitting,   \* runs whose handler has created the row, no more
          queue,        \* the executor's work queue, first in first out
          crashes       \* process deaths so far

processVars == <<up, submitting, queue, crashes>>
serviceVars == <<vars, processVars>>

ServiceTypeOK ==
  /\ TypeOK
  /\ up \in BOOLEAN
  /\ submitting \subseteq Runs
  /\ queue \in Seq(Runs)
  /\ crashes \in 0..MaxCrashes

ServiceInit ==
  /\ Init
  /\ up = TRUE
  /\ submitting = {}
  /\ queue = << >>
  /\ crashes = 0

Queued == {queue[i] : i \in DOMAIN queue}

(* Variant: an exception costs the pool its thread.                        *)
RunningOrRaised == {r \in Runs : pc[r] \in Guarded \cup {"except", "raised"}}

(* Runs a worker thread is busy with.                                      *)
Running == {r \in Runs : pc[r] \in Guarded \cup {"except"}}

(* A fresh UUID; which of the unused ones does not matter.                 *)
IsFresh(r) ==
  /\ pc[r] = "absent"
  /\ r = CHOOSE unused \in Runs : pc[unused] = "absent"

(* create_run: two statements; requests are handled concurrently.          *)
CreateRun(r) ==
  /\ up
  /\ IsFresh(r)
  /\ Start(r)
  /\ submitting' = submitting \cup {r}
  /\ UNCHANGED <<up, queue, crashes>>

(* Variant: the handler may submit again.                                  *)
SubmitAndStay(r) ==
  /\ up
  /\ r \in submitting
  /\ Len(queue) < 3
  /\ queue' = Append(queue, r)
  /\ UNCHANGED <<vars, up, submitting, crashes>>

Submit(r) ==
  /\ up
  /\ r \in submitting
  /\ submitting' = submitting \ {r}
  /\ queue' = Append(queue, r)
  /\ UNCHANGED <<vars, up, crashes>>

(* An idle worker takes the oldest work item.                              *)
Take(r) ==
  /\ up
  /\ queue # << >>
  /\ r = Head(queue)
  /\ Cardinality(Running) < MaxWorkers
  /\ queue' = Tail(queue)
  /\ Begin(r) \/ BeginRaises(r)
  /\ UNCHANGED <<up, submitting, crashes>>

Work(r) ==
  /\ up
  /\ Continue(r)
  /\ UNCHANGED processVars

(* The process dies: threads stop where they are, queue and handlers go.   *)
Crash ==
  /\ up
  /\ crashes < MaxCrashes
  /\ up' = FALSE
  /\ crashes' = crashes + 1
  /\ submitting' = {}
  /\ queue' = << >>
  /\ pc' = [r \in Runs |-> IF r \in Running THEN "killed" ELSE pc[r]]
  /\ UNCHANGED <<recordVars, localVars, diskVars>>

(* Variant: a run the dead process left is queued again as it is.          *)
RestartAndResume ==
  /\ ~ up
  /\ up' = TRUE
  /\ \E r \in Runs :
       /\ pc[r] = "killed"
       /\ pc' = [pc EXCEPT ![r] = "queued"]
       /\ queue' = <<r>>
  /\ UNCHANGED <<recordVars, localVars, diskVars, submitting, crashes>>

(* RunStore opens the existing database; the pool starts empty.            *)
Restart ==
  /\ ~ up
  /\ up' = TRUE
  /\ UNCHANGED <<vars, submitting, queue, crashes>>

ServiceNext ==
  \/ Crash
  \/ Restart
  \/ \E r \in Runs : CreateRun(r) \/ Submit(r) \/ Take(r) \/ Work(r)

ServiceSpec == ServiceInit /\ [][ServiceNext]_serviceVars

(* The handler's second statement, the pool's threads and the calls they    *)
(* make (all of them return or time out) are scheduled eventually; nothing  *)
(* obliges a client to post, or the process to die or to come back.         *)
FairServiceSpec ==
  /\ ServiceSpec
  /\ \A r \in Runs :
       /\ WF_serviceVars(Submit(r))
       /\ WF_serviceVars(Take(r))
       /\ WF_serviceVars(Work(r))

-----------------------------------------------------------------------------
(* A run is in one place: being accepted, queued, or with a thread.  Queued  *)
(* once, so that no two workers ever execute the same run, and not yet       *)
(* begun (main.py:50-51).                                                    *)
EachRunIsInOnePlace ==
  /\ \A i, j \in DOMAIN queue : queue[i] = queue[j] => i = j
  /\ submitting \cap Queued = {}
  /\ \A r \in submitting \cup Queued :
       pc[r] = "queued" /\ stage[r] = "queued" /\ workspace[r] = << >>
  /\ Cardinality(Running) <= MaxWorkers

(* No process will work on the run any more, though it has not settled.     *)
Orphaned(r) ==
  /\ stage[r] \notin Terminal \cup {"absent"}
  /\ r \notin submitting \cup Queued \cup Running

(* A run that a dead process left unfinished is never picked up again: its   *)
(* half-edited workspace is not completed, verified or published by a later  *)
(* process (no code reads unfinished rows: main.py:17-19, store.py:11-29).   *)
OrphanIsNeverResumed ==
  [][\A r \in Runs : Orphaned(r) =>
       /\ Orphaned(r)'
       /\ UNCHANGED <<stage[r], events[r], packet[r], workspace[r],
                      artifacts[r], packetFile[r], finalWorkspace[r]>>]_serviceVars

(* A run accepted with 202 settles, whatever runs are queued before it, or   *)
(* was orphaned by the death of the process (main.py:46-52).                 *)
AcceptedRunSettlesOrIsOrphaned ==
  \A r \in Runs : stage[r] = "queued" ~> stage[r] \in Terminal \/ Orphaned(r)
=============================================================================
