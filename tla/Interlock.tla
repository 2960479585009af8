----------------------------- MODULE Interlock ------------------------------
(***************************************************************************)
(* What PlanProbe promises of every run, without saying how: source may be *)
(* edited only after the run's load-bearing premises were all tested, only *)
(* on editable paths, and a run that is never cleared can only conclude    *)
(* "blocked" with its source untouched (docs/PRODUCT_SPEC.md:19-25 and     *)
(* 42-47).  Pipeline implements it.                                        *)
(***************************************************************************)
EXTENDS Sequences

CONSTANTS Runs,       \* run ids
          Premises,   \* assumption ids
          Source      \* paths that a patch may touch

VARIABLES phase,      \* where the run stands
          premises,   \* its load-bearing premises
          tested,     \* premises with a decided verdict
          edits,      \* the source edits made so far
          outcome     \* the published verdict

vars == <<phase, premises, tested, edits, outcome>>

Init ==
  /\ phase = [r \in Runs |-> "idle"]
  /\ premises = [r \in Runs |-> {}]
  /\ tested = [r \in Runs |-> {}]
  /\ edits = [r \in Runs |-> << >>]
  /\ outcome = [r \in Runs |-> "none"]

Accept(r) ==
  /\ phase[r] = "idle"
  /\ phase' = [phase EXCEPT ![r] = "gathering"]
  /\ UNCHANGED <<premises, tested, edits, outcome>>

(* The premises are fixed before anything is tested.                       *)
Declare(r) ==
  /\ phase[r] = "gathering"
  /\ tested[r] = {}
  /\ \E ps \in SUBSET Premises : premises' = [premises EXCEPT ![r] = ps]
  /\ UNCHANGED <<phase, tested, edits, outcome>>

Test(r) ==
  /\ phase[r] = "gathering"
  /\ \E ts \in SUBSET Premises :
       /\ tested[r] \subseteq ts
       /\ tested' = [tested EXCEPT ![r] = ts]
  /\ UNCHANGED <<phase, premises, edits, outcome>>

Clear(r) ==
  /\ phase[r] = "gathering"
  /\ premises[r] \subseteq tested[r]
  /\ phase' = [phase EXCEPT ![r] = "cleared"]
  /\ UNCHANGED <<premises, tested, edits, outcome>>

Edit(r) ==
  /\ phase[r] = "cleared"
  /\ \E path \in Source : edits' = [edits EXCEPT ![r] = Append(@, path)]
  /\ UNCHANGED <<phase, premises, tested, outcome>>

(* Only a cleared run can conclude ready.                                  *)
Conclude(r) ==
  /\ \/ /\ phase[r] = "gathering"
        /\ edits[r] = << >>
        /\ outcome' = [outcome EXCEPT ![r] = "blocked"]
     \/ /\ phase[r] = "cleared"
        /\ \E verdict \in {"ready_with_evidence", "blocked"} :
             outcome' = [outcome EXCEPT ![r] = verdict]
  /\ phase' = [phase EXCEPT ![r] = "concluded"]
  /\ UNCHANGED <<premises, tested, edits>>

Fail(r) ==
  /\ phase[r] \in {"gathering", "cleared"}
  /\ phase' = [phase EXCEPT ![r] = "failed"]
  /\ UNCHANGED <<premises, tested, edits, outcome>>

Next == \E r \in Runs :
  \/ Accept(r) \/ Declare(r) \/ Test(r) \/ Clear(r)
  \/ Edit(r) \/ Conclude(r) \/ Fail(r)

Spec == Init /\ [][Next]_vars
=============================================================================
