------------------------------ MODULE Preflight ------------------------------
(***************************************************************************)
(* "planprobe preflight" as a coding agent calls it, time and again           *)
(* (planprobe/cli.py, planprobe/preflight.py): plan, probe and decide without *)
(* touching the source, write the packet to --output if asked to, and tell    *)
(* the decision by the exit status.  What raises anywhere ends the process    *)
(* with Python's status 1, arguments argparse does not accept with 2, output  *)
(* that cannot be flushed at the end with 120, a kill with 137.               *)
(* The demo command and --help, which end with 0 and decide nothing, are not  *)
(* preflights and left out.                                                   *)
(***************************************************************************)
EXTENDS Gate

CONSTANTS InitialPlans,     \* plans a model may propose
          ProbeLists,       \* probe lists a model may compile
          MaxInvocations,   \* bound on the calls of the agent
          None

ASSUME AnswerAssumption ==
  /\ InitialPlans \subseteq ImplementationPlan
  /\ ProbeLists \subseteq Seq(ProbeSpec)
  /\ MaxInvocations \in Nat
  /\ None \notin {0, 1, 2, 120, 137}

VARIABLES at,            \* where the process is, "exited" between two
          invocations,   \* processes started so far
          requested,     \* whether --output was given
          plan, probes, results, gate,
          file,          \* what is at the --output path
          printed,       \* what went to standard output
          status         \* the exit status of the last process, or None

packetVars == <<plan, probes, results, gate>>
vars == <<at, invocations, requested, packetVars, file, printed, status>>

(* The file and the output of an invocation: its packet, or a part of it.   *)
Nothing == [by |-> 0, gate |-> "none"]
Truncated == [by |-> invocations, gate |-> "none"]

(* Variant: the verdict of a whole run in place of the gate's status.      *)
PacketWithVerdict ==
  [by |-> invocations, gate |-> IF gate.status = "pass" THEN "ready_with_evidence"
                                ELSE "blocked"]

PreflightPacket == [by |-> invocations, gate |-> gate.status]

Written == [by : 0..MaxInvocations, gate : {"pass", "block", "none"}]

TypeOK ==
  /\ at \in {"exited", "workspace", "plan", "compile_probes", "run_probes",
             "decide", "output", "print", "exit"}
  /\ invocations \in 0..MaxInvocations
  /\ requested \in BOOLEAN
  /\ plan \in ImplementationPlan
  /\ probes \in Seq(ProbeSpec)
  /\ results \in Seq(ProbeResult)
  /\ gate \in GateDecision
  /\ file \in Written
  /\ printed \in Written
  /\ status \in {0, 1, 2, 120, 137, None}

Init ==
  /\ at = "exited"
  /\ invocations = 0
  /\ requested = FALSE
  /\ plan = [assumptions |-> {}, evidence_ids |-> {}]
  /\ probes = << >>
  /\ results = << >>
  /\ gate = [status |-> "pass", blocked_assumptions |-> {}]
  /\ file = Nothing
  /\ printed = Nothing
  /\ status = None

Exit(code) == at' = "exited" /\ status' = code

-----------------------------------------------------------------------------
Invoke ==
  /\ at = "exited"
  /\ invocations < MaxInvocations
  /\ invocations' = invocations + 1
  /\ requested' \in BOOLEAN
  /\ printed' = Nothing
  /\ UNCHANGED <<packetVars, file>>

(* parse_args returns ...                                                  *)
Parse ==
  /\ Invoke
  /\ at' = "workspace"
  /\ UNCHANGED status

(* ... or exits: an unknown command, an unknown option, a missing value.   *)
ParseFails == Invoke /\ Exit(2)

(* Not a directory, an unknown or unbuildable provider, a model call that   *)
(* raises; probes themselves do not raise (run_probe_fail_closed).          *)
Raise ==
  /\ at \in {"workspace", "plan", "compile_probes"}
  /\ Exit(1)
  /\ UNCHANGED <<invocations, requested, packetVars, file, printed>>

OpenWorkspace ==
  /\ at = "workspace"
  /\ at' = "plan"
  /\ UNCHANGED <<invocations, requested, packetVars, file, printed, status>>

Plan ==
  /\ at = "plan"
  /\ plan' \in InitialPlans
  /\ at' = "compile_probes"
  /\ UNCHANGED <<invocations, requested, probes, results, gate, file, printed, status>>

CompileProbes ==
  /\ at = "compile_probes"
  /\ probes' \in ProbeLists
  /\ at' = "run_probes"
  /\ UNCHANGED <<invocations, requested, plan, results, gate, file, printed, status>>

RunProbes ==
  /\ at = "run_probes"
  /\ results' \in ProbeOutcomes(probes)
  /\ at' = "decide"
  /\ UNCHANGED <<invocations, requested, plan, probes, gate, file, printed, status>>

Decide ==
  /\ at = "decide"
  /\ gate' = DecideGate(plan, results)
  /\ at' = IF requested THEN "output" ELSE "print"
  /\ UNCHANGED <<invocations, requested, plan, probes, results, file, printed, status>>

(* Variant: a packet that is already there is kept.                        *)
KeepOutput ==
  /\ at = "output"
  /\ file' = IF file.gate = "none" THEN PreflightPacket ELSE file
  /\ at' = "print"
  /\ UNCHANGED <<invocations, requested, packetVars, printed, status>>

WriteOutput ==
  /\ at = "output"
  /\ file' = PreflightPacket
  /\ at' = "print"
  /\ UNCHANGED <<invocations, requested, packetVars, printed, status>>

(* mkdir raises, or write_text does after it has truncated the file.       *)
WriteOutputFails ==
  /\ at = "output"
  /\ file' \in {file, Truncated}
  /\ Exit(1)
  /\ UNCHANGED <<invocations, requested, packetVars, printed>>

PrintPacket ==
  /\ at = "print"
  /\ printed' = PreflightPacket
  /\ at' = "exit"
  /\ UNCHANGED <<invocations, requested, packetVars, file, status>>

(* Standard output cannot encode the packet or, when it is flushed, is      *)
(* closed.                                                                  *)
PrintFails ==
  /\ at = "print"
  /\ printed' \in {printed, Truncated}
  /\ \E code \in {1, 120} : Exit(code)
  /\ UNCHANGED <<invocations, requested, packetVars, file>>

(* Variant: only a contradiction is worth a status.                        *)
ExitCodeOfContradictions ==
  IF \E i \in DOMAIN results : results[i].verdict = "contradicted" THEN 2 ELSE 0

ExitCode == IF gate.status = "block" THEN 2 ELSE 0

Leave ==
  /\ at = "exit"
  /\ Exit(ExitCode)
  /\ UNCHANGED <<invocations, requested, packetVars, file, printed>>

(* The agent's client gives up and kills the process.                      *)
Killed ==
  /\ at # "exited"
  /\ file' \in IF at = "output" THEN {file, Truncated} ELSE {file}
  /\ printed' \in IF at = "print" THEN {printed, Truncated} ELSE {printed}
  /\ Exit(137)
  /\ UNCHANGED <<invocations, requested, packetVars>>

Next ==
  \/ Parse \/ ParseFails \/ Raise \/ OpenWorkspace \/ Plan \/ CompileProbes
  \/ RunProbes \/ Decide \/ WriteOutput \/ WriteOutputFails
  \/ PrintPacket \/ PrintFails \/ Leave \/ Killed

Spec == Init /\ [][Next]_vars

-----------------------------------------------------------------------------
(* "0: every load-bearing premise was verified by allowlisted repository    *)
(* probes" (AGENT_INTEGRATION.md:17): an agent that writes code after       *)
(* status 0 has a verified result for each premise of the plan just made    *)
(* (cli.py:48-50, gate.py:7-15).                                            *)
ZeroMeansVerified ==
  at = "exited" /\ status = 0 =>
    \A a \in LoadBearing(plan) : \E i \in DOMAIN results :
      results[i].assumption_id = a /\ results[i].verdict = "verified"

(* Exit status, standard output and file tell the same of the same          *)
(* invocation: a decision that was told by the status was printed, and      *)
(* written before if that was asked for (cli.py:42-50).                     *)
ChannelsAgree ==
  at = "exited" /\ (status = 0 \/ (status = 2 /\ printed # Nothing)) =>
    LET told == [by |-> invocations, gate |-> IF status = 0 THEN "pass" ELSE "block"] IN
    printed = told /\ (requested => file = told)

-----------------------------------------------------------------------------
(* The inductive invariant (PreflightProofs).                              *)

(* The decision is one on the plan and the results that are still there.   *)
DecisionInv ==
  /\ at \in {"output", "print", "exit"} => gate = DecideGate(plan, results)
  /\ at = "exited" /\ status = 0 =>
       gate = DecideGate(plan, results) /\ gate.status = "pass"

(* What was asked for is written before it is printed, and printed before  *)
(* the status is chosen.                                                   *)
ChannelInv ==
  /\ at \in {"print", "exit"} /\ requested => file = PreflightPacket
  /\ at = "exit" => printed = PreflightPacket

Inv == TypeOK /\ DecisionInv /\ ChannelInv /\ ChannelsAgree
=============================================================================
