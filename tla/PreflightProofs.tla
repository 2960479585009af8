-------------------------- MODULE PreflightProofs ---------------------------
(***************************************************************************)
(* What an agent may rely on after "planprobe preflight", for every plan,   *)
(* every list of probes, any number of invocations and every failure.       *)
(***************************************************************************)
EXTENDS Preflight, GateProofs

(* The packet of an invocation is something that can be written.            *)
LEMMA PacketsAreWritten ==
  ASSUME TypeOK
  PROVE  /\ PreflightPacket \in Written
         /\ Truncated \in Written
         /\ Nothing \in Written
<1>1. invocations \in 0..MaxInvocations /\ 0 \in 0..MaxInvocations
  BY AnswerAssumption DEF TypeOK
<1>2. gate \in GateDecision
  BY DEF TypeOK
<1>3. gate.status \in {"pass", "block"}
  BY <1>2 DEF GateDecision
<1>4. QED
  BY <1>1, <1>3 DEF PreflightPacket, Truncated, Nothing, Written

(* Before the first step everything has its type.                           *)
LEMMA InitTypeOK == Init => TypeOK
<1>1. SUFFICES ASSUME Init PROVE TypeOK
  OBVIOUS
<1>2. plan \in ImplementationPlan
  BY <1>1 DEF Init, ImplementationPlan
<1>3. gate \in GateDecision
  BY <1>1 DEF Init, GateDecision
<1>4. file \in Written /\ printed \in Written
  BY <1>1, AnswerAssumption DEF Init, Nothing, Written
<1>5. probes \in Seq(ProbeSpec) /\ results \in Seq(ProbeResult)
  BY <1>1 DEF Init
<1>6. invocations \in 0..MaxInvocations
  BY <1>1, AnswerAssumption DEF Init
<1>7. QED
  BY <1>1, <1>2, <1>3, <1>4, <1>5, <1>6 DEF Init, TypeOK

(* Types (models.py, cli.py).                                               *)
LEMMA NextTypeOK == TypeOK /\ [Next]_vars => TypeOK'
<1> SUFFICES ASSUME TypeOK, [Next]_vars
             PROVE  TypeOK'
  OBVIOUS
<1>w. PreflightPacket \in Written /\ Truncated \in Written /\ Nothing \in Written
  BY PacketsAreWritten
<1>1. CASE Parse
  BY <1>1, <1>w, AnswerAssumption DEF TypeOK, Parse, Invoke, packetVars
<1>2. CASE ParseFails
  BY <1>2, <1>w, AnswerAssumption DEF TypeOK, ParseFails, Invoke, Exit, packetVars
<1>3. CASE Raise
  BY <1>3 DEF TypeOK, Raise, Exit, packetVars
<1>4. CASE OpenWorkspace
  BY <1>4 DEF TypeOK, OpenWorkspace, packetVars
<1>5. CASE Plan
  BY <1>5, AnswerAssumption DEF TypeOK, Plan
<1>6. CASE CompileProbes
  BY <1>6, AnswerAssumption DEF TypeOK, CompileProbes
<1>7. CASE RunProbes
  <2>1. results' \in Seq(ProbeResult)
    BY <1>7, OutcomesAreResults DEF TypeOK, RunProbes
  <2>2. QED
    BY <1>7, <2>1 DEF TypeOK, RunProbes
<1>8. CASE Decide
  <2>1. gate' \in GateDecision
    BY <1>8, GateDecisionType DEF TypeOK, Decide
  <2>2. QED
    BY <1>8, <2>1 DEF TypeOK, Decide
<1>9. CASE WriteOutput
  BY <1>9, <1>w DEF TypeOK, WriteOutput, packetVars
<1>10. CASE WriteOutputFails
  BY <1>10, <1>w DEF TypeOK, WriteOutputFails, Exit, packetVars
<1>11. CASE PrintPacket
  BY <1>11, <1>w DEF TypeOK, PrintPacket, packetVars
<1>12. CASE PrintFails
  BY <1>12, <1>w DEF TypeOK, PrintFails, Exit, packetVars
<1>13. CASE Leave
  BY <1>13 DEF TypeOK, Leave, Exit, ExitCode, packetVars
<1>14. CASE Killed
  BY <1>14, <1>w DEF TypeOK, Killed, Exit, packetVars
<1>15. CASE UNCHANGED vars
  BY <1>15 DEF TypeOK, vars, packetVars
<1>16. QED
  BY <1>1, <1>2, <1>3, <1>4, <1>5, <1>6, <1>7, <1>8, <1>9, <1>10, <1>11,
     <1>12, <1>13, <1>14, <1>15 DEF Next

(* A decision, once told, is never about a plan or results that changed     *)
(* since (cli.py:37-50).                                                    *)
LEMMA NextDecisionInv == Inv /\ [Next]_vars => DecisionInv'
<1> SUFFICES ASSUME Inv, [Next]_vars
             PROVE  DecisionInv'
  OBVIOUS
<1> USE DEF Inv, DecisionInv
<1>1. CASE Parse
  BY <1>1 DEF Parse, Invoke
<1>2. CASE ParseFails
  BY <1>2 DEF ParseFails, Invoke, Exit
<1>3. CASE Raise
  BY <1>3 DEF Raise, Exit
<1>4. CASE OpenWorkspace
  BY <1>4 DEF OpenWorkspace
<1>5. CASE Plan
  BY <1>5 DEF Plan
<1>6. CASE CompileProbes
  BY <1>6 DEF CompileProbes
<1>7. CASE RunProbes
  BY <1>7 DEF RunProbes
<1>8. CASE Decide
  BY <1>8 DEF Decide
<1>9. CASE WriteOutput
  BY <1>9 DEF WriteOutput, packetVars
<1>10. CASE WriteOutputFails
  BY <1>10 DEF WriteOutputFails, Exit
<1>11. CASE PrintPacket
  BY <1>11 DEF PrintPacket, packetVars
<1>12. CASE PrintFails
  BY <1>12 DEF PrintFails, Exit
<1>13. CASE Leave
  <2>1. gate.status \in {"pass", "block"}
    BY DEF TypeOK, GateDecision
  <2>2. QED
    BY <1>13, <2>1 DEF Leave, Exit, ExitCode, packetVars
<1>14. CASE Killed
  BY <1>14 DEF Killed, Exit
<1>15. CASE UNCHANGED vars
  BY <1>15 DEF vars, packetVars
<1>16. QED
  BY <1>1, <1>2, <1>3, <1>4, <1>5, <1>6, <1>7, <1>8, <1>9, <1>10, <1>11,
     <1>12, <1>13, <1>14, <1>15 DEF Next

(* File and output are those of this invocation (cli.py:42-47).             *)
LEMMA NextChannelInv == Inv /\ [Next]_vars => ChannelInv'
<1> SUFFICES ASSUME Inv, [Next]_vars
             PROVE  ChannelInv'
  OBVIOUS
<1> USE DEF Inv, ChannelInv, PreflightPacket
<1>1. CASE Parse
  BY <1>1 DEF Parse
<1>2. CASE ParseFails
  BY <1>2 DEF ParseFails, Exit
<1>3. CASE Raise
  BY <1>3 DEF Raise, Exit
<1>4. CASE OpenWorkspace
  BY <1>4 DEF OpenWorkspace
<1>5. CASE Plan
  BY <1>5 DEF Plan
<1>6. CASE CompileProbes
  BY <1>6 DEF CompileProbes
<1>7. CASE RunProbes
  BY <1>7 DEF RunProbes
<1>8. CASE Decide
  BY <1>8 DEF Decide
<1>9. CASE WriteOutput
  BY <1>9 DEF WriteOutput, packetVars
<1>10. CASE WriteOutputFails
  BY <1>10 DEF WriteOutputFails, Exit
<1>11. CASE PrintPacket
  BY <1>11 DEF PrintPacket, packetVars
<1>12. CASE PrintFails
  BY <1>12 DEF PrintFails, Exit
<1>13. CASE Leave
  BY <1>13 DEF Leave, Exit
<1>14. CASE Killed
  BY <1>14 DEF Killed, Exit
<1>15. CASE UNCHANGED vars
  BY <1>15 DEF vars, packetVars
<1>16. QED
  BY <1>1, <1>2, <1>3, <1>4, <1>5, <1>6, <1>7, <1>8, <1>9, <1>10, <1>11,
     <1>12, <1>13, <1>14, <1>15 DEF Next

(* Only Leave ends a process that decided; every other end has a status of  *)
(* its own or an output that is empty.                                      *)
LEMMA NextChannelsAgree == Inv /\ [Next]_vars => ChannelsAgree'
<1> SUFFICES ASSUME Inv, [Next]_vars
             PROVE  ChannelsAgree'
  OBVIOUS
<1> USE DEF Inv, ChannelsAgree
<1>1. CASE ParseFails
  BY <1>1 DEF ParseFails, Invoke, Exit
<1>2. CASE Raise \/ WriteOutputFails \/ PrintFails \/ Killed
  <2>1. status' \in {1, 120, 137}
    BY <1>2 DEF Raise, WriteOutputFails, PrintFails, Killed, Exit
  <2>2. QED
    BY <2>1
<1>3. CASE Leave
  <2>1. gate.status \in {"pass", "block"}
    BY DEF TypeOK, GateDecision
  <2>2. printed = PreflightPacket /\ (requested => file = PreflightPacket)
    BY <1>3 DEF ChannelInv, Leave
  <2>3. status' = 0 <=> gate.status = "pass"
    BY <1>3, <2>1 DEF Leave, Exit, ExitCode
  <2>4. PreflightPacket =
          [by |-> invocations', gate |-> IF status' = 0 THEN "pass" ELSE "block"]
    BY <1>3, <2>1, <2>3 DEF Leave, PreflightPacket
  <2>5. UNCHANGED <<printed, requested, file>>
    BY <1>3 DEF Leave
  <2>6. QED
    BY <2>2, <2>4, <2>5
<1>4. CASE Parse \/ OpenWorkspace \/ Plan \/ CompileProbes \/ RunProbes
             \/ Decide \/ WriteOutput \/ PrintPacket
  <2>1. at' # "exited"
    BY <1>4 DEF Parse, OpenWorkspace, Plan, CompileProbes, RunProbes, Decide,
                WriteOutput, PrintPacket
  <2>2. QED
    BY <2>1
<1>5. CASE UNCHANGED vars
  BY <1>5 DEF vars
<1>6. QED
  BY <1>1, <1>2, <1>3, <1>4, <1>5 DEF Next

(* And nothing has been answered yet.                                       *)
LEMMA InitInv == Init => Inv
<1>1. Init => DecisionInv /\ ChannelInv /\ ChannelsAgree
  BY AnswerAssumption DEF Init, DecisionInv, ChannelInv, ChannelsAgree
<1>2. QED
  BY <1>1, InitTypeOK DEF Inv

(* The inductive invariant of preflight.                                    *)
THEOREM Invariance == Spec => []Inv
<1>1. Inv /\ [Next]_vars => Inv'
  BY NextTypeOK, NextDecisionInv, NextChannelInv, NextChannelsAgree DEF Inv
<1>2. QED
  BY <1>1, InitInv, PTL DEF Spec

(* The state of a run of the command line is of its types throughout.      *)
THEOREM Types == Spec => []TypeOK
<1>1. Inv => TypeOK
  BY DEF Inv
<1>2. QED
  BY <1>1, Invariance, PTL

(* Status 0 is earned (AGENT_INTEGRATION.md:17): every load-bearing premise *)
(* of the plan just made has a verified result.                             *)
THEOREM ZeroIsEarned == Spec => []ZeroMeansVerified
<1>1. Inv => ZeroMeansVerified
  <2> SUFFICES ASSUME Inv, at = "exited", status = 0
               PROVE  \A a \in LoadBearing(plan) : \E i \in DOMAIN results :
                        results[i].assumption_id = a
                          /\ results[i].verdict = "verified"
    BY DEF ZeroMeansVerified
  <2>1. plan \in ImplementationPlan /\ results \in Seq(ProbeResult)
    BY DEF Inv, TypeOK
  <2>2. DecideGate(plan, results).status = "pass"
    BY DEF Inv, DecisionInv
  <2>3. QED
    BY <2>1, <2>2, PassMeansVerified
<1>2. QED
  BY <1>1, Invariance, PTL

(* Exit status, output and file tell the same decision of the same          *)
(* invocation (cli.py:42-50).                                               *)
THEOREM OneDecisionIsTold == Spec => []ChannelsAgree
<1>1. Inv => ChannelsAgree
  BY DEF Inv
<1>2. QED
  BY <1>1, Invariance, PTL
=============================================================================
