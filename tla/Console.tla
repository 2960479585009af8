------------------------------- MODULE Console -------------------------------
(***************************************************************************)
(* The browser page of PlanProbe (web/app.ts, compiled to static/app.js)    *)
(* over the service: a click posts a demo run, then the page fetches the     *)
(* run's row again and again, renders what it got, and gives the button      *)
(* back when the run has ended, the polls are used up or a request failed.   *)
(* The service works on, dies and comes back meanwhile, and also between     *)
(* the reading of a row and its rendering.                                   *)
(***************************************************************************)
EXTENDS Service

CONSTANT MaxPolls   \* 160 in the page

ASSUME PollAssumption == MaxPolls \in Nat \ {0}

(* An id is a UUID and never the page's null.                              *)
ASSUME RunIdAssumption == None \notin Runs

VARIABLES page,       \* where run() is: "idle" when the button is enabled
          run,        \* the run posted last, or None
          polls,      \* rows rendered for it
          reply,      \* the row that is on its way to the page
          pill,       \* the stage shown
          overview,   \* what the headline claims
          panels      \* the packet shown, whose it is, and which run the
                      \* gate's banner is about

pageVars == <<page, run, polls, reply, pill, overview, panels>>
consoleVars == <<serviceVars, pageVars>>

Record == [stage : Stages, packet : RunPacket \cup {None}]

RecordOf(r) == [stage |-> stage[r], packet |-> packet[r]]

NoPanels == [run |-> None, packet |-> None, banner |-> None]

ConsoleTypeOK ==
  /\ ServiceTypeOK
  /\ page \in {"idle", "posting", "accepting", "polling", "rendering"}
  /\ run \in Runs \cup {None}
  /\ polls \in 0..MaxPolls
  /\ reply \in Record \cup {None}
  /\ pill \in Stages \cup {"idle", "started", "passed", "stopped"}
  /\ overview \in {"idle", "running", "success", "blocked", "error"}
  /\ panels \in [run : Runs \cup {None}, packet : RunPacket \cup {None},
                 banner : Runs \cup {None}]

ConsoleInit ==
  /\ ServiceInit
  /\ page = "idle"
  /\ run = None
  /\ polls = 0
  /\ reply = None
  /\ pill = "idle"
  /\ overview = "idle"
  /\ panels = NoPanels

-----------------------------------------------------------------------------
(* The click: the button is disabled, headline and metrics are reset, the   *)
(* panels of an earlier run stay.                                           *)
Click ==
  /\ page = "idle"
  /\ page' = "posting"
  /\ pill' = "started"
  /\ overview' = "running"
  /\ polls' = 0
  /\ reply' = None
  /\ UNCHANGED <<serviceVars, run, panels>>

(* The handler creates the row; its answer comes with its second statement. *)
Post(r) ==
  /\ page = "posting"
  /\ CreateRun(r)
  /\ run' = r
  /\ page' = "accepting"
  /\ UNCHANGED <<polls, reply, pill, overview, panels>>

Accepted ==
  /\ page = "accepting"
  /\ Submit(run)
  /\ page' = "polling"
  /\ UNCHANGED <<run, polls, reply, pill, overview, panels>>

(* The catch block, then the finally block.                                *)
ShowError ==
  /\ pill' = "failed"
  /\ overview' = "error"
  /\ page' = "idle"
  /\ UNCHANGED <<serviceVars, polls, reply, panels>>

(* The request is refused or lost, or its answer is: then it leaves a run   *)
(* behind that the page does not know.                                      *)
PostFails ==
  /\ page \in {"posting", "accepting"}
  /\ run' = None
  /\ ShowError

(* GET /api/runs/{id}: the row as it is when the server reads it.          *)
Fetch ==
  /\ page = "polling"
  /\ up
  /\ reply' = RecordOf(run)
  /\ page' = "rendering"
  /\ UNCHANGED <<serviceVars, run, polls, pill, overview, panels>>

FetchFails ==
  /\ page \in {"polling", "rendering"}
  /\ ShowError
  /\ UNCHANGED run

(* Variant: a packet is taken for a success once all checks listed pass.   *)
SummaryOfChecks(p) ==
  IF \A i \in DOMAIN p.checks : p.checks[i] = "pass" THEN "success" ELSE "blocked"

Summary(p) == IF p.verdict = "ready_with_evidence" THEN "success" ELSE "blocked"

(* Variant: the loop also ends when a packet may still come.               *)
EndsAtVerifying(s) == s \in Terminal \cup {"verifying"}

Ends(s) == s \in Terminal

(* The banner is set when the gate blocked and never reset, so that it may  *)
(* be left from an earlier run.                                            *)
Filled(p) ==
  [run |-> run, packet |-> p,
   banner |-> IF p.first_gate.status = "block" THEN run ELSE panels.banner]

(* Variant: the panels are filled once.                                    *)
RenderPacketOnce ==
  IF reply.packet = None
  THEN /\ pill' = reply.stage
       /\ UNCHANGED <<overview, panels>>
  ELSE /\ pill' = IF reply.packet.verdict = "ready_with_evidence"
                  THEN "passed" ELSE "stopped"
       /\ overview' = Summary(reply.packet)
       /\ panels' = IF panels.packet # None THEN panels ELSE Filled(reply.packet)

(* stageLabel first; renderPacket has the last word on the pill.           *)
RenderPacket ==
  IF reply.packet = None
  THEN /\ pill' = reply.stage
       /\ UNCHANGED <<overview, panels>>
  ELSE /\ pill' = IF reply.packet.verdict = "ready_with_evidence"
                  THEN "passed" ELSE "stopped"
       /\ overview' = Summary(reply.packet)
       /\ panels' = Filled(reply.packet)

(* Variant: the page polls until the run has ended.                        *)
RenderUntilEnd ==
  /\ page = "rendering"
  /\ RenderPacket
  /\ UNCHANGED polls
  /\ page' = IF Ends(reply.stage) THEN "idle" ELSE "polling"
  /\ reply' = None
  /\ UNCHANGED <<serviceVars, run>>

Render ==
  /\ page = "rendering"
  /\ RenderPacket
  /\ polls' = polls + 1
  /\ page' = IF Ends(reply.stage) \/ polls' = MaxPolls THEN "idle" ELSE "polling"
  /\ reply' = None
  /\ UNCHANGED <<serviceVars, run>>

(* The pool's work on run r, and the handler's for a page that is gone.    *)
Serve(r) ==
  /\ Submit(r) \/ Take(r) \/ Work(r)
  /\ UNCHANGED pageVars

DieOrRecover ==
  /\ Crash \/ Restart
  /\ UNCHANGED pageVars

PageStep ==
  \/ Accepted \/ PostFails \/ Fetch \/ FetchFails \/ Render
  \/ \E r \in Runs : Post(r)

ConsoleNext ==
  \/ Click \/ PageStep \/ DieOrRecover
  \/ \E r \in Runs : Serve(r)

ConsoleSpec == ConsoleInit /\ [][ConsoleNext]_consoleVars

(* In the page a request succeeds or fails; nothing is asked of the service. *)
FairConsoleSpec == ConsoleSpec /\ WF_consoleVars(PageStep)

-----------------------------------------------------------------------------
(* The page says "passed" only of the run it posted last, and then that     *)
(* run's source is exactly the patch shown, whole in the final copy, both   *)
(* suites passed on it, and the shown premises were tested before           *)
(* (app.ts:110-115, through the store, pipeline.py:107-154).                *)
SuccessIsEarned ==
  overview = "success" =>
    /\ run # None
    /\ panels.run = run
    /\ pill = "passed"
    /\ panels.packet.checks = <<"pass", "pass">>
    /\ workspace[run] = panels.packet.patch
    /\ finalWorkspace[run] = [state |-> "complete", edits |-> panels.packet.patch]
    /\ UnknownLoadBearing(panels.packet.initial_plan,
                          panels.packet.probe_results) = {}

(* Headline, pill and panels never tell of different runs: a verdict shown  *)
(* is the one of the packet in the panels, that packet is the one the store *)
(* holds, and where its gate blocked, the gate's banner is its own          *)
(* (app.ts:123-171, 199-208).                                               *)
HeadlineAgreesWithPanels ==
  overview \in {"success", "blocked"} =>
    /\ panels.run = run
    /\ panels.packet = packet[run]
    /\ panels.packet.first_gate.status = "block" => panels.banner = run
    /\ overview = "success" <=> panels.packet.verdict = "ready_with_evidence"
    /\ overview = "success" <=> pill = "passed"

(* The page stops watching a run for a reason: the run has ended and its    *)
(* end is on the pill, a request failed, or the polls are used up           *)
(* (app.ts:197-221).                                                        *)
WatchEndsForAReason ==
  page = "idle" /\ run # None /\ overview # "error" /\ polls < MaxPolls =>
    /\ stage[run] \in Terminal
    /\ pill = "failed" <=> stage[run] = "failed"

(* The button comes back after every click, also when the run it watches    *)
(* was orphaned by the death of the service and will never end: that is     *)
(* what the number of polls is bounded for (app.ts:197, 219-222).           *)
ButtonComesBack == page # "idle" ~> page = "idle"

-----------------------------------------------------------------------------
(* "AI 계획을 실제 저장소와 대조하고 있습니다." (app.ts:176: the plan is being     *)
(* compared with the repository): the page says so only while it watches a  *)
(* run.  A run that failed has no packet, and nothing else changes the      *)
(* headline (app.ts:202-209).                                               *)
RunningIsWatched == overview = "running" => page # "idle"
=============================================================================
