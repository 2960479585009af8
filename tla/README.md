# PlanProbe in TLA+

PlanProbe stands between a coding agent's plan and the first source edit. A
model proposes a plan with its implicit premises, deterministic probes test the
premises against the repository, a gate and a replan contract decide whether
code may be written, a bounded patch is applied to a copy of the repository,
fixed checks run on it, and an evidence packet is published through a small web
service. These modules model that program from its source; TLC checks them on
small instances and TLAPS proves the results that matter most for every value
of the constants.

Contents: [inventory](#inventory) · [modules](#modules) · [runs](#runs) ·
[fairness](#fairness) · [proofs](#proofs) · [findings](#findings) ·
[what is not modelled](#what-is-not-modelled) · [plan](#plan)

## Inventory

| Part | State | Operations | What is hard | What makes it correct |
|---|---|---|---|---|
| Gate and replan contract (`engine/gate.py`, `_unknown_load_bearing`, `_validate_replan`) | none, pure | decide on plan, results and revised plan | three decisions fold the same result list in different ways (last result wins, any result counts) | between them every unprobed, unknown or contradicted load-bearing premise is caught |
| Pipeline (`engine/pipeline.py`, `patching.py`, `workspace.py`, `verification.py`) | the run's row, its locals, its directory | `start`, `execute`: about fifteen calls in order, any of which may raise | partial effects of each call, the handler that records a failure may fail itself, three writes to publish | no edit before the premises are settled; what is published is what is on disk; terminal stages are final; a run ends |
| Web service (`main.py`) | executor queue and two threads | `create_run`, read routes, process start | handlers, workers and process death interleave; nobody reads the futures; no recovery on start | a run is executed at most once, and either settles or is visibly an orphan |
| Run store (`store.py`) | SQLite table, one lock | `create`, `update`, `get`, `list` | read-modify-write under lock and transaction; readers without lock; failing statements | updates are atomic, no event is lost, reads are committed pasts, the lock is always released |
| Probe executors (`engine/probes.py`) | none, read-only | five executors, fail-closed wrapper | first fitting definition against the last one Python binds; vacuous truths; exceptions and timeouts | a decided verdict is true of the program; what cannot be probed is unknown |
| Contract suite (`eval/probe_suite.py`) | none | runs 24 frozen cases | executors and gate have to agree on each | all cases as expected, no false or missed block |
| Model adapters (`agent/*.py`) | counters of one run | `plan`, `compile_probes`, `replan`, `generate_patch` over HTTP | retry and schema fallback nest; counters are taken between statements that may raise | bounded requests, a clean conversation per call, counters that add up |
| Deterministic provider (`agent/deterministic.py`) | none | the same four answers, fixed | its replan has to pass the contract for any results; its patch has to fit source that the probes read before it | it is never rejected; the demo shows what it is there to show |
| Context packing (`agent/context.py`) | none, reads the workspace | `repository_context` | filters, two nested loops with a break each, one budget shared by all files of all roots, a cut | the pack is bounded, and nothing is left out between two files that are in |
| Preflight and CLI (`preflight.py`, `cli.py`) | exit status, output file | `planprobe preflight`, `planprobe demo` | exit status as an interface to agents | 0 only when every load-bearing premise is verified |
| Web console (`web/app.ts`) | panels, run button | run, poll, render | polls race with the run and with the death of the service; errors and exhausted polls | what is shown was earned, the button comes back |
| Reward service (`synthetic_app/`) | receipts, ledger | `claim_reward`, before and after the demo's patch | retries of a claim, local hours on both sides of midnight UTC, a patch between eligibility and receipt | one ledger row per idempotency key; the patch adds a bonus and changes nothing else |
| Scripts, CI, Docker | none | drivers and configuration | – | – |

How they interact: the console and the scripts call the service over HTTP; the
service calls `start` in the request handler and `execute` on a pool thread;
`execute` calls one provider four times, the probe executors, the gate, the
patcher and the checks, writes JSON files into the run's directory and calls
`store.update` at every stage; handlers read the same store while it is being
written. Preflight and the contract suite use the executors and the gate
directly, without store and service.

`PROJECT.json` lists the hazards of this code line by line, each with the
properties that would catch it going wrong.

## Modules

| Module | Models | State and actions |
|---|---|---|
| `Gate` | `gate.py`, `_unknown_load_bearing`, `_validate_replan`, the demo provider's replan, and the data of `models.py` they read | operators, no state; texts and versions are left out, an evidence id is the probe's id with a part (`""`, `"A"`, `"B"`) because that is how the executors form it |
| `Pipeline` | one `execute` per run | `stage`, `events`, `packet`, `provider`: the row; `pc`: where the thread is; `initialPlan` … `checks`: its locals; `workspace`, `artifacts`, `packetFile`, `finalWorkspace`: the run's directory |
| `Interlock` | nothing: the promise of the product specification | `phase`, `premises`, `tested`, `edits`, `outcome`; implemented by `Pipeline` (`ImplementsInterlock`) |
| `Service` | `main.py` around `Pipeline` | adds `up`, `submitting`, `queue`, `crashes`; `CreateRun` and `Submit` are the handler's two statements, `Take`/`Work` the pool, `Crash`/`Restart` the process |
| `StoreRows` | a row and what one `create` or `update` does to it | operators, shared by the next two |
| `AtomicStore` | nothing: the table as its callers take it | one step per insert or update |
| `RunStore` | `store.py` statement by statement | `db`, `rowids`: what is committed; `lock`; per thread `at`, `op`, `snap`, `todo`, `reply`; implements `AtomicStore` |
| `Probes` | `probes.py` | operators: a file is the sequence of its top-level definitions; five executors, the fail-closed wrapper, and `Holds`, an independent reading of the same premise off the program Python binds |
| `ProbeSuite` | `probe_suite.py` | the 24 cases as data; one step runs a probe and the gate. The suite calls `run_probe`, not the wrapper, so a frozen case is probed only if that does not raise; none of them does |
| `ContextPack` | `context.py` | operators: roots, filters and the two nested loops, as recursive functions over what is packed so far: the blocks, the characters used, whether packing has stopped or raised |
| `ModelClient` | the structured-output loop of the adapters | `at`, `attempt`, `messages`, the three counters, and `requests` as the server sees them; a prompt carries the pack of `ContextPack` |
| `Rewards` | `synthetic_app/liveops_service`, as it is and as the demo's patch leaves it | `original`, `patched`: the state of both; `asked`: the claims made of both |
| `Demo` | the deterministic provider and the demo end to end | `Pipeline` with its provider fixed: the plan, the four probes as `deterministic.py` writes them, run by the executors of `Probes` on the reward service in the workspace, the patch, the two test suites as what they assert of `Rewards` |
| `Console` | `web/app.ts` over `Service` | `page`: where `run()` is; `reply`: a row on its way; `pill`, `overview`, `panels`: what is shown, and whose it is. `Serve` lets the service go on, die and come back between `Fetch` and `Render` |
| `Preflight` | `preflight.py` and the preflight command of `cli.py` | `at`: where the process is; `file`, `printed`, `status`: its three channels, marked with the invocation they come from |
| `GateProofs`, `PipelineProofs`, `ServiceProofs`, `RunStoreProofs`, `ProbeProofs`, `ModelClientProofs`, `PreflightProofs`, `RewardProofs` | – | theorems |
| `MCPipeline`, `MCService`, `MCRunStore`, `MCProbeSuite`, `MCModelClient`, `MCConsole`, `MCPreflight`, `MCDemo` | – | instances for TLC |

`Pipeline` extends `Gate`, `Service` extends `Pipeline`, `Probes` extends
`Gate`, `ProbeSuite` extends `Probes`, `Console` extends `Service`, `Preflight`
extends `Gate`, `ModelClient` extends `ContextPack`, and `Demo` extends `Pipeline`
and `Rewards` and instantiates `Probes`. `RunStore` stands for itself:
`ImplementsAtomicStore` is what entitles `Pipeline` to treat `store.update` as
one step, and `ReportIsResultOf` is what entitles it to draw probe results from
`Gate!ProbeOutcomes` instead of running executors.

Definitions headed `Variant:` are plausible bugs of a definition beside them.
They are used by nothing; substituting one for its original makes TLC report
the property listed with it in `PROJECT.json`, which shows that the property
depends on that piece of code.

### Correspondence of steps

A step of `Pipeline` is what `execute` does up to the next point that another
thread can observe or where failing leaves something else behind. A private
JSON file (`initial-plan.json`, `probes.json`, …) and the event after it are one
step: no code reads these files, and a failure between the two leaves the file
of a stage the run did not announce, in a run that then is `failed`. The writes
that are read again are steps of their own: each edit of `apply_patch`,
`packet.json`, the final copy (which may stop half way), the last
`store.update`. `Raise` lets any call inside the `try` block raise before its
effect; `BeginRaises` is what raises before the block, `RecordFailureFails` the
handler's own update. `RefuseEdit` stands for a refused path as well as for an
old text that is missing or ambiguous, which a path alone does not determine,
so it is possible for every edit and forced for a refused path.

The result of `run_probes` is nondeterministic (any verdict for each probe, with
the evidence ids that belong to it), a plan, a replan and a patch are any
member of a set of answers that fit the schema; for the demo provider the
replan is the function the code computes.

`Service` leaves a thread that dies with its process at the location `"killed"`.
A row that was created but not submitted when the process died keeps the
location `"queued"` and is in no queue.

`RunStore` makes the lock acquisition, each statement, the commit and the
release of a writer separate steps, and the two transactions of `list` as well.
A failing statement rolls back and still releases. `"killed"` threads do not
exist here: the process's threads are idle again after `Crash`.

In `Probes`, a line is a definition and a position below its header: a field of
a class, a line of calls of a function; -1 is what stands between the definition
before and the header, comments and imports. Of the text of a line we keep the names
it has in it (`Texts`), be it as a definition, a call, a comment or a part of a longer
name: that is what the search for the line to cite for a test sees. A value of a
mapping is what `str()` makes of it (`Literals`), or an expression that cannot be
evaluated; an annotation is spelled `list[`, another collection, or neither.
`pytest_node` runs the last definition of the name, as importing the file would bind
it, with the outcome the definition carries.

`ContextPack` keeps of a text the length of its block (header and fence
included) and of a path its parts; `stat`, `is_file` and the suffix are marks of a
file, and whether anything exists at the demo's path is a mark of the workspace. A
path is relative to the workspace, except for the exclusion, which the code applies
to the parts of the absolute path.

`Rewards` keeps of an instant its hour UTC and whether the United States observe
daylight saving; Korea and Japan never do. The service is a module of dictionaries
without a lock, and the repository calls it from one thread: a claim is one step.

`Demo` replaces the answers of a model by those of the deterministic provider. The
probes are run on a description of `rewards.py`, `models.py` and `config.py` as
sequences of definitions; the `pytest_node` probe may time out. `run_checks` is what
the two suites assert, evaluated on the service the edits made so far result in.

`Console` is one page. Its headline is abstracted to what it claims
(`running`, `success`, `blocked`, `error`), its panels to the packet they were
filled from, with the run the gate's banner is about, which only a blocking gate
sets. A request that fails, or whose answer is lost, takes the catch
block; a lost answer to the post leaves a run behind. `Preflight` is one
`--output` path over several processes; a write that fails, and a kill, may
leave a truncated file.

## Runs

| Run | Question | Bounds |
|---|---|---|
| `pipeline` | Do the interlock, publication and the trail hold, and is `Interlock` implemented, whatever the model answers and whatever raises? | one run, two assumption ids, two probe ids, five probe lists (none, one, a premise probed twice, two premises, a shared probe id), all verdicts, 48 revised plans, five patches with allowed, denied and outside paths |
| `unbuildable_provider` | Does every started run end when a provider cannot be constructed? No: finding | as `pipeline`, `anthropic` without its key, the store answering |
| `shadowed_contradiction` | Does every contradiction block? No: finding | as `pipeline` |
| `service` | Is each run executed at most once, does an orphan stay as it was, and does every accepted run settle or become an orphan? | three runs queued for one worker, one death at any step; plans without premises, so that a run passes, fails its checks or raises |
| `run_store` | Are updates atomic, are reads past states, and does every call return? | two threads, two calls each, two rows, `limit` 2, any statement failing, any number of deaths |
| `probe_suite` | Do the executors classify the suite, agree with `Holds`, and cite what they decide on? | 24 frozen cases and about 5,280 pairs of a file with up to two definitions and a probe that fits, misfits or lacks a parameter |
| `scalar_collections` | Is a field verified as scalar no collection? No: finding | the same |
| `model_client` | Are retries bounded, conversations clean and counters auditable, and is the pack in the prompt bounded and without a gap? | four answers, both adapters, both formats, every server behaviour; 1,504 initial states of workspace layout, roots and route |
| `console` | Is what the page claims earned by the run it watches, does it stop watching for a reason, and does the button come back whatever happens to the service? | two runs that may stop before code, fail checks, raise or pass; one worker, one death; two polls; any request failing |
| `console_running` | Does the page say "running" only while it watches? No: finding | one run, two polls |
| `preflight` | Is status 0 earned, and do status, output and file agree? | two invocations, three plans, four probe lists, all verdicts, failing and killed anywhere |
| `demo` | Does the demo show a blocked plan, an accepted replan and a patch that passes both suites, and does the patched service keep the contract of the original? | one run, any call failing; then claims with two keys, in either order and retried any number of times, from small sets of players, regions, streaks and hours |

Why these bounds are enough for the questions asked. Runs share nothing but the
store (its own module) and the pool, so one run suffices for what `execute`
does; for the pool, three runs and one worker give one run on the thread, and
two that wait in an order. What a run does between its steps is checked by
`pipeline`, so the runs of `service` have no premises, and that deaths leave the
rest true for every instance is proved. Gate and replan contract
tell premises apart only by load-bearing or not and probed zero, one or more
times; two premises and two probes give all combinations, including two probes
of one premise that disagree and two probes with one id. A patch of two edits
has a first edit that is written before a second is refused. For the store, two
threads are one that holds the lock and one that does not, and two calls each
let one thread overtake another twice. An executor looks at the definitions
that fit and stops at the first: two definitions are the first and a later one.
The page forgets everything between rows but the panels of an earlier run, so
two clicks and two polls show it rows of both runs in every state; the number
of polls only decides when it gives up. The reward service tells claims apart by
key, player, regions, streak and hour: two keys are a claim and another one, each
with retries that may change all the rest, and the hours are on both sides of
openings and closings. Packing goes through files in order and stops at one: what is before it,
the one that is cut, and what is behind it are three files, over two roots.
A preflight meets the file of one
before it, so two are enough.

Safety is checked under every interleaving; the fairness that `run_store` adds for
`CallsReturn` excludes no finite behaviour. `CHECK_DEADLOCK FALSE` is set
throughout because each system may legitimately stop: all runs ended, all calls
made, the probe answered, the process down.

## Fairness

* `Pipeline!FairSpec`: weak fairness of the thread of each run. Model requests,
  probes and checks run under timeouts (90 s, 30 s, 45 s by default), so each
  call returns or raises.
* `Service!FairServiceSpec`: weak fairness of `Submit`, `Take` and `Work` per
  run: the handler's second statement, an idle pool thread, a busy one. Nothing
  obliges a client to post, or a process to die or to come back.
* `Console!FairConsoleSpec`: weak fairness of the page's own steps: a fetch is
  answered or fails, `await` resumes, a timer of 750 ms fires. Nothing is asked of
  the service: the button comes back although the run may never end.
* `RunStore!FairSpec`: weak fairness of each thread's next statement. Acquiring
  a `threading.Lock` is not fair under contention; weak fairness suffices
  because threads make finitely many calls here (`MaxCalls`).

## Proofs

All are checked by `tlapm` (SMT, Zenon, PTL).

**`GateProofs`** – for every plan and result list: a passing gate means that the
last result of each load-bearing premise is `verified` (`PassMeansVerified`);
whatever `_unknown_load_bearing` reports blocks (`UnknownMeansBlocked`); an
accepted replan cites all evidence of contradicted load-bearing premises, only
evidence of executed probes, and has no load-bearing premise
(`AcceptedReplanIsBound`); the demo provider's replan is accepted for any results
(`DemoReplanValidates`).

The module ends with what the other proofs need for loops. The library's induction
principles take an operator as a parameter and cannot be used here, so induction is
stated over a set instead (`UpTo`: a set that holds 0, and `n` whenever it holds
`n - 1`, holds all of `0..N`), which follows from the least element of what is left
out (`LeastOf`). `LoopExists` gives a recursive function its defining equation:
there is an `f` with `f[0]` as given and `f[n]` made of `f[n - 1]`. A loop of the
code is then reasoned about as in the code: an invariant, kept by one turn.

**`PipelineProofs`** – for every number of runs, every set of answers that fits
the schema and every failure: type correctness (`TypeCorrect`), the inductive
invariant (`Invariance`), and from it `EditsFollowSettledPremises` and
`EditsFollowBoundRevision`, the two halves of "premises are proven before
source is written".

The properties are not inductive: they speak of `workspace`, `results` and
`revised`, and say nothing of a thread that stands before its first edit with
results that would not justify one. `Inv` adds what is known on the way there:
`StageInv` ties the stage in the store to the location of the thread, and
`ClearedInv` says that from the moment coding is announced (and at the location
before it, as far as decided) the three decisions were taken on the plan and
results that are still there. Each action of `execute` preserves each conjunct;
locals that later steps overwrite are the ones whose actions are only possible
before coding, which is where `StageInv` is needed. `TypeOK` needs
`SchemaAssumption` (answers are validated by pydantic before the pipeline sees
them) and the facts of `GateProofs` on the results of a probe list.

The second part is about what is published: it is what was done
(`PatchIsPublishedAsApplied`, `BlockedLeavesNoTrace`), row and file hold one packet
(`RowIsFile`), the trail tells the stages in order (`TrailTellsStages`) and only grows
(`TrailGrowsSourceWaits`), a settled run never changes (`TerminalIsFinal`), and
`Pipeline` implements `Interlock` (`PipelineKeepsPromise`).

Published state is written in three steps out of locals that were set in five
earlier ones, so `PublicationInv` follows it there: there are no results before the
probes ran (`UntestedInv`); the edits made are the first edits of the patch, none of
them denied, and all of them from `run_checks` on (`EditInv`); nothing of the coding
phase is there before coding is announced (`UntouchedInv`); `packet.json` and the
final copy agree with the locals between their write and the last update
(`WrittenInv`); the trail has rising ranks and ends with the stage of the row
(`TrailInv`); and published rows keep all that once the locals are no concern
(`PublishedInv`). The invariant is one conjunct per run: a step of one run leaves
the others alone (`OthersStay`, `SameKeeps`), so each conjunct is proved for the run
that moves. For the refinement, each action of `execute` is a step of `Interlock`
or leaves all it knows of as it was (`OtherStepsAreQuiet`).

The third part says three things of a run that no run of TLC asks. It gets on
(`RunsDescend`): `Ahead` numbers the points of `execute` by the steps left, and every
step lowers the number or makes the next edit of the patch, so that whatever models
answer and calls raise, the number of steps is bounded; with the fairness of
`FairSpec` that is why runs settle, but that last inference is liveness. It ends on
record (`EndsAreRecorded`): a thread that is over left its row complete or failed,
but for a store that failed it and the provider of finding 1. And its packet can be
judged again by who has nothing else (`PacketsAgreeWithThemselves`): the results are
answers to the probes, the gate is what those results give, and there is a patch
exactly when no premise was unknown and the revision kept the contract, so that a
blocked packet always contains its cause. `JudgedInv` carries the gate, the results
and the reason for stopping from `run_probes` to the last update. With what `DecideGate`
is, it also bounds finding 2 (`OnlyLaterProbesForgive`).

**`ServiceProofs`** – for every number of runs, workers and deaths: the death of the
process at any step leaves what is proved of edits and publication true
(`DeathBreaksNothing`), rewrites no settled run and loses no event
(`DeathRewritesNothing`); no run is ever taken twice (`NoRunIsTakenTwice`); an orphan
stays as it was (`OrphanStaysAsItWas`); and the service as a whole implements
`Interlock` (`ServiceKeepsPromise`). The invariants of the pipeline are taken over
(`RunsInv`): a step of the service is a step of `Pipeline`, leaves the runs alone or
is a death, which ends threads and touches neither row nor directory. `PlaceInv` adds
to the second only that the queue is a finite sequence of runs and the set of busy
threads finite.

What is said above of getting on and of packets holds here too (`RunsDescendToo`,
`PacketsAgreeInTheTable`): nothing is done twice, by one process or by one after
another. And a run is abandoned only for a cause (`OrphansHaveACause`): some process
died, the store failed, or the row is still `queued` for a provider that cannot be
built. `AccountInv` says where each run without a worker came from: a killed thread
and a queued row outside the queue both mean a death, which `crashes` counts.

The module goes on to the page. `PageOnlyAsks`: whatever is clicked and polled, the
service behaves as the service does, so `RunsInv` holds under it. On that rest
`PassedIsEarned`, `HeadlineIsThePacket`, `WatchEndsForCause` and `ConsoleTypes`, by
`PageInv`, about three things that are never read together, the page, a row on its
way and the table: the run that is watched exists (`WatchInv`); a row on its way to the page is
either of a run that is going on, or has what the row still has, for a terminal row
no longer changes (`ReplyInv`, which is where `DeathRewritesNothing` is needed); and
what is on the page is the packet of the run it names (`ClaimInv`). `UnwatchedHasFailed`
bounds finding 4, by `RunningInv`: the headline "running" outlives the watching only
when the run failed or the polls are used up.

**`RunStoreProofs`** – for every number of threads, rows and calls: type correctness
(`StoreTypes`); `RunStore` implements `AtomicStore` (`StoreIsAtomic`); reads are
committed pasts (`ReadersSeePasts`); `list` is sound (`ListingIsSound`). Types and atomicity
rest on `WriterInv`: the lock is held exactly by the thread inside a writer, so that
the row its `SELECT` returned is still the committed one when it commits. The last
rests on `ListInv`: the rows got and the ids left to get are neighbours in the table,
read backwards from some row on, which an insert, always at the end, does not disturb.

**`RewardProofs`** – for every sequence of claims: one ledger row and one receipt
per key, of one amount (`EachKeyIsPaidOnce`, by `LedgerInv`), and the patched
service answers as the original, plus a bonus within the bound for who was paid at
all (`PatchAddsABonus`, by `ReceiptInv`: both receipts of a key are the ones
computed for the claim that was paid). `OnlyOpenRegionsPay`: a receipt names exactly
the regions of its claim whose event is open, for claims with any number of regions
in any order. The loop of `claim_reward` is followed turn by turn
(`EligibleAreOpen`), and the hours come out of the time zones by arithmetic
(`OpenAtOpenHours`). `DemoRuns`: the demo adds nothing to the two systems it is
composed of, so every theorem about `Pipeline!Spec` and `RewardSpec` holds of it,
with the patch that the pipeline really published (`DemoPaysAsPromised`).

And for every number of demos at once, whatever call of them fails (the source itself
can always be read): one that ends with a
packet shows what it is there to show (`DemoShowsIt`), and the patched repository
answers the probes and the suites as it should (`PremisesHold`). The argument has two
halves. `DemoInv` follows a run: the answers in its locals are the provider's
(`AnswerInv`), its results are what the probes observe in the *unedited* workspace and
its gate is decided on them (`ObservedInv`), its checks are those of the whole patch
(`CheckInv`), its workspace is one of three, and its packet repeats all that
(`EndInv`); it rests on the pipeline's own invariant, which says that no edit happens
before the gate and nothing is published but what was written. The other half runs
the executors and the suites by hand on the program: four probes on the original and
on the patched source (`ObservedIs`), the order of the calls around the lines the patch
inserts (`CallsAreInOrder`), the two suites on three workspaces (`TestsByEdits`), and
the gate on the results (`DemoIsGated`). A machine too slow for the idempotency test
is one of the two observations, so the theorem covers the demo that stops.

**`ProbeProofs`** – for every file and probe, fail closed: the answer is unknown
exactly when the probe raises (`Raises`: an unreadable file, a missing parameter, a
computed value, a test that does not end) or finds nothing to read (`NothingFits`),
it then cites nothing, and the gate blocks a load-bearing premise (`FailsClosed`).
Every report is one the pipeline model draws from (`ReportIsResultOf`), so that the
two halves of the development fit. `VerdictsAreTrue`: for every file in which no name
and no field is defined twice and no collection is spelled other than `list[...]`
(`Plain`; finding 3 is why), a decided verdict of any of the five executors is what
`Holds` reads off the program Python builds. An executor takes the first node it
meets, Python binds the last; `OnlyOne` is the lemma that in such a file they are the
same. `EvidenceStands`, in plain files or not: what is cited is the header, the field or
the call of the probed definition, and whoever probes that definition alone gets the
same verdict. The line cited for a test is a substring search over the file, so there
the theorem says exactly when it is the test's header, which is when no line above has
the test's name in it, and that otherwise it is such a line above (`NodeIsGrounded`,
by `FirstMention`).

What `Plain` leaves out is settled by three more. In *any* file a decided verdict is
true of the definition it cites, taken alone, and a test's verdict of the file
(`VerdictsAreTrueOfCited`: a test is run by pytest, which takes the last definition as
Python does; `MappingByFirst`, `ShapeByFirst`, `OrderByFirst` and `SignatureByFirst`
say that each other executor answers as it would on its first definition alone). So
repeated names do no harm unless it is the probed one that is repeated
(`VerdictsAreTrueWhereProbedOnce`), and what is left of finding 3 is exactly the other
spellings (`ScalarIsNoList`). The first two still ask of
a probed class that it annotates no field twice and spells no collection otherwise
(`FieldsOnce`): the executor reads the first of two annotations, Python the last.

Last, the suite itself: `FrozenAsExpected` runs each of the five executors by hand on
each of the 24 frozen files, and `SuiteClassified` concludes, for the frozen cases
and any others beside them, what the suite's report counts.

**`ModelClientProofs`** – for both routes, every behaviour of the server, every
workspace and every budget: the published counters reconcile (`MetricsAdd`), a call makes at
most four requests (`FourRequestsACall`), a conversation holds nothing of an earlier
call (`NothingOfAnEarlierCall`), and types (`Types`). The three counters are
incremented at different points of the loop, so `CountInv` says for each location how
calls, retries, fallbacks and requests stand to each other there: a request that was
sent is not a call before its answer is decoded, a retry is counted before its call. `OwnInv` gives the messages outright: the
prompt, followed after a failed decoding by the answer and the complaint.
Of packing: what is sent fits the budget (`ContextFits`) and is a beginning of what
the roots have to offer, all of it unless the budget is used up
(`ContextIsABeginning`), for any number of files of any length in any roots. Both are
invariants of the inner loop carried through the outer one: the sum of the chunks is
`used`, no chunk but the last is cut, and the chunks are the first `n` files, all `n`
unless packing has stopped.

**`PreflightProofs`** – for every plan, probe list, number of invocations and
failure: status 0 is earned (`ZeroIsEarned`, from `PassMeansVerified`), and status,
output and file tell one decision (`OneDecisionIsTold`). `Inv` adds to the two that
the gate is still the decision on the plan and results that are there
(`DecisionInv`) and that what was asked for is written before it is printed
(`ChannelInv`). Types come with them (`Types`).

Assumptions about constants are named in the modules that declare them: the
answers of models fit the schema, `None` is no value of the types it is added
to, the demo provider is among the providers, paths are of their set, a case has a file and a probe of the schema and only the frozen ones an
expectation (`CaseAssumption`), a claim fits the
request's (`RequestAssumption`), the demo provider gives its fixed answers
(`DemoAssumption`), a run id is not `None` (`RunIdAssumption`). TLC evaluates them in the runs.

Only model-checked is liveness (`AcceptedRunSettlesOrIsOrphaned`, `CallsReturn`,
`ButtonComesBack`): fairness and ENABLED are out of the prover's reach. Every invariant
and action property that a passing run checks is a theorem.

## Findings

1. `AcceptedRunSettles` fails when a provider is accepted but cannot be
   constructed: `build_provider` runs before the `try` block of `execute`
   (`pipeline.py:41`) and `main.py:51` drops the future, so the run stays
   `queued` and clients poll for nothing. With one process and a working store no
   other run is abandoned (`OrphansHaveACause`).
2. `ContradictionBlocks`, the sentence of `preflight.py:51`, fails when a later
   probe of the same premise verifies it: the gate keeps the last result. Nothing
   else gets by it (`OnlyLaterProbesForgive`).
3. `ScalarMeansScalar` fails for a collection type that is not spelled
   `list[...]`, and for no other annotation (`ScalarIsNoList`).
4. `RunningIsWatched`: a run that fails, or is not done after 160 polls, leaves
   the headline "comparing the plan with the repository" on a page that has
   given the button back; there is no third way (`UnwatchedHasFailed`).

Seen on the way and not behind a run:

* A revised plan without any evidence is accepted when nothing load-bearing was
  contradicted (`pipeline.py:198`), while `PRODUCT_SPEC.md:22` asks for evidence ids.
* `planprobe preflight` with arguments argparse rejects ends with status 2, which
  `AGENT_INTEGRATION.md:18` reserves for a blocked premise. It fails closed: an agent
  that takes 2 for a block writes no code.
* A run whose checks failed after its patch was applied is shown as stopped before
  code generation for lack of evidence (`app.ts:118`); the page puts a check mark
  before every check, failed ones included (`app.ts:165`).
* `STAGE_LABELS` has labels for `extracting` and `blocked`, while the stages are
  called `extracting_assumptions` and `blocked_before_code`.
* The line cited for a test is the first of the file that has its name in it
  (`probes.py:129`): a comment, a call or a longer name above the test is cited in its
  place. `EvidenceIsGrounded` and `EvidenceStands` say when.
* A test that is skipped ends with status 0, so it verifies its premise
  (`probes.py:128`).
* The gate's banner is set by a blocking gate and never reset (`app.ts:139-142`): on a
  run that passes it may still be about the run before. `HeadlineAgreesWithPanels` asks
  of it only that a blocked run has its own.
* A `now_utc` without a zone is accepted (`models.py:13`) and read in the server's own
  (`rewards.py:20`).
* `planprobe demo` ends with status 0 whatever its verdict.
* A receipt is found by its idempotency key alone (`rewards.py:26`): a second
  player who sends the key of a first gets the first one's receipt and is not paid.
* `PLANPROBE_CONTEXT_ROOTS` is there to keep the pack "explicitly narrow"
  (`docs/MODEL_ROUTING.md:29`), but a value whose roots are all missing or outside
  the workspace falls back to the defaults, an empty entry means the whole
  workspace, a root that is a file yields nothing, and overlapping roots pack a file
  twice. A workspace below a directory called `build`, `dist` or `venv` packs empty.

## What is not modelled

* Text: claims, summaries, messages, snippets, the wording of reasons; token
  counts, latencies and durations; the statistics of the reports.
* What a model makes of what it reads. The pack is modelled, as lengths and order;
  the answer is anything that fits the schema.
* The list of events on the page, which is a copy of the row's trail.
* What a `now_utc` without a zone means: a claim carries the instant the service takes
  it for. Probe nodes of the form `file::Class::test`; a test is a top-level function.
* Concurrent processes on one database: the deployment runs one.
* Checks and probes as programs: pytest passes, fails or times out.
* Scripts, build, deployment and static assets: no state of their own.
* The page's markup, texts and scrolling; `planprobe demo`, which is `Pipeline`
  without the service.

## Plan

What the development would gain most from next:

1. A second process on the same database, should the service ever be deployed
   with more than one: the lock of `RunStore` would have to be SQLite's.
