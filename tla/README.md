# Verification of devsim_agent

TLA+ models of the parts of this repository that decide something or keep state
across steps, processes and crashes: the run queue and the web server and soak
daemon that work on it; the autonomous DEVSIM agent and the soak that runs it
for hours; the tools that keep a directory below `runs/`, their searches and
studies; the planners above them; and what is made of a result - judges,
benchmark, repair plan, ranking, conclusion, the next patch.  TLC checks them on
small instances; TLAPS proves for every instance what queue, web server, daemon,
agent, soak, tools and planners promise.  `PROJECT.json` lists components, runs, mutants, findings, hazards and
theorems, and maps every definition to the lines it stands for, about a third
of the implementation.

## 1. Inventory

All paths are under `src/tcad_agent/`.

| Component | State | Operations | Hard about it |
|---|---|---|---|
| Run queue, `run_queue.py` | one SQLite table: status, attempts, owner, lease, result, request; cancel files beside it | enqueue, pause, resume, cancel, approve, reject, heartbeat, recover, claim, execute, settle | processes interleave between the SELECT and the UPDATE of every function; leases expire; workers die |
| Web server, `asgi_web.py`, `web_app.py` | worker thread, stop file, the queue | start, stop, run-once, recovery at import, approve | an event loop and a thread with one owner name; restarts |
| Soak daemon, `agent_soak_daemon.py` | its state file, a queue item, a stop file | check, insert, poll, report | check-then-insert by two daemons; an idle budget beside other workers |
| Autonomous agent, `autonomous_devsim_agent.py` | `autonomous_devsim_agent_state.json`: steps, latest TCAD state, some forty checkpoint keys; cancel file | launch, resume, decide, execute one of 22 kinds of action, complete, wait, fail | a policy of some thirty guarded rows that rely on what the others leave; a language model that may choose instead; crashes and resumes |
| Planners of the agent, `agent_*`, `mutation_refinement.py` | plan files, slots of the checkpoint | plan a patch, a decision, an experiment, a promotion | what one step plans another executes, perhaps for another state |
| Agent soak, `agent_soak.py`, `agent_recovery.py`, `agent_memory.py` | `agent_soak_state.json`, the agent's state, the memory, the cancel file | launch, resume, run a slice, retry, continue, record | three files and a process that may die between any two writes; retries; a deadline |
| Process control, `process_control.py` | a child process and its descendants | poll, time out, cancel, kill | three events race in one poll; a grandchild keeps the pipes open |
| Sweep tools and wrappers, `tools/pn_junction_iv.py`, `mos_capacitor_cv.py`, `mosfet_2d_id.py`, `diode_breakdown.py`, `task_runner.py` | a run directory with state.json, attempts | create, resume, retry with halved steps, judge | a call may die anywhere; who creates the directory; which flags reach the inner tool |
| Searches and studies, `adaptive_optimizer.py`, `multidim_optimizer.py`, `parameter_sweep.py`, `mesh_convergence.py`, `tool_convergence.py` | rounds and cases in one state file | propose, run a case, judge, resume | budgets over resumed calls; names of run directories; failed cases |
| Extended devices, `tools/extended_device_sweep.py`, `schottky_calibration.py`, `power_mosfet_signoff.py` | state, curve, summary, gate | formula or solver, fit and verify, sign off | files of earlier calls in the same directory |
| Sentaurus adapter, `sentaurus.py` | a copy of the project, a job, one state file at the end | prepare, run a step locally, over ssh or under Slurm, cancel, collect | each transport command may fail; the job outlives the process |
| Sentaurus patch loop, `sentaurus_patch_planner.py`, `sentaurus_mutation_effect.py`, `sentaurus_patch_refiner.py`, `sentaurus_lineage.py` | plan files, history of patches, archive | plan, run, compare, refine, archive | every run starts from the user's deck with the whole history replayed |
| Supervisor, mission agent, repair, `supervisor.py`, `mission_agent.py`, `repair_executor.py` and their planners | a state file each | choose, save, execute, save, replan, repair | bounded attempts, calls that resume after a death, permissions |
| Experiment index, `experiment_index.py` | a SQLite table rebuilt from files | rebuild | two rebuilds, and files written meanwhile |
| Quality and benchmark, `physical_quality.py`, `physical_benchmark.py`, `signoff_evidence.py`, `conclusion.py`, `engineering_objectives.py`, judges | reports beside the state file | judge, benchmark, pack, plan, rank, conclude | seven verdicts about one result, written at different times |
| Decks, templates, reports, catalogues, contracts, schema, LLM client, runners | none of their own | pure or external | numerics, text, network |

How they meet: a client or the web page puts an item into the queue; a worker
(a process, the server's thread, the soak daemon, or the event loop answering a
run-once request) claims it, calls the tool's runner and settles the row.  The
tools that take hours are `agent_soak` and `autonomous_devsim_agent`; the former
calls the latter in slices.  A cancel file, written by `cancel_item` and removed
by an approval, is the only message into a run that has started; inside the
tools `run_cancellable` looks for it.  An agent that waits for the user makes its
item paused; an approval patches the request and queues the item again.
Supervisor, mission and repair call the same tools and find results through the
experiment index; what they do next depends on the verdicts about a result.

What makes each correct:

* queue - an item is executed by one worker at a time and not twice for one
  claim; a superseded worker is never the one the table names; terminal items
  stay so; what runs is settled or recovered; what is queued is served;
* web server - one thread; a restart leaves no orphan; a stop is obeyed;
* agent - what signs a run off was made from its latest state; no gate is
  skipped, no limit exceeded, nothing ordered again without end;
* soak - the retry budget survives crashes; its end is the agent's; it ends;
* tools - "completed" rests on an attempt and on files that are there; attempts
  are in the state file before their directories are used; every call returns;
* searches, planners - budgets count over all the calls of an id; what is
  finished stays finished; permissions hold;
* verdicts - no later verdict is better than what it rests on; whatever is
  refused has a reason and a plan;
* patches - what is run is what was validated; a patched request is valid.

## 2. Modules

| Module | Models | Notes |
|---|---|---|
| `RunQueue` | `run_queue.py`, all of it that changes a row | base of web server and daemon |
| `WebServer` | `asgi_web.py`, `WorkerController` | EXTENDS `RunQueue`, whose workers become event loops and threads |
| `SoakDaemon` | `agent_soak_daemon.py` | EXTENDS `RunQueue`; a daemon is one of its workers |
| `AutonomousAgent` | `autonomous_devsim_agent.py` and what its planners may queue | |
| `AgentSoak` | `agent_soak.py`, `agent_recovery.py`, the append of `agent_memory.py` | abstracts the agent to one step per slice |
| `ProcessControl` | `run_cancellable` | the child is the environment |
| `SweepTool` | the three sweep tools | implements `RunRecord` |
| `RunRecord` | what a run id promises a reader of its state.json | abstract specification |
| `DiodeTool`, `TaskRunner` | the diode tool, `run_task` | EXTEND `SweepTool`, which they call |
| `Optimizer`, `Convergence` | the searches over `parameter_sweep`; the two convergence studies | |
| `Selections` | list comprehensions with a condition | pure; the two above EXTEND it |
| `ExtendedDevice` | `extended_device_sweep` with calibration and sign-off over it | |
| `Sentaurus` | `run_sentaurus` | cluster and network are the environment |
| `ExperimentIndex` | the rebuild of the index | |
| `Supervisor` | `run_supervisor` | EXTENDS `ExperimentIndex` |
| `MissionAgent` | the mission with goal decomposer and replans | |
| `Repair` | the repair executor with the choice of `repair_agent` | |
| `RepairStrategy` | issue codes, classes of failures and the table of actions | pure |
| `RequestPatch` | the patches of a sweep request, the validators | |
| `Quality`, `Benchmark` | every judge; the physical benchmark and the evidence pack | pure |
| `Outcomes` | what a run of each tool may leave | the inputs of the two above |
| `EvidenceChain` | from a state file to benchmark, plan, design and conclusion | EXTENDS the previous |
| `Objectives` | constraints, score, dominance | |
| `PatchLoop` | the Sentaurus patch loop | uses `Objectives`' ranking through INSTANCE |

`MCRunQueue`, `MCWebServer`, `MCSoakDaemon`, `MCAutonomousAgent`, `MCAgentSoak`,
`MCTools`, `MCPlanners` and `MCEvidence` are the instances for TLC;
the theorems are in `RunQueueProofs`, `WebServerProofs`, `SoakDaemonProofs`,
`AutonomousAgentProofs`, `AgentSoakProofs`, `ToolsProofs`, `PlannersProofs` (index,
supervisor, repair and mission) and `EvidenceProofs` (verdicts, ranking, patches).

### RunQueue, WebServer, SoakDaemon

`row[i]` is the row of item i.  Python's `sqlite3` runs a SELECT in autocommit
and opens a transaction at the first UPDATE, so a function that reads a row and
updates it is two actions, with what it read kept in `sel`, `focus`, `intent`
and `newLease` of its process: `RecoverRead`/`RecoverWrite`,
`ClaimRead`/`ClaimWrite`, `FinishRead`/`Settle`, `OwnerRead`/`OwnerWrite`,
`Check`/`Write`.  The UPDATEs name the `queue_id` alone except the one of
`claim_next_items`, which also asks for `status = 'queued'`; the model has just
that.  A lease is a countdown: -1 is NULL, 0 has expired.  `ticket` and `held`
are history and local state: `ticket[i]` numbers the claims that took effect,
`held[p][i]` is the one p works under.  `execute_item` is `Reread`, time, and
`FinishRead`; its runner may return any verdict.  `Crash` is also the "database
is locked" that ends a worker.

A server is `Main[s]`, the event loop, and `Threads[s]`; all of them are workers
of `RunQueue` with `WebOwner` for a name.  `StartWorker`/`Launch` are the two
halves of `WorkerController.start` around the recovery, under the lock and, as
the handler runs in the single-threaded event loop, with no other request
between.  `LoopEnds` is the top of the loop: the stop file, or the limit of loops
or idle loops a start may have set ("bounded_start").  A run-once request may
bring an owner name of its own.

A daemon looks for its item and inserts it (`Ask`, `Insert`; of two daemons that
have both looked, the later insertion meets the primary key and fails), and then
steps as a worker of `RunQueue` until its stop file, its limit of idle loops
(`limit[d]`, empty for None; 0 is accepted and ends it before the first poll) or
its limit of loops ends it; `report` is the status of its state file.

### AutonomousAgent, AgentSoak

A TCAD state file is a number, `evidence[p]` what the agent reads in it.  The
checkpoint is `done` (flags), `made` (artifact -> the file it was made from, 0
for a key not set), `todo`, `risky` (slots a plan has filled), `from` (the file
a plan was last made from) and `runs` (counters).  `Policy` is the list of
guarded rows of `deterministic_action` in the order of the code, in four parts;
the action is the first whose guard holds.  `Enforced` is
`queued_llm_plan_context`: the actions a model may not replace.  Otherwise the
model's answer is any action with any file and any confirmation flag that
`normalize_agent_action`, `agent_action_safety_failure` and
`bind_action_to_latest_state` let through.  `execute_action` has one action per
branch.  The file is written before and after each action, so a process that
dies (`Crash`) leaves `state` as it is; an exception is recorded with whatever
the action had changed by then, a counter of refinements for one, and
`state.raised` counts those.

`soak` is what the soak's process knows, `file` what it has written; `agent` is
the agent's own file and `cap` the `max_steps` of the slice.  A run of the agent
is one step that ends in each of the ways the loop of `AutonomousAgent` ends.
`Judge` and `JudgeError` are the rest of the cycle, recovery decision and save
included.  A crash in a cycle leaves an agent that was running, or a torn file,
since `write_json` writes in place.

### Tools

All of these follow one pattern: the calls of one id come one after another,
each may resume, overwrite or only plan as its flags say, and each may die
between any two writes; what an inner tool or a solver does is a choice among
its outcomes.  A state file is written in one step, except where a test of the
model depends on the half-written file (`ExperimentIndex`, `Supervisor`,
`AgentSoak`).

* `SweepTool`: `mem` is the state in the call, `file` what is on disk,
  `launched[k]` how many runners were ever started in the directory of attempt
  k.  `StepsDescend` says which steps may follow which: halved
  down to `min_step`, never above the request, on every axis.
  Reading, judging or augmenting a summary may raise (`JudgingRaises`,
  `DAugmentRaises`) and leaves a run at work with a completed attempt.
  `RunIsRecord` is the refinement: with `status` and `outcomes` read off `file`
  every step is a step of `RunRecord` or a stutter.
* `ProcessControl`: one tick is a poll interval.  The child may exit, ignore
  SIGTERM, or leave a grandchild with its pipes; the cancel file may come and go.
* `Optimizer`: a round is a sweep, a case a task with a directory named after
  round and position; `made` are the directories, which outlive an overwritten
  state.  The arithmetic of the axes is abstracted to "some points not seen".
* `Convergence`: a metric is a small number and the relative delta a difference.
* `ExtendedDevice`: files are named by the call that wrote them, which is how
  `FilesAreTheStates` tells a curve from an earlier call's.  A request whose
  formula cannot be evaluated is not `sound`, and anything else may raise
  between the files (`OtherRaises`); the state names the reason.
* `Sentaurus`: `real[k]` is what became of step k, `commands` what the program
  believes; `trouble` notes which of squeue and scancel failed.  `stale` are the
  return codes an earlier run left in the project, which a job that is lost does
  not replace; a job is "unknown" when sbatch queued it and the run has no id.

### Planners

`Supervisor` saves the action it has chosen, executes it, refreshes the index
and saves again; `sfile` and `smem` are the two views.  A goal is the set of key
words found in it, `Routes` and `OnExisting` the keyword rules in their order.
`MissionAgent` has the goals with their dependencies (`mfile.goals`), the steps
due, the counters of cycles and replans; `Choose` is `choose_next_step` row by
row; a plan of the model may name the file a step works on.  `Repair` has the
rounds, `xmade` the directories.  Calls of both resume or start over what is
there (`xover`), as a mission does with its repair.  `ExperimentIndex` reads file
by file in one transaction and commits; the key of a row is not its path, so two
files with one key conflict and every rebuild raises.

### Verdicts and patches

In `Quality` and `Benchmark` a number is the side of the judge's bounds it lies
on, so that a result is a record of facts; a rule is a row `<<fact, value, code,
severity>>`.  `Outcomes` says which sides a tool can leave at all.  `EvidenceChain`
carries a result through the steps that write files: `RunBenchmark` writes
benchmark.json, the repair executor folds it into an augmented state, plan and
design read that, the conclusion reads what is on disk; a rerun in the same
directory replaces the result and leaves benchmark.json behind.

`RequestPatch` counts voltages in steps of 12.5 mV and applies the patches of
`repair_strategy.py` one after another.  `PatchLoop` has `runs` (deck, reading,
candidate, baseline, decision of each), `history` (what the next request
repeats), `pending` (the chosen candidate) and `archive`.  The planner's scores
order its candidates; a tie is left open.  A run that fails is a solver that did
not converge.  A high risk is a candidate that needs confirmation.

## 3. Runs

| Run | Instance | What it asks | Result |
|---|---|---|---|
| `queue_control` | 1 item, 2 workers, 1 client, 2 calls of any kind, 1 crash, 1 owner recovery, leases of 1 tick | `TypeOK`, `LeaseDiscipline`, `OneHolderPerTicket`, `RunningUnderHolder`, `TerminalSticks` | holds |
| `queue_punctual` | 2 items, batches of 2, 2 workers, 2 calls, 1 crash, no expiry | `NoOverlap` | holds |
| `queue_live` | 2 items (2 and 1 attempts), batches of 2, 2 workers, 1 crash, a clock | `AttemptsWithinMax`, `RowsAreServed` | holds |
| `web_single` | 1 server, 1 outside worker, 1 client call, start with and without limits, stop, run-once, 3 restarts or dead workers | `WebInvariant`, `StopIsObeyed` | holds |
| `daemon` | 2 daemons with one item and a limit of 2 idle loops, or 1 with none, 0 or 2 and a more urgent item before its own; limits of loops; 1 crash | `DaemonInvariant`, `DaemonEnds` | holds |
| `agent_policy` | 8 requests, 6 kinds of evidence, 2 launches | `LimitsHold`, `SignoffHolds`, `NeverRepeats` | holds |
| `soak` | 4 requests, 3 steps in slices of 2, 1 retry, 1 guided patch, 2 launches | `TypeOK`, `RetriesBounded`, `EndMatchesAgent`, `RecordedOnce`, `SoakIsFinite` | holds |
| `tools` | 8 subjects, up to 3 calls and 1 crash each | `SweepInvariant`, `WrapperInvariant`, `ProcessInvariant`, `CampaignInvariant`, `DeviceInvariant`, `SentaurusInvariant`, `RunIsRecord`, `ResultsAreKept`, `CallsSettle` | holds |
| `planners` | 4 subjects, 2 calls and 1 crash each | `SupervisorInvariant`, `RepairInvariant`, `MissionInvariant`, `RecordsAreKept`, `PlannersReturn` | holds |
| `evidence` | every tool's results with up to two facts off, 3 candidates, 3 request patches, 4 deck patches | `BenchmarkInvariant`, `ConclusionInvariant`, `RepairPlanInvariant`, `RankingInvariant`, `PatchInvariant`, `PatchLoopInvariant` | holds |
| `queue_duplicate` | 2 workers, a clock | `NoOverlap` with leases that expire | violated |
| `repair_request` | 2 patches, the one for a unit bias among them | `PatchedRequestValid` | violated |

Sizes: between 47,000 (`queue_live`) and 1.5 million (`agent_policy`) distinct
states, none over about two minutes on two cores.  The invariants of section 4
that a theorem rests on were checked on these instances first.

### Properties by name

Most properties are conjunctions of named parts, each with a mutant of its own;
the part's comment in the module says what it asks.

* `WebInvariant`: `OneThread`, `OwnersExclude` (an item has no two executing
  owners), `WebRowsHaveWorker` (a restart leaves no orphan).
* `DaemonInvariant`: `IdleLeavesNothing` - a daemon that ends for want of items
  does not say "idle" over an own item still queued.
* `LimitsHold`: `GatesHold` (preflight, evidence gap, unverified patch),
  `RefinementsWithinMax`.  `SignoffHolds`: `SignoffIsCurrent`, `SignedOff`.
* `SweepInvariant`: `OneRunnerPerDirectory`, `StepsDescend`,
  `AttemptsWithinMax`, `CompletedHasSummary`; `WrapperInvariant`:
  `DiodeRestsOnPN`, `DiodeFollowsPN`, `TaskRestsOnRun`, `TaskResumes`.
* `ProcessInvariant`: `CancelIsNonzero`, `NoChildLeft`, `StoppedInTime`.
* `CampaignInvariant`: `PassedIsConverged`, `StudyIsItsSweep`,
  `WithinBudgets`, `NoPointTwice`, `BestIsBest`.
* `DeviceInvariant`: `SolverBehindEvidence`, `FilesAreTheStates`,
  `VerifiedHasState`, `ReadyIsEarned`; `SentaurusInvariant`:
  `CompletedRanAll`, `NoOrphanJob`.
* `ResultsAreKept` (actions): `CompletedKept`, `FormulaRepeats`;
  `RecordsAreKept` (actions): `NeverOlder`, `FinishedStays`,
  `NoRepeatWhileUntried`.
* `SupervisorInvariant`: `CyclesAreActions`, `SearchableAfterRun`,
  `NoSurrogate`, `ResultCheckpointed`; `RepairInvariant`: `RoundsWithinMax`,
  `AcceptedPassed`, `SensitiveIsAllowed`, `RunsAreFresh`; `MissionInvariant`:
  `ReplansWithinBudget`, `CyclesWithinMax`, `NoBorrowedEvidence`,
  `RepairIsConfirmed`.
* `BenchmarkInvariant`: `VerdictsAgree`, `PackReadyIsBacked`,
  `QualityNotOverruled`, `AggregateNoBetter`; `ConclusionInvariant`:
  `BaselineIsSound`, `StrictDeckIsConverged`, `PlannedDeviceIsRefused`;
  `RepairPlanInvariant`: `AcceptedIsClean`, `RefusedHasReason`,
  `PlanCoversFailures`, `NothingLeftIsClean`.
* `RankingInvariant`: `DominatedByTheFront`, `BestIsOnTheFront`,
  `ContinuesUnviolated`; `PatchInvariant`: `PatchedRequestValid`.
* `PatchLoopInvariant`: `RunIsTheValidatedDeck`, `ContinuationsShrink`,
  `RejectedIsLeft`, `TradeoffStops`, `OnlyVerifiedRuns`, `ArchiveIsComplete`.
* Liveness: `RowsAreServed`, `StopIsObeyed`, `DaemonEnds`, `SoakIsFinite`,
  `CallsSettle`, `PlannersReturn`.

### Combined runs

`MCTools`, `MCPlanners` and `MCEvidence` put several components into one run.
A behaviour belongs to one `subject`; the variables of the others stay at their
initial values.  They share no variable, so no interleaving is lost, and a
property that is a conjunction over the subjects is checked for each in its own
behaviours.

### Disagreements of code and documentation

Two runs show one, told in full under `findings`:

* No heartbeat renews a lease while the runner executes: a run longer than its
  lease is executed twice (`queue_duplicate`).
* `unit_bias_patch` raises `min_step` without `step`: the repaired request is
  refused by its own tool (`repair_request`).

Others were met while modelling.  Each has been seen as a
counterexample; the runs are not kept, as the properties now say what does hold
instead:

* `set_item_status` and the settling functions read a row and update it in two
  steps, so a completion or a cancellation that comes between is lost
  (`TerminalSticks` states what holds).
* An approval on the last attempt queues an item no worker will claim.
* Two workers of one owner name (a run-once request and the thread) both count a
  claimed row as theirs (`OwnersExclude`).
* While the policy's own next action is an audit or the like, a model may answer
  with the baseline run itself and pass the preflight gate (`GatesHold` is about
  the deterministic policy).
* Curve guidance runs on an agent that waits for the user, was cancelled or
  failed; its deadline and the cancel file still end such a soak.
* A refinement whose step raises has been counted and is repeated on resume: two
  runs of `max_mutation_refinements` 1 (`RefinementsWithinMax` allows as many
  more as raised).
* A repair completes over a result without a benchmark when the benchmark raised
  in the round before, or is "unsupported", though `docs/repair_executor.md:7`
  wants it passed (`AcceptedPassed`); started over under its fixed id, as by a
  mission, it meets the directories of its earlier attempts (`RunsAreFresh`).
* The index is refreshed before the checkpoint is written and may raise: the run
  is then in no checkpoint, against `docs/supervisor.md:141`
  (`ResultCheckpointed`, history `unsaved`).
* A plan of the model may name another mission's file as evidence; nothing checks
  it (`NoBorrowedEvidence`).
* A daemon that `max_loops` ends, or one with `max_idle_loops` 0, says "idle"
  whatever is in the queue (`IdleLeavesNothing`).

Quirks that no property rules out, kept in the models as they are:

* Sentaurus: a curve that came with the project counts as the solver's; a step
  whose job was lost is read off the return code file of an earlier run
  (`CompletedRanAll` names the case); an
  sbatch killed by the cancel file, a failing squeue or a failing scancel leaves
  a job on the cluster; a process that dies leaves a directory without a state,
  which the next call refuses to enter.
* Benchmark: a passing check whose code contains "shape" makes the level
  conditional; a maximal to oxide capacitance ratio below 0.02 is reported as
  near the limit; a failed PN or diode run passes the thermal reference check;
  `golden_metric_*_missing` counts as a comparison; the `best_case_` prefix hides
  a code from the table of repairs; failed or too few cases of a mesh study (`mesh_case_failures`) have none of their own, those of a tool study do;
  a word like "field" or "ron" anywhere in a code, prefix included, asks for a
  deck mutation; the convergence axis of a BJT has delta 0; mesh values may repeat, and the finest mesh run twice converges;
  `benchmark_for_state` may read a
  stale file.  Golden, Schottky, Sentaurus and IGBT results have no objective
  and so no decision; a candidate without an objective's metric may be on the
  front without a score.
* Mission: a study that is suspicious completes its goal step, though its record
  needs a repair; a call without resume forgets what was finished.
* Index: two state files with one (experiment_id, kind) end every rebuild with an
  exception (experiment_index.py:71, as line 310 expects a conflict of paths
  only); `AllIndexed` excepts them (`SharedKey`).
* Repair patches: `reverse_range_extension_patch` lowers `stop` without a look at
  `start`, so a sweep that rises from -10 V to -1 V or above is left with
  `stop = start`, which its tool refuses (`Extensible` of section 4).
* Patch loop: a rejected patch is not rolled back but stays in the history; only
  the candidate just before is excluded, so A-B-A is possible; losses within
  tolerance add up, as the baseline is always the latest run; a fourth
  refinement or a long name is cut to a run id that exists, and the run fails; a
  better status continues even when the primary metric lost; half a step on from a
  negative number may end on the positive side, as `refined_numeric_text` guards
  the other direction only; words of the goal
  and the growing names of candidates keep deciding which metric is primary.

### Bounds

Two workers show every race between claims; two items in one batch, the wait of
the second behind the first.  A lease of one tick expires at once or not, the
order in which things happen being all that counts.  Calls, crashes and
restarts are counted because a history of n + 1 of them differs from n only in
what came before; each run has enough for two of them to meet.  In
`agent_policy` ten steps take every deterministic flow to its end; one or two
steps suffice for a model, whose answers depend on the state and hardly on how
it was reached; three state files allow a baseline, a patch and a repair.  In
`soak` three steps in slices of two make one full slice and one cut short by
`max_steps`; a process has at most one retry per failure family and is launched
twice, so that it can die, resume and finish.  Families of failures beyond two
behave alike.

`tools`: three calls let one create, one die and one resume.  Two bias axes with
steps 8 and 4 and minima 2 and 3 reach their minimum at different attempts, and
three attempts pass both.  Three rounds and three cases make the budgets of a
search bind one before the other; meshes come unsorted; two Sentaurus steps tell
the last step from one before it.  `planners`: two cycles or rounds, two calls
and a death; two files with keys of their own or with one; eight mission cycles and two replans let every plan of the instance
run out; each keyword route has a goal, and one goal asks for two.  `evidence`:
a fact that matters alone or together with another is off in some result - the
request (deck, models, measured curve, requested numbers) next to any other one;
rules that read three facts are met through `Settled`, which ties facts
together, or not at all.  Three candidates are the least with a dominated one
between two others.  Four rounds of deck patches are the four parts a candidate's
name may grow, and the readings include gains with, without and with bearable
losses, a failed and an unmeasured run; switches have at most four candidates.

### Fairness

Queue: a worker that polls goes on (`run_queue_daemon` sleeps and tries again),
a call that was made goes on, time passes.  A crash, a call and an enqueue are
never forced.  `RunningIsSettled` needs the clock since only an expired lease
brings back the row of a dead worker.  Web server: the event loop and the
threads go on; requests are never forced.  Daemon: a daemon goes on.  Soak: the
process goes on, which assumes that a run of the agent returns or raises (its
tools run under timeouts), and time passes.  `tools` and `planners`: the process
of the subject goes on (`ToolsWork`, `PlannersWork`); a new call, a death, the
child's exit and the cluster's end of a job are never forced.  `CallEnds`
therefore assumes a timeout or a cancel file that stays, and pipes that are
closed at last; `SentaurusEnds` rests on the deadline of the poll.  `AllIndexed`
assumes that a write that began ends, that somebody keeps rebuilding, and that
no two files share a key.  `DaemonEnds` promises an end only to daemons with a
limit or a stop file.  The
agent's module states no liveness: its loop is bounded by `max_steps`.

Deadlock is checked where there is always something to do (all runs of queue
and web server); what has been launched or called as often as the bound allows
has stopped, and those runs say `CHECK_DEADLOCK FALSE`.

### Mutants

Every property of a passing run has mutants, one for each part of a conjunction
where a slip can break it: an operator beside the definition it replaces, that
a plausible slip would leave - an UPDATE that forgets a column, a guard off by
one, a save left out, a row dropped from the policy, the history replayed
without its first part.

## 4. Proofs

Every theorem holds for all values of the constants that satisfy the named
assumptions of the modules (`SetsAssumption`, `RequestAssumption` and so on),
which TLC evaluates for the instances.  Those state what the code's request
models and call sites enforce - limits are naturals, positive where the model
demands it, rows and plans have the fields they have - and that a bound is a
number.  Where a theorem needs more, its statement says so.  Each proof has the
same outline: an invariant stronger than the property, one lemma that it holds
in the beginning, one that every action keeps it, one that the property follows.

### Queue, web server and daemon

`RunQueueProofs` holds, for all items, workers, clients, names and bounds:

| Theorem | Says |
|---|---|
| `TypeCorrect` | `Spec => []TypeOK` |
| `LeasesAreDisciplined` | a row is running iff it names an owner, and has a lease then |
| `ClaimsAreExclusive` | if owner names differ, no claim of an item is held by two workers |
| `RowsNameTheirHolder` | if owner names differ, a running row names the holder of its latest claim and no superseded one |
| `TerminalItemsStick` | a cancelled item, or a completed one nobody executes, keeps its status once no update of it is under way |
| `PunctualExclusion` | under `PunctualSpec` no two workers execute an item at once |
| `AttemptsAreBounded` | with at most two workers and nobody who returns rows by hand, no item is claimed more than `max_attempts` times |

The argument.  `BasicInv` adds to the types what a process carries between the
two halves of a function (`ProcInv`): the item it works on, that `spent` is part
of `sel`, that a claim has a lease to write.  Without it neither the types nor
`LeaseDiscipline` are inductive.  `TicketInv` is the reason claims are
exclusive: nobody holds a ticket not yet issued, a running row was claimed, and
the holder of the last ticket of a running row is the owner the row names; a
claim either issues a new ticket, which nobody holds, or adopts a row that names
the claimer already, which by the distinct names is the holder itself.
`RunningUnderHolder` follows from the same invariant.  For `TerminalSticks`,
`Quiet(i)` says that no process is between a read and an update of i; a step
from such a state can put one there only by a read that sees the terminal
status, and those reads give up.  For `PunctualExclusion`, `PathInv` says that
no recovery finds anything, `OnceInv` that a row that has left "queued" is not
queued again, so an item has one ticket, and `ClaimsAreExclusive` does the rest.
For `AttemptsAreBounded`, a row that a worker has selected, or that a recovery may
return while another worker has it selected, has an attempt left (`AttemptsInv`).
A claim between that reading and that return would take the last attempt, and
would have to be a third worker's, as the two are busy: with three the documented
bound of `docs/run_queue.md` does fail, and so it does when a client resumes the
row.

`DistinctOwners` is what a web server with a run-once request beside its thread
breaks; what is left of the exclusion there is the next theorem's.

| Theorem | Says |
|---|---|
| `WebServerHolds` (`WebServerProofs`) | `OneServer /\ NoRequeue => (WebSpec => []WebInvariant)` |
| `IdleDaemonsServed` (`SoakDaemonProofs`) | `OnlyDaemons => (DaemonSpec => []DaemonInvariant)` |

`OneServer` leaves its threads, the other workers, the items and the clients
open; two servers do re-queue each other's rows (hazard at `asgi_web.py:47`).
`NoRequeue` excludes a resume or an approval by hand of an item at work, and
`WebSpec` leases that expire under it, both of which make two owners execute one
item (`queue_duplicate`).  `HoldInv` says that what a worker holds is no longer
queued and names the worker's owner while it runs; only the recovery of the
server puts a row back, and `RecoveryInv` says that the recovery has selected
every running row of its owner and that nobody holds one of those, because
(`ServerInv`) the event loop that recovers has no thread alive and holds nothing
itself.  That `WebRowsHaveWorker` is inductive rests on the same.

`OnlyDaemons` says that daemons alone work on the queue.  With another worker,
or a client that cancels, a daemon's claim may come too late for the rows it has
selected; such a poll counts as an empty one, although its own item may be there
by the next.  The limits a start is given are open: none, any number, 0.
`Served` is what a daemon relies on while no second one has been
started: queued rows have attempts left, so that a poll that finds nothing means
there is nothing; the rows it selected are still queued when it claims them; and
after an empty poll its own item is not in the queue.

### Agent and soak

| Theorem of `AutonomousAgentProofs` | Says |
|---|---|
| `GatesAndBudgetHold` | `Spec => []LimitsHold`, refinements that raised included |
| `CompletionIsSignedOff` | `Spec => []SignoffHolds` |
| `PolicyNeverRepeats` | `Spec => [][NeverRepeats]_vars` |

The policy is a table of 36 rows of which the first that applies is ordered.
`FirstRow` says so of any state - the least row that applies exists, as the last
one always does - and from it `OrderRows` derives what an ordered action implies
about the checkpoint: that every row before it did not apply.  `AgentInv` is the
types, the two parts of `SignoffHolds`, the places (`PlacesInv`) and, when no
model is asked, `Determined`: flags are recorded in the order of the gates
(`RecordedIn`), and the action at work is one the policy orders in the present
state (`Ordered`), which a crash between choice and execution cannot change
since a resumed agent chooses again.  For `PolicyNeverRepeats`, three tables
(`SetupTable`, `PlanTable`, `EndTable`) say which flag, artifact or slot each
row waits for, and `ActionIs` with the `...Leaves` lemmas that the branch that
executes it sets just that.

`AgentSoakProofs` holds, for all requests, reasons and limits of the soak:

| Theorem | Says |
|---|---|
| `SoakTypeCorrect` | `Spec => []TypeOK`; the agent never goes beyond `max_steps` |
| `RetriesAreBounded` | no family of failures is retried more than `max_recovery_attempts` times |
| `EndsMatch` | a soak that completed, failed or reached `max_steps` has an agent that did |
| `RecordedAtMostOnce` | a state is recorded at most once, but for a loss |

The argument.  `Inv` adds to the types what the three files say of each other.
`FileInv`: the soak never knows of more steps than the agent took, which is what
keeps a slice computed from a torn file within `max_steps` and makes "reached
`max_steps`" true even then; and a soak at work is "running" in its file, so an
agent that changes cannot contradict an end on disk.  `RetryInv` relates the
history `retries` to the counts in `file` and in `soak`: the event is saved in
the step that starts the retry, so what a crash loses was never acted on.
`EndInv` carries the end from the judgement to the last write.  `RecordInv`
says where a state without a record leaves a loss to account for it; it needs
only that a process at work agrees with its file about the record.

### Tools

| Theorem of `ToolsProofs` | Says |
|---|---|
| `RunKeepsItsPromises` | a run id has one runner per directory, descending steps, bounded attempts, a summary when completed |
| `RunImplementsRecord` | `SweepTool` implements `RunRecord` (the refinement) |
| `DiodeFollowsItsRun`, `TaskFollowsItsRun` | the same run under the diode tool and under a task, whose states follow it |
| `ProcessIsControlled` | no child is left, the call returns in time, a cancellation is no success |
| `DeviceIsBacked` | evidence has a solver behind it and files of its own call |
| `FormulasRepeat` | a formula called again loses its result neither to its directory nor to the formula, only to another exception, which the state names |
| `SentaurusReportsTruly` | a completed run ran every step well, but for a lost job over a left return code; a job with an id outlives it only after squeue or scancel failed |
| `SearchKeepsItsPromises` | a search keeps its budgets, tries no point twice, names its best |
| `SearchKeepsCompleted` | no step of a search takes a completed observation back (an action property) |
| `StudiesConverge` | `DistinctMeshes => (ConvergenceSpec => []StudyInvariant)` |
| `ToolsKeepTheirPromises`, `CampaignsKeepTheirPromises` | all of these invariants in the composed run, whichever subject is called |
| `ResultsStay` | `ToolsSpec => ResultsAreKept`, of any instance |

`SweepInv` adds three things to the properties.  `CallInv`: at every place but
between a change and its write, `mem` is what the file says, and the attempt at
work is the last there; so a call that resumes after a death continues what was
written.  `StepInv`: the steps of the next attempt may follow those of the last.
`LaunchInv`: no runner was given a directory of an attempt that is not in the
file, which is why the attempt is saved before its directory is used.  The
refinement then follows step by step: only the write of an attempt or of an end
changes what a reader sees, and each is a step of `RunRecord`.  A wrapper's
invariant adds where it waits and what it was told (`DiodeCallInv`,
`TaskCallInv`).  `ClockInv` bounds the clock by the place of the call.
`FilesInv` and `FlowInv` number the calls: what is in the directory when a call
writes its state is of that call.  `RanInv` and `JobInv` follow a Sentaurus job
through submit, poll and pull: the steps behind `at` really ended well or were
lost over a left return code, and a job that is active without a reason to be has
a step that is still being polled.  For `FormulasRepeat` the file is followed
from the call that wrote it: what completed was sound, and only `Open` of a
resuming call finds the directory in its way.
`Selected(s, P)` is what a comprehension keeps of s, the entries at the positions
P; `RankFacts` and `NthFacts`, by a least counterexample, say that it lists each
of them once and in order, from which `SelectedFacts` gives the rest.
`SearchFileInv` is what holds of a saved search: at most as many rounds and cases
as any of its calls may have allowed, no value executed twice, the best named
among the completed.  `RoundInv` ties a round at work to the sweep it drives: the
proposals left are new ones, and together with the observations they stay within
`max_cases`, also when a resume has dropped the planned ones.  `StudyCallInv` says
that the cases of a study in memory are those of its sweep file but for the one
at work.  `StudiesConverge` needs `DistinctMeshes`, the values of a mesh study are
different: with `<<1, 1, 2>>`, which the validator accepts, the two finest
completed cases are one mesh twice, the delta is 0 and the study passes.
The composed theorem asks that no timeout is one of the timeouts tried
(`NoTimeout \in Timeouts`), as a process at rest has none.

### Index, supervisor, repair and mission

| Theorem | Says |
|---|---|
| `RowsNeverGoBack` (`PlannersProofs`) | no row of the index returns to an older version of its file, whatever rebuilds overlap |
| `SupervisorKeepsItsRecord` (`PlannersProofs`) | `SupervisorInvariant` |
| `RepairKeepsItsRounds`, `RepairTriesOthersFirst` (`PlannersProofs`) | `RepairInvariant`, over calls that resume or start over; an action is tried again only when all others have been |
| `MissionKeepsToItself`, `FinishedIsKept` (`PlannersProofs`) | `MissionInvariant`, whatever files a plan names; a finished goal step stays so until a call starts over |
| `PlannersKeepTheirStates`, `NothingIsTakenBack` (`PlannersProofs`) | the invariants, and `RecordsAreKept`, in the composed run |

`IndexInv`: one rebuild at a time has rows of its own, and what it read of a
file is not older than the row there is, unless the file was half written or
has been written since.  `SupervisorInv` says where file and memory agree
(`PlaceInv`), that a recorded run is in the index (`RowInv`) - a rebuild that
began after the result was written has read it, `Finds` - and what may be
counted twice after a death (`RunsInv`).  `RepairInv`: the attempts are saved
before a directory is made, so the one about to be made is not there unless a
call started over; the result an executor completes with passed its judge, and
one without a benchmark is of an attempt that failed (`SoundRepair`).  `MissionInv`: the
memory keeps whatever the file calls finished, and the step at work was chosen
within the budgets there are.

### Verdicts, ranking, patches and the patch loop

| Theorem of `EvidenceProofs` | Says |
|---|---|
| `StatesAreSound` | a state file, of a judged or a failed run, is a `SoundResult` |
| `BenchmarkIsConsistent` | `ChainSpec => []BenchmarkInvariant` |
| `ConclusionIsDeserved` | `ChainSpec => []ConclusionInvariant` |
| `RepairStopsAtClean` | `ChainSpec => []RepairPlanInvariant` |
| `RankingCanBeFollowed` | `PositiveWeights => (ObjectivesSpec => []RankingInvariant)` |
| `PatchesKeepRequestsValid` | `SafePatches /\ Extensible => (PatchSpec => []PatchInvariant)` |
| `PatchesGoOn` | `LoopSpec => []PatchLoopInvariant` |

The chain holds for any results that are sound: a report that passed has no
issue, one that did not names one, a search has no report of its own, a device
has a golden profile (`ResultsAssumption`).  `StatesAreSound` shows this of the
functions of `Outcomes` that build states from any facts, so it is not a choice
of the instance.  `ChainInv` says that each file on disk is what its function
makes of the present result, except that after a rerun the benchmark and the
design are of some former one until the conclusion has made the benchmark anew.
What remains are lemmas about the functions, for all results.  `ChecksThere`:
which finding of a result puts which check into its benchmark.  `VerdictsFollow`:
status, sign-off, level and pack are all decided by whether there is an error or
a warning.  The pack alone names a code, the one of a device without a runner,
and `Honest`, proved table by table, says that this code is never less than an
error; for codes put together from parts it rests on `CodesAssumption`, that no
such code is that one, as strings are constants to the provers.  `PlanFollows`:
the plan's first action for such a device is to write the runner, since its
priority of 110 is the greatest (`RepairsAreLater`).  `DesignFollows` and
`DecisionFollows` do the same for the design and the conclusion.

For the ranking, induction is replaced by a least number (`LeastNumber`): a case
beaten by none with fewer points is beaten by one on the front
(`FrontBeatsTheRest`), and the fold of the score exists and grows with each
metric (`TotalExists`, `TotalGrows`), so that a dominator scores less
(`DominatorScoresLess`) and the best is on the front.  With a weight of zero or
less, which the code accepts, that fails: hence `PositiveWeights`.

For the patches, `SafePatches` leaves out `unit_bias` and `moscap_window`, which
change one of `step` and `min_step` without the other (`repair_request`).
`Extensible` asks of a reverse sweep to extend that it descends or starts at
-1 V or above.  `PatchInv` adds that it goes on doing so.  The request types of
the tools justify `SweepsAssumption`, that a repaired run had a valid request.

For the loop of Sentaurus patches `LoopInductive` says of the runs that each
`Succeeds` the one before it: its candidate `Follows` (the patches fit the deck
of that run, each changes a value, and the decision allows the kind of
candidate), its deck is that deck with the patches, and a decision to go on
comes with no loss beyond tolerance.  A loop that replays its history is right
because `Applied` of two lists of patches, one after the other, is `Applied` of
both in one (`AppliedJoined`); a continuation shrinks because the deck has the
values of the patches just made (`AppliedHas`), which holds as a candidate
patches no parameter twice (`Fits`, shown of every row of the planner by
`BuiltAreOffered`).  `PatchLoopAssumption` says no more than that decks hold
numbers and readings are not negative.  The chain of the archive is the whole
history as each run is compared with the latest (`ChainIsWhole`).  Its best
entry is on the front by the lemmas of the ranking, all weights being 1; where
no entry is scored none dominates, and the last one, which the code names, is on
the front (`BestExists`, `BestOnFront`).  Functions that recur on a list are
reasoned about by a number that follows whenever those below it do
(`EveryNumber`).

### What is only model-checked

All liveness: `RowsAreServed`, `StopIsObeyed`, `DaemonEnds`, `SoakIsFinite`,
`CallsSettle`, `PlannersReturn` rest on fairness, which is beyond this prover.

## 5. Not modelled

Heartbeats, ledgers, lifecycle events, hypothesis trees and HTML are written and
never read by the code that decides.  What a simulation computes and what a
model answers are nondeterministic choices; of a curve and its metrics the
models know the sides of the bounds they lie on, not the formulas.  Deck and TCL
text, its parsing and rewriting, the features of curves, and Sentaurus files of
several decks or of transients are left out; a deck is its parameters.  Sentaurus
contracts, profiles and preflight, the mutation schema, intents, templates and
catalogues keep no state of their own and enter the agent as choices.
`long_run_validation.py` is a script that enqueues cases and summarises what
comes back.  The pages of the web server and the dashboards read and render.

A second server on one database is not in the instance: by its fixed owner name
it re-queues the rows of the first at import, as the hazard at `asgi_web.py:47`
says.  A TCAD state file does not change once written, except where a rerun is
the question (`EvidenceChain`, `ExtendedDevice`).  Approvals of the agent allow
confirmations and unverified decks together.  Missions over Sentaurus projects
and user decks are left out, as are repair patches of physical models, deck
mutations and field names.

## 6. Plan

Done: the modules of section 2; the proofs of section 4.  Next:

1. An abstract agent (launched, at work, ended) that both `AutonomousAgent` and
   the agent of `AgentSoak` implement, so that the abstraction of the latter is
   checked rather than argued.
2. The Sentaurus contracts and the promotion of the mutation schema, the
   diagnostics of curves, and the cases of the long-run validation.
