----------------------------- MODULE MissionAgent -----------------------------
(***************************************************************************)
(* mission_agent of src/tcad_agent with goal_decomposer and                *)
(* long_horizon_agent: the calls of one mission id, one after another,     *)
(* each of which plans or executes, resumes what the last one left or      *)
(* starts over, and may die anywhere.  A mission's goal is a plan of steps *)
(* that depend on each other; cycle by cycle it refreshes the index when   *)
(* that is due, replans after an issue, or executes a step that is ready.  *)
(*                                                                         *)
(* A result is abstracted to whether it needs repair; the text of a goal,  *)
(* to the plans and the replans it may lead to.  What the steps call       *)
(* (supervisor, tool_convergence, repair_executor, ...) is abstracted to   *)
(* its outcomes; Supervisor and Repair model two of them.                  *)
(***************************************************************************)
EXTENDS Naturals, Sequences, SequencesExt, FiniteSets, FiniteSetsExt

CONSTANTS
    Goals,       \* what is read off the goal: [clear, history, sweeps, reference]
    ModelPlans,  \* the plans a model may decompose it into
    Patches,     \* the replans the model may answer with
    MayFailPlan, \* no LLM fallback: the decomposition may fail
    Outcomes,    \* the results of the tools: "none", "good", "bad"
    MayRaise,    \* the steps that may raise an exception
    NeedsConvergence, NeedsSignoff,  \* evidence_requirements of the intent
    MaxCycles, MaxReplans,           \* max_cycles of every call; the budget of replans
    MaxIndex,    \* indexes of goal steps
    Modes,       \* the values of execute tried
    MaxCalls, MaxCrashes  \* bounds

VARIABLES
    mfile,   \* mission_state.json
    mmem,    \* the state of the call at work
    mpc,     \* where it is
    mexec,   \* its execute flag
    mstep,   \* its step: what it does, for which goal step (0, none), and its target
    mcalls, mcrashes

mvars == <<mfile, mmem, mpc, mexec, mstep, mcalls, mcrashes>>

GoalKinds == {"query_history", "run_supervisor", "run_tool_convergence", "run_golden_comparison",
              "run_physical_benchmark", "run_repair_executor", "generate_conclusion", "ask_user"}
\* named: its request names the file it works on, the state to benchmark or to
\* conclude on or the reference curve; nobody checks whose state that is.
GoalStep == [index: 1 .. MaxIndex, kind: GoalKinds, deps: SUBSET (0 .. MaxIndex), stop: BOOLEAN, named: BOOLEAN]

ASSUME MissionAssumption ==
    /\ {MaxCycles, MaxReplans, MaxIndex, MaxCalls, MaxCrashes} \subseteq Nat /\ Modes \subseteq BOOLEAN
    /\ Outcomes \subseteq {"none", "good", "bad"}
    /\ Goals \subseteq [clear: BOOLEAN, history: BOOLEAN, sweeps: Nat, reference: BOOLEAN]
    /\ \A goal \in Goals : goal.sweeps + 6 <= MaxIndex
    /\ ModelPlans \subseteq Seq(GoalStep)
    /\ Patches \subseteq [soft: SUBSET (1 .. MaxIndex), skip: SUBSET (1 .. MaxIndex), append: Seq(GoalStep)]

StepKinds == GoalKinds \cup {"rebuild_index", "agent_replan", "generate_repair_plan", "skip_goal_step", "noop"}
\* A suspicious result needs repair like a failed one; only a suspicious
\* convergence study counts as evidence all the same.
Records == {"none", "good", "suspicious", "bad"}
Targets == {"none", "golden", "tool", "primary", "history", "repaired", "named"}
NoStep == [kind |-> "noop", goal |-> 0, target |-> "none"]

Finished == {"completed", "skipped", "soft_failed"}
Blocked == {"failed", "waiting_for_user"}
GoalStatus == {"none", "running"} \cup Finished \cup Blocked
Signature == [soft: Nat, blocked: SUBSET (1 .. MaxIndex), error: StepKinds \cup {"none"}]
NoSignature == [soft |-> 0, blocked |-> {}, error |-> "none"]

\* MissionState with the parts of its checkpoint that steer it.
State == [
    status: {"absent", "planned", "running", "waiting_for_user", "completed", "failed"},
    decomposed: {"running", "completed", "failed"}, plan: Seq(GoalStep),
    goals: [1 .. MaxIndex -> GoalStatus], cycles: Nat,
    indexed: BOOLEAN, due: SUBSET {"primary", "tool", "golden"}, fresh: SUBSET {"primary", "tool", "golden"},
    primary: Records, tool: Records, golden: Records, history: Records,
    bench: {"none", "unsupported", "passed", "bad"}, soft: Seq(GoalKinds), replans: Nat, signature: Signature,
    error: StepKinds \cup {"none"}, planned: BOOLEAN, confirm: BOOLEAN,
    repair: {"none", "completed", "failed", "waiting_for_user"}, repaired: BOOLEAN,
    conclusion: BOOLEAN, decision: {"none", "ask_user", "finish", "replan", "continue",
                                    "continue_with_risk", "repair_or_verify"}]

\* create_initial_state, the decomposition deferred.
Fresh(exec) == [
    status |-> IF exec THEN "running" ELSE "planned", decomposed |-> "running", plan |-> << >>,
    goals |-> [i \in 1 .. MaxIndex |-> "none"], cycles |-> 0, indexed |-> FALSE, due |-> {}, fresh |-> {},
    primary |-> "none", tool |-> "none", golden |-> "none", history |-> "none", bench |-> "none",
    soft |-> << >>, replans |-> 0, signature |-> NoSignature, error |-> "none", planned |-> FALSE,
    confirm |-> FALSE, repair |-> "none", repaired |-> FALSE, conclusion |-> FALSE, decision |-> "none"]

MissionTypeOK ==
    /\ mfile \in State /\ mmem \in State
    /\ mpc \in {"idle", "decomposing", "choosing", "executing", "saving"}
    /\ mexec \in BOOLEAN /\ mstep \in [kind: StepKinds, goal: 0 .. MaxIndex, target: Targets]
    /\ mcalls \in 0 .. MaxCalls /\ mcrashes \in 0 .. MaxCrashes

MissionInit ==
    /\ mfile = [Fresh(FALSE) EXCEPT !.status = "absent"] /\ mmem = mfile
    /\ mpc = "idle" /\ mexec = FALSE /\ mstep = NoStep /\ mcalls = 0 /\ mcrashes = 0

-----------------------------------------------------------------------------
\* Evidence and replanning, read from the state at work.

GoalsIn(statuses) == {i \in 1 .. MaxIndex : mmem.goals[i] \in statuses}
BlockedSteps == GoalsIn({"failed"})

\* Mutant: with no result of its own the mission takes one of the index.
EvidenceOfAny ==
    IF mmem.golden # "none" THEN "golden"
    ELSE IF "tool" \in mmem.fresh /\ mmem.tool \in {"good", "suspicious"} THEN "tool"
    ELSE IF mmem.primary # "none" THEN "primary"
    ELSE IF "tool" \in mmem.fresh /\ mmem.tool # "none" THEN "tool"
    ELSE IF mmem.history # "none" THEN "history" ELSE "none"

\* current_evidence_record.
Evidence ==
    IF mmem.golden # "none" THEN "golden"
    ELSE IF "tool" \in mmem.fresh /\ mmem.tool \in {"good", "suspicious"} THEN "tool"
    ELSE IF mmem.primary # "none" THEN "primary"
    ELSE IF "tool" \in mmem.fresh /\ mmem.tool # "none" THEN "tool"
    ELSE IF "primary" \notin mmem.due /\ mmem.history # "none" THEN "history" ELSE "none"

\* The record of a target needs repair (record_needs_repair).
Bad(target) ==
    \/ target = "golden" /\ mmem.golden = "bad"
    \/ target = "tool" /\ mmem.tool \in {"suspicious", "bad"}
    \/ target = "primary" /\ mmem.primary = "bad"
    \/ target = "history" /\ mmem.history = "bad"

\* repair_evidence_record, with the benchmark folded in.
RepairTarget == IF mmem.primary # "none" THEN "primary" ELSE Evidence
RepairNeeded == Bad(RepairTarget) \/ mmem.bench = "bad"

\* What a benchmark or a conclusion is about.
Target == IF mmem.repaired THEN "repaired" ELSE Evidence

\* replan_issue_signature; NoSignature when there is no issue.
IssueSignature(state) ==
    LET blocked == {i \in 1 .. MaxIndex : state.goals[i] = "failed"}
    IN  IF state.soft = << >> /\ blocked = {} THEN NoSignature
        ELSE [soft |-> Len(state.soft), blocked |-> blocked, error |-> state.error]

\* Mutant: the budget is not looked at.
ReplanUnlimited(state) ==
    IssueSignature(state) # NoSignature /\ IssueSignature(state) # state.signature

\* should_agent_replan.
ShouldReplan(state) ==
    /\ state.replans < MaxReplans
    /\ IssueSignature(state) # NoSignature /\ IssueSignature(state) # state.signature

\* The goal steps that are ready, by their place in the plan.
Ready ==
    {n \in DOMAIN mmem.plan :
        /\ mmem.goals[mmem.plan[n].index] \notin Finished \cup Blocked
        /\ mmem.plan[n].deps \subseteq GoalsIn(Finished)}

\* pending_goal_kinds.
PendingKinds(state) ==
    {state.plan[n].kind : n \in {k \in DOMAIN state.plan : state.goals[state.plan[k].index] \in {"none", "running"}}}

-----------------------------------------------------------------------------
\* The controller's decision after a step: recorded, and shown to the user.

\* missing_evidence_for_intent.
MissingEvidence ==
    \/ NeedsConvergence /\ mmem.tool \notin {"good", "suspicious"}
    \/ NeedsSignoff /\ mmem.bench # "passed"

\* decide_long_horizon_action.
Policy ==
    LET left == mmem.replans < MaxReplans
    IN  IF BlockedSteps # {} /\ ~left THEN "ask_user"
        ELSE IF BlockedSteps # {} \/ (mmem.soft # << >> /\ left) THEN "replan"
        ELSE IF MissingEvidence /\ "generate_conclusion" \in PendingKinds(mmem) THEN "continue_with_risk"
        ELSE IF MissingEvidence THEN "repair_or_verify" ELSE "continue"

\* controller_decision.
Decision ==
    LET own ==
          IF mmem.status = "waiting_for_user" THEN "ask_user"
          ELSE IF mstep.kind = "noop" \/ (mstep.kind = "generate_conclusion" /\ mmem.error = "none") THEN "finish"
          ELSE IF ShouldReplan(mmem) THEN "replan"
          ELSE IF BlockedSteps # {} THEN "ask_user"
          ELSE IF mmem.soft # << >> /\ "generate_conclusion" \in PendingKinds(mmem) THEN "continue_with_risk"
          ELSE "continue"
    IN  IF own \in {"continue", "continue_with_risk"} /\ Policy # "continue" THEN Policy ELSE own

-----------------------------------------------------------------------------
\* mission_step_for_goal_step: what a ready goal step becomes.

For(goal, kind, target) == [kind |-> kind, goal |-> goal.index, target |-> target]
AskFor(goal) == For(goal, "ask_user", "none")

\* Mutant: a plan that needs confirmation does not wait.
RepairStepBold(goal) ==
    IF RepairTarget = "none" THEN AskFor(goal)
    ELSE IF ~RepairNeeded THEN For(goal, "skip_goal_step", "none")
    ELSE IF ~mmem.planned THEN For(goal, "generate_repair_plan", RepairTarget)
    ELSE IF mmem.repair = "none" THEN For(goal, "run_repair_executor", RepairTarget)
    ELSE IF mmem.repair # "completed" THEN AskFor(goal) ELSE For(goal, "skip_goal_step", "none")

RepairStep(goal) ==
    IF RepairTarget = "none" THEN AskFor(goal)
    ELSE IF ~RepairNeeded THEN For(goal, "skip_goal_step", "none")
    ELSE IF ~mmem.planned THEN For(goal, "generate_repair_plan", RepairTarget)
    ELSE IF mmem.confirm THEN AskFor(goal)
    ELSE IF mmem.repair = "none" THEN For(goal, "run_repair_executor", RepairTarget)
    ELSE IF mmem.repair # "completed" THEN AskFor(goal) ELSE For(goal, "skip_goal_step", "none")

ConvergenceStep(goal) ==
    IF "primary" \in mmem.due /\ mmem.primary = "none" THEN AskFor(goal)
    ELSE IF mmem.primary = "bad" THEN For(goal, "skip_goal_step", "none")
    ELSE For(goal, goal.kind, "none")

StepFor(goal) ==
    CASE goal.kind = "run_tool_convergence" -> ConvergenceStep(goal)
      [] goal.kind = "run_golden_comparison" ->
           IF mmem.primary = "none" \/ ~goal.named THEN AskFor(goal) ELSE For(goal, goal.kind, "primary")
      [] goal.kind \in {"run_physical_benchmark", "generate_conclusion"} ->
           IF Target = "none" THEN AskFor(goal)
           ELSE For(goal, goal.kind, IF goal.named THEN "named" ELSE Target)
      [] goal.kind = "run_repair_executor" -> RepairStep(goal)
      [] OTHER -> For(goal, goal.kind, "none")

Infrastructure(kind) == [kind |-> kind, goal |-> 0, target |-> "none"]

\* choose_next_step.
NextStep ==
    IF ~mmem.indexed \/ mmem.due \ mmem.fresh # {} THEN Infrastructure("rebuild_index")
    ELSE IF ShouldReplan(mmem) /\ mmem.soft # << >> /\ Last(mmem.soft) = "run_tool_convergence"
    THEN Infrastructure("agent_replan")
    ELSE IF Ready # {} THEN StepFor(mmem.plan[Min(Ready)])
    ELSE IF ShouldReplan(mmem) THEN Infrastructure("agent_replan")
    ELSE IF GoalsIn(Blocked) # {} THEN Infrastructure("ask_user")
    ELSE Infrastructure("noop")

-----------------------------------------------------------------------------
MSave(state) == mmem' = state /\ mfile' = state

\* Mutant: resuming forgets the steps that were marked soft failed.
ResumedHard(exec) ==
    [mfile EXCEPT !.status = IF exec THEN "running" ELSE "planned",
                  !.goals = [i \in 1 .. MaxIndex |-> IF @[i] = "soft_failed" THEN "none" ELSE @[i]]]

\* A resumed mission keeps all but its status.
Resumed(exec) == [mfile EXCEPT !.status = IF exec THEN "running" ELSE "planned"]

\* run_mission_agent resumes the state there is, or starts (over what is there): the
\* state is written before the goal is decomposed.
MCall(exec, resume) ==
    /\ mpc = "idle" /\ mcalls < MaxCalls /\ mcalls' = mcalls + 1 /\ mexec' = exec
    /\ IF resume /\ mfile.status # "absent" THEN MSave(Resumed(exec)) /\ mpc' = "choosing"
       ELSE MSave(Fresh(exec)) /\ mpc' = "decomposing"
    /\ mstep' = NoStep /\ UNCHANGED mcrashes

\* deterministic_decompose_goal: a goal that is not clear is asked about; the
\* others are a chain of soft steps, but that the convergence studies depend on
\* the supervisor only.
Baseline(goal) ==
    LET kinds == (IF goal.history THEN <<"query_history">> ELSE << >>) \o <<"run_supervisor">>
                 \o [n \in 1 .. goal.sweeps |-> "run_tool_convergence"]
                 \o (IF goal.reference THEN <<"run_golden_comparison">> ELSE << >>)
                 \o <<"run_physical_benchmark", "run_repair_executor", "generate_conclusion">>
        primary == IF goal.history THEN 2 ELSE 1
    IN  IF ~goal.clear THEN <<[index |-> 1, kind |-> "ask_user", deps |-> {}, stop |-> TRUE, named |-> FALSE]>>
        ELSE [n \in DOMAIN kinds |->
                [index |-> n, kind |-> kinds[n], stop |-> FALSE, named |-> kinds[n] = "run_golden_comparison",
                 deps |-> IF n <= primary THEN {}
                          ELSE IF kinds[n] = "run_tool_convergence" THEN {primary} ELSE {n - 1}]]

\* The plan is the model's, or the baseline; with no fallback it may fail.
Decompose ==
    /\ mpc = "decomposing" /\ mpc' = "choosing"
    /\ \/ \E plan \in ModelPlans \cup {Baseline(g) : g \in Goals} : MSave([mmem EXCEPT !.decomposed = "completed", !.plan = plan])
       \/ MayFailPlan /\ MSave([mmem EXCEPT !.decomposed = "failed", !.status = "failed"])
    /\ UNCHANGED <<mexec, mstep, mcalls, mcrashes>>

\* Mutant: one cycle too many.
CycleLeftMore == mmem.cycles <= MaxCycles /\ mmem.status \in {"running", "planned"}

CycleLeft == mmem.cycles < MaxCycles /\ mmem.status \in {"running", "planned"}

\* A step is chosen and saved; a planning call ends with it.
Choose ==
    /\ mpc = "choosing" /\ CycleLeft
    /\ mstep' = NextStep
    /\ IF mexec THEN MSave(mmem) /\ mpc' = "executing"
       ELSE MSave([mmem EXCEPT !.status = "planned"]) /\ mpc' = "idle"
    /\ UNCHANGED <<mexec, mcalls, mcrashes>>

-----------------------------------------------------------------------------
\* execute_step

Goal == mmem.plan[CHOOSE n \in DOMAIN mmem.plan : mmem.plan[n].index = mstep.goal
                    /\ \A k \in DOMAIN mmem.plan : k < n => mmem.plan[k].index # mstep.goal]
Stops == mstep.goal = 0 \/ Goal.stop

\* The goal step of the step at work, if it has one, gets a status.
Mark(state, status) ==
    IF mstep.goal = 0 THEN state ELSE [state EXCEPT !.goals[mstep.goal] = status]

\* Mutant: a failed goal step has a status of its own.
FailGoalErrored(state) ==
    IF Stops THEN Mark(state, "errored") ELSE Mark([state EXCEPT !.soft = Append(@, Goal.kind)], "soft_failed")

\* The goal step fails, softly unless it stops the mission.
FailGoal(state) ==
    IF Stops THEN Mark(state, "failed")
    ELSE Mark([state EXCEPT !.soft = Append(@, Goal.kind)], "soft_failed")

\* The step ends in state, without an exception.
Done(state) == mmem' = [state EXCEPT !.error = "none"] /\ mpc' = "saving"

Executing(kind) == mpc = "executing" /\ mstep.kind = kind
ExecFrame == UNCHANGED <<mfile, mexec, mstep, mcalls, mcrashes>>

RebuildIndex ==
    /\ Executing("rebuild_index") /\ ExecFrame
    /\ \E h \in Outcomes :
         LET first == IF "tool" \in mmem.due \ mmem.fresh THEN {"tool"}
                      ELSE IF "golden" \in mmem.due \ mmem.fresh THEN {"golden"}
                      ELSE mmem.due \cap {"primary"}
         IN  Done([mmem EXCEPT !.indexed = TRUE, !.history = h, !.fresh = @ \cup first])

QueryHistory == Executing("query_history") /\ ExecFrame /\ Done(Mark(mmem, "completed"))

\* The primary record stays when the supervisor leaves none.
RunSupervisor ==
    /\ Executing("run_supervisor") /\ ExecFrame
    /\ \E r \in Outcomes :
         LET state == [mmem EXCEPT !.due = @ \cup {"primary"}, !.primary = IF r = "none" THEN @ ELSE r]
         IN  Done(IF r = "bad" THEN FailGoal(state) ELSE Mark(state, "completed"))

\* A suspicious study completes its step.
RunToolConvergence ==
    /\ Executing("run_tool_convergence") /\ ExecFrame
    /\ \E r \in ({"suspicious"} \cup Outcomes) \ {"none"} :
         LET state == [mmem EXCEPT !.due = @ \cup {"tool"}, !.tool = r]
         IN  Done(IF r = "bad" THEN FailGoal(state) ELSE Mark(state, "completed"))

\* A comparison that does not pass is a soft failure whatever the goal says.
RunGoldenComparison ==
    /\ Executing("run_golden_comparison") /\ ExecFrame
    /\ \E r \in Outcomes \ {"none"} :
         LET state == [mmem EXCEPT !.due = @ \cup {"golden"}, !.golden = r]
         IN  Done(IF r = "bad" THEN Mark([state EXCEPT !.soft = Append(@, Goal.kind)], "soft_failed")
                  ELSE Mark(state, "completed"))

\* So does a benchmark that does not support the tool, without being evidence.
RunPhysicalBenchmark ==
    /\ Executing("run_physical_benchmark") /\ ExecFrame
    /\ \E b \in {"unsupported", "passed", "bad"} :
         LET state == [mmem EXCEPT !.bench = b]
         IN  Done(IF b = "bad" THEN FailGoal(state) ELSE Mark(state, "completed"))

\* append_replan_steps: steps of a kind that is pending are left out, the
\* others renumbered after the last index; one without a dependency depends
\* on that one.
Appended(state, steps) ==
    LET new == SelectSeq(steps, LAMBDA g : g.kind \notin PendingKinds(state))
        last == Max({0} \cup {state.plan[n].index : n \in DOMAIN state.plan})
        renumbered(i) ==
            LET at == {n \in DOMAIN new : new[n].index = i} IN IF at = {} THEN i ELSE last + Max(at)
    IN  [n \in DOMAIN new |->
            [new[n] EXCEPT !.index = renumbered(@),
                           !.deps = IF @ = {} /\ last # 0 THEN {last} ELSE {renumbered(d) : d \in @}]]

\* apply_replan_decision, but for the budget.
Patched(patch) ==
    LET marked == [mmem EXCEPT !.goals = [i \in 1 .. MaxIndex |->
                     IF i \in patch.skip THEN "skipped" ELSE IF i \in patch.soft THEN "soft_failed" ELSE @[i]]]
    IN  [marked EXCEPT !.plan = @ \o Appended(marked, patch.append)]

\* The replanner answers with a patch, or falls back to none.  MaxIndex bounds
\* the patches: what they append has indexes up to it.
Replan ==
    /\ Executing("agent_replan") /\ ExecFrame
    /\ \E patch \in Patches \cup {[soft |-> {}, skip |-> {}, append |-> << >>]} :
         LET state == Patched(patch)
             sig == IssueSignature(state)
         IN  state.plan \in Seq(GoalStep) /\ Done([state EXCEPT !.replans = @ + 1, !.signature = IF sig = NoSignature THEN @ ELSE sig])

GenerateRepairPlan ==
    /\ Executing("generate_repair_plan") /\ ExecFrame
    /\ \E c \in BOOLEAN : Done(Mark([mmem EXCEPT !.planned = TRUE, !.confirm = c], "running"))

\* The repaired state is the last one of the executor, accepted or not.
ExecuteRepair ==
    /\ Executing("run_repair_executor") /\ ExecFrame
    /\ \E how \in {"completed", "failed", "waiting_for_user"} :
         LET state == [mmem EXCEPT !.repair = how, !.repaired = TRUE, !.confirm = @ \/ how = "waiting_for_user"]
         IN  Done(IF how = "failed" THEN FailGoal(state) ELSE Mark(state, how))

\* The conclusion may not be written; the step completes all the same.
GenerateConclusion ==
    /\ Executing("generate_conclusion") /\ ExecFrame
    /\ \E written \in BOOLEAN : Done(Mark([mmem EXCEPT !.conclusion = written], "completed"))

AskUser ==
    /\ Executing("ask_user") /\ ExecFrame
    /\ Done(Mark([mmem EXCEPT !.status = "waiting_for_user"], "waiting_for_user"))

SkipOrNoop ==
    /\ mpc = "executing" /\ mstep.kind \in {"skip_goal_step", "noop"} /\ ExecFrame
    /\ Done(Mark(mmem, "skipped"))

\* An exception: it stops the mission unless the step is soft or a replan is
\* left.
Raise ==
    /\ mpc = "executing" /\ mstep.kind \in MayRaise /\ ExecFrame
    /\ LET state == [mmem EXCEPT !.error = mstep.kind]
       IN  mmem' = FailGoal(IF Stops /\ mmem.replans >= MaxReplans THEN [state EXCEPT !.status = "failed"]
                            ELSE IF Stops THEN [state EXCEPT !.status = "running"] ELSE state)
    /\ mpc' = "saving"

Execute == RebuildIndex \/ QueryHistory \/ RunSupervisor \/ RunToolConvergence \/ RunGoldenComparison
           \/ RunPhysicalBenchmark \/ Replan \/ GenerateRepairPlan \/ ExecuteRepair
           \/ GenerateConclusion \/ AskUser \/ SkipOrNoop \/ Raise

\* Mutant: only goal steps are counted.
SaveGoalCycle ==
    /\ mpc = "saving"
    /\ LET state == [mmem EXCEPT !.cycles = IF mstep.goal = 0 THEN @ ELSE @ + 1, !.decision = Decision]
           concluded == mstep.kind = "generate_conclusion" /\ mmem.error = "none"
       IN  IF mstep.kind = "noop" \/ concluded
           THEN MSave([state EXCEPT !.status = "completed"]) /\ mpc' = "idle"
           ELSE MSave(state) /\ mpc' = "choosing"
    /\ UNCHANGED <<mexec, mstep, mcalls, mcrashes>>

\* The cycle is counted, decided on and saved; the mission may be complete.
SaveCycle ==
    /\ mpc = "saving"
    /\ LET state == [mmem EXCEPT !.cycles = IF mstep.kind = "ask_user" THEN @ ELSE @ + 1, !.decision = Decision]
           concluded == mstep.kind = "generate_conclusion" /\ mmem.error = "none"
       IN  IF mstep.kind = "noop" \/ concluded
           THEN MSave([state EXCEPT !.status = "completed"]) /\ mpc' = "idle"
           ELSE MSave(state) /\ mpc' = "choosing"
    /\ UNCHANGED <<mexec, mstep, mcalls, mcrashes>>

\* The loop is over: failed, waiting, or out of cycles.
Leave ==
    /\ mpc = "choosing" /\ ~CycleLeft /\ mpc' = "idle"
    /\ MSave(IF mmem.status \in {"failed", "waiting_for_user"} THEN mmem
             ELSE [mmem EXCEPT !.status = "completed"])
    /\ UNCHANGED <<mexec, mstep, mcalls, mcrashes>>

MCrash ==
    /\ mpc # "idle" /\ mcrashes < MaxCrashes /\ mcrashes' = mcrashes + 1 /\ mpc' = "idle"
    /\ UNCHANGED <<mfile, mmem, mexec, mstep, mcalls>>

MWork == Decompose \/ Choose \/ Execute \/ SaveCycle \/ Leave
MissionNext == (\E e \in Modes, r \in BOOLEAN : MCall(e, r)) \/ MWork \/ MCrash
MissionSpec == MissionInit /\ [][MissionNext]_mvars /\ WF_mvars(MWork)

-----------------------------------------------------------------------------
\* A mission replans within its budget, over all the calls that resume it.
ReplansWithinBudget == mfile.replans <= MaxReplans

\* Cycles count over all the calls that resume it.
CyclesWithinMax == mfile.cycles <= MaxCycles

\* What is finished stays finished, through replans, crashes and calls: "record
\* each goal step as completed, skipped, soft_failed ..."
\* (docs/mission_agent.md:44).  Only a call that starts over forgets it.
FinishedStays ==
    mpc' # "decomposing" =>
        \A i \in 1 .. MaxIndex : mfile.goals[i] \in Finished => mfile'.goals[i] \in Finished

\* A mission whose supervisor has run takes no result of another one from the
\* index (tests/test_mission_agent.py:336); the one way to a result that is not its
\* own is a plan that names the file (mission_agent.py:1176, 1274), never the
\* deterministic one.
NoBorrowedEvidence ==
    mpc = "executing" /\ "primary" \in mmem.due =>
        /\ mstep.target # "history"
        /\ mstep.target = "named" =>
             \E n \in DOMAIN mmem.plan : mmem.plan[n].index = mstep.goal /\ mmem.plan[n].named

\* No repair is executed while its plan waits for the user's confirmation
\* (tests/test_mission_agent.py:403).
RepairIsConfirmed == mpc = "executing" /\ mstep.kind = "run_repair_executor" => ~mmem.confirm

\* A call that does not die returns.
MissionReturns == (mpc # "idle") ~> (mpc = "idle")

\* A mission keeps to its budgets over all its calls and acts on evidence and
\* permissions of its own.
MissionInvariant ==
    MissionTypeOK /\ ReplansWithinBudget /\ CyclesWithinMax /\ NoBorrowedEvidence /\ RepairIsConfirmed
=============================================================================
