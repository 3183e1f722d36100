----------------------------- MODULE Supervisor ------------------------------
(***************************************************************************)
(* run_supervisor of src/tcad_agent/supervisor.py: the calls of one        *)
(* supervisor id, one after another, on the experiment index that other    *)
(* processes rebuild too (ExperimentIndex).  A call chooses an action,     *)
(* saves it, executes it, refreshes the index when it ran a tool, and      *)
(* saves again.  The words of the goal are the features of Goal; the       *)
(* language model, when asked, may choose any kind of action.              *)
(***************************************************************************)
EXTENDS ExperimentIndex, Sequences

CONSTANTS
    SupervisorGoals,       \* the goals tried: sets of features
    RecordKind,  \* RecordKind[p]: the kind of the record made from p
    ResultFile,      \* the state file the tools of this supervisor write
    Me,          \* its process, one of Indexers
    Answered,    \* the kinds of action the model answers with that are tried
    Models,      \* the values of use_agent_policy tried
    MaxActions,   \* max_cycles of every call
    MaxSupervisions,    \* bound: calls
    MaxSupervisorCrashes   \* bound: calls that die

VARIABLES
    asksModel, \* use_agent_policy
    goal,    \* goal_text of the first call
    sfile,   \* supervisor_state.json
    smem,    \* the state the call at work holds
    spc,     \* where it is
    execute, \* its execute flag
    sret,    \* how the last call ended
    ran,     \* history: runs of a tool that ended well under this state
    unsaved, \* history: those after which refresh_experiment_memory raised
    scalls, crashes

svars == <<asksModel, goal, sfile, smem, spc, execute, sret, ran, unsaved, scalls, crashes>>

ToolKinds == {"run_pn_iv", "run_mos_cv", "run_diode_breakdown", "run_mosfet_2d",
              "run_extended_device", "run_schottky_calibration", "run_mesh_convergence"}
FileKinds == {"generate_report", "generate_dashboard", "generate_conclusion", "generate_repair_plan"}
Kinds == ToolKinds \cup FileKinds \cup
         {"rebuild_index", "query_index", "plan_device_template", "ask_user", "noop"}

ASSUME SupervisorAssumption ==
    /\ Me \in Indexers /\ ResultFile \in Paths /\ Models \subseteq BOOLEAN /\ Answered \subseteq Kinds
    /\ MaxActions \in Nat \ {0} /\ {MaxSupervisions, MaxSupervisorCrashes} \subseteq Nat

SupervisorAction == [kind: Kinds, status: {"planned", "completed", "failed"}]
Stopped == {"waiting_for_user", "completed", "failed"}
SupervisorState == [status: {"absent", "torn", "planned", "running"} \cup Stopped, cycles: Nat,
          indexed: BOOLEAN, recent: SUBSET Paths, actions: Seq(SupervisorAction)]
NoState == [status |-> "absent", cycles |-> 0, indexed |-> FALSE, recent |-> {}, actions |-> << >>]

SupervisorTypeOK ==
    /\ IndexTypeOK
    /\ asksModel \in Models /\ goal \in SupervisorGoals /\ sfile \in SupervisorState /\ smem \in SupervisorState
    /\ spc \in {"idle", "choosing", "chosen", "rebuilding", "refreshing", "saving"}
    /\ execute \in BOOLEAN /\ sret \in {"none", "raised"} \cup Stopped \cup {"planned"}
    /\ ran \in Nat /\ unsaved \in Nat /\ scalls \in 0 .. MaxSupervisions /\ crashes \in 0 .. MaxSupervisorCrashes

SupervisorInit ==
    /\ IndexInit
    /\ asksModel \in Models /\ goal \in SupervisorGoals /\ sfile = NoState /\ smem = NoState /\ spc = "idle"
    /\ execute = FALSE /\ sret = "none" /\ ran = 0 /\ unsaved = 0 /\ scalls = 0 /\ crashes = 0

-----------------------------------------------------------------------------
\* existing_result_action: what it does with which records, in its order.
Sweeps == {"parameter_sweep", "adaptive_optimization", "multidim_optimization"}
Tools == {"mosfet_2d_id_sweep", "diode_breakdown_leakage_sweep", "mesh_convergence",
          "mos_capacitor_cv_sweep", "pn_junction_iv_sweep", "schottky_iv_calibration"}
OnExisting == << [asks |-> "repair", of |-> Sweeps \cup Tools \cup {"task_run"}, do |-> "generate_repair_plan"],
                 [asks |-> "conclusion", of |-> Sweeps \cup Tools, do |-> "generate_conclusion"],
                 [asks |-> "report", of |-> Sweeps, do |-> "generate_report"],
                 [asks |-> "dashboard", of |-> Sweeps, do |-> "generate_dashboard"] >>

\* The rest of choose_next_action, in its order: a device that no tool can
\* simulate yet is routed before any tool.
Routes == << [asks |-> "history", do |-> "query_index"],
             [asks |-> "planned_template", do |-> "plan_device_template"],
             [asks |-> "schottky_calibration", do |-> "run_schottky_calibration"],
             [asks |-> "extended_device", do |-> "run_extended_device"],
             [asks |-> "mosfet", do |-> "run_mosfet_2d"],
             [asks |-> "mesh", do |-> "run_mesh_convergence"],
             [asks |-> "breakdown", do |-> "run_diode_breakdown"],
             [asks |-> "mos_capacitor", do |-> "run_mos_cv"],
             [asks |-> "pn", do |-> "run_pn_iv"] >>

First(S) == CHOOSE n \in S : \A m \in S : n <= m
Reusable == {n \in DOMAIN OnExisting :
               /\ {"existing", OnExisting[n].asks} \subseteq goal
               /\ \E p \in smem.recent : RecordKind[p] \in OnExisting[n].of}
Routable == {n \in DOMAIN Routes : Routes[n].asks \in goal}

\* Mutant: the tools are routed without regard to the templates.
RouteUnplanned ==
    IF ~smem.indexed THEN "rebuild_index"
    ELSE IF Reusable # {} THEN OnExisting[First(Reusable)].do
    ELSE IF Routable \ {2} # {} THEN Routes[First(Routable \ {2})].do
    ELSE "ask_user"

\* choose_next_action
ChooseNextAction ==
    IF ~smem.indexed THEN "rebuild_index"
    ELSE IF Reusable # {} THEN OnExisting[First(Reusable)].do
    ELSE IF Routable # {} THEN Routes[First(Routable)].do
    ELSE "ask_user"

\* supervisor_action_from_agent: the kind the model names, or the route when it
\* does not answer with one.
NextKinds == {ChooseNextAction} \cup (IF asksModel THEN Answered ELSE {})

-----------------------------------------------------------------------------
\* write_supervisor_state
Save(state) == smem' = state /\ sfile' = state

\* Mutant: a call that is over is not idle.
SReturnOpen(how) == spc' = how /\ sret' = how

SReturn(how) == spc' = "idle" /\ sret' = how
LastAction == smem.actions[Len(smem.actions)]
Settle(status) == [smem EXCEPT !.actions[Len(smem.actions)].status = status]

\* A call, with or without execute and resume.  A state cut short by a crash can
\* not be loaded.
Call(exec, resume) ==
    /\ spc = "idle" /\ scalls < MaxSupervisions /\ scalls' = scalls + 1
    /\ execute' = exec
    /\ IF resume /\ sfile.status = "torn" THEN SReturn("raised") /\ UNCHANGED <<sfile, smem, ran, unsaved>>
       ELSE /\ Save([IF resume THEN sfile ELSE NoState
                       EXCEPT !.status = IF exec THEN "running" ELSE "planned"])
            /\ ran' = (IF resume THEN ran ELSE 0) /\ unsaved' = (IF resume THEN unsaved ELSE 0)
            /\ spc' = "choosing" /\ sret' = "none"
    /\ UNCHANGED <<ixvars, asksModel, goal, crashes>>

\* The action is in the file before anything is done about it.
ChooseAction ==
    /\ spc = "choosing" /\ smem.cycles < MaxActions /\ smem.status \notin Stopped
    /\ \E k \in NextKinds :
         Save([smem EXCEPT !.actions = Append(@, [kind |-> k, status |-> "planned"])])
    /\ spc' = "chosen"
    /\ UNCHANGED <<ixvars, asksModel, goal, execute, sret, ran, unsaved, scalls, crashes>>

PlanOnly ==
    /\ spc = "chosen" /\ ~execute
    /\ Save([smem EXCEPT !.status = "planned"]) /\ SReturn("planned")
    /\ UNCHANGED <<ixvars, asksModel, goal, execute, ran, unsaved, scalls, crashes>>

\* execute_action, rebuild_index: the rebuild begins ...
StartRebuild ==
    /\ spc = "chosen" /\ execute /\ LastAction.kind = "rebuild_index"
    /\ spc' = "rebuilding" /\ (Begin(Me) \/ Locked(Me))
    /\ UNCHANGED <<asksModel, goal, sfile, smem, execute, sret, ran, unsaved, scalls, crashes>>

\* ... and goes on, here or in refresh_experiment_memory ...
RebuildStep ==
    /\ spc \in {"rebuilding", "refreshing"} /\ (Read(Me) \/ Conflict(Me) \/ Commit(Me))
    /\ UNCHANGED svars

Seen == {p \in Paths : rows[p] # 0}

\* ... until it has rows to list or has raised, which fails the action.
EndRebuild ==
    /\ spc = "rebuilding" /\ ~proc[Me].on
    /\ smem' = IF proc[Me].ret = "ok"
               THEN [Settle("completed") EXCEPT !.indexed = TRUE, !.recent = Seen]
               ELSE [Settle("failed") EXCEPT !.status = "failed"]
    /\ spc' = "saving"
    /\ UNCHANGED <<ixvars, asksModel, goal, sfile, execute, sret, ran, unsaved, scalls, crashes>>

\* Mutant: the index is refreshed only after a rebuild of it.
RunToolUnseen ==
    /\ spc = "chosen" /\ execute /\ LastAction.kind \in ToolKinds /\ ResultFile \notin torn
    /\ disk[ResultFile] < MaxVersion
    /\ disk' = [disk EXCEPT ![ResultFile] = @ + 1]
    /\ smem' = Settle("completed") /\ spc' = "saving" /\ ran' = ran + 1
    /\ UNCHANGED <<torn, rows, writer, proc, kills, asksModel, goal, sfile, execute, sret, unsaved, scalls, crashes>>

\* A tool runs and writes its state; then refresh_experiment_memory begins.
RunTool ==
    /\ spc = "chosen" /\ execute /\ LastAction.kind \in ToolKinds /\ ResultFile \notin torn
    /\ disk[ResultFile] < MaxVersion
    /\ disk' = [disk EXCEPT ![ResultFile] = @ + 1]
    /\ smem' = Settle("completed") /\ spc' = "refreshing" /\ ran' = ran + 1
    /\ proc' = [proc EXCEPT ![Me] = Idle("none")]
    /\ UNCHANGED <<torn, rows, writer, kills, asksModel, goal, sfile, execute, sret, unsaved, scalls, crashes>>

StartRefresh ==
    /\ spc = "refreshing" /\ ~proc[Me].on /\ proc[Me].ret = "none"
    /\ (Begin(Me) \/ Locked(Me)) /\ UNCHANGED svars

\* The refresh is outside the try of execute_action: what it raises leaves the
\* call with nothing saved.
EndRefresh ==
    /\ spc = "refreshing" /\ ~proc[Me].on /\ proc[Me].ret # "none"
    /\ IF proc[Me].ret = "ok"
       THEN smem' = [smem EXCEPT !.recent = Seen] /\ spc' = "saving" /\ UNCHANGED <<sret, unsaved>>
       ELSE SReturn("raised") /\ unsaved' = unsaved + 1 /\ UNCHANGED smem
    /\ UNCHANGED <<ixvars, asksModel, goal, sfile, execute, ran, scalls, crashes>>

\* Any other action, and any action that raises.
Do ==
    /\ spc = "chosen" /\ execute /\ LastAction.kind # "rebuild_index"
    /\ smem' \in
         {[Settle("failed") EXCEPT !.status = "failed"]} \cup
         (IF LastAction.kind \in ToolKinds THEN {} ELSE
            {[Settle("completed") EXCEPT
                !.status = IF LastAction.kind \in {"ask_user", "plan_device_template"}
                           THEN "waiting_for_user" ELSE @]})
    /\ spc' = "saving"
    /\ UNCHANGED <<ixvars, asksModel, goal, sfile, execute, sret, ran, unsaved, scalls, crashes>>

Counted == LastAction.status = "completed" /\ LastAction.kind # "ask_user"
Terminal == ToolKinds \cup FileKinds \cup {"query_index"}

\* Mutant: an action that failed counts as a cycle too.
RecordAll ==
    /\ spc = "saving"
    /\ LET done == [smem EXCEPT !.cycles = @ + 1]
       IN  IF LastAction.kind \in Terminal
           THEN Save([done EXCEPT !.status = "completed"]) /\ SReturn("completed")
           ELSE Save(done) /\ spc' = "choosing" /\ UNCHANGED sret
    /\ UNCHANGED <<ixvars, asksModel, goal, execute, ran, unsaved, scalls, crashes>>

\* Mutant: the action that settles the goal is not saved.
RecordMemory ==
    /\ spc = "saving"
    /\ LET done == [smem EXCEPT !.cycles = IF Counted THEN @ + 1 ELSE @]
       IN  IF LastAction.kind \in Terminal
           THEN smem' = [done EXCEPT !.status = "completed"] /\ SReturn("completed") /\ UNCHANGED sfile
           ELSE Save(done) /\ spc' = "choosing" /\ UNCHANGED sret
    /\ UNCHANGED <<ixvars, asksModel, goal, execute, ran, unsaved, scalls, crashes>>

\* The cycle is counted and saved; an action that settles the goal ends the call.
Record ==
    /\ spc = "saving"
    /\ LET done == [smem EXCEPT !.cycles = IF Counted THEN @ + 1 ELSE @]
       IN  IF LastAction.kind \in Terminal
           THEN Save([done EXCEPT !.status = "completed"]) /\ SReturn("completed")
           ELSE Save(done) /\ spc' = "choosing" /\ UNCHANGED sret
    /\ UNCHANGED <<ixvars, asksModel, goal, execute, ran, unsaved, scalls, crashes>>

\* Mutant: the loop ends with its cycles only.
FinishSpent ==
    /\ spc = "choosing" /\ smem.cycles >= MaxActions
    /\ LET status == IF smem.status \in {"failed", "waiting_for_user"} THEN smem.status ELSE "completed"
       IN  Save([smem EXCEPT !.status = status]) /\ SReturn(status)
    /\ UNCHANGED <<ixvars, asksModel, goal, execute, ran, unsaved, scalls, crashes>>

\* The loop is over.
Finish ==
    /\ spc = "choosing" /\ (smem.cycles >= MaxActions \/ smem.status \in Stopped)
    /\ LET status == IF smem.status \in {"failed", "waiting_for_user"} THEN smem.status ELSE "completed"
       IN  Save([smem EXCEPT !.status = status]) /\ SReturn(status)
    /\ UNCHANGED <<ixvars, asksModel, goal, execute, ran, unsaved, scalls, crashes>>

\* The process dies, perhaps in the middle of the write that comes next.
Crash ==
    /\ spc # "idle" /\ crashes < MaxSupervisorCrashes /\ crashes' = crashes + 1
    /\ spc' = "idle" /\ sret' = "none"
    /\ \/ UNCHANGED sfile
       \/ spc \in {"choosing", "saving"} /\ sfile' = [NoState EXCEPT !.status = "torn"]
    /\ proc' = [proc EXCEPT ![Me] = Idle("none")]
    /\ writer' = IF writer = Me THEN Nobody ELSE writer
    /\ UNCHANGED <<disk, torn, rows, kills, asksModel, goal, smem, execute, ran, unsaved, scalls>>

\* The tools and the other processes.
Others ==
    /\ \/ \E p \in Paths \ {ResultFile} : Truncate(p) \/ FinishWrite(p)
       \/ \E i \in Indexers \ {Me} : Rebuild(i)
    /\ UNCHANGED svars

Work == \/ ChooseAction \/ PlanOnly \/ StartRebuild \/ RebuildStep \/ EndRebuild \/ RunTool
        \/ StartRefresh \/ EndRefresh \/ Do \/ Record \/ Finish
SupervisorNext == (\E e, r \in BOOLEAN : Call(e, r)) \/ Work \/ Crash \/ Others
SupervisorSpec ==
    /\ SupervisorInit /\ [][SupervisorNext]_<<ixvars, svars>>
    /\ WF_<<ixvars, svars>>(Work)

-----------------------------------------------------------------------------
DoneActions(state, kinds) == {n \in DOMAIN state.actions :
                         state.actions[n].kind \in kinds /\ state.actions[n].status = "completed"}

\* completed_cycles is the number of actions that completed and are not
\* questions, over all calls and whatever they died of, and within max_cycles.
CyclesAreActions ==
    /\ sfile.cycles = Cardinality(DoneActions(sfile, Kinds \ {"ask_user"}))
    /\ sfile.cycles <= MaxActions

\* "After running a TCAD tool, it refreshes the experiment index again so the new
\* result is immediately searchable" (docs/supervisor.md:63): a call that
\* completed a run has its result in the index.
SearchableAfterRun ==
    sret = "completed" /\ DoneActions(sfile, ToolKinds) # {} => rows[ResultFile] # 0

\* Without the model a goal for a device that no tool can simulate runs no tool.
NoSurrogate == ~asksModel /\ "planned_template" \in goal => DoneActions(sfile, ToolKinds) = {}

\* A call that does not die returns.
SupervisorReturns == (spc # "idle") ~> (spc = "idle")

\* "execute it, checkpoint the result, and refresh long-term experiment memory"
\* (docs/supervisor.md:141): when a call that did not die is over, every run of a
\* tool is in the state file, but for those after which the refresh raised: it
\* comes before the checkpoint (supervisor.py:1088-1090), not after it.
ResultCheckpointed ==
    spc = "idle" /\ crashes = 0 => Cardinality(DoneActions(sfile, ToolKinds)) = ran - unsaved

\* The supervisor's state counts and keeps what it did, and the index it works
\* with shows the runs it made.
SupervisorInvariant ==
    SupervisorTypeOK /\ CyclesAreActions /\ SearchableAfterRun /\ NoSurrogate /\ ResultCheckpointed
=============================================================================
