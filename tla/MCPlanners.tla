----------------------------- MODULE MCPlanners ------------------------------
(***************************************************************************)
(* One instance for TLC of what plans and records runs: the experiment     *)
(* index, the supervisor on it, the repair executor and the mission agent. *)
(* A behaviour is the calls of one subject (and, for the first two, of the *)
(* processes around it); what the others keep stays as it was in the       *)
(* beginning.                                                              *)
(***************************************************************************)
EXTENDS MissionAgent, Repair, Supervisor

CONSTANTS
    Subjects,   \* the subjects tried
    SomeVersion \* bound: how often a file is written around a supervisor

VARIABLES
    subject,   \* the one that is called
    files      \* the state files that are written

everything == <<subject, files, mvars, xvars, ixvars, svars>>

-----------------------------------------------------------------------------
\* The index: two state files in each behaviour, with keys of their own or, when
\* one is a copy of the other, with one key.
SomePaths == {"sweep", "copy", "result"}
SomeKeys == [p \in SomePaths |-> IF p = "copy" THEN "result" ELSE p]
TwoKeys == {"sweep", "result"}
OneKey == {"copy", "result"}
KindOf == [p \in SomePaths |-> IF p = "sweep" THEN "parameter_sweep" ELSE "pn_junction_iv_sweep"]

\* The supervisor: the goals that tell its routes apart.
ModelGoals == {{"pn"}, {"planned_template", "mosfet"}}
ManyGoals == {{Routes[n].asks} : n \in DOMAIN Routes}
             \cup {{"existing", OnExisting[n].asks, "pn"} : n \in DOMAIN OnExisting}
             \cup {{}, {"planned_template", "mosfet"}}

\* The mission: plans of a model, what it replans, and goals.
G(index, kind, deps, stop, named) == [index |-> index, kind |-> kind, deps |-> deps, stop |-> stop, named |-> named]
Hard == <<G(1, "run_supervisor", {}, TRUE, FALSE), G(2, "run_physical_benchmark", {1}, TRUE, TRUE),
          G(3, "generate_conclusion", {2}, TRUE, FALSE)>>
HardOnly == {Hard}
P(soft, skip, append) == [soft |-> soft, skip |-> skip, append |-> append]
SomePatches == {P({2}, {}, <<G(1, "run_golden_comparison", {}, FALSE, FALSE)>>),
                P({}, {3}, <<G(1, "run_physical_benchmark", {}, FALSE, FALSE)>>),
                P({1}, {}, <<G(1, "run_repair_executor", {}, FALSE, FALSE),
                             G(2, "generate_conclusion", {1}, FALSE, FALSE)>>)}
GoalIs(clear, history, sweeps, reference) ==
    [clear |-> clear, history |-> history, sweeps |-> sweeps, reference |-> reference]
SomeGoals == {GoalIs(TRUE, FALSE, 1, FALSE), GoalIs(TRUE, TRUE, 0, TRUE), GoalIs(FALSE, FALSE, 0, FALSE)}
AllOutcomes == {"none", "good", "bad"}
SomeRaise == {"rebuild_index", "run_supervisor", "run_tool_convergence", "generate_conclusion"}

\* The repair: actions that need a confirmation, a review, or no runner.
A(name, confirm, review, runs) == [name |-> name, confirm |-> confirm, review |-> review, runs |-> runs]
Ramp == A("ramp", FALSE, FALSE, TRUE)
Mesh == A("mesh", FALSE, FALSE, TRUE)
Geometry == A("geometry", TRUE, FALSE, TRUE)
Pareto == A("pareto_review", FALSE, TRUE, TRUE)
Unknown == A("unknown", FALSE, FALSE, FALSE)
SomePlans == {<< >>, <<Ramp, Mesh>>, <<Pareto, Geometry>>}
SomeAnswers == {Ramp, Geometry, Unknown}

-----------------------------------------------------------------------------
PlannersInit ==
    /\ subject \in Subjects
    /\ MissionInit /\ RepairInit /\ SupervisorInit
    /\ files \in {TwoKeys, OneKey}
    /\ files = OneKey => subject = "index" \/ (subject = "supervisor" /\ goal = {"mosfet"})
    /\ IF subject = "supervisor" THEN asksModel => goal \in ModelGoals ELSE ~asksModel /\ goal = {}

\* Around the supervisor the web server rebuilds the index too, for a goal
\* that leaves every route open.
Alone == asksModel \/ goal # {"pn"}

Is(s) == subject = s /\ UNCHANGED <<subject, files>>

PlannersWork ==
    \/ Is("mission") /\ MWork /\ UNCHANGED <<xvars, ixvars, svars>>
    \/ Is("repair") /\ XWork /\ UNCHANGED <<mvars, ixvars, svars>>
    \/ Is("supervisor") /\ Work /\ UNCHANGED <<mvars, xvars>>

PlannersNext ==
    \/ Is("mission") /\ MissionNext /\ UNCHANGED <<xvars, ixvars, svars>>
    \/ Is("repair") /\ RepairNext /\ UNCHANGED <<mvars, ixvars, svars>>
    \/ Is("index") /\ IndexNext /\ torn' \subseteq files /\ UNCHANGED <<mvars, xvars, svars>>
    \/ /\ Is("supervisor") /\ SupervisorNext /\ UNCHANGED <<mvars, xvars>>
       /\ torn' \subseteq files /\ \A p \in Paths : disk'[p] <= SomeVersion
       /\ Alone => \A i \in Indexers \ {Me} : UNCHANGED proc[i]

\* Every subject's fairness: whoever is at work goes on; around the index, a
\* write that began ends and somebody keeps rebuilding.
IndexAlone(A_) == Is("index") /\ A_ /\ UNCHANGED <<mvars, xvars, svars>>
PlannersSpec ==
    /\ PlannersInit /\ [][PlannersNext]_everything
    /\ WF_everything(PlannersWork)
    /\ \A p \in Paths : WF_everything(IndexAlone(FinishWrite(p)))
    /\ WF_everything(IndexAlone(\E i \in Indexers : Begin(i) \/ Read(i) \/ Conflict(i) \/ Commit(i)))

-----------------------------------------------------------------------------
\* No step takes back what is recorded: an index row, a finished goal, the
\* actions a repair has tried.
RecordsAreKept == [][NeverOlder /\ FinishedStays /\ NoRepeatWhileUntried]_everything

\* Every call that does not die returns, and the index catches up.
PlannersReturn == SupervisorReturns /\ RepairReturns /\ MissionReturns /\ AllIndexed
=============================================================================
