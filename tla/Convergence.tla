----------------------------- MODULE Convergence -----------------------------
(***************************************************************************)
(* The two convergence studies of src/tcad_agent, one id of either:        *)
(* mesh_convergence, which gives its cases to parameter_sweep and always   *)
(* sweeps, and tool_convergence, which calls its tool case by case and     *)
(* returns the state it finds.  The calls come one after another, plan or  *)
(* execute, may ask to overwrite, and may die anywhere.                    *)
(*                                                                         *)
(* A case is a value of the axis and, once it has run, its metric; a       *)
(* relative delta is a difference of metrics.  The directory of a case's   *)
(* run outlives the study: SweepTool says why a tool that meets one fails. *)
(***************************************************************************)
EXTENDS Integers, Sequences, SequencesExt, FiniteSets, Selections

CONSTANTS
    Studies,    \* the studies tried: "mesh", "tool"
    Axis,       \* the values of the axis, in the order of the request
    Metrics,    \* the metrics a case may have
    Tolerance,  \* relative_tolerance
    Registered, \* whether the tool of a call has a runner (tool study): the values tried
    ReusesRuns, \* the tool of a tool study accepts the directory of an earlier run (extended_device_sweep does)
    Asks,       \* the flags of the calls tried: subsets of {"execute", "overwrite"}
    MaxStudies, MaxStudyCrashes  \* bounds

ASSUME ConvergenceAssumption ==
    /\ Studies \subseteq {"mesh", "tool"} /\ Registered \subseteq BOOLEAN /\ ReusesRuns \in BOOLEAN
    /\ Axis \in Seq(Nat) /\ Len(Axis) >= 2 /\ Metrics \subseteq Nat /\ Tolerance \in Nat
    /\ Asks \subseteq SUBSET {"execute", "overwrite"} /\ MaxStudies \in Nat /\ MaxStudyCrashes \in Nat

VARIABLES
    study,   \* which study it is
    cfile,   \* state.json of the study
    csweep,  \* sweep_state.json of the sweep below it (mesh)
    cmem,    \* the state of the call at work
    cflags,  \* its flags
    cpc,     \* where it is
    cdirs,   \* the cases whose run directory exists
    ccalls, ccrashes

cvars == <<study, cfile, csweep, cmem, cflags, cpc, cdirs, ccalls, ccrashes>>

NoMetric == -1
Case == [value: ToSet(Axis), status: {"planned", "running", "completed", "failed"}, metric: Metrics \cup {NoMetric}]
Qualities == {"none", "planned", "passed", "suspicious", "failed"}

\* MeshConvergenceState and ToolConvergenceState.
StudyState == [status: {"absent", "planned", "completed", "failed"}, execute: BOOLEAN,
                cases: Seq(Case), quality: Qualities]
Absent == [status |-> "absent", execute |-> FALSE, cases |-> << >>, quality |-> "none"]
Fresh(flags) == [Absent EXCEPT !.status = "planned", !.execute = "execute" \in flags]

ConvergenceTypeOK ==
    /\ study \in Studies
    /\ cfile \in StudyState /\ cmem \in StudyState
    /\ csweep \in Seq(Case) /\ Len(csweep) <= Len(Axis)
    /\ cflags \in SUBSET {"execute", "overwrite"}
    /\ cpc \in {"idle", "cases", "running", "closing"}
    /\ cdirs \subseteq DOMAIN Axis /\ ccalls \in 0 .. MaxStudies /\ ccrashes \in 0 .. MaxStudyCrashes

ConvergenceInit ==
    /\ study \in Studies
    /\ cfile = Absent /\ cmem = Absent /\ csweep = << >> /\ cflags = {} /\ cpc = "idle"
    /\ cdirs = {} /\ ccalls = 0 /\ ccrashes = 0

Executes == "execute" \in cflags

-----------------------------------------------------------------------------
\* Quality of a list of cases.

\* A case counts when it completed with a metric.
Completed(cases) ==
    Selected(cases, {n \in DOMAIN cases : cases[n].status = "completed" /\ cases[n].metric # NoMetric})

\* Mutant: the two cases that ran last are compared whatever their meshes.
ComparedLast(cases) == LET done == Completed(cases) IN <<done[Len(done) - 1], done[Len(done)]>>

\* The first of the positions P of done when they are sorted by mesh; of two
\* with one mesh, the one that ran first.
Finer(done, m, n) == done[m].value < done[n].value \/ (done[m].value = done[n].value /\ m < n)
Finest(done, P) == CHOOSE n \in P : \A m \in P \ {n} : Finer(done, n, m)

\* The two finest meshes; the last two values of another axis.
Compared(cases) ==
    LET done == Completed(cases)
        first == Finest(done, DOMAIN done)
        second == Finest(done, DOMAIN done \ {first})
    IN  IF study = "mesh" THEN <<done[second], done[first]>> ELSE <<done[Len(done) - 1], done[Len(done)]>>

Delta(a, b) == IF a.metric > b.metric THEN a.metric - b.metric ELSE b.metric - a.metric

\* build_quality_report of either study.
Quality(cases) ==
    IF ~Executes THEN "planned"
    ELSE IF Len(Completed(cases)) < 2 THEN "failed"
    ELSE LET two == Compared(cases)
         IN  IF Delta(two[1], two[2]) > Tolerance \/ \E n \in DOMAIN cases : cases[n].status = "failed"
             THEN "suspicious" ELSE "passed"

-----------------------------------------------------------------------------
Save(state) == cmem' = state /\ cfile' = state
CReturn == cpc' = "idle"

\* run_mesh_convergence up to its sweep: an existing state is kept.
StartMesh(flags) ==
    /\ study = "mesh" /\ csweep' = << >>
    /\ IF cfile.status # "absent" /\ "overwrite" \notin flags
       THEN cmem' = cfile /\ UNCHANGED cfile ELSE Save(Fresh(flags))
    /\ cpc' = "cases"

\* run_tool_convergence up to its cases: an existing state is returned.
StartTool(flags) ==
    /\ study = "tool" /\ UNCHANGED csweep
    /\ IF cfile.status # "absent" /\ "overwrite" \notin flags
       THEN CReturn /\ UNCHANGED <<cmem, cfile>>
       ELSE \E known \in Registered :
              IF "execute" \in flags /\ ~known
              THEN Save([Fresh(flags) EXCEPT !.status = "failed", !.quality = "failed"]) /\ CReturn
              ELSE Save(Fresh(flags)) /\ cpc' = "cases"

CCall(flags) ==
    /\ cpc = "idle" /\ ccalls < MaxStudies /\ ccalls' = ccalls + 1 /\ cflags' = flags
    /\ StartMesh(flags) \/ StartTool(flags)
    /\ UNCHANGED <<study, cdirs, ccrashes>>

\* The cases at work: those of the sweep, or of the study itself.
Cases == IF study = "mesh" THEN csweep ELSE cmem.cases
Next_(cases) == Len(cases) + 1
CaseAt(n, status, metric) == [value |-> Axis[n], status |-> status, metric |-> metric]

\* Mutant: a case that failed is forgotten and run again.
PutCasesRetry(cases) ==
    LET kept == IF Last(cases).status = "failed" THEN Front(cases) ELSE cases
    IN  /\ IF study = "mesh" THEN csweep' = kept /\ UNCHANGED <<cmem, cfile>>
           ELSE Save([cmem EXCEPT !.cases = kept]) /\ UNCHANGED csweep
        /\ cpc' = IF Len(kept) = Len(Axis) THEN "closing" ELSE "cases"

\* A case that ended is written down; the next one may start.
PutCases(cases) ==
    /\ IF study = "mesh" THEN csweep' = cases /\ UNCHANGED <<cmem, cfile>>
       ELSE Save([cmem EXCEPT !.cases = cases]) /\ UNCHANGED csweep
    /\ cpc' = IF Len(cases) = Len(Axis) THEN "closing" ELSE "cases"

\* A planned case is only written down.
PlanCase ==
    /\ cpc = "cases" /\ ~Executes
    /\ PutCases(Append(Cases, CaseAt(Next_(Cases), "planned", NoMetric)))
    /\ UNCHANGED <<study, cflags, cdirs, ccalls, ccrashes>>

\* The tool of the next case meets its directory, or creates it and runs.  The
\* sweep writes the case before, the tool study after it has run.
StartCase ==
    /\ cpc = "cases" /\ Executes
    /\ LET n == Next_(Cases)
       IN  IF n \in cdirs /\ ~(study = "tool" /\ ReusesRuns)
           THEN PutCases(Append(Cases, CaseAt(n, "failed", NoMetric))) /\ UNCHANGED cdirs
           ELSE /\ cdirs' = cdirs \cup {n} /\ cpc' = "running"
                /\ csweep' = IF study = "mesh" THEN Append(csweep, CaseAt(n, "running", NoMetric)) ELSE csweep
                /\ UNCHANGED <<cmem, cfile>>
    /\ UNCHANGED <<study, cflags, ccalls, ccrashes>>

\* The tool completes, with or without the metric, or fails.
EndCase ==
    /\ cpc = "running"
    /\ LET before == IF study = "mesh" THEN Front(csweep) ELSE cmem.cases
           n == Next_(before)
       IN  \/ \E metric \in Metrics \cup {NoMetric} : PutCases(Append(before, CaseAt(n, "completed", metric)))
           \/ PutCases(Append(before, CaseAt(n, "failed", NoMetric)))
    /\ UNCHANGED <<study, cflags, cdirs, ccalls, ccrashes>>

\* Mutant: an executed study is left running.
StatusRunning(quality) == IF quality = "failed" THEN "failed" ELSE IF Executes THEN "running" ELSE "planned"

\* The status of a study that is over; a planned tool study is completed.
Status(quality) ==
    IF quality = "failed" THEN "failed"
    ELSE IF study = "tool" \/ Executes THEN "completed" ELSE "planned"

\* Mutant: the cases of the sweep are not copied into the study.
CloseBare ==
    /\ cpc = "closing" /\ CReturn
    /\ LET quality == Quality(Cases)
       IN  Save([cmem EXCEPT !.execute = Executes, !.quality = quality, !.status = Status(quality)])
    /\ UNCHANGED <<study, csweep, cflags, cdirs, ccalls, ccrashes>>

\* The report, the status and the cases of the study.
Close ==
    /\ cpc = "closing" /\ CReturn
    /\ LET quality == Quality(Cases)
       IN  Save([cmem EXCEPT !.execute = Executes, !.cases = Cases, !.quality = quality,
                             !.status = Status(quality)])
    /\ UNCHANGED <<study, csweep, cflags, cdirs, ccalls, ccrashes>>

CCrash ==
    /\ cpc # "idle" /\ ccrashes < MaxStudyCrashes /\ ccrashes' = ccrashes + 1 /\ CReturn
    /\ UNCHANGED <<study, cfile, csweep, cmem, cflags, cdirs, ccalls>>

CWork == PlanCase \/ StartCase \/ EndCase \/ Close
ConvergenceNext == (\E flags \in Asks : CCall(flags)) \/ CWork \/ CCrash
ConvergenceSpec == ConvergenceInit /\ [][ConvergenceNext]_cvars /\ WF_cvars(CWork)

-----------------------------------------------------------------------------
\* A study that passed ran every value of its axis without a failure, and no
\* two completed cases next to each other at its fine end differ by more than
\* the tolerance ("passed when the relative delta is within tolerance",
\* docs/mesh_convergence.md:60).
PassedIsConverged ==
    cfile.quality = "passed" =>
        /\ cfile.execute /\ Len(cfile.cases) = Len(Axis)
        /\ \A n \in DOMAIN cfile.cases : cfile.cases[n].status = "completed"
        /\ LET ends == IF study = "tool"
                       THEN LET done == Completed(cfile.cases) IN {done[Len(done)], done[Len(done) - 1]}
                       ELSE {c \in ToSet(Completed(cfile.cases)) :
                               Cardinality({b \in ToSet(Completed(cfile.cases)) : b.value < c.value}) < 2}
           IN  \A a, b \in ends : Delta(a, b) <= Tolerance

\* The study of a mesh and the sweep below it agree whenever no call is at work
\* and none has died.
StudyIsItsSweep ==
    study = "mesh" /\ cpc = "idle" /\ ccrashes = 0 /\ cfile.status # "absent" => cfile.cases = csweep

\* A call that does not die returns.
StudyReturns == (cpc # "idle") ~> (cpc = "idle")

\* A study that passed is one that converged, on the sweep it was made from.
StudyInvariant == ConvergenceTypeOK /\ PassedIsConverged /\ StudyIsItsSweep
=============================================================================
