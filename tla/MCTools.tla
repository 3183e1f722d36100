------------------------------- MODULE MCTools -------------------------------
(***************************************************************************)
(* One instance for TLC of everything that keeps a directory of its own    *)
(* below runs/: a behaviour is a sequence of calls of one subject, and     *)
(* what the other subjects keep stays as it was in the beginning.  They    *)
(* share no state, so nothing is lost by checking one at a time.           *)
(***************************************************************************)
EXTENDS DiodeTool, TaskRunner, ProcessControl, Convergence, Optimizer, ExtendedDevice, Sentaurus

CONSTANT Subjects  \* the subjects tried

VARIABLE subject   \* the one that is called

everything == <<subject, vars, dvars, tvars, pvars, cvars, ovars, evars, sentVars>>

\* Two bias axes that reach min_step at different attempts.
TwoAxes == {"gate", "drain"}
TwoSteps == [a \in TwoAxes |-> IF a = "gate" THEN 8 ELSE 4]
TwoMins == [a \in TwoAxes |-> IF a = "gate" THEN 2 ELSE 3]
\* Meshes that are not sorted; two initial points of a search, and two more.
Mixed == <<2, 1, 3>>
AllAsks == SUBSET {"execute", "overwrite"}
FourPoints == 1 .. 4
TwoInitial == <<1, 4>>

ProcessRests ==
    /\ timeout = 0 /\ ppc = "done" /\ why = "none" /\ child = "exited" /\ code = 0 /\ held = FALSE
    /\ deaf = FALSE /\ token = FALSE /\ seen = FALSE /\ clock = 0 /\ patience = 0
    /\ result = [kind |-> "none", code |-> 0]

ToolsInit ==
    /\ subject \in Subjects
    /\ DiodeInit /\ TaskInit
    /\ IF subject = "process" THEN ProcessInit ELSE ProcessRests
    /\ ConvergenceInit /\ (subject # "study" => study = "mesh")
    /\ OptimizerInit /\ (subject # "search" => search = "adaptive")
    /\ ExtendedInit
    /\ subject # "device" => workflow = "tool" /\ device = "schottky_diode"
    /\ SentaurusInit /\ (subject # "sentaurus" => curve = "none" /\ stale = {})

Is(s) == subject = s /\ UNCHANGED subject
NoSweep_ == UNCHANGED <<vars, dvars, tvars>>
NoOther == UNCHANGED <<pvars, cvars, ovars, evars, sentVars>>

ToolsWork ==
    \/ Is("sweep") /\ Loop /\ UNCHANGED <<dvars, tvars>> /\ NoOther
    \/ Is("diode") /\ DLoop /\ UNCHANGED tvars /\ NoOther
    \/ Is("task") /\ TaskLoop /\ UNCHANGED dvars /\ NoOther
    \/ Is("process") /\ Caller /\ NoSweep_ /\ UNCHANGED <<cvars, ovars, evars, sentVars>>
    \/ Is("study") /\ CWork /\ NoSweep_ /\ UNCHANGED <<pvars, ovars, evars, sentVars>>
    \/ Is("search") /\ Work /\ NoSweep_ /\ UNCHANGED <<pvars, cvars, evars, sentVars>>
    \/ Is("device") /\ ExtendedWork /\ NoSweep_ /\ UNCHANGED <<pvars, cvars, ovars, sentVars>>
    \/ Is("sentaurus") /\ SentaurusRuns /\ NoSweep_ /\ UNCHANGED <<pvars, cvars, ovars, evars>>

ToolsNext ==
    \/ Is("sweep") /\ Next /\ UNCHANGED <<dvars, tvars>> /\ NoOther
    \/ Is("diode") /\ DiodeNext /\ UNCHANGED tvars /\ NoOther
    \/ Is("task") /\ TaskNext /\ UNCHANGED dvars /\ NoOther
    \/ Is("process") /\ ProcessNext /\ NoSweep_ /\ UNCHANGED <<cvars, ovars, evars, sentVars>>
    \/ Is("study") /\ ConvergenceNext /\ NoSweep_ /\ UNCHANGED <<pvars, ovars, evars, sentVars>>
    \/ Is("search") /\ OptimizerNext /\ NoSweep_ /\ UNCHANGED <<pvars, cvars, evars, sentVars>>
    \/ Is("device") /\ ExtendedNext /\ NoSweep_ /\ UNCHANGED <<pvars, cvars, ovars, sentVars>>
    \/ Is("sentaurus") /\ SentaurusNext /\ NoSweep_ /\ UNCHANGED <<pvars, cvars, ovars, evars>>

\* Every subject's fairness: whoever is at work goes on.
ToolsSpec == ToolsInit /\ [][ToolsNext]_everything /\ WF_everything(ToolsWork)

-----------------------------------------------------------------------------
\* The two tools that wrap another one, the diode's and the task's.
WrapperInvariant == DiodeInvariant /\ TaskInvariant

\* Studies and searches, which run many cases under one id.
CampaignInvariant == StudyInvariant /\ SearchInvariant

\* No call, of whatever subject, takes a finished result back: a search keeps its
\* completed observations, and a formula repeated gives its result again.
ResultsAreKept == [][CompletedKept /\ FormulaRepeats]_everything

\* Every call that does not die returns.
CallsSettle ==
    /\ CallReturns /\ StudyReturns /\ OptimizerReturns /\ DeviceReturns
    /\ CallEnds /\ SentaurusEnds
=============================================================================
