------------------------------ MODULE TaskRunner -----------------------------
(***************************************************************************)
(* run_task of src/tcad_agent/tools/task_runner.py: one task id, its       *)
(* task.json and task_run_state.json, over the PN junction tool modelled   *)
(* by SweepTool, which keeps its own state under the same id.  Unlike the  *)
(* diode tool, a task passes resume on to the tool, and turns what the     *)
(* tool raises into a failed state.                                        *)
(***************************************************************************)
EXTENDS SweepTool

VARIABLES
    task,   \* task.json exists
    tfile,  \* status in task_run_state.json
    flags,  \* the flags of the call at work
    tpc,    \* where it is
    tret    \* how the last call ended

tvars == <<task, tfile, flags, tpc, tret>>

TaskStatuses == {"absent", "planned", "running", "completed", "failed"}

TaskTypeOK ==
    /\ task \in BOOLEAN /\ tfile \in TaskStatuses
    /\ flags \in SUBSET {"execute", "overwrite", "resume"}
    /\ tpc \in {"idle", "prepared", "calling", "called"}
    /\ tret \in {"none", "exists", "planned", "completed", "failed", "raised"}

TaskInit ==
    /\ Init
    /\ task = FALSE /\ tfile = "absent" /\ flags = {} /\ tpc = "idle" /\ tret = "none"

TReturn(how) == tpc' = "idle" /\ tret' = how

\* prepare_task_files: an existing task.json needs --overwrite or --resume, and
\* only --resume leaves it as it is.
Prepare(f) ==
    /\ tpc = "idle" /\ calls < MaxCalls
    /\ flags' = f
    /\ IF task /\ f \cap {"overwrite", "resume"} = {}
       THEN TReturn("exists") /\ UNCHANGED task
       ELSE tpc' = "prepared" /\ tret' = "none" /\ task' = (task \/ "resume" \notin f)
    /\ UNCHANGED <<vars, tfile>>

\* The new state replaces whatever the last call left; without execute that is
\* all.
WriteTaskState ==
    /\ tpc = "prepared"
    /\ IF "execute" \in flags
       THEN tfile' = "running" /\ tpc' = "calling" /\ UNCHANGED tret
       ELSE tfile' = "planned" /\ TReturn("planned")
    /\ UNCHANGED <<vars, task, flags>>

\* Mutant: a resumed task creates its run like a new one.
CallToolFresh ==
    /\ tpc = "calling" /\ Create /\ tpc' = "called"
    /\ UNCHANGED <<task, tfile, flags, tret>>

\* Mutant: the call is not noted as at work.
CallToolUnseen ==
    /\ tpc = "calling" /\ tpc' = "running"
    /\ IF "resume" \in flags THEN Resume ELSE Create
    /\ UNCHANGED <<task, tfile, flags, tret>>

\* tool_runner(execution_request)
CallTool ==
    /\ tpc = "calling" /\ tpc' = "called"
    /\ IF "resume" \in flags THEN Resume ELSE Create
    /\ UNCHANGED <<task, tfile, flags, tret>>

ToolStep == tpc = "called" /\ Loop /\ UNCHANGED tvars

\* Mutant: whatever the tool returns is a completed task.
ToolReturnsAny ==
    /\ tpc = "called" /\ pc = "idle"
    /\ LET outcome == IF ret = "raised" THEN "failed" ELSE "completed"
       IN  tfile' = outcome /\ TReturn(outcome)
    /\ UNCHANGED <<vars, task, flags>>

\* The tool returned, or raised.
ToolReturns ==
    /\ tpc = "called" /\ pc = "idle"
    /\ LET outcome == IF ret = "completed" THEN "completed" ELSE "failed"
       IN  tfile' = outcome /\ TReturn(IF ret = "raised" THEN "raised" ELSE outcome)
    /\ UNCHANGED <<vars, task, flags>>

TaskCrash ==
    /\ tpc # "idle" /\ tpc' = "idle" /\ tret' = "none"
    /\ pc' = "idle" /\ ret' = "none"
    /\ UNCHANGED <<dir, file, mem, step, launched, calls, task, tfile, flags>>

TaskLoop == WriteTaskState \/ CallTool \/ ToolStep \/ ToolReturns
TaskNext ==
    \/ \E f \in SUBSET {"execute", "overwrite", "resume"} : Prepare(f)
    \/ TaskLoop \/ TaskCrash

TaskSpec == TaskInit /\ [][TaskNext]_<<vars, tvars>> /\ WF_<<vars, tvars>>(TaskLoop)

-----------------------------------------------------------------------------
\* A completed task rests on a completed run of the tool.
TaskRestsOnRun == tfile = "completed" => file.status = "completed" /\ file.summary

\* A completed attempt the tool has not given a verdict on: judging it raised.
Unjudged == file.attempts # << >> /\ Latest(file.attempts).status = "completed"

\* A call that executes with --resume and finds the tool's state does not fail
\* because an earlier call was interrupted: what it raises is that there is no
\* state, or that a summary could not be judged.
TaskResumes == tret = "raised" /\ "resume" \in flags => file.status = "absent" \/ Unjudged

\* The task's state follows the run of its tool, and resuming mends it.
TaskInvariant == TaskTypeOK /\ TaskRestsOnRun /\ TaskResumes
=============================================================================
