------------------------------ MODULE Sentaurus ------------------------------
(***************************************************************************)
(* sentaurus.py: run_sentaurus copies a project, patches the copy and runs *)
(* the steps of its flow, locally, over SSH or as Slurm jobs; the state    *)
(* file is written once, at the end.  External: the cluster, the network   *)
(* and the user's cancel file.                                             *)
(*                                                                         *)
(* A command is what run_logged_command runs under run_cancellable: it     *)
(* never raises, and its return code is not 0 when it failed, timed out or *)
(* was killed for the cancel file.                                         *)
(***************************************************************************)
EXTENDS Naturals, Sequences, FiniteSets

CONSTANTS
    FlowSteps,   \* how many steps the flow has
    RunModes,    \* where it runs: subset of {"local", "ssh", "slurm"}
    Transport    \* what may fail on the way: subset of {"prepare", "push", "pull", "submit", "squeue", "scancel"}

ASSUME SentaurusAssumption == FlowSteps \in Nat \ {0} /\ RunModes \subseteq {"local", "ssh", "slurm"}

VARIABLES
    place,     \* the program counter of run_sentaurus
    runMode,   \* execution_mode of the profile, "planned" when execute is not set
    patches,   \* sentaurus_patches: "verified", "optional" or "required" (one of that kind not verified)
    at,        \* the step of the flow
    commands,  \* the commands there are so far: a sequence of [step, ok], step 0 for transport
    curve,     \* the curve file found in the copy: "none", "project" (it came with it) or "own"
    real,      \* how the processes of the steps really ended: "none", "ok", "error", or
               \* "lost" when the job of the step went without writing a return code
    job,       \* the Slurm job of the step: "none", "active", "unknown" (queued, but the
               \* run has no id of it) or "over"
    stale,     \* the steps with a return code file of 0 that came with the project, which
               \* may itself be the copy of an earlier run: nothing removes .actsoft
    artifact,  \* the return code file on the cluster, and the local copy of it
    poll,      \* what slurm_poll_until_done returned: "done", "cancelled", "timeout" or "lost"
    cancel,    \* the cancel file exists
    trouble,   \* which of squeue and scancel has failed (history)
    reason,    \* failure_reason: whether the run has failed
    ended     \* sentaurus_state.json: {} or {[status, quality, solver]}

sentVars == <<place, runMode, patches, at, commands, curve, real, job, stale, artifact, poll, cancel, trouble, reason, ended>>

NoFiles == [remote |-> "none", local |-> "none"]
\* The file of step s as the project brought it, there and here.
LeftFiles(s) == IF s \in stale THEN [remote |-> "ok", local |-> "ok"] ELSE NoFiles

SentaurusInit ==
    /\ place = "start" /\ runMode = "planned" /\ patches = "verified" /\ at = 0 /\ commands = << >>
    /\ curve \in {"none", "project"} /\ real = [s \in 1 .. FlowSteps |-> "none"] /\ job = "none"
    /\ stale \in SUBSET (1 .. FlowSteps) /\ artifact = NoFiles /\ poll = "done" /\ cancel = FALSE /\ trouble = {} /\ reason = FALSE /\ ended = {}

Ran(step, ok) == commands' = Append(commands, [step |-> step, ok |-> ok])
StopFailed == reason' = TRUE /\ place' = "judge"
\* A transport command fails because its way is down or the cancel file is there.
MayFail(way) == way \in Transport \/ cancel

\* clone_project, apply_sentaurus_patches and the choice of the flow
Start ==
    /\ place = "start" /\ patches' \in {"verified", "optional", "required"}
    /\ runMode' \in RunModes \cup {"planned"}
    /\ at' = 1
    /\ place' = CASE runMode' = "planned" -> "judge" [] runMode' = "local" -> "step" [] OTHER -> "prepare"
    /\ UNCHANGED <<commands, curve, real, job, artifact, poll, cancel, trouble, reason, ended>>

\* mkdir of the remote workspace and sync_remote_project "push"
Transfer(from, to) ==
    /\ place = from
    /\ \E ok \in BOOLEAN :
         /\ ok \/ MayFail(from)
         /\ Ran(0, ok)
         /\ IF ok THEN place' = to /\ UNCHANGED reason ELSE StopFailed
    /\ UNCHANGED <<runMode, patches, at, curve, real, job, artifact, poll, cancel, trouble, ended>>

PrepareRemote == Transfer("prepare", "push")
Push == Transfer("push", IF runMode = "slurm" THEN "submit" ELSE "step")

\* The process of a step runs to its end, to its timeout or until it is killed;
\* a curve file of its own replaces or joins what came with the project.
Ends(s, ok) == real' = [real EXCEPT ![s] = IF ok THEN "ok" ELSE "error"]
Writes(from) == curve' \in {from, "own"}

NextStep == IF at = FlowSteps THEN "judge" ELSE IF runMode = "slurm" THEN "submit" ELSE "step"

\* Mutant: the index of the step runs past the flow.
AdvancePast == place' = NextStep /\ at' = at + 1
Advance == place' = NextStep /\ at' = IF at = FlowSteps THEN at ELSE at + 1

\* A step of the local loop of run_sentaurus
LocalStep ==
    /\ place = "step" /\ runMode = "local"
    /\ \E ok \in BOOLEAN :
         /\ Ends(at, ok) /\ Ran(at, ok)
         /\ IF ok THEN Advance /\ UNCHANGED reason ELSE StopFailed /\ UNCHANGED at
    /\ Writes(curve)
    /\ UNCHANGED <<runMode, patches, job, artifact, poll, cancel, trouble, ended>>

\* A step of run_remote_ssh_flow; the workspace is pulled whatever it returned.
SshStep ==
    /\ place = "step" /\ runMode = "ssh"
    /\ \E ok \in BOOLEAN : Ends(at, ok) /\ Ran(at, ok)
    /\ place' = "pull"
    /\ UNCHANGED <<runMode, patches, at, curve, job, artifact, poll, cancel, trouble, reason, ended>>

\* sbatch.  When the command fails, times out or is killed for the cancel file,
\* the job may have been queued all the same, and so it is when the answer gives
\* no job id: the run then knows of no job to cancel.
Submit ==
    /\ place = "submit"
    /\ \E ok, named \in BOOLEAN :
         /\ (ok /\ named) \/ MayFail("submit")
         /\ Ran(0, ok)
         /\ job' \in IF ok /\ named THEN {"active"} ELSE IF ok THEN {"unknown"} ELSE {"unknown", "none"}
         /\ IF ok /\ named THEN place' = "poll" /\ UNCHANGED reason ELSE StopFailed
    /\ artifact' = LeftFiles(at)
    /\ UNCHANGED <<runMode, patches, at, curve, real, poll, cancel, trouble, ended>>

\* The cluster: the script of write_slurm_script ends and leaves its return code
\* in place of an older one, or the job is lost and leaves what there was.
JobEnds ==
    /\ job \in {"active", "unknown"} /\ job' = "over"
    /\ \E code \in {"lost", "ok", "error"} :
         /\ artifact' = IF code = "lost" THEN artifact ELSE [artifact EXCEPT !.remote = code]
         /\ real' = [real EXCEPT ![at] = code]
    /\ UNCHANGED <<place, runMode, patches, at, commands, curve, poll, cancel, trouble, reason, ended>>

\* Mutant: a timeout of the poll leaves the job alone.
NoScancel == UNCHANGED <<job, real, trouble>>

Scancel ==
    \E ok \in BOOLEAN :
        /\ ok \/ "scancel" \in Transport
        /\ trouble' = IF ok THEN trouble ELSE trouble \cup {"scancel"}
        /\ job' = IF ok THEN "over" ELSE job
        /\ real' = IF ok /\ job = "active" THEN [real EXCEPT ![at] = "error"] ELSE real

\* slurm_poll_until_done: the cancel file and the deadline are looked at before
\* squeue is asked.
PollCancelled == place = "poll" /\ cancel /\ poll' = "cancelled" /\ Scancel

\* Mutant: no deadline.
PollForever == FALSE /\ UNCHANGED <<poll, job, real, trouble>>

PollTimeout == place = "poll" /\ ~cancel /\ poll' = "timeout" /\ Scancel
PollLost ==
    /\ place = "poll" /\ "squeue" \in Transport
    /\ poll' = "lost" /\ trouble' = trouble \cup {"squeue"} /\ UNCHANGED <<job, real>>
PollDone == place = "poll" /\ job # "active" /\ poll' = "done" /\ UNCHANGED <<job, real, trouble>>

Poll ==
    /\ PollCancelled \/ PollTimeout \/ PollLost \/ PollDone
    /\ place' = "pull"
    /\ UNCHANGED <<runMode, patches, at, commands, curve, artifact, cancel, reason, ended>>

\* Mutant: a job without a return code file has returned 0.
ReadLeniently(pulled) == artifact.remote # "error" \/ ~pulled

\* read_slurm_step_result: no file, no number in it: -1
read_slurm_step_result(pulled) == pulled /\ artifact.remote = "ok"

\* sync_remote_project "pull" and what the flows do with the step after it; a
\* pull that fails may still have brought some files.
PullSsh ==
    /\ place = "pull" /\ runMode = "ssh"
    /\ \E ok \in BOOLEAN :
         /\ ok \/ MayFail("pull")
         /\ Ran(0, ok)
         /\ IF ok /\ commands[Len(commands)].ok THEN Advance /\ UNCHANGED reason ELSE StopFailed /\ UNCHANGED at
    /\ Writes(curve)
    /\ UNCHANGED <<runMode, patches, real, job, artifact, poll, cancel, trouble, ended>>

PullSlurm ==
    /\ place = "pull" /\ runMode = "slurm"
    /\ \E ok, brought \in BOOLEAN :
         /\ ok \/ MayFail("pull")
         /\ ok => brought
         /\ artifact' = IF brought THEN [artifact EXCEPT !.local = artifact.remote] ELSE artifact
         /\ LET read == poll = "done" /\ read_slurm_step_result(brought)
            IN  /\ commands' = commands \o <<[step |-> 0, ok |-> ok], [step |-> at, ok |-> read]>>
                /\ IF ok /\ read THEN Advance /\ UNCHANGED reason ELSE StopFailed /\ UNCHANGED at
    /\ Writes(curve)
    /\ UNCHANGED <<runMode, patches, real, job, poll, cancel, trouble, ended>>

Pull == PullSsh \/ PullSlurm

status_of_run(quality) ==
    IF runMode = "planned" THEN "planned" ELSE IF reason \/ quality = "failed" THEN "failed" ELSE "completed"

\* Return codes, logs, patches and the curve make the quality; log is the worst
\* finding of parse_log_files.  A curve in the copy claims a solver by itself.
JudgeRun ==
    /\ place = "judge" /\ place' = "done"
    /\ \E log \in {"none", "warning", "error"} :
         LET failed == (\E i \in DOMAIN commands : ~commands[i].ok) \/ patches = "required" \/ log = "error"
             doubtful == patches = "optional" \/ log = "warning" \/ curve = "none"
             quality == IF runMode = "planned" THEN "suspicious"
                        ELSE IF failed THEN "failed" ELSE IF doubtful THEN "suspicious" ELSE "passed"
         IN  ended' = {[status |-> status_of_run(quality), quality |-> quality, log |-> log,
                         solver |-> curve # "none" \/ \E i \in DOMAIN commands : commands[i].step # 0]}
    /\ UNCHANGED <<runMode, patches, at, commands, curve, real, job, artifact, poll, cancel, trouble, reason>>

\* The user or the agent writes the cancel file.
RequestCancel ==
    /\ ~cancel /\ cancel' = TRUE
    /\ UNCHANGED <<place, runMode, patches, at, commands, curve, real, job, artifact, poll, trouble, reason, ended>>

SentaurusWork ==
    Start \/ PrepareRemote \/ Push \/ LocalStep \/ SshStep \/ Submit \/ Poll \/ Pull \/ JudgeRun
SentaurusNext == (SentaurusWork \/ JobEnds \/ RequestCancel) /\ UNCHANGED stale

\* The process runs on; nobody waits for squeue to fail.
SentaurusRuns == SentaurusWork /\ (poll' = "lost" => poll = "lost") /\ UNCHANGED stale
SentaurusSpec == SentaurusInit /\ [][SentaurusNext]_sentVars /\ WF_sentVars(SentaurusRuns)

------------------------------------------------------------------------------
SentaurusTypeOK ==
    /\ place \in {"start", "prepare", "push", "step", "submit", "poll", "pull", "judge", "done"}
    /\ runMode \in RunModes \cup {"planned"} /\ at \in 0 .. FlowSteps /\ Len(commands) <= 2 + 3 * FlowSteps
    /\ job \in {"none", "active", "unknown", "over"} /\ stale \subseteq 1 .. FlowSteps /\ (job # "none" => runMode = "slurm")
    /\ (ended # {}) = (place = "done")

\* A run that says "completed" really ran all its steps to a good end, in place
\* or on the cluster, on a project whose required patches are in, with clean logs.
\* The one exception is a step whose job was lost without a return code while
\* the project had brought the file of an earlier run: it is read as its own.
CompletedRanAll ==
    \A s \in ended : s.status = "completed" =>
        /\ \A step \in 1 .. FlowSteps : real[step] = "ok" \/ (real[step] = "lost" /\ step \in stale)
        /\ patches # "required" /\ s.log # "error"

\* A job the run has the id of outlives it only if squeue or scancel failed: the
\* cancel file and the deadline, whenever they come, leave none behind.  This is
\* no promise for a job without an id: an sbatch that fails, or is killed for the
\* cancel file, may have queued one that nobody cancels.
NoOrphanJob == ended # {} /\ job = "active" => trouble # {}

\* Whatever the cluster does, a run ends with a state file: the poll has a deadline.
SentaurusEnds == place \notin {"start", "done"} ~> ended # {}

\* A Sentaurus run reports what its steps really did, and leaves no job on the
\* cluster that it could have cancelled.
SentaurusInvariant == SentaurusTypeOK /\ CompletedRanAll /\ NoOrphanJob
==============================================================================
