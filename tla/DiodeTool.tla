------------------------------ MODULE DiodeTool ------------------------------
(***************************************************************************)
(* The diode_breakdown tool of src/tcad_agent/tools: a checkpointed        *)
(* wrapper that calls the PN junction tool, modelled by SweepTool, in a    *)
(* directory of its own and judges what it returns.  Whether the diode     *)
(* call itself creates or resumes its run, it calls the PN tool with       *)
(* resume=False.                                                           *)
(***************************************************************************)
EXTENDS SweepTool

VARIABLES
    ddir,   \* the directory of the diode run exists
    dfile,  \* status of its state.json, absent before it is written
    inner,  \* its state.json names the PN state
    dpc,    \* where the diode call is
    dret    \* how the last diode call ended

dvars == <<ddir, dfile, inner, dpc, dret>>

DiodeTypeOK ==
    /\ ddir \in BOOLEAN /\ inner \in BOOLEAN
    /\ dfile \in {"absent", "running", "completed", "failed"}
    /\ dpc \in {"idle", "made", "calling", "called"}
    /\ dret \in {"none", "completed", "failed", "exists", "missing", "raised"}

DiodeInit ==
    /\ Init
    /\ ddir = FALSE /\ dfile = "absent" /\ inner = FALSE
    /\ dpc = "idle" /\ dret = "none"

DReturn(how) == dpc' = "idle" /\ dret' = how

\* A call that creates the run: mkdir(exist_ok=False), then its state.json.
DCreate ==
    /\ dpc = "idle" /\ calls < MaxCalls
    /\ IF ddir THEN DReturn("exists") /\ calls' = calls + 1 /\ UNCHANGED ddir
       ELSE ddir' = TRUE /\ dpc' = "made" /\ UNCHANGED <<dret, calls>>
    /\ UNCHANGED <<dir, file, mem, pc, step, ret, launched, dfile, inner>>

DCreateState ==
    /\ dpc = "made" /\ dfile' = "running" /\ dpc' = "calling"
    /\ UNCHANGED <<vars, ddir, inner, dret>>

\* A call that resumes it: a completed run is returned, any other starts over.
DResume ==
    /\ dpc = "idle" /\ calls < MaxCalls
    /\ \/ /\ dfile = "absent" /\ DReturn("missing") /\ calls' = calls + 1
       \/ /\ dfile = "completed" /\ DReturn("completed") /\ calls' = calls + 1
       \/ /\ dfile \in {"running", "failed"}
          /\ dpc' = "calling" /\ UNCHANGED <<dret, calls>>
    /\ UNCHANGED <<dir, file, mem, pc, step, ret, launched, ddir, dfile, inner>>

\* run_pn_junction_iv_sweep(pn_request), whose run_id is always the same.
DCall ==
    /\ dpc = "calling" /\ Create /\ dpc' = "called"
    /\ UNCHANGED <<ddir, dfile, inner, dret>>

InnerStep == dpc = "called" /\ Loop /\ UNCHANGED dvars

\* Mutant: the verdict of the PN call, whatever it is, is the diode's.
DRaiseInner ==
    /\ dpc = "called" /\ pc = "idle" /\ ret = "raised"
    /\ dfile' = ret /\ DReturn("raised")
    /\ UNCHANGED <<vars, ddir, inner>>

\* The PN tool raised: the exception leaves the diode tool, and its state.json
\* as it is.
DRaise ==
    /\ dpc = "called" /\ pc = "idle" /\ ret = "raised"
    /\ DReturn("raised")
    /\ UNCHANGED <<vars, ddir, dfile, inner>>

\* The PN tool returned.
DNameInner ==
    /\ dpc = "called" /\ pc = "idle" /\ ret \in {"completed", "failed"} /\ ~inner
    /\ inner' = TRUE
    /\ UNCHANGED <<vars, ddir, dfile, dpc, dret>>

\* Mutant: the status of the PN state is not looked at.
DFinishAny ==
    /\ dpc = "called" /\ pc = "idle" /\ ret \in {"completed", "failed"} /\ inner
    /\ dfile' = "completed" /\ DReturn("completed")
    /\ UNCHANGED <<vars, ddir, inner>>

\* Mutant: a PN run that needed a second attempt counts as failed.
DFinishFirstTry ==
    /\ dpc = "called" /\ pc = "idle" /\ ret \in {"completed", "failed"} /\ inner
    /\ LET outcome == IF Len(mem.attempts) = 1 /\ mem.status = "completed" /\ mem.summary THEN "completed" ELSE "failed"
       IN  dfile' = outcome /\ DReturn(outcome)
    /\ UNCHANGED <<vars, ddir, inner>>

DFinish ==
    /\ dpc = "called" /\ pc = "idle" /\ ret \in {"completed", "failed"} /\ inner
    /\ LET outcome == IF mem.status = "completed" /\ mem.summary THEN "completed" ELSE "failed"
       IN  dfile' = outcome /\ DReturn(outcome)
    /\ UNCHANGED <<vars, ddir, inner>>

\* augment_summary raises: the PN summary names no CSV, or one that cannot be read.
DAugmentRaises ==
    /\ dpc = "called" /\ pc = "idle" /\ inner
    /\ ret = "completed" /\ mem.status = "completed" /\ mem.summary
    /\ DReturn("raised")
    /\ UNCHANGED <<vars, ddir, dfile, inner>>

DCrash ==
    /\ dpc # "idle" /\ dpc' = "idle" /\ dret' = "none"
    /\ pc' = "idle" /\ ret' = "none"
    /\ UNCHANGED <<dir, file, mem, step, launched, calls, ddir, dfile, inner>>

DLoop == DCreateState \/ DCall \/ InnerStep \/ DRaise \/ DNameInner \/ DFinish \/ DAugmentRaises
DiodeNext == DCreate \/ DResume \/ DLoop \/ DCrash

DiodeSpec == DiodeInit /\ [][DiodeNext]_<<vars, dvars>> /\ WF_<<vars, dvars>>(DLoop)

-----------------------------------------------------------------------------
\* A diode run that is completed rests on a completed PN run.
DiodeRestsOnPN == dfile = "completed" => file.status = "completed" /\ file.summary

\* A diode run does not fail over a PN run that succeeded.
DiodeFollowsPN == dfile = "failed" => file.status # "completed"

\* The wrapper's state follows the run it wraps, through resumes and deaths of
\* either.
DiodeInvariant == DiodeTypeOK /\ DiodeRestsOnPN /\ DiodeFollowsPN
=============================================================================
