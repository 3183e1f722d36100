--------------------------- MODULE ExtendedDevice ---------------------------
(***************************************************************************)
(* The extended_device_sweep tool of src/tcad_agent/tools and its two      *)
(* workflows: schottky_calibration, which verifies its best fit with the   *)
(* tool, and power_mosfet_signoff, which runs a baseline with it, judges   *)
(* it, and closes a gate.  One run directory; the calls, of the tool or of *)
(* one workflow, come one after another and may die anywhere.              *)
(*                                                                         *)
(* Unlike the tools of SweepTool a call has no running state: state.json   *)
(* is written once, at its end.  Files are known by the call that wrote    *)
(* them.  A solver is a process; ProcessControl models how it is run.      *)
(***************************************************************************)
EXTENDS Naturals

CONSTANTS
    Devices,      \* the device types tried
    Workflows,    \* what calls the tool: "tool", "calibration", "signoff"
    References,   \* whether a sign-off has a reference curve, or a study of it raises: the values tried
    MaxRuns, MaxRunCrashes  \* bounds: calls, and calls that die

ASSUME ExtendedAssumption ==
    /\ Workflows \subseteq {"tool", "calibration", "signoff"} /\ References \subseteq BOOLEAN
    /\ MaxRuns \in Nat /\ MaxRunCrashes \in Nat

VARIABLES
    workflow, device,  \* what calls the tool in this directory, for which device
    edir,     \* the run directory exists
    einner,   \* the directory of its solver run, below it, exists
    ecsv, esummary,  \* the calls that wrote sweep.csv and summary.json, 0 for none
    efile,    \* state.json
    ereq,     \* the request at work
    epc,      \* where the call of the tool is
    eret,     \* how it ended
    solved,   \* history: the calls whose solver completed
    wpc, wfile, wlost,  \* the workflow: where it is, its state.json; wlost: a call of it died
    eruns, ecrashes

toolvars == <<edir, einner, ecsv, esummary, efile, ereq, epc, eret, solved>>
flowvars == <<wpc, wfile, wlost>>
evars == <<workflow, device, toolvars, flowvars, eruns, ecrashes>>

Fidelities == {"compact", "physics_1d", "devsim_1d", "devsim_2d_field_plate"}

\* validate_request: the fidelities a device has.
Valid(d, fidelity) ==
    /\ fidelity = "devsim_1d" => d = "schottky_diode"
    /\ fidelity = "devsim_2d_field_plate" => d = "power_mosfet_bv_ron"
    /\ fidelity = "physics_1d" => d # "schottky_diode"

\* The requests that run a solver; the others evaluate a formula.
Invokes(d, fidelity) ==
    \/ fidelity \in {"devsim_1d", "devsim_2d_field_plate"}
    \/ d = "power_mosfet_bv_ron" /\ fidelity = "physics_1d"

\* evidence_level after validation, for the default request.
EvidenceLevel(fidelity) == IF fidelity = "compact" THEN "compact_baseline" ELSE "tcad_executable"

\* quality_report: a layout run always has sign-off gaps, so it never passes.
Qualities_(fidelity) ==
    IF fidelity = "devsim_2d_field_plate" THEN {"suspicious", "failed"} ELSE {"passed", "suspicious", "failed"}

\* A request: sound when the formula can be evaluated for it.  A step that is not
\* positive, which voltage_targets refuses, no longer gets here; an activation
\* energy that makes simulate_sic_power_diode divide by zero does.
Request == [fidelity: Fidelities, sound: BOOLEAN]
NoRequest == [fidelity |-> "compact", sound |-> TRUE]

\* failure_reason: the directory is there, the solver, the request, or any other
\* exception on the way, such as a file that cannot be written.
Reasons == {"none", "exists", "solver", "request", "other"}

NoRun == [status |-> "absent", call |-> 0, request |-> NoRequest, quality |-> "none", reason |-> "none"]
NoGate == [status |-> "absent", verdict |-> "none", evidence |-> <<"none", "none">>, call |-> 0]
Verdicts == {"none", "passed", "suspicious", "failed"}
Run == [status: {"absent", "completed", "failed"}, call: 0 .. MaxRuns, request: Request,
        quality: Verdicts, reason: Reasons]
Gate == [status: {"absent", "planned", "completed", "failed"},
         verdict: {"none", "ready", "conditional", "blocked", "verified", "fitted"},
         evidence: Verdicts \X Verdicts, call: 0 .. MaxRuns]

ExtendedTypeOK ==
    /\ workflow \in Workflows /\ device \in Devices
    /\ edir \in BOOLEAN /\ einner \in BOOLEAN /\ {ecsv, esummary} \subseteq 0 .. MaxRuns
    /\ efile \in Run /\ ereq \in [request: Request, resume: BOOLEAN]
    /\ epc \in {"idle", "solver", "solving", "csv", "summary", "state"}
    /\ eret \in {"none", "completed", "failed"} /\ solved \subseteq 1 .. MaxRuns
    /\ wpc \in {"idle", "baseline", "judging"} /\ wfile \in Gate /\ wlost \in BOOLEAN
    /\ eruns \in 0 .. MaxRuns /\ ecrashes \in 0 .. MaxRunCrashes

ExtendedInit ==
    /\ workflow \in Workflows /\ device \in Devices
    /\ workflow = "calibration" => device = "schottky_diode"
    /\ workflow = "signoff" => device = "power_mosfet_bv_ron"
    /\ edir = FALSE /\ einner = FALSE /\ ecsv = 0 /\ esummary = 0 /\ efile = NoRun
    /\ ereq = [request |-> NoRequest, resume |-> FALSE] /\ epc = "idle" /\ eret = "none" /\ solved = {}
    /\ wpc = "idle" /\ wfile = NoGate /\ wlost = FALSE /\ eruns = 0 /\ ecrashes = 0

-----------------------------------------------------------------------------
\* The tool.

\* Mutant: a call that is over is not idle.
EReturnOpen(status, quality, reason) ==
    /\ efile' = [status |-> status, call |-> eruns', request |-> ereq'.request, quality |-> quality, reason |-> reason]
    /\ eret' = status /\ epc' = status

\* The state is written, whatever the outcome, and returned.
EReturn(status, quality, reason) ==
    /\ efile' = [status |-> status, call |-> eruns', request |-> ereq'.request, quality |-> quality, reason |-> reason]
    /\ eret' = status /\ epc' = "idle"

\* Mutant: mkdir(exist_ok=False), as in the other tools.
OpenNew(request, resume) ==
    /\ epc = "idle" /\ ereq' = [request |-> request, resume |-> resume] /\ edir' = TRUE
    /\ IF edir THEN EReturn("failed", "none", "exists")
       ELSE /\ epc' = IF Invokes(device, request.fidelity) THEN "solver" ELSE "csv"
            /\ eret' = "none" /\ UNCHANGED efile
    /\ UNCHANGED <<einner, ecsv, esummary, solved>>

\* run_extended_device_sweep up to its simulation: mkdir(exist_ok=not resume),
\* so that it is a resuming call that an existing directory stops.
Open(request, resume) ==
    /\ epc = "idle" /\ ereq' = [request |-> request, resume |-> resume] /\ edir' = TRUE
    /\ IF edir /\ resume THEN EReturn("failed", "none", "exists")
       ELSE /\ epc' = IF Invokes(device, request.fidelity) THEN "solver" ELSE "csv"
            /\ eret' = "none" /\ UNCHANGED efile
    /\ UNCHANGED <<einner, ecsv, esummary, solved>>

\* The runner makes its directory, whose name is the same in every call, or
\* ends with an error because it is there.
StartSolver ==
    /\ epc = "solver" /\ UNCHANGED <<ereq, eruns>>
    /\ IF einner THEN EReturn("failed", "none", "solver") /\ UNCHANGED einner
       ELSE einner' = TRUE /\ epc' = "solving" /\ UNCHANGED <<efile, eret>>
    /\ UNCHANGED <<edir, ecsv, esummary, solved>>

\* Mutant: the return code is not looked at.
EndSolverAny ==
    /\ epc = "solving" /\ UNCHANGED <<ereq, eruns>>
    /\ epc' = "csv" /\ solved' \in {solved, solved \cup {eruns}} /\ UNCHANGED <<efile, eret>>
    /\ UNCHANGED <<edir, einner, ecsv, esummary>>

\* It ends well with its files, or does not: an error, a timeout, no files.
EndSolver ==
    /\ epc = "solving" /\ UNCHANGED <<ereq, eruns>>
    /\ \/ epc' = "csv" /\ solved' = solved \cup {eruns} /\ UNCHANGED <<efile, eret>>
       \/ EReturn("failed", "none", "solver") /\ UNCHANGED solved
    /\ UNCHANGED <<edir, einner, ecsv, esummary>>

\* simulate_device cannot evaluate the formula for this request.
FormulaRejects ==
    /\ epc = "csv" /\ ~ereq.request.sound /\ UNCHANGED <<ereq, eruns>>
    /\ EReturn("failed", "none", "request")
    /\ UNCHANGED <<edir, einner, ecsv, esummary, solved>>

\* Mutant: a sweep.csv that is there is kept.
WriteCsvOnce ==
    /\ epc = "csv" /\ epc' = "summary" /\ ecsv' = IF ecsv = 0 THEN eruns ELSE ecsv
    /\ UNCHANGED <<edir, einner, esummary, efile, ereq, eret, solved, eruns>>

\* sweep.csv, then the plot, the deck and the log ...
WriteCsv ==
    /\ epc = "csv" /\ ereq.request.sound /\ epc' = "summary" /\ ecsv' = eruns
    /\ UNCHANGED <<edir, einner, esummary, efile, ereq, eret, solved, eruns>>

\* ... the summary ...
WriteSummary ==
    /\ epc = "summary" /\ epc' = "state" /\ esummary' = eruns
    /\ UNCHANGED <<edir, einner, ecsv, efile, ereq, eret, solved, eruns>>

\* ... and the state with the report on the metrics.
WriteState ==
    /\ epc = "state" /\ UNCHANGED <<ereq, eruns>>
    /\ \E quality \in Qualities_(ereq.request.fidelity) : EReturn("completed", quality, "none")
    /\ UNCHANGED <<edir, einner, ecsv, esummary, solved>>

\* Anything else that raises on the way, a solver's result or a formula's: what
\* is written so far stays.
OtherRaises ==
    /\ epc \in {"csv", "summary", "state"} /\ UNCHANGED <<ereq, eruns>>
    /\ EReturn("failed", "none", "other")
    /\ UNCHANGED <<edir, einner, ecsv, esummary, solved>>

ToolWork ==
    /\ StartSolver \/ EndSolver \/ FormulaRejects \/ WriteCsv \/ WriteSummary \/ WriteState \/ OtherRaises
    /\ UNCHANGED <<workflow, device, flowvars, ecrashes>>

\* A call of the tool by itself.
CallDevice ==
    /\ workflow = "tool" /\ eruns < MaxRuns /\ eruns' = eruns + 1
    /\ \E fidelity \in {f \in Fidelities : Valid(device, f)}, resume \in BOOLEAN :
         \E sound \in {TRUE, Invokes(device, fidelity)} : Open([fidelity |-> fidelity, sound |-> sound], resume)
    /\ UNCHANGED <<workflow, device, flowvars, ecrashes>>

-----------------------------------------------------------------------------
\* The workflows.

\* The request a workflow makes, for a solver.
Solving(fidelity) == [fidelity |-> fidelity, sound |-> TRUE]

WReturnWith(status, verdict, evidence) ==
    wpc' = "idle" /\ wfile' = [status |-> status, verdict |-> verdict, evidence |-> evidence, call |-> eruns']
WReturn(status, verdict) == WReturnWith(status, verdict, <<"none", "none">>)

Calls(flow) == workflow = flow /\ wpc = "idle" /\ epc = "idle" /\ eruns < MaxRuns /\ eruns' = eruns + 1

\* run_schottky_calibration up to its verification: an existing directory, or a
\* target that cannot be read, fails it; without verify_with_devsim it is fitted.
Calibrate ==
    /\ Calls("calibration")
    /\ \/ WReturn("failed", "none") /\ UNCHANGED toolvars
       \/ /\ ~edir /\ wfile.status = "absent" /\ ~wlost
          /\ \/ WReturn("completed", "fitted") /\ UNCHANGED toolvars
             \/ wpc' = "baseline" /\ Open(Solving("devsim_1d"), FALSE) /\ UNCHANGED wfile
    /\ UNCHANGED <<workflow, device, wlost, ecrashes>>

\* Mutant: the verification's state is named before the tool is called.
VerifiedEarly ==
    /\ workflow = "calibration" /\ wpc = "baseline" /\ eruns' = eruns
    /\ WReturn("completed", "verified")
    /\ UNCHANGED <<workflow, device, toolvars, wlost, ecrashes>>

\* verify_best_with_devsim names the state of the tool, whatever it says.
Verified ==
    /\ workflow = "calibration" /\ wpc = "baseline" /\ epc = "idle" /\ eruns' = eruns
    /\ WReturn("completed", "verified")
    /\ UNCHANGED <<workflow, device, toolvars, wlost, ecrashes>>

\* run_power_mosfet_signoff: a plan, or the baseline.
SignOff ==
    /\ Calls("signoff")
    /\ \/ WReturn("planned", "conditional") /\ UNCHANGED toolvars
       \/ wpc' = "baseline" /\ Open(Solving("devsim_2d_field_plate"), FALSE) /\ UNCHANGED wfile
    /\ UNCHANGED <<workflow, device, wlost, ecrashes>>

\* run_physical_benchmark of the baseline: a failed state fails it.
Benchmarked(quality) == IF efile.status # "completed" \/ quality = "failed" THEN {"failed"} ELSE {"suspicious", "failed"}

\* Mutant: a check that failed is missing evidence, like one that is not there.
VerdictLenient(benchmark, convergence, golden) ==
    IF benchmark = "failed" THEN "blocked"
    ELSE IF {convergence, golden} # {"passed"} /\ golden # "failed" THEN "conditional" ELSE "ready"

\* build_signoff_gate
Verdict(benchmark, convergence, golden) ==
    IF "failed" \in {benchmark, convergence, golden} THEN "blocked"
    ELSE IF {convergence, golden} # {"passed"} THEN "conditional" ELSE "ready"

\* Mutant: the gate is built for a baseline that completed.
CloseGateCompleted ==
    /\ workflow = "signoff" /\ wpc = "baseline" /\ epc = "idle" /\ eruns' = eruns
    /\ eret = "completed" /\ WReturnWith("completed", "conditional", <<"none", "none">>)
    /\ UNCHANGED <<workflow, device, toolvars, wlost, ecrashes>>

\* The benchmark, the convergence study (Convergence) and the comparison with
\* the reference curve, one of which may raise, then the gate on what there is.
CloseGate ==
    /\ workflow = "signoff" /\ wpc = "baseline" /\ epc = "idle" /\ eruns' = eruns
    /\ \E benchmark \in Benchmarked(efile.quality), convergence \in Verdicts, reference, raised \in References :
         \E golden \in IF reference /\ ~raised THEN Verdicts \ {"none"} ELSE {"none"} :
           LET verdict == Verdict(benchmark, convergence, golden)
           IN  WReturnWith(IF raised \/ verdict = "blocked" THEN "failed" ELSE "completed",
                           verdict, <<convergence, golden>>)
    /\ UNCHANGED <<workflow, device, toolvars, wlost, ecrashes>>

ECrash ==
    /\ epc # "idle" \/ wpc # "idle"
    /\ ecrashes < MaxRunCrashes /\ ecrashes' = ecrashes + 1
    /\ epc' = "idle" /\ eret' = "none" /\ wpc' = "idle" /\ wlost' = TRUE
    /\ UNCHANGED <<workflow, device, edir, einner, ecsv, esummary, efile, ereq, solved, wfile, eruns>>

ExtendedWork == ToolWork \/ Verified \/ CloseGate
ExtendedNext == CallDevice \/ Calibrate \/ SignOff \/ ExtendedWork \/ ECrash
ExtendedSpec == ExtendedInit /\ [][ExtendedNext]_evars /\ WF_evars(ExtendedWork)

-----------------------------------------------------------------------------
\* A completed state of a request that needs a solver rests on a solver that
\* this very call ran to its end ("two different evidence levels that must not
\* be confused", docs/extended_device_sweep.md:3).
SolverBehindEvidence ==
    efile.status = "completed" /\ Invokes(device, efile.request.fidelity) => efile.call \in solved

\* When a call returns completed, the curve and the summary in the directory
\* are those its state speaks of, whatever earlier calls and crashes left.
FilesAreTheStates ==
    epc = "idle" /\ eret = "completed" => ecsv = efile.call /\ esummary = efile.call

\* A call of a formula that is repeated, with the request that had completed and
\* without resume, does not lose the result to its own directory or to the
\* formula, whatever calls and deaths came between: only to another exception on
\* the way, which the state then names.
FormulaRepeats ==
    /\ efile.status = "completed" /\ efile'.status = "failed"
    /\ ereq'.request = efile.request /\ ~ereq'.resume /\ ~Invokes(device, ereq'.request.fidelity)
    => efile'.reason = "other"

\* A calibration that says it was verified called the tool, and the tool wrote
\* the state it names (which may say that the verification failed).
VerifiedHasState == wfile.verdict = "verified" => efile.status # "absent" /\ efile.call = wfile.call

\* The gate is ready only over a baseline that completed with a solver in that
\* very call, converged and agrees with a reference curve.
ReadyIsEarned ==
    wfile.verdict = "ready" =>
        /\ wfile.call \in solved /\ wfile.evidence = <<"passed", "passed">>
        /\ efile.call = wfile.call => efile.status = "completed" /\ efile.quality # "failed"

\* A call that does not die returns.
DeviceReturns == (epc # "idle" \/ wpc # "idle") ~> (epc = "idle" /\ wpc = "idle")

\* What a device run and the two workflows over it say is backed by the run and
\* the files in the directory, whatever earlier calls left there.
DeviceInvariant ==
    ExtendedTypeOK /\ SolverBehindEvidence /\ FilesAreTheStates /\ VerifiedHasState /\ ReadyIsEarned
=============================================================================
