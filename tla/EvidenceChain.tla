---------------------------- MODULE EvidenceChain ----------------------------
(***************************************************************************)
(* From the state file of a run to what is made of it: the physical        *)
(* benchmark writes benchmark.json beside it; the repair executor folds    *)
(* both into an augmented state, accepts it or plans a repair; the         *)
(* experiment design picks the next experiment; the conclusion says what   *)
(* the result is good for.  A run into the same directory overwrites the   *)
(* state file and leaves benchmark.json of the previous one.               *)
(***************************************************************************)
EXTENDS Benchmark, RepairStrategy

CONSTANTS
    Results,   \* what a tool may leave in its state file
    Reruns     \* the results a run over the same directory may leave instead

\* What every tool's state file keeps to: a report that passed has no issue and
\* one that did not names one, a search has no report of its own, and a device
\* is one the benchmark has a golden profile of.
KnownDevice(r) == r.tool = Extended => r.device \in DOMAIN DEFAULT_GOLDEN_PROFILES
SoundResult(r) ==
    /\ r.status \in {"completed", "failed", "planned"} /\ r.quality \in {"none", "passed", "suspicious", "failed"}
    /\ r.status = "planned" => r.quality = "suspicious"
    /\ r.quality = "passed" => r.issues = {}
    /\ r.quality \in {"suspicious", "failed"} /\ r.status = "completed" => r.issues # {}
    /\ r.tool \in Aggregates => r.quality = "none" /\ (r.facts.best = "kept" => KnownDevice(r.child))
    /\ KnownDevice(r)

ASSUME ResultsAssumption == \A r \in Results \cup Reruns : SoundResult(r)

VARIABLES
    result,      \* the state file: [tool, device, fidelity, status, quality, issues, facts, child]
    benchmark,   \* benchmark.json: {} or a set with what was written last
    augmented,   \* the augmented state: {} or {[status, quality, codes, context]}
    plan,        \* the repair plan of the augmented state: {} or one
    design,      \* the experiment design: {} or one
    conclusion,  \* "none" or the engineering decision of conclusion.md
    rerun        \* the run was repeated in the same directory

chainVars == <<result, benchmark, augmented, plan, design, conclusion, rerun>>

Known(file) == file # {}
The(file) == CHOOSE content \in file : TRUE

Forgotten == augmented' = {} /\ plan' = {} /\ design' = {} /\ conclusion' = "none"

ChainInit ==
    /\ result \in Results /\ benchmark = {} /\ augmented = {} /\ plan = {} /\ design = {}
    /\ conclusion = "none" /\ rerun = FALSE

\* A convergence study of the agent, for one, always uses the same directory.
Rerun ==
    /\ ~rerun /\ Known(benchmark) /\ augmented = {} /\ design = {} /\ conclusion = "none"
    /\ rerun' = TRUE /\ Forgotten /\ UNCHANGED benchmark
    /\ \E r \in Reruns : /\ <<r.tool, r.device, r.fidelity>> = <<result.tool, result.device, result.fidelity>>
                         /\ result' = r

RunBenchmark ==
    /\ benchmark = {} /\ benchmark' = {run_physical_benchmark(result)}
    /\ UNCHANGED <<result, augmented, plan, design, conclusion, rerun>>

------------------------------------------------------------------------------
(* repair_executor.py *)

severity_rank(status) == CASE status = "suspicious" -> 1 [] status = "failed" -> 2 [] OTHER -> 0

\* Mutant: the status is raised, but the quality report keeps its own issues only.
FoldStatusOnly(r, b) ==
    [status |-> r.status, context |-> b.status, codes |-> r.issues,
     quality |-> IF severity_rank(b.status) > severity_rank(r.quality) THEN b.status ELSE r.quality]

\* write_benchmark_augmented_state: what the benchmark found becomes quality
\* issues, and its status counts where it is the worse.
write_benchmark_augmented_state(r, b) ==
    [status |-> r.status, context |-> b.status,
     codes |-> r.issues \cup Named(Of(b.checks, "warning")) \cup Named(Of(b.checks, "error")),
     quality |-> IF severity_rank(b.status) > severity_rank(r.quality) THEN b.status ELSE r.quality]

\* Mutant: a suspicious result is good enough.
AcceptSuspicious(a) == a.context # "failed" /\ a.status = "completed" /\ a.quality # "failed"

is_accepted_state(a) ==
    a.context \notin {"failed", "suspicious"} /\ a.status = "completed" /\ a.quality = "passed"

\* The executor benchmarks a result and folds the benchmark in at once.
Augment ==
    /\ Known(benchmark) /\ ~rerun /\ augmented = {} /\ design = {} /\ conclusion = "none"
    /\ augmented' = {write_benchmark_augmented_state(result, The(benchmark))}
    /\ UNCHANGED <<result, benchmark, plan, design, conclusion, rerun>>

Fact(f, fact, otherwise) == IF fact \in DOMAIN f THEN f[fact] ELSE otherwise

\* The state to repair, as RepairStrategy reads it
ToRepair(r, a) ==
    [tool |-> r.tool, status |-> r.status, codes |-> a.codes,
     log |-> Fact(r.facts, "log", "none"),
     classes |-> (IF Fact(r.facts, "failures", "none") = "some" THEN {"convergence"} ELSE {})
                 \cup (IF Fact(r.facts, "reason", "none") = "none" THEN {} ELSE {r.facts.reason}),
     cases |-> IF Fact(r.facts, "cases", "ok") = "one_failed" THEN "explained" ELSE "ok",
     mutations |-> Fact(r.facts, "mutations", "none") # "none",
     tradeoffs |-> Fact(r.facts, "effect", "none") = "tradeoff",
     impact |-> Fact(r.facts, "avalanche", "none")]

NamesGolden(codes) == codes \cap GoldenMetricCodes # {}

PlanRepair ==
    /\ Known(augmented) /\ ~is_accepted_state(The(augmented)) /\ plan = {}
    /\ plan' = {build_repair_plan(ToRepair(result, The(augmented)), NamesGolden(The(augmented).codes))}
    /\ UNCHANGED <<result, benchmark, augmented, design, conclusion, rerun>>

------------------------------------------------------------------------------
(* agent_experiment_design.py *)

Candidate(id, kind, score, needs) == [id |-> id, kind |-> kind, score |-> score, needs |-> needs]

\* refinement_candidate_from_effect
refinement_candidate_from_effect(f) ==
    CASE Fact(f, "effect", "none") = "continue" -> {Candidate("refine_effective_mutation_direction", "plan", 940, AtOnce)}
      [] Fact(f, "effect", "none") = "tradeoff" -> {Candidate("pareto_review_before_more_patches", "ask_user", 910, AsksFirst)}
      [] OTHER -> {}

power_mosfet_signoff_candidate(r) ==
    IF r.device = "power_mosfet_bv_ron" /\ r.fidelity = "devsim_2d_field_plate" /\ Has(r.facts, "gaps", "some")
    THEN {Candidate("power_mosfet_2d_signoff_evidence_pack", "run_tool", 920, AtOnce)} ELSE {}

\* convergence_candidate: studies and comparisons are not studied again.
convergence_candidate(r, b) ==
    IF /\ "convergence_evidence" \in b.missing \/ "physics_1d_mesh_convergence_missing" \in Named(Of(b.checks, "warning"))
       /\ r.tool \notin Studies_ \cup {"golden_curve_comparison"}
    THEN {Candidate("collect_convergence_evidence", "run_tool", 900, AtOnce)} ELSE {}

\* golden_candidate: only with a reference curve in the request or its deck
golden_candidate(r, b) ==
    IF /\ \/ "golden_or_measured_comparison" \in b.missing
          \/ "physics_1d_reference_correlation_missing" \in Named(Of(b.checks, "warning"))
       /\ r.facts.measured # "no"
    THEN {Candidate("collect_golden_measured_correlation", "run_tool", 860, AtOnce)} ELSE {}

\* Mutant: only errors are worth a repair.
RepairOfErrors(r, b) ==
    IF Of(b.checks, "error") = {} THEN {} ELSE {Candidate("repair_from_benchmark_and_curve", "repair", 700, AtOnce)}

repair_candidate(r, b) ==
    IF r.quality \notin {"failed", "suspicious"} /\ Of(b.checks, "warning") \cup Of(b.checks, "error") = {} THEN {}
    ELSE {Candidate("repair_from_benchmark_and_curve", "repair",
                    IF Of(b.checks, "error") # {} THEN 700 ELSE 620, AtOnce)}

sentaurus_schema_extension_candidate(r) ==
    IF r.tool = "sentaurus_run" THEN {Candidate("extend_mutation_schema_from_sentaurus_deck", "plan", 560, AtOnce)} ELSE {}

mutation_candidates(f) ==
    IF Fact(f, "mutations", "none") = "none" THEN {}
    ELSE {Candidate("mutation", "run_tool", 559, f.mutations = "confirmed")}

\* Mutant: a candidate has to beat itself.
SelectStrictly(candidates) == {c \in candidates : \A d \in candidates : d.score < c.score}

\* The candidate that was found first has the highest score: no two are equal.
select_candidate(candidates) == {c \in candidates : \A d \in candidates : d.score <= c.score}

\* build_agent_experiment_design_plan reads the benchmark that is there.
build_agent_experiment_design_plan(r, b) ==
    LET candidates ==
            refinement_candidate_from_effect(r.facts) \cup power_mosfet_signoff_candidate(r)
            \cup convergence_candidate(r, b) \cup golden_candidate(r, b) \cup repair_candidate(r, b)
            \cup sentaurus_schema_extension_candidate(r) \cup mutation_candidates(r.facts)
    IN  [status |-> IF candidates = {} THEN "no_actionable_candidates" ELSE "completed",
         candidates |-> candidates, selected |-> select_candidate(candidates)]

DesignExperiment ==
    /\ Known(benchmark) /\ augmented = {} /\ design = {} /\ conclusion = "none"
    /\ design' = {build_agent_experiment_design_plan(result, The(benchmark))}
    /\ UNCHANGED <<result, benchmark, augmented, plan, conclusion, rerun>>

------------------------------------------------------------------------------
(* conclusion.py *)

\* experiment_items: those of an aggregate, or the result itself when it has a
\* quality report; quality_counts and status_counts over them
quality_counts(r) ==
    IF r.tool \notin Aggregates THEN {r.quality} \ {"none"}
    ELSE (IF Has(r.facts, "suspicious_items", "some") THEN {"suspicious"} ELSE {})
         \cup (IF Has(r.facts, "failed_items", "judged") THEN {"failed"} ELSE {})
status_counts(r) ==
    IF r.tool \notin Aggregates THEN (IF r.quality = "none" THEN {} ELSE {r.status})
    ELSE IF Has(r.facts, "failed_items", "failed") THEN {"failed"} ELSE {}

\* The objective experiment_items finds among the metrics of a single result
HasObjective(r) ==
    CASE r.tool = "pn_junction_iv_sweep" -> r.facts.csv = "ok" /\ r.facts.curve # "empty"
      [] r.tool = "mos_capacitor_cv_sweep" -> r.facts.max_cap # "none"
      [] r.tool = "diode_breakdown_leakage_sweep" -> r.facts.leakage # "none" \/ r.facts.breakdown # "none"
      [] r.tool \in Studies_ -> r.facts.delta # "none"
      [] r.tool = "mosfet_2d_id_sweep" \/ r.device = "gan_hemt_id_bv" -> TRUE
      [] r.device = "schottky_diode" -> r.facts.barrier # "none"
      [] r.device = "bjt_gummel_output" -> r.facts.beta # "none"
      [] r.device = "finfet_id_cv" -> r.facts.ratio # "none"
      [] r.device \in {"power_mosfet_bv_ron", "sic_power_diode_bv_leakage"} -> r.facts.bv # "none"
      [] OTHER -> FALSE

\* best_item and sorted_items: what the conclusion reports on, if anything
best_item(r) ==
    IF r.tool \in Aggregates THEN r.facts.items = "completed" ELSE r.quality # "none" /\ HasObjective(r)

engineering_decision(r, b) ==
    IF b.level = "blocked" \/ r.status = "failed" \/ "failed" \in quality_counts(r) \/ b.status = "failed"
    THEN "distrust"
    ELSE IF b.level = "limited" THEN "exploratory"
    ELSE IF "failed" \in status_counts(r) \/ "suspicious" \in quality_counts(r)
            \/ b.status \in {"suspicious", "unsupported"}
    THEN "lead" ELSE "baseline"

\* Mutant: the conclusion is drawn from the benchmark.json that is there.
ConcludeFromFile ==
    /\ Known(benchmark) /\ augmented = {} /\ design = {} /\ conclusion = "none"
    /\ conclusion' = IF best_item(result) THEN engineering_decision(result, The(benchmark)) ELSE "nothing"
    /\ UNCHANGED <<result, benchmark, augmented, plan, design, rerun>>

\* generate_experiment_conclusion and render_conclusion: benchmark_digest runs
\* the benchmark again and overwrites its file.
Conclude ==
    /\ Known(benchmark) /\ augmented = {} /\ design = {} /\ conclusion = "none"
    /\ benchmark' = {run_physical_benchmark(result)}
    /\ conclusion' = IF best_item(result) THEN engineering_decision(result, The(benchmark')) ELSE "nothing"
    /\ UNCHANGED <<result, augmented, plan, design, rerun>>

ChainNext == RunBenchmark \/ Rerun \/ Augment \/ PlanRepair \/ DesignExperiment \/ Conclude
ChainSpec == ChainInit /\ [][ChainNext]_chainVars

------------------------------------------------------------------------------
(* Properties *)

Verdict(b) == b.checks # {}

ChainTypeOK ==
    /\ result.status \in {"completed", "failed", "planned"}
    /\ result.quality \in {"none", "passed", "suspicious", "failed"}
    /\ \A file \in {benchmark, augmented, plan, design} : Cardinality(file) <= 1
    /\ \A b \in benchmark : b.status \in {"unsupported", "passed", "suspicious", "failed"}
    /\ \A d \in design : (d.status = "completed") = (d.selected # {})
    /\ conclusion \in {"none", "nothing", "distrust", "exploratory", "lead", "baseline"}
    /\ rerun \in BOOLEAN

\* The four verdicts of benchmark.json, computed in three places of the code from
\* the same checks, do not contradict one another: what one blocks all block, and
\* the credibility level is never better than the signoff status.
VerdictsAgree ==
    \A b \in benchmark :
        /\ (b.status = "failed") = (b.signoff = "blocked")
        /\ (b.status = "failed") = (b.level = "blocked")
        /\ (b.status = "failed") = (b.pack = "blocked")
        /\ b.level = "ready" => b.signoff = "ready" /\ b.status = "passed"

Current == Known(benchmark) /\ (~rerun \/ conclusion # "none")

\* A signoff pack that is ready rests on evidence of this very result: a quality
\* report that did not fail, a deck, and, where the deck asks for signoff or
\* names a measured curve, convergence evidence and a comparison.
PackReadyIsBacked ==
    Current /\ The(benchmark).pack = "ready" =>
        /\ result.quality = "passed" /\ HasDeck(result.facts)
        /\ Strict(result.facts) => HasConvergence(result.tool, result.facts)
        /\ Strict(result.facts) \/ result.facts.measured # "no" =>
               evidence_matrix(result, The(benchmark).checks).golden_or_measured_comparison

\* A result whose deck demands signoff is neither accepted by the repair executor
\* nor called a baseline by the conclusion before there is convergence evidence.
StrictDeckIsConverged ==
    Strict(result.facts) /\ ~HasConvergence(result.tool, result.facts) =>
        /\ \A a \in augmented : ~is_accepted_state(a)
        /\ conclusion # "baseline"

\* What the conclusion calls a baseline is a completed result of passed quality,
\* whose benchmark as it is now passes: also when the run was repeated after its
\* benchmark.json had been written.
BaselineIsSound ==
    conclusion = "baseline" =>
        /\ result.status = "completed"
        /\ result.quality = IF result.tool \in Aggregates THEN "none" ELSE "passed"
        /\ run_physical_benchmark(result).status = "passed"

\* The state that stops the repair loop has no finding left, of the tool's judge
\* or of the benchmark.
AcceptedIsClean ==
    \A a \in augmented : is_accepted_state(a) =>
        a.codes = {} /\ \A b \in benchmark : Of(b.checks, "error") \cup Of(b.checks, "warning") = {}

\* The benchmark never makes a result better than its own quality report.
QualityNotOverruled ==
    Current /\ result.quality \in {"suspicious", "failed"} =>
        severity_rank(The(benchmark).status) >= severity_rank(result.quality)

\* A completed result that is refused tells the repair planner why.
RefusedHasReason ==
    \A a \in augmented : ~is_accepted_state(a) /\ result.status = "completed" /\ result.quality # "none" => a.codes # {}

\* There is a plan for every failed run.
PlanCoversFailures == \A p \in plan : result.status = "failed" => p.status = "planned"

PlannedDevice ==
    result.tool = Extended /\ result.device \in PLANNED_INDUSTRIAL_DEVICE_TYPES /\ result.fidelity = "compact"

\* A surrogate of a device that has no runner yet is signed off nowhere: the pack
\* is blocked, the conclusion distrusts it, and the repair asks the user for the
\* runner first.
PlannedDeviceIsRefused ==
    PlannedDevice =>
        /\ Current => The(benchmark).pack = "blocked"
        /\ conclusion \in {"none", "nothing", "distrust"}
        /\ \A p \in plan : p.next = {Action("implement_planned_industrial_runner_first", 110, AsksFirst)}

\* A search is not benchmarked better than its best case.
AggregateNoBetter ==
    Current /\ result.tool \in Aggregates /\ result.facts.best = "kept" =>
        severity_rank(The(benchmark).status) >= severity_rank(status_from_checks(benchmark_single(result.child)))

\* The experiment design gives up only on results with nothing to mend and no
\* convergence to show, unless they are studies or comparisons themselves.
NothingLeftIsClean ==
    ~rerun => \A d \in design : d.status = "no_actionable_candidates" =>
        /\ \A b \in benchmark : b.status \in {"passed", "unsupported"}
        /\ result.quality \in {"none", "passed"}
        /\ result.tool \in Studies_ \cup {"golden_curve_comparison"} \/ ~Strict(result.facts)
           \/ HasConvergence(result.tool, result.facts)

\* The verdicts of one benchmark agree with one another and with the result.
BenchmarkInvariant ==
    ChainTypeOK /\ VerdictsAgree /\ PackReadyIsBacked /\ QualityNotOverruled /\ AggregateNoBetter

\* What the conclusion recommends is a result that deserves it.
ConclusionInvariant == BaselineIsSound /\ StrictDeckIsConverged /\ PlannedDeviceIsRefused

\* The repair planner stops at clean results only, and has a reason and a plan
\* for the others.
RepairPlanInvariant == AcceptedIsClean /\ RefusedHasReason /\ PlanCoversFailures /\ NothingLeftIsClean
==============================================================================
