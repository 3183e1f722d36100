--------------------------- MODULE RepairStrategy ---------------------------
(***************************************************************************)
(* repair_strategy.py: the repair plan of a result that failed, is         *)
(* suspicious or was marked by the benchmark.  Issue codes and the classes *)
(* of its failures select actions from a table; the plan lists them by     *)
(* priority.  What the patches do to a request is module RequestPatch.     *)
(*                                                                         *)
(* The state to repair is [tool, status, codes, log, classes, cases,       *)
(* mutations, tradeoffs, impact]: codes are those of its quality issues,   *)
(* log what its solver said, classes the failure classes of its attempts   *)
(* and messages, cases whether a convergence case failed and why.          *)
(***************************************************************************)
EXTENDS Naturals, FiniteSets, Sequences

\* issue_codes: the report's codes and those read from cases and solver logs
issue_codes(s) ==
    s.codes
    \cup (IF s.tool = "tool_convergence" /\ s.cases # "ok" THEN {"tool_convergence_case_failures"} ELSE {})
    \cup (IF s.tool = "tool_convergence" /\ s.cases = "explained" THEN {"runner_exception"} ELSE {})
    \cup CASE s.log = "singular" -> {"solver_singular_or_nonfinite"}
           [] s.log = "iterations" -> {"solver_iteration_limit_reached"}
           [] OTHER -> {}

\* failure_classes and classify_failure_text: what counts is collected from
\* attempts, the checkpoint, failed cases and the failure reason.
failure_classes(s) == s.classes

\* An action of the plan: it is carried out at once or asks the user first.
AtOnce == FALSE
AsksFirst == TRUE
Action(name, priority, needs) == [name |-> name, priority |-> priority, needs |-> needs]

\* convergence_actions: five at once; the staging of hard models comes early
\* when there is an impact ionization model to defer.
convergence_actions(s) ==
    {Action("continuation_bias_ramp", 100, AtOnce), Action("reuse_last_successful_initial_solution", 92, AtOnce),
     Action("mesh_relax_for_initial_solution", 80, AtOnce), Action("solver_parameter_adjustment", 70, AtOnce),
     Action("model_switch_staging", IF s.impact = "none" THEN 60 ELSE 90, AtOnce)}

schema_normalization_actions == {Action("schema_field_alias_normalization", 98, AtOnce)}

\* marker in code
Mentions(code, marker) ==
    \E i \in 0 .. Len(code) : /\ i + Len(marker) <= Len(code)
                             /\ SubSeq(code, i + 1, i + Len(marker)) = marker

\* mutation_repair_is_relevant
Relevant(codes) ==
    \E code \in codes :
        \E marker \in {"leakage", "breakdown", "field", "ron", "drift", "deck", "benchmark", "quality"} :
            Mentions(code, marker)

\* deck_mutation_repair_actions and the review of a mutation with tradeoffs
deck_mutation_repair_actions(s, codes) ==
    (IF s.mutations /\ Relevant(codes) THEN {Action("deck_mutation", 89, AtOnce)} ELSE {})
    \cup (IF s.tradeoffs THEN {Action("mutation_pareto_constraint_review", 91, AsksFirst)} ELSE {})

\* The table of quality_issue_actions: solver, mesh and convergence ...
NumericRepairs ==
    {<<"solver_initialization_bias_backoff", 108, AtOnce,
       {"solver_singular_or_nonfinite", "solver_iteration_limit_reached"}>>,
     <<"rerun_failed_convergence_cases_with_safe_bias", 105, AtOnce,
       {"too_few_completed_convergence_cases", "tool_convergence_case_failures", "runner_exception"}>>,
     <<"mesh_refinement_and_convergence_check", 95, AtOnce,
       {"mesh_not_converged", "mesh_spacing_too_coarse_for_device"}>>,
     <<"local_bias_step_refinement", 85, AtOnce,
       {"idvg_not_monotonic", "reverse_current_not_monotonic", "current_not_monotonic",
        "idvd_negative_differential_conductance", "idvd_kink_suspected"}>>,
     <<"benchmark_driven_idvd_refinement", 86, AtOnce,
       {"mosfet_idvd_kink_suspected", "mosfet_idvd_negative_differential_segments",
        "mosfet_idvd_saturation_not_observed"}>>}

\* ... requests that are out of range ...
RequestRepairs ==
    {<<"unit_and_bias_range_repair", 90, AsksFirst,
       {"voltage_span_unusually_large", "mos_cv_voltage_span_unusually_large", "invalid_voltage_range"}>>,
     <<"geometry_sanity_repair", 90, AsksFirst,
       {"junction_not_inside_device", "invalid_geometry_value", "source_drain_depth_exceeds_silicon",
        "source_drain_regions_leave_no_channel"}>>,
     <<"extend_reverse_bias_window", 88, AtOnce,
       {"diode_reverse_sweep_missing_negative_bias", "breakdown_not_reached", "diode_breakdown_not_reached"}>>,
     <<"moscap_bias_and_charge_window_review", 78, AtOnce,
       {"moscap_cv_dynamic_range_too_low", "capacitance_far_below_oxide_capacitance",
        "fixed_charge_shift_exceeds_sweep_window", "fixed_oxide_charge_not_accounted_in_metrics"}>>,
     <<"mosfet_sweep_range_extension", 65, AtOnce,
       {"threshold_not_crossed", "mosfet_threshold_not_crossed", "low_ion_ioff_ratio",
        "mosfet_ion_ioff_ratio_low", "mosfet_vth_outside_gate_sweep"}>>}

\* ... physics, models and units ...
PhysicsRepairs ==
    {<<"srh_lifetime_and_boundary_sanity", 76, AtOnce,
       {"diode_leakage_above_policy", "reverse_current_gain_below_one", "leakage_exceeds_max_reverse_current"}>>,
     <<"doping_and_unit_sanity_review", 75, AsksFirst,
       {"doping_out_of_expected_range", "invalid_doping_value", "capacitance_exceeds_oxide_capacitance"}>>,
     <<"analytic_cox_unit_reconciliation", 93, AsksFirst,
       {"moscap_capacitance_exceeds_cox", "moscap_capacitance_near_cox_limit", "moscap_missing_oxide_thickness_for_cox"}>>,
     <<"mosfet_output_physics_triage", 82, AtOnce, {"idvd_kink_suspected", "idvd_saturation_not_observed"}>>,
     <<"model_coupling_and_extraction_review", 72, AtOnce,
       {"interface_trap_model_metadata_only", "fixed_oxide_charge_metadata_only",
        "impact_ionization_model_metadata_only", "deck_physics_model_coupling_needs_confirmation",
        "deck_spec_contains_model_warnings", "subthreshold_swing_below_thermal_limit",
        "schottky_thermionic_residual_not_coupled"}>>}

\* ... and missing evidence
EvidenceRepairs ==
    {<<"signoff_evidence_density_retry", 84, AtOnce, {"deck_signoff_convergence_evidence_missing"}>>,
     <<"promote_compact_baseline_to_tcad_runner", 38, AsksFirst, {"compact_baseline_not_signoff_evidence"}>>,
     <<"implement_planned_industrial_runner_first", 110, AsksFirst, {"planned_industrial_template_runner_missing"}>>}

Repairs == NumericRepairs \cup RequestRepairs \cup PhysicsRepairs \cup EvidenceRepairs

\* golden says that a code names a golden metric.
quality_issue_actions(s, codes, golden) ==
    deck_mutation_repair_actions(s, codes)
    \cup (IF codes \cap {"string_pattern_mismatch", "invalid_tool_schema", "field_alias_mismatch",
                         "schema_validation_failed"} # {} THEN schema_normalization_actions ELSE {})
    \cup (IF "too_many_convergence_failures" \in codes THEN convergence_actions(s) ELSE {})
    \cup {Action(r[1], r[2], r[3]) : r \in {q \in Repairs : q[4] \cap codes # {}}}
    \cup (IF golden \/ "deck_measured_curve_comparison_missing" \in codes
          THEN {Action("measured_curve_comparison_required", 40, AsksFirst)} ELSE {})

\* Mutant: nothing is planned for a failure without a code or a class.
ActionsOfCodes(s, golden) == quality_issue_actions(s, issue_codes(s), golden)

\* build_repair_actions
build_repair_actions(s, golden) ==
    LET codes == issue_codes(s)
        classes == failure_classes(s)
        actions ==
            (IF "validation" \in classes THEN schema_normalization_actions ELSE {})
            \cup (IF "convergence" \in classes THEN convergence_actions(s) ELSE {})
            \cup (IF "runtime_exception" \in classes
                     /\ codes \cap {"runner_exception", "tool_convergence_case_failures"} = {}
                  THEN {Action("runner_exception_safe_retry", 87, AtOnce)} ELSE {})
            \cup quality_issue_actions(s, codes, golden)
    IN  IF s.status = "failed" /\ actions = {} THEN {Action("inspect_failed_artifacts", 50, AtOnce)} ELSE actions

\* build_repair_plan: the next action is one of the highest priority (the sort
\* keeps the order in which equal ones were found).
First(actions) == {a \in actions : \A b \in actions : b.priority <= a.priority}

build_repair_plan(s, golden) ==
    LET actions == build_repair_actions(s, golden)
    IN  [status |-> IF actions = {} THEN "no_action" ELSE "planned", actions |-> actions, next |-> First(actions)]
=============================================================================
