------------------------------- MODULE Quality -------------------------------
(***************************************************************************)
(* The quality report a TCAD tool writes into its state file, from         *)
(* result_judge.py, physical_quality.py and the judges of the tools.       *)
(*                                                                         *)
(* A run is described by its facts: a record that gives, for every metric, *)
(* parameter or artifact a judge looks at, the side of the judge's bounds  *)
(* it lies on ("low", "ok", "large", ...; "none" when it is absent).  A    *)
(* rule is a row <<fact, value, code, severity>>: a run whose fact has     *)
(* that value gets an issue of that code.  Rules of several facts are      *)
(* written out.  A judge only looks at the facts its tool has.             *)
(***************************************************************************)
EXTENDS Naturals, FiniteSets

Has(f, fact, value) == fact \in DOMAIN f /\ f[fact] = value

\* The findings of a table of rules about a run.
Findings(rows, f) ==
    {[code |-> r[3], severity |-> r[4], best |-> FALSE] : r \in {q \in rows : Has(f, q[1], q[2])}}

\* A finding of a rule that reads several facts.
When(cond, code, severity) ==
    IF cond THEN {[code |-> code, severity |-> severity, best |-> FALSE]} ELSE {}

HasError(issues) == \E i \in issues : i.severity = "error"

\* choose_status of result_judge.py: an error fails, any other issue is suspicious.
choose_status(issues) ==
    IF HasError(issues) THEN "failed" ELSE IF issues # {} THEN "suspicious" ELSE "passed"

------------------------------------------------------------------------------
(* check_parameter_sanity and its parts *)

check_doping_ranges ==
    {<<"doping", "invalid", "invalid_doping_value", "error">>,
     <<"doping", "out", "doping_out_of_expected_range", "warning">>}

check_temperature_range ==
    {<<"temperature", "invalid", "invalid_temperature_value", "error">>,
     <<"temperature", "out", "temperature_out_of_expected_range", "warning">>}

check_transport_model_ranges ==
    {<<"lifetime", "invalid", "invalid_lifetime_value", "error">>,
     <<"lifetime", "out", "lifetime_out_of_expected_range", "warning">>,
     <<"mobility", "invalid", "invalid_mobility_value", "error">>,
     <<"mobility", "out", "mobility_out_of_expected_range", "warning">>,
     <<"traps", "extreme", "interface_trap_density_extreme", "warning">>,
     <<"charge", "extreme", "fixed_oxide_charge_extreme", "warning">>}

check_geometry_ranges ==
    {<<"geometry", "invalid", "invalid_geometry_value", "error">>,
     <<"geometry", "junction_outside", "junction_not_inside_device", "error">>,
     <<"geometry", "coarse", "mesh_spacing_too_coarse_for_device", "warning">>,
     <<"geometry", "oxide_out", "oxide_thickness_out_of_expected_range", "warning">>,
     <<"geometry", "too_deep", "source_drain_depth_exceeds_silicon", "error">>,
     <<"geometry", "no_channel", "source_drain_regions_leave_no_channel", "error">>}

check_parameter_sanity(check_temperature) ==
    check_doping_ranges \cup check_geometry_ranges \cup check_transport_model_ranges
        \cup (IF check_temperature THEN check_temperature_range ELSE {})

check_voltage_span(code) ==
    {<<"span", "invalid", "invalid_voltage_range", "error">>, <<"span", "large", code, "warning">>}

------------------------------------------------------------------------------
(* pn_junction_iv_sweep: result_judge.py *)

\* check_required_artifacts, and the reading of the CSV in judge_pn_junction_iv
check_required_artifacts ==
    {<<"csv", "none", "missing_artifact_csv", "error">>,
     <<"csv", "lost", "missing_artifact_file_csv", "error">>,
     <<"sides", "none", "missing_artifact_plot", "warning">>,
     <<"sides", "lost", "missing_artifact_file_plot", "warning">>}

\* check_iv_points and check_current_shape
check_iv_points ==
    {<<"curve", "empty", "empty_iv_curve", "error">>,
     <<"curve", "few", "too_few_points", "warning">>,
     <<"curve", "nonfinite", "nonfinite_value", "error">>,
     <<"curve", "unordered", "voltage_not_monotonic", "error">>,
     <<"current", "large", "current_exceeds_policy", "warning">>,
     <<"forward", "dips", "current_not_monotonic", "warning">>,
     <<"reverse", "dips", "reverse_current_not_monotonic", "warning">>}

check_physical_metrics ==
    {<<"span", "large", "voltage_span_unusually_large", "warning">>,
     <<"temperature", "out", "temperature_out_of_expected_range", "warning">>,
     <<"ideality", "unphysical", "ideality_factor_out_of_range", "warning">>,
     <<"rectification", "low", "low_rectification_ratio", "warning">>}

\* judge_pn_junction_iv.  Without a readable CSV there are no points.
judge_pn_junction_iv(f) ==
    Findings({<<"summary", "incomplete", "summary_not_completed", "error">>,
              <<"csv", "none", "csv_missing", "error">>,
              <<"csv", "lost", "csv_missing", "error">>,
              <<"csv", "unparsable", "csv_parse_error", "error">>,
              <<"failures", "some", "too_many_convergence_failures", "warning">>}
             \cup check_required_artifacts \cup check_iv_points
             \cup check_physical_metrics \cup check_parameter_sanity(FALSE), f)

------------------------------------------------------------------------------
(* mos_capacitor_cv_sweep *)

\* check_mos_capacitor_physics
check_mos_capacitor_physics(f) ==
    Findings(check_parameter_sanity(TRUE)
             \cup check_voltage_span("mos_cv_voltage_span_unusually_large") \cup
             {<<"min_cap", "nonpositive", "capacitance_nonpositive", "error">>,
              <<"scale", "out", "capacitance_out_of_expected_range", "warning">>,
              <<"range", "flat", "moscap_cv_dynamic_range_too_low", "warning">>,
              <<"range", "extreme", "moscap_cv_dynamic_range_extreme", "warning">>,
              <<"shift", "exceeds", "fixed_charge_shift_exceeds_sweep_window", "warning">>}, f)
    \cup When(f.oxide = "known" /\ f.max_cap = "exceeds", "capacitance_exceeds_oxide_capacitance", "warning")
    \cup When(f.oxide = "known" /\ f.max_cap = "far_below", "capacitance_far_below_oxide_capacitance", "warning")
    \cup When(f.charge # "none" /\ f.shift = "none", "fixed_oxide_charge_not_accounted_in_metrics", "warning")

\* judge_summary_quality of mos_capacitor_cv.py
judge_mos_capacitor(f) ==
    check_mos_capacitor_physics(f) \cup
    Findings({<<"csv", "none", "missing_csv", "error">>,
              <<"csv", "lost", "missing_csv", "error">>,
              <<"sides", "none", "missing_plot", "warning">>,
              <<"sides", "lost", "missing_plot", "warning">>,
              <<"curve", "few", "too_few_points", "warning">>,
              <<"curve", "nonfinite", "nonfinite_capacitance", "error">>,
              <<"max_cap", "none", "missing_capacitance", "error">>}, f)

------------------------------------------------------------------------------
(* mosfet_2d_id_sweep *)

\* check_mosfet_physics.  Advanced models that the runner only records are flagged.
check_mosfet_physics(f) ==
    Findings(check_parameter_sanity(TRUE) \cup
             {<<"swing", "below_55", "subthreshold_swing_below_thermal_limit", "warning">>,
              <<"swing", "above_5000", "subthreshold_swing_unusually_large", "warning">>,
              <<"vth", "uncrossed", "threshold_not_crossed", "warning">>,
              <<"vth", "outside", "threshold_outside_gate_sweep", "warning">>,
              <<"gm", "zero", "zero_transconductance", "warning">>,
              <<"segments", "falling", "idvd_negative_differential_conductance", "warning">>,
              <<"kink", "jumps", "idvd_kink_suspected", "warning">>,
              <<"recorded", "traps_only_recorded", "interface_trap_model_metadata_only", "warning">>,
              <<"recorded", "charge_only_recorded", "fixed_oxide_charge_metadata_only", "warning">>,
              <<"recorded", "avalanche_only_recorded", "impact_ionization_model_metadata_only", "warning">>}, f)
    \cup When(f.saturation = "missing" /\ f.idvd_points = "five" /\ f.drain_span = "wide",
              "idvd_saturation_not_observed", "warning")

\* judge_summary_quality of mosfet_2d_id.py
judge_mosfet(f) ==
    check_mosfet_physics(f) \cup
    Findings({<<"csv", "none", "missing_csv", "error">>,
              <<"csv", "lost", "missing_csv", "error">>,
              <<"sides", "none", "missing_plot", "warning">>,
              <<"sides", "lost", "missing_plot", "warning">>,
              <<"idvg", "dips", "idvg_not_monotonic", "warning">>,
              <<"curve", "few", "too_few_points", "warning">>,
              <<"current", "large", "current_exceeds_policy", "warning">>,
              <<"ratio", "low", "low_ion_ioff_ratio", "warning">>,
              <<"curve", "nonfinite", "nonfinite_metric", "error">>}, f)

------------------------------------------------------------------------------
(* diode_breakdown_leakage_sweep *)

\* check_diode_breakdown_physics
check_diode_breakdown_physics ==
    check_parameter_sanity(TRUE)
    \cup check_voltage_span("diode_reverse_voltage_span_unusually_large") \cup
    {<<"bias", "forward_only", "diode_reverse_sweep_missing_negative_bias", "error">>,
     <<"breakdown", "positive", "breakdown_voltage_wrong_polarity", "error">>,
     <<"leakage", "above_maximum", "leakage_exceeds_max_reverse_current", "warning">>,
     <<"gain", "below_one", "reverse_current_gain_below_one", "warning">>}

\* judge_diode_breakdown
judge_diode_breakdown(f) ==
    Findings({<<"summary", "incomplete", "summary_not_completed", "error">>,
              <<"curve", "few", "too_few_points", "warning">>,
              <<"bias", "forward_only", "no_reverse_bias_points", "error">>,
              <<"leakage", "above_policy", "leakage_exceeds_policy", "warning">>,
              <<"leakage", "above_maximum", "leakage_exceeds_policy", "warning">>,
              <<"current", "large", "current_exceeds_policy", "warning">>,
              <<"reverse", "dips", "reverse_current_not_monotonic", "warning">>,
              <<"failures", "some", "too_many_convergence_failures", "warning">>}
             \cup check_diode_breakdown_physics, f)
    \cup When(f.breakdown = "none" /\ f.required = "yes", "breakdown_not_reached", "warning")

------------------------------------------------------------------------------
(* extended_device_sweep: quality_report *)

ExtendedCommon ==
    {<<"curve", "few", "too_few_points", "warning">>,
     <<"curve", "nonfinite", "nonfinite_curve_value", "error">>,
     <<"curve", "nonfinite", "nonfinite_metric", "error">>}

SchottkyRules(fidelity) ==
    (IF fidelity # "devsim_1d" THEN {} ELSE
       {<<"solver", "no", "devsim_solver_not_invoked", "error">>,
        <<"backend", "none", "missing_solver_backend", "warning">>,
        <<"backend", "ohmic", "schottky_thermionic_backend_missing", "warning">>,
        <<"contact", "no", "schottky_contact_current_metric_missing", "warning">>,
        <<"residual", "no", "schottky_thermionic_not_residual_coupled", "warning">>})
    \cup {<<"barrier", "below", "schottky_barrier_height_out_of_range", "warning">>,
          <<"barrier", "above", "schottky_barrier_height_out_of_range", "warning">>,
          <<"ideality", "below", "schottky_ideality_factor_out_of_range", "warning">>,
          <<"ideality", "above", "schottky_ideality_factor_out_of_range", "warning">>}

BjtRules(fidelity) ==
    {<<"beta", "below", "bjt_current_gain_too_low", "warning">>} \cup
    (IF fidelity # "physics_1d" THEN {} ELSE
       {<<"transport", "no", "bjt_transport_not_coupled", "error">>,
        <<"family", "no", "bjt_output_family_missing", "warning">>,
        <<"early", "none", "bjt_early_voltage_missing", "warning">>})

PowerMosRules(fidelity) ==
    {<<"bv", "none", "power_mos_breakdown_wrong_sign", "error">>,
     <<"bv", "wrong", "power_mos_breakdown_wrong_sign", "error">>} \cup
    CASE fidelity = "devsim_2d_field_plate" ->
           {<<"solver", "no", "power_mos_2d_devsim_solver_not_invoked", "error">>,
            <<"layout", "no", "power_mos_2d_field_plate_layout_missing", "error">>,
            <<"gaps", "some", "power_mos_2d_layout_signoff_gaps", "warning">>}
      [] fidelity = "physics_1d" ->
           {<<"solver", "no", "power_mos_devsim_solver_not_invoked", "error">>,
            <<"bias_points", "failed", "power_mos_devsim_bias_points_not_converged", "warning">>,
            <<"avalanche", "no", "power_mos_impact_ionization_not_coupled", "error">>,
            <<"field", "above", "power_mos_field_exceeds_critical_margin", "warning">>}
      [] OTHER -> {}

FinfetRules(fidelity) ==
    {<<"swing", "none", "finfet_subthreshold_swing_below_thermal_limit", "warning">>,
     <<"swing", "below", "finfet_subthreshold_swing_below_thermal_limit", "warning">>,
     <<"ratio", "none", "finfet_ion_ioff_too_low", "warning">>,
     <<"ratio", "low", "finfet_ion_ioff_too_low", "warning">>} \cup
    (IF fidelity # "physics_1d" THEN {} ELSE
       {<<"fin", "no", "finfet_geometry_not_resolved", "error">>,
        <<"quantum", "no", "finfet_quantum_correction_not_coupled", "error">>,
        <<"capacitance", "no", "finfet_capacitance_missing", "warning">>})

\* The rules of the silicon-carbide diode, the GaN transistor and the IGBT
WideBandgapRules(device, fidelity) ==
    CASE device = "sic_power_diode_bv_leakage" ->
           {<<"bv", "none", "sic_breakdown_wrong_sign", "error">>,
            <<"bv", "wrong", "sic_breakdown_wrong_sign", "error">>} \cup
           (IF fidelity = "physics_1d"
            THEN {<<"avalanche", "no", "sic_impact_ionization_not_coupled", "error">>} ELSE {})
      [] device = "gan_hemt_id_bv" ->
           {<<"density", "none", "gan_2deg_missing", "error">>, <<"density", "wrong", "gan_2deg_missing", "error">>,
            <<"collapse", "high", "gan_current_collapse_high", "warning">>} \cup
           (IF fidelity = "physics_1d"
            THEN {<<"polarization", "no", "gan_polarization_not_coupled", "error">>,
                  <<"trap_coupling", "no", "gan_trap_collapse_not_coupled", "error">>} ELSE {})
      [] device = "igbt_output_turnoff" ->
           {<<"tail", "high", "igbt_tail_current_high", "warning">>} \cup
           (IF fidelity = "physics_1d"
            THEN {<<"bipolar", "no", "igbt_bipolar_transport_not_coupled", "error">>,
                  <<"turnoff", "no", "igbt_transient_turnoff_missing", "warning">>} ELSE {})

judge_extended_device(device, fidelity, f) ==
    Findings(ExtendedCommon \cup
             CASE device = "schottky_diode" -> SchottkyRules(fidelity)
               [] device = "bjt_gummel_output" -> BjtRules(fidelity)
               [] device = "power_mosfet_bv_ron" -> PowerMosRules(fidelity)
               [] device = "finfet_id_cv" -> FinfetRules(fidelity)
               [] OTHER -> WideBandgapRules(device, fidelity), f)

------------------------------------------------------------------------------
(* Studies and comparisons *)

\* quality_report of schottky_calibration.py
judge_schottky_calibration ==
    {<<"candidates", "none", "no_candidates", "error">>,
     <<"rmse", "marginal", "calibration_rmse_above_threshold", "warning">>,
     <<"rmse", "far", "calibration_rmse_above_threshold", "warning">>}

\* The issues of run_golden_curve_comparison; an unusable curve raises.
judge_golden_curve ==
    {<<"signs", "differ", "golden_curve_sign_mismatch", "error">>,
     <<"rmse", "far", "golden_curve_rmse_far_above_threshold", "error">>,
     <<"rmse", "marginal", "golden_curve_rmse_above_pass_threshold", "warning">>,
     <<"overlap", "none", "golden_curve_comparison_failed", "error">>}

\* build_quality_report of mesh_convergence.py and of tool_convergence.py: with
\* fewer than two completed cases nothing else is judged.
ConvergenceCodes(tool) ==
    IF tool = "mesh_convergence"
    THEN [few |-> "too_few_completed_mesh_cases", delta |-> "mesh_not_converged", failed |-> "mesh_case_failures"]
    ELSE [few |-> "too_few_completed_convergence_cases", delta |-> "tool_not_converged",
          failed |-> "tool_convergence_case_failures"]

judge_convergence(tool, f) ==
    LET codes == ConvergenceCodes(tool)
    IN  IF f.cases = "few" THEN When(TRUE, codes.few, "error")
        ELSE When(f.delta = "above", codes.delta, "warning")
             \cup When(f.cases = "one_failed", codes.failed, "warning")

\* read_log_diagnostics, quality_from_sentaurus and the patches of run_sentaurus
judge_sentaurus ==
    {<<"log", "license", "sentaurus_license_issue", "error">>,
     <<"log", "convergence", "sentaurus_convergence_issue", "error">>,
     <<"log", "mesh", "sentaurus_mesh_issue", "warning">>,
     <<"command", "failed", "sentaurus_nonzero_returncode", "error">>,
     <<"curve", "none", "sentaurus_curve_missing", "warning">>,
     <<"patches", "unverified", "sentaurus_patch_unverified", "error">>,
     <<"patches", "optional_unverified", "sentaurus_patch_unverified", "warning">>,
     <<"executed", "no", "sentaurus_execution_planned_only", "warning">>}
=============================================================================
