------------------------------ MODULE Benchmark ------------------------------
(***************************************************************************)
(* The physical benchmark of a result: physical_benchmark.py re-reads what *)
(* the tool and its judge left (Quality) and gives checks of its own; from *)
(* the same checks come a status, a signoff status, a credibility level    *)
(* and, in signoff_evidence.py, the verdict of the evidence pack.          *)
(*                                                                         *)
(* A result is [tool, device, fidelity, quality, facts, child]: quality is *)
(* the status of its quality_report ("none" without one, "planned" for a   *)
(* study not executed), child the result of the best item of an aggregate, *)
(* facts as in Quality.                                                    *)
(***************************************************************************)
EXTENDS Quality, Sequences

Extended == "extended_device_sweep"
Studies_ == {"mesh_convergence", "tool_convergence"}
Aggregates == {"adaptive_optimizer", "multidim_optimizer", "parameter_sweep"}

\* pass_check, warn_check and error_check as rows of Quality's tables
Pass(fact, value, code) == <<fact, value, code, "pass">>
Warn(fact, value, code) == <<fact, value, code, "warning">>
Err(fact, value, code) == <<fact, value, code, "error">>

\* A check of a flag: present, or missing with this severity
Flag(fact, present, missing, severity) == {Pass(fact, "yes", present), <<fact, "no", missing, severity>>}

\* range_check: below, inside or above the range, and missing where that has a message
RangeCodes ==
    {"pn_turn_on_voltage", "schottky_barrier_height", "schottky_ideality_factor", "bjt_current_gain",
     "finfet_subthreshold_swing_range", "schottky_calibration_barrier_height", "schottky_calibration_ideality_factor"}
range_check(fact, code, inside, below, above, missing) ==
    {Pass(fact, v, code) : v \in inside} \cup {Warn(fact, v, code \o "_below_range") : v \in below}
    \cup {Warn(fact, v, code \o "_above_range") : v \in above}
    \cup (IF missing THEN {Warn(fact, "none", code \o "_missing")} ELSE {})

\* Mutant: a failed quality report is only a warning to the benchmark.
QualityOverruled(q) ==
    CASE q = "none" -> {}
      [] q = "passed" -> When(TRUE, "quality_report_passed", "pass")
      [] OTHER -> When(TRUE, "quality_report_suspicious", "warning")

generic_quality_checks(q) ==
    CASE q = "none" -> {}
      [] q = "passed" -> When(TRUE, "quality_report_passed", "pass")
      [] q = "failed" -> When(TRUE, "quality_report_failed", "error")
      [] OTHER -> When(TRUE, "quality_report_suspicious", "warning")

------------------------------------------------------------------------------
(* The four DEVSIM sweep tools *)

\* The thermal voltage is computed from the request, so that this check passes
\* for a result that has nothing else.
benchmark_pn ==
    {Pass("ideality", "good", "pn_ideality_factor_broad_silicon_range"),
     Warn("ideality", "marginal", "pn_ideality_factor_marginal"),
     Err("ideality", "unphysical", "pn_ideality_factor_unphysical"),
     Pass("rectification", "ok", "pn_rectification_ratio_ok"),
     Warn("rectification", "low", "pn_rectification_ratio_low"),
     Warn("rectification", "low_no_forward", "pn_rectification_ratio_low")}
    \cup range_check("turnOn", "pn_turn_on_voltage", {"ok"}, {"below"}, {"above"}, FALSE)

Thermal == When(TRUE, "pn_thermal_voltage_reference", "pass")

\* The rules about C-V ratios, where a ratio far below the oxide's is reported
\* as near its limit
moscap_capacitance(f) ==
    IF f.max_cap = "none" THEN {}
    ELSE IF f.oxide = "unknown" THEN When(TRUE, "moscap_missing_oxide_thickness_for_cox", "warning")
    ELSE When(f.max_cap = "within", "moscap_capacitance_below_cox", "pass")
         \cup When(f.max_cap \in {"far_below", "low", "near"}, "moscap_capacitance_near_cox_limit", "warning")
         \cup When(f.max_cap = "exceeds", "moscap_capacitance_exceeds_cox", "error")

\* The ordering and the range of the C-V curve need both extremes.
benchmark_mos_capacitor(f) ==
    LET both == f.max_cap # "none" /\ f.min_cap # "none"
        positive == both /\ f.min_cap # "nonpositive"
    IN  moscap_capacitance(f)
        \cup When(f.min_cap = "nonpositive", "moscap_nonpositive_capacitance", "error")
        \cup When(both /\ f.min_cap = "above_max", "moscap_capacitance_ordering_invalid", "error")
        \cup When(both /\ f.min_cap # "above_max", "moscap_capacitance_ordering_ok", "pass")
        \cup When(positive /\ f.range = "flat", "moscap_cv_dynamic_range_too_low", "warning")
        \cup When(positive /\ f.range \in {"ok", "extreme"}, "moscap_cv_dynamic_range_present", "pass")
        \cup Findings({Warn("shift", "exceeds", "moscap_fixed_charge_shift_exceeds_sweep"),
                       Pass("shift", "within", "moscap_fixed_charge_shift_recorded")}, f)

benchmark_diode_breakdown(f) ==
    Findings(benchmark_pn \cup
             {Pass("leakage", "ok", "diode_leakage_below_policy"),
              Warn("leakage", "above_policy", "diode_leakage_above_policy"),
              Warn("leakage", "above_maximum", "diode_leakage_above_policy"),
              Pass("breakdown", "negative", "diode_breakdown_voltage_reverse_polarity"),
              Err("breakdown", "positive", "diode_breakdown_voltage_wrong_polarity"),
              Pass("reverse", "ok", "diode_reverse_current_shape_ok"),
              Warn("reverse", "dips", "diode_reverse_current_shape_nonmonotonic")}, f)
    \cup Thermal
    \cup When(f.breakdown = "none" /\ f.required = "yes", "diode_breakdown_not_reached", "warning")

\* The threshold, the ratio and the swing of a transfer curve ...
mosfet_transfer ==
    {Pass("swing", "ok", "mosfet_subthreshold_swing_engineering_range"),
     Warn("swing", "below_55", "mosfet_subthreshold_swing_below_thermal_limit"),
     Warn("swing", "sub_thermal", "mosfet_subthreshold_swing_below_thermal_limit"),
     Warn("swing", "large", "mosfet_subthreshold_swing_large"),
     Warn("swing", "above_5000", "mosfet_subthreshold_swing_large"),
     Pass("ratio", "ok", "mosfet_ion_ioff_ratio_ok"),
     Warn("ratio", "low", "mosfet_ion_ioff_ratio_low"),
     Warn("vth", "uncrossed", "mosfet_threshold_not_crossed"),
     Pass("vth", "ok", "mosfet_vth_inside_gate_sweep"),
     Warn("vth", "outside", "mosfet_vth_outside_gate_sweep"),
     Warn("gm", "negative", "mosfet_negative_extracted_metric")}

\* ... and the shape of the output curves
mosfet_output(f) ==
    Findings({Warn("segments", "falling", "mosfet_idvd_negative_differential_segments"),
              Warn("kink", "jumps", "mosfet_idvd_kink_suspected")}, f)
    \cup When(f.saturation = "ok" /\ f.drain_span = "wide", "mosfet_idvd_saturation_shape_ok", "pass")
    \cup When(f.saturation = "missing" /\ f.drain_span = "wide", "mosfet_idvd_saturation_not_observed", "warning")

benchmark_mosfet(f) == Findings(mosfet_transfer, f) \cup mosfet_output(f)

------------------------------------------------------------------------------
(* extended_device_sweep *)

COMPACT_BASELINE_DEVICE_TYPES == {"schottky_diode", "bjt_gummel_output", "power_mosfet_bv_ron"}
PLANNED_INDUSTRIAL_DEVICE_TYPES ==
    {"finfet_id_cv", "sic_power_diode_bv_leakage", "gan_hemt_id_bv", "igbt_output_turnoff"}
PHYSICS_1D_PROMOTION_DEVICE_TYPES == PLANNED_INDUSTRIAL_DEVICE_TYPES \cup {"bjt_gummel_output", "power_mosfet_bv_ron"}

\* Mutant: an industrial surrogate counts as a compact baseline.
BoundaryLenient(device, fidelity) ==
    When(fidelity = "compact", "compact_baseline_not_signoff_evidence", "warning")

\* What a compact result can never be
CapabilityBoundary(device, fidelity) ==
    IF fidelity # "compact" THEN {}
    ELSE IF device \in PLANNED_INDUSTRIAL_DEVICE_TYPES
    THEN When(TRUE, "planned_industrial_template_runner_missing", "error")
    ELSE When(TRUE, "compact_baseline_not_signoff_evidence", "warning")

physics_1d_promotion ==
    {Pass("mesh", "fine", "physics_1d_mesh_resolution_recorded"),
     Warn("mesh", "coarse", "physics_1d_mesh_convergence_missing"),
     Warn("mesh", "none", "physics_1d_mesh_convergence_missing"),
     Pass("reference", "yes", "physics_1d_reference_correlation_present"),
     Warn("reference", "no", "physics_1d_reference_correlation_missing")}

benchmark_schottky(fidelity, f) ==
    Findings(range_check("barrier", "schottky_barrier_height", {"ok", "outside", "far"}, {"below"}, {"above"}, TRUE)
             \cup range_check("ideality", "schottky_ideality_factor", {"ok", "outside", "far"}, {"below"}, {"above"}, FALSE)
             \cup (IF fidelity # "devsim_1d" THEN {} ELSE
                   Flag("contact", "schottky_thermionic_contact_model_registered",
                        "schottky_thermionic_contact_model_not_confirmed", "warning") \cup
                   Flag("residual", "schottky_thermionic_residual_coupled",
                        "schottky_thermionic_residual_not_coupled", "warning")), f)
    \cup (IF fidelity # "devsim_1d" THEN {}
          ELSE IF f.solver = "yes" /\ f.backend # "none"
          THEN When(TRUE, "schottky_devsim_solver_invoked", "pass")
          ELSE When(TRUE, "schottky_devsim_solver_missing", "error"))

benchmark_bjt(fidelity) ==
    range_check("beta", "bjt_current_gain", {"ok", "outside", "far"}, {"below"}, {"above"}, TRUE) \cup
    (IF fidelity # "physics_1d" THEN {} ELSE
       Flag("transport", "bjt_physics_transport_coupled", "bjt_physics_transport_missing", "error") \cup
       Flag("family", "bjt_three_terminal_output_family_present", "bjt_output_family_missing", "warning") \cup
       Flag("resolved", "bjt_mesh_resolved_deck_present", "bjt_mesh_resolved_deck_missing", "error") \cup
       {Pass("leakage", "ok", "bjt_collector_leakage_below_drive_current")})

benchmark_power_mosfet(fidelity) ==
    {Warn("bv", "none", "power_mos_breakdown_missing"),
     Err("bv", "wrong", "power_mos_breakdown_voltage_wrong_sign")}
    \cup {Pass("bv", v, "power_mos_breakdown_voltage_sign_ok") : v \in {"ok", "outside", "far"}}
    \cup {Pass("ron", v, "power_mos_specific_ron_positive") : v \in {"ok", "outside", "far"}} \cup
    CASE fidelity = "devsim_2d_field_plate" ->
           Flag("solver", "power_mos_devsim_2d_field_plate_runner_invoked", "power_mos_devsim_2d_solver_missing", "error")
           \cup {Pass("layout", "yes", "power_mos_2d_field_plate_layout_present"),
                 Warn("gaps", "some", "power_mos_2d_signoff_gaps_remaining")}
      [] fidelity = "physics_1d" ->
           Flag("avalanche", "power_mos_impact_ionization_coupled", "power_mos_impact_ionization_missing", "error") \cup
           Flag("resolved", "power_mos_mesh_resolved_deck_present", "power_mos_mesh_resolved_deck_missing", "error") \cup
           {Pass("solver", "yes", "power_mos_devsim_solver_invoked"),
            Warn("bias_points", "failed", "power_mos_devsim_bias_convergence_gaps"),
            Pass("field", "within", "power_mos_field_peak_within_critical_margin"),
            Warn("field", "above", "power_mos_field_peak_above_critical_margin"),
            Pass("components", "yes", "power_mos_ron_components_present")}
      [] OTHER -> {}

benchmark_finfet(fidelity) ==
    range_check("swing", "finfet_subthreshold_swing_range", {"ok", "outside"}, {"below"}, {"above", "far"}, TRUE)
    \cup {Pass("ratio", "ok", "finfet_ion_ioff_positive_margin")} \cup
    (IF fidelity # "physics_1d" THEN {} ELSE
       Flag("fin", "finfet_geometry_surrogate_resolved", "finfet_geometry_surrogate_missing", "error") \cup
       Flag("quantum", "finfet_density_gradient_coupled", "finfet_quantum_correction_missing", "error") \cup
       {Pass("capacitance", "yes", "finfet_capacitance_extracted")})

\* A missing or wrong sign is an error for the wide-bandgap devices.
SignCheck(fact, ok, wrong) ==
    {Pass(fact, v, ok) : v \in {"ok", "outside", "far"}} \cup {Err(fact, v, wrong) : v \in {"none", "wrong"}}

benchmark_sic(fidelity) ==
    SignCheck("bv", "sic_breakdown_voltage_sign_ok", "sic_breakdown_voltage_wrong_sign") \cup
    (IF fidelity # "physics_1d" THEN {} ELSE
       Flag("avalanche", "sic_impact_ionization_coupled", "sic_impact_ionization_missing", "error") \cup
       {Pass("field", "within", "sic_field_peak_within_critical_margin"),
        Pass("thermal", "yes", "sic_temperature_corner_recorded")})

benchmark_gan(fidelity) ==
    SignCheck("density", "gan_2deg_density_positive", "gan_2deg_density_missing") \cup
    (IF fidelity # "physics_1d" THEN {} ELSE
       Flag("polarization", "gan_polarization_charge_coupled", "gan_polarization_charge_missing", "error") \cup
       Flag("trap_coupling", "gan_trap_current_collapse_coupled", "gan_trap_current_collapse_missing", "error") \cup
       {Pass("dynamic_ron", "yes", "gan_dynamic_ron_factor_recorded")})

benchmark_igbt(fidelity) ==
    SignCheck("bv", "igbt_blocking_voltage_sign_ok", "igbt_blocking_voltage_wrong_sign") \cup
    (IF fidelity # "physics_1d" THEN {} ELSE
       Flag("bipolar", "igbt_bipolar_transport_coupled", "igbt_bipolar_transport_missing", "error") \cup
       Flag("turnoff", "igbt_transient_turnoff_simulated", "igbt_transient_turnoff_missing", "warning"))

benchmark_extended_device(device, fidelity, f) ==
    CapabilityBoundary(device, fidelity)
    \cup (IF device \in PHYSICS_1D_PROMOTION_DEVICE_TYPES /\ fidelity = "physics_1d"
          THEN Findings(physics_1d_promotion, f) ELSE {})
    \cup CASE device = "schottky_diode" -> benchmark_schottky(fidelity, f)
           [] device = "bjt_gummel_output" -> Findings(benchmark_bjt(fidelity), f)
           [] device = "power_mosfet_bv_ron" -> Findings(benchmark_power_mosfet(fidelity), f)
           [] device = "finfet_id_cv" -> Findings(benchmark_finfet(fidelity), f)
           [] device = "sic_power_diode_bv_leakage" -> Findings(benchmark_sic(fidelity), f)
           [] device = "gan_hemt_id_bv" -> Findings(benchmark_gan(fidelity), f)
           [] device = "igbt_output_turnoff" -> Findings(benchmark_igbt(fidelity), f)

------------------------------------------------------------------------------
(* Calibrations, comparisons, studies and external runs *)

benchmark_schottky_calibration ==
    range_check("barrier", "schottky_calibration_barrier_height", {"ok"}, {"below"}, {"above"}, TRUE) \cup
    range_check("ideality", "schottky_calibration_ideality_factor", {"ok"}, {"below"}, {"above"}, TRUE) \cup
    {Pass("series", "ok", "schottky_calibration_series_resistance_nonnegative"),
     Err("series", "negative", "schottky_calibration_series_resistance_negative"),
     Pass("rmse", "ok", "schottky_calibration_rmse_within_threshold"),
     Warn("rmse", "marginal", "schottky_calibration_rmse_marginal"),
     Err("rmse", "far", "schottky_calibration_rmse_far_above_threshold")}

benchmark_golden_curve_comparison ==
    {Err("rmse", "none", "golden_curve_rmse_missing"),
     Pass("rmse", "ok", "golden_curve_rmse_within_threshold"),
     Warn("rmse", "marginal", "golden_curve_rmse_marginal"),
     Err("rmse", "far", "golden_curve_rmse_far_above_threshold"),
     Pass("signs", "match", "golden_curve_signs_match"),
     Pass("signs", "none", "golden_curve_signs_match"),
     Err("signs", "differ", "golden_curve_sign_mismatch"),
     Pass("compared", "yes", "golden_or_measured_comparison_present")}

\* Only the relative delta of the last two cases counts here.
benchmark_convergence ==
    {Pass("delta", "within", "convergence_relative_delta_within_tolerance"),
     Warn("delta", "above", "convergence_relative_delta_above_tolerance")}

benchmark_sentaurus ==
    Flag("solver", "sentaurus_external_solver_invoked", "sentaurus_external_solver_not_confirmed", "warning") \cup
    {Warn("curve", "none", "sentaurus_curve_not_extracted"),
     Warn("curve", "few", "sentaurus_curve_too_short"),
     Pass("curve", "ok", "sentaurus_curve_extracted"),
     Pass("patches", "verified", "sentaurus_patches_verified"),
     Warn("patches", "unverified", "sentaurus_patches_not_fully_verified"),
     Warn("patches", "optional_unverified", "sentaurus_patches_not_fully_verified"),
     Pass("bracket", "yes", "sentaurus_breakdown_bracket_present"),
     Pass("peak", "yes", "sentaurus_field_peak_extracted")}

------------------------------------------------------------------------------
(* Golden metrics and the deck *)

\* DEFAULT_GOLDEN_PROFILES: the facts that are compared, and the sides of the
\* judge's bounds that lie more than three tolerances away
DEFAULT_GOLDEN_PROFILES ==
    [schottky_diode |-> {"barrier", "ideality"}, bjt_gummel_output |-> {"beta", "early"},
     power_mosfet_bv_ron |-> {"bv", "ron"}, finfet_id_cv |-> {"threshold", "swing", "dibl"},
     sic_power_diode_bv_leakage |-> {"bv", "max_field"}, gan_hemt_id_bv |-> {"threshold", "density"},
     igbt_output_turnoff |-> {"bv", "on_state"}]

FarSides(fact) ==
    CASE fact = "barrier" -> {"below", "far", "above"}
      [] fact \in {"ideality", "beta"} -> {"far", "above"}
      [] fact = "bv" -> {"far", "wrong"}
      [] OTHER -> {"far"}

\* Metrics the request brings itself are compared for any tool ("requested").
golden_profile(tool, device) ==
    {"requested"} \cup (IF tool = Extended THEN DEFAULT_GOLDEN_PROFILES[device] ELSE {})

golden_check(fact, side) ==
    LET named == "golden_metric_" \o fact
    IN  CASE side = "none" -> When(TRUE, named \o "_missing", "warning")
          [] side = "ok" -> When(TRUE, named \o "_within_tolerance", "pass")
          [] side \in FarSides(fact) -> When(TRUE, named \o "_far_outside_tolerance", "error")
          [] OTHER -> When(TRUE, named \o "_outside_tolerance", "warning")

benchmark_golden_metrics(tool, device, f) ==
    UNION {golden_check(fact, f[fact]) :
             fact \in {g \in golden_profile(tool, device) \cap DOMAIN f : ~(g = "requested" /\ f[g] = "unasked")}}

\* The deck of a request: f.deck is "none", "baseline" or "signoff"; f.models the
\* advanced models it asks for and how far they are coupled.
HasDeck(f) == f.deck # "none"

\* common_signoff_requirements: the words that make a deck strict also ask for
\* convergence evidence.
Strict(f) == f.deck = "signoff"

HasConvergence(tool, f) == tool \in Studies_ \/ Has(f, "delta", "within") \/ Has(f, "delta", "above")

\* Mutant: the deck's demand for convergence evidence is taken as met.
DeckTrusted(tool, f) == {}

benchmark_deck_signoff(tool, f) ==
    IF ~HasDeck(f) THEN {}
    ELSE When(Strict(f) /\ HasConvergence(tool, f), "deck_signoff_convergence_evidence_present", "pass")
         \cup When(Strict(f) /\ ~HasConvergence(tool, f), "deck_signoff_convergence_evidence_missing", "warning")
         \cup When(Strict(f) /\ f.measured = "named", "deck_measured_curve_comparison_missing", "warning")
         \cup When(f.models = "coupled", "deck_physics_model_coupling_declared", "pass")
         \cup When(f.models = "equivalent", "deck_physics_model_compact_equivalent_needs_correlation", "warning")
         \cup When(f.models = "unconfirmed", "deck_physics_model_coupling_needs_confirmation", "warning")
         \cup When(f.models = "unconfirmed", "deck_spec_contains_model_warnings", "warning")

------------------------------------------------------------------------------
(* benchmark_state *)

\* benchmark_state for a result that is not an aggregate
benchmark_single(s) ==
    LET f == s.facts
    IN  generic_quality_checks(s.quality)
        \cup benchmark_golden_metrics(s.tool, s.device, f)
        \cup benchmark_deck_signoff(s.tool, f)
        \cup CASE s.tool = "pn_junction_iv_sweep" -> Findings(benchmark_pn, f) \cup Thermal
               [] s.tool = "mos_capacitor_cv_sweep" -> benchmark_mos_capacitor(f)
               [] s.tool = "diode_breakdown_leakage_sweep" -> benchmark_diode_breakdown(f)
               [] s.tool = "mosfet_2d_id_sweep" -> benchmark_mosfet(f)
               [] s.tool = Extended -> benchmark_extended_device(s.device, s.fidelity, f)
               [] s.tool = "schottky_iv_calibration" -> Findings(benchmark_schottky_calibration, f)
               [] s.tool = "golden_curve_comparison" -> Findings(benchmark_golden_curve_comparison, f)
               [] s.tool = "sentaurus_run" -> Findings(benchmark_sentaurus, f)
               [] s.tool \in Studies_ -> Findings(benchmark_convergence, f)
               [] OTHER -> {}

\* The pass checks of the best item's own benchmark that an aggregate repeats
OkCodes == {"pn_rectification_ratio_ok", "moscap_capacitance_ordering_ok", "diode_reverse_current_shape_ok",
            "mosfet_ion_ioff_ratio_ok", "mosfet_idvd_saturation_shape_ok", "power_mos_breakdown_voltage_sign_ok",
            "sic_breakdown_voltage_sign_ok", "igbt_blocking_voltage_sign_ok"}

\* Mutant: only errors of the best item count.
AsBestErrors(checks) == {[c EXCEPT !.best = TRUE] : c \in {d \in checks : d.severity = "error"}}

\* best marks the codes that get the prefix best_case_.
AsBest(checks) ==
    {[c EXCEPT !.best = TRUE] : c \in {d \in checks : d.severity # "pass" \/ d.code \in OkCodes}}

benchmark_aggregate(s) ==
    Findings({Pass("items", "completed", "aggregate_has_completed_cases"),
              Warn("items", "none", "aggregate_has_no_completed_cases"),
              Warn("suspicious_items", "some", "aggregate_contains_suspicious_cases"),
              Warn("failed_items", "failed", "aggregate_contains_failed_cases"),
              Warn("failed_items", "judged", "aggregate_contains_failed_cases"),
              Warn("best", "lost", "aggregate_best_state_missing")}, s.facts)
    \cup (IF s.facts.best = "kept" THEN AsBest(benchmark_single(s.child)) ELSE {})

benchmark_state(s) ==
    benchmark_single(s) \cup (IF s.tool \in Aggregates THEN benchmark_aggregate(s) ELSE {})

status_from_checks(checks) ==
    IF checks = {} THEN "unsupported"
    ELSE IF HasError(checks) THEN "failed"
    ELSE IF \E c \in checks : c.severity = "warning" THEN "suspicious" ELSE "passed"

------------------------------------------------------------------------------
(* What the summary of a benchmark says *)

Of(checks, severity) == {c \in checks : c.severity = severity}
Codes(checks) == {c.code : c \in checks}
Own(checks) == {c \in checks : ~c.best}

\* The codes as they are written, those of a best case with their prefix
Named(checks) == {IF c.best THEN "best_case_" \o c.code ELSE c.code : c \in checks}

GoldenMetricCodes ==
    Codes(UNION {golden_check(fact, side) :
                   fact \in {"requested", "barrier", "ideality", "beta", "early", "bv", "ron", "threshold", "swing",
                             "dibl", "max_field", "density", "on_state"},
                   side \in {"none", "ok", "outside", "far"}})

\* No code that is put together is the one of a planned device's boundary.
ASSUME CodesAssumption ==
    /\ "planned_industrial_template_runner_missing" \notin GoldenMetricCodes
    /\ \A code \in RangeCodes : \A side \in {"_below_range", "_above_range", "_missing"} :
          code \o side # "planned_industrial_template_runner_missing"

GoldenCodes(checks) == {c \in checks : c.code \in GoldenMetricCodes}

\* Codes that contain "coupling" or "compact_equivalent"
CouplingCodes == {"deck_physics_model_coupling_declared", "deck_physics_model_compact_equivalent_needs_correlation",
                  "deck_physics_model_coupling_needs_confirmation"}

evidence_matrix(s, checks) ==
    [quality_report |-> s.quality # "none",
     curve_artifacts |-> Has(s.facts, "csv", "ok") \/ Has(s.facts, "sides", "ok"),
     deck_spec |-> HasDeck(s.facts),
     convergence_evidence |-> HasConvergence(s.tool, s.facts),
     golden_or_measured_comparison |-> GoldenCodes(Own(checks)) # {} \/ Has(s.facts, "compared", "yes")
                                       \/ Has(s.facts, "reference", "yes"),
     model_coupling_risk |-> \E c \in checks : c.severity # "pass" /\ c.code \in CouplingCodes,
     capability_boundary |->
        IF "planned_industrial_template_runner_missing" \in Codes(Own(checks)) THEN "planned_runner_missing"
        ELSE IF "compact_baseline_not_signoff_evidence" \in Codes(Own(checks)) THEN "compact_baseline"
        ELSE "executable"]

\* Codes that name a unit, a span or an upper bound
UnitCodes == {"moscap_capacitance_exceeds_cox"}

\* Codes that contain "kink", "monotonic", "shape" or "negative_differential".  Two
\* of them are passing checks: a good curve raises the risk of its shape.
ShapeCodes == {"diode_reverse_current_shape_ok", "diode_reverse_current_shape_nonmonotonic",
               "mosfet_idvd_negative_differential_segments", "mosfet_idvd_kink_suspected",
               "mosfet_idvd_saturation_shape_ok"}

\* risk_factors_zh of credibility_assessment
Risks(s, checks) ==
    LET codes == Codes(checks) own == Codes(Own(checks)) IN
    {r \in {"quality", "units", "shape", "coupling", "golden", "compact", "planned", "physics_1d"} :
        CASE r = "quality" -> s.quality \in {"failed", "suspicious"}
          [] r = "units" -> codes \cap UnitCodes # {}
          [] r = "shape" -> codes \cap ShapeCodes # {}
          [] r = "coupling" -> evidence_matrix(s, checks).model_coupling_risk
          [] r = "golden" -> GoldenCodes(checks \ Of(checks, "pass")) # {}
          [] r = "compact" -> "compact_baseline_not_signoff_evidence" \in own
          [] r = "planned" -> "planned_industrial_template_runner_missing" \in own
          [] r = "physics_1d" -> own \cap {"physics_1d_mesh_convergence_missing",
                                           "physics_1d_reference_correlation_missing"} # {}}

\* evidence_gaps of credibility_assessment
Gaps(s, checks) ==
    LET matrix == evidence_matrix(s, checks) IN
    {g \in {"convergence_evidence", "golden_or_measured_comparison", "deck_spec"} : ~matrix[g]}
    \cup (IF "compact_baseline_not_signoff_evidence" \in Codes(Own(checks)) THEN {"runner", "correlation"} ELSE {})

\* Mutant: warnings do not make the evidence conditional.
LevelOfErrors(s, checks) ==
    IF HasError(checks) THEN "blocked"
    ELSE IF Cardinality(checks) >= 2 /\ Gaps(s, checks) = {} THEN "ready" ELSE "limited"

credibility_assessment(s, checks) ==
    IF HasError(checks) THEN "blocked"
    ELSE IF Of(checks, "warning") # {} \/ Risks(s, checks) # {} THEN "conditional"
    ELSE IF Cardinality(checks) >= 2 /\ Gaps(s, checks) = {} THEN "ready"
    ELSE "limited"

\* signoff_status of summarize_checks
summarize_checks(checks) ==
    IF HasError(checks) THEN "blocked"
    ELSE IF Of(checks, "warning") # {} THEN "conditional"
    ELSE LET passes == Cardinality(checks)
         IN  IF passes >= 2 THEN "ready" ELSE IF passes = 1 THEN "limited" ELSE "unsupported"

------------------------------------------------------------------------------
(* signoff_evidence.py: build_signoff_evidence_pack *)

\* The evidence a deck requires of a result
RequiredNames(f) ==
    {"quality_report", "curve_artifacts", "deck_spec", "physical_benchmark"}
    \cup (IF Strict(f) THEN {"convergence_evidence", "golden_or_measured_comparison"} ELSE {})
    \cup (IF HasDeck(f) /\ (f.measured # "no" \/ f.requested # "unasked") THEN {"golden_or_measured_comparison"} ELSE {})

HasEvidence(name, s, checks) ==
    CASE name = "quality_report" -> s.quality \notin {"none", "failed"}
      [] name = "curve_artifacts" -> Has(s.facts, "csv", "ok") \/ Has(s.facts, "sides", "ok") \/ Has(s.facts, "summary", "completed")
      [] name = "physical_benchmark" -> TRUE
      [] OTHER -> evidence_matrix(s, checks)[name]

MissingEvidence(s, checks) == {name \in RequiredNames(s.facts) : ~HasEvidence(name, s, checks)}

RiskNotes(s, checks) ==
    Codes(Of(checks, "warning"))
    \cup (IF evidence_matrix(s, checks).capability_boundary = "compact_baseline" THEN {"compact"} ELSE {})

\* Mutant: missing evidence is only listed.
PackWithoutMissing(s, checks) ==
    IF HasError(checks) THEN "blocked" ELSE IF RiskNotes(s, checks) # {} THEN "conditional" ELSE "ready"

build_signoff_evidence_pack(s, checks) ==
    IF HasError(checks) \/ evidence_matrix(s, checks).capability_boundary = "planned_runner_missing" THEN "blocked"
    ELSE IF MissingEvidence(s, checks) # {} \/ RiskNotes(s, checks) # {} THEN "conditional"
    ELSE "ready"

\* run_physical_benchmark: what is written into benchmark.json
run_physical_benchmark(s) ==
    LET checks == benchmark_state(s)
    IN  [checks |-> checks, status |-> status_from_checks(checks), signoff |-> summarize_checks(checks),
         level |-> credibility_assessment(s, checks), pack |-> build_signoff_evidence_pack(s, checks),
         missing |-> MissingEvidence(s, checks)]
==============================================================================
