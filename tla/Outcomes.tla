------------------------------ MODULE Outcomes ------------------------------
(***************************************************************************)
(* What a completed run of a tool may leave in its state file, as the      *)
(* facts of Quality: for each fact the sequence of the sides it may lie    *)
(* on, the nominal one first.  A fact with one side never departs from it  *)
(* (the breakdown voltage of the compact power transistor, say, is always  *)
(* negative).  Facts that hang together are tied up by Settled.         *)
(***************************************************************************)
EXTENDS Benchmark, TLC

LOCAL Always(side) == <<side>>
LOCAL Either(side, other) == <<side, other>>

\* The deck of a request, what it asks for, and what the agent noted about the
\* run: the effect of its mutations, and mutations still to be tried.
Request_ ==
    [deck |-> <<"none", "baseline", "signoff">>, models |-> <<"none", "coupled", "equivalent", "unconfirmed">>,
     measured |-> <<"no", "named", "compared">>, requested |-> <<"unasked", "none", "ok", "outside", "far">>,
     effect |-> <<"none", "continue", "tradeoff">>, mutations |-> <<"none", "low_risk", "confirmed">>]

\* run_pn_junction_iv_sweep and run_diode_breakdown_sweep: files may be gone when
\* a state is judged again.
Files == [summary |-> Always("completed"), csv |-> <<"ok", "lost", "unparsable">>, sides |-> Either("ok", "lost")]

SweepParameters ==
    [temperature |-> Either("ok", "out"), doping |-> Either("ok", "out"), lifetime |-> Either("ok", "out"),
     span |-> Either("ok", "large")]

\* extract_pn_iv_metrics
extract_pn_iv_metrics ==
    [curve |-> <<"ok", "few", "nonfinite", "unordered">>, current |-> Either("ok", "large"),
     forward |-> Either("ok", "dips"), reverse |-> Either("ok", "dips"),
     ideality |-> <<"good", "marginal", "unphysical", "none">>,
     rectification |-> <<"ok", "low", "none", "low_no_forward">>, turnOn |-> <<"ok", "none", "below", "above">>]

PnOutcomes ==
    Request_ @@ Files @@ SweepParameters @@ extract_pn_iv_metrics
    @@ [failures |-> Either("none", "some"), mobility |-> Either("ok", "out"),
        geometry |-> Either("ok", "coarse")]

\* extract_diode_reverse_metrics.  The metrics of the forward branch are those of
\* the p-n sweep below the diode's.
extract_diode_reverse_metrics ==
    [leakage |-> <<"ok", "above_policy", "above_maximum", "none">>,
     breakdown |-> <<"negative", "none">>, reverse |-> Either("ok", "dips"), current |-> Either("ok", "large"),
     gain |-> Either("ok", "below_one"), bias |-> Either("ok", "forward_only")]

DiodeOutcomes ==
    Request_ @@ SweepParameters @@ extract_diode_reverse_metrics
    @@ [summary |-> Always("completed"), sides |-> Either("ok", "lost"), curve |-> Either("ok", "few"),
        required |-> Either("no", "yes"), failures |-> Either("none", "some"),
        ideality |-> Always("none"), rectification |-> Always("none"), turnOn |-> Always("none")]

MosCapOutcomes ==
    Request_ @@ Files
    @@ [curve |-> <<"ok", "few", "nonfinite">>, oxide |-> Always("known"), scale |-> Either("ok", "out"),
        temperature |-> Either("ok", "out"), doping |-> Either("ok", "out"), geometry |-> <<"ok", "coarse", "oxide_out">>,
        span |-> Either("ok", "large"), traps |-> Either("none", "extreme"), charge |-> <<"none", "ok", "extreme">>,
        max_cap |-> <<"within", "far_below", "low", "near", "exceeds", "none">>,
        min_cap |-> <<"ok", "nonpositive", "none">>, range |-> <<"ok", "flat", "extreme", "none">>,
        shift |-> <<"none", "within", "exceeds">>]

\* extract_mosfet_metrics and idvd_shape_metrics
MosfetOutcomes ==
    Request_ @@ Files
    @@ [curve |-> Either("ok", "few"), current |-> Either("ok", "large"), idvg |-> Either("ok", "dips"),
        temperature |-> Either("ok", "out"), doping |-> Either("ok", "out"), mobility |-> Either("ok", "out"),
        geometry |-> <<"ok", "coarse", "oxide_out">>,
        ratio |-> <<"ok", "low", "none">>, gm |-> <<"ok", "zero", "negative">>,
        swing |-> <<"ok", "none", "below_55", "sub_thermal", "large", "above_5000">>,
        vth |-> <<"ok", "uncrossed", "outside">>, segments |-> Either("ok", "falling"), kink |-> Either("ok", "jumps"),
        saturation |-> <<"ok", "missing", "none">>, idvd_points |-> Either("five", "fewer"),
        drain_span |-> Either("wide", "narrow"),
        recorded |-> <<"none", "traps_only_recorded", "charge_only_recorded", "avalanche_only_recorded">>]

------------------------------------------------------------------------------
(* extended_device_sweep *)

\* A request without a deck gets one.
Curves == [summary |-> Always("completed"), sides |-> Always("ok"), curve |-> Either("ok", "few")]
ExtendedRequest == Curves @@ [deck |-> Either("baseline", "signoff")] @@ Request_

\* What the physics of a fidelity gives that the compact model has not
Coupled(fidelity, fact) == (fact :> Always(IF fidelity = "compact" THEN "no" ELSE "yes"))
Reference == [reference |-> Either("no", "yes")]
Number == <<"ok", "outside", "far">>

\* simulate_schottky, and run_schottky_devsim_1d with its runner
simulate_schottky(fidelity) ==
    [barrier |-> <<"ok", "outside", "far", "below", "above">>, ideality |-> <<"ok", "outside", "far", "below", "above">>]
    @@ (IF fidelity = "compact" THEN << >>
        ELSE [solver |-> Always("yes"), backend |-> <<"thermionic", "ohmic", "none">>,
              contact |-> Either("yes", "no"), residual |-> Either("yes", "no")])

simulate_bjt(fidelity) ==
    [beta |-> <<"ok", "outside", "far", "below", "above">>, early |-> Number, leakage |-> Either("ok", "none")]
    @@ Coupled(fidelity, "transport") @@ Coupled(fidelity, "resolved")
    @@ (IF fidelity = "compact" THEN [family |-> Always("no")]
        ELSE Reference @@ [family |-> Either("yes", "no"), mesh |-> Either("fine", "coarse")])

\* simulate_power_mosfet, run_power_mosfet_devsim_1d and
\* run_power_mosfet_devsim_2d_field_plate, whose layout has open signoff gaps
simulate_power_mosfet(fidelity) ==
    [bv |-> Number, ron |-> Number]
    @@ CASE fidelity = "compact" -> << >>
         [] fidelity = "physics_1d" ->
              Reference
              @@ [solver |-> Always("yes"), bias_points |-> Either("ok", "failed"), avalanche |-> Either("yes", "no"),
                  field |-> <<"within", "above", "none">>, resolved |-> Either("yes", "no"),
                  components |-> Either("yes", "no"), mesh |-> <<"fine", "coarse", "none">>]
         [] OTHER -> [solver |-> Always("yes"), layout |-> Always("yes"), gaps |-> Always("some"),
                      avalanche |-> Always("yes")]

\* simulate_finfet, simulate_sic_power_diode, simulate_gan_hemt, simulate_igbt:
\* none of them records a mesh.
simulate_finfet(fidelity) ==
    [swing |-> <<"ok", "below", "outside", "above", "far", "none">>, ratio |-> <<"ok", "low", "none">>,
     threshold |-> <<"ok", "outside", "far", "none">>, dibl |-> Number, capacitance |-> Always("yes")]
    @@ Coupled(fidelity, "fin") @@ Coupled(fidelity, "quantum")

simulate_sic_power_diode(fidelity) ==
    [bv |-> Number, max_field |-> Number, field |-> <<"within", "above", "none">>]
    @@ Coupled(fidelity, "avalanche") @@ Coupled(fidelity, "thermal")

simulate_gan_hemt(fidelity) ==
    [density |-> Number, threshold |-> Number, collapse |-> Either("ok", "high"), dynamic_ron |-> Always("yes")]
    @@ Coupled(fidelity, "polarization") @@ Coupled(fidelity, "trap_coupling")

simulate_igbt(fidelity) ==
    [bv |-> Number, on_state |-> Number, tail |-> Either("ok", "high")] @@ Coupled(fidelity, "bipolar")
    @@ (IF fidelity = "compact" THEN [turnoff |-> Always("no")] ELSE [turnoff |-> Either("yes", "no")])

\* simulate_device
simulate_device(device, fidelity) ==
    CASE device = "schottky_diode" -> simulate_schottky(fidelity)
      [] device = "bjt_gummel_output" -> simulate_bjt(fidelity)
      [] device = "power_mosfet_bv_ron" -> simulate_power_mosfet(fidelity)
      [] device = "finfet_id_cv" -> simulate_finfet(fidelity)
      [] device = "sic_power_diode_bv_leakage" -> simulate_sic_power_diode(fidelity)
      [] device = "gan_hemt_id_bv" -> simulate_gan_hemt(fidelity)
      [] device = "igbt_output_turnoff" -> simulate_igbt(fidelity)

\* The fidelities the validator of the request accepts for a device
Fidelities(device) ==
    CASE device = "schottky_diode" -> {"compact", "devsim_1d"}
      [] device = "power_mosfet_bv_ron" -> {"compact", "physics_1d", "devsim_2d_field_plate"}
      [] OTHER -> {"compact", "physics_1d"}

ExtendedOutcomes(device, fidelity) ==
    simulate_device(device, fidelity) @@ ExtendedRequest
    @@ (IF fidelity = "physics_1d" THEN [mesh |-> Always("none")] @@ Reference ELSE << >>)

------------------------------------------------------------------------------
(* Studies, comparisons, external runs and aggregates *)

CalibrationOutcomes ==
    Request_ @@ [candidates |-> Always("some"), barrier |-> <<"ok", "below", "above">>,
                 ideality |-> <<"ok", "below", "above">>, series |-> Always("ok"),
                 rmse |-> <<"ok", "marginal", "far">>, sides |-> Always("ok")]

ComparisonOutcomes ==
    Request_ @@ [rmse |-> <<"ok", "marginal", "far">>, signs |-> Either("match", "differ"),
                 overlap |-> Always("ok"), compared |-> Always("yes"), csv |-> Always("ok")]

StudyOutcomes ==
    Request_ @@ [cases |-> <<"ok", "one_failed", "few">>, delta |-> <<"within", "above", "none">>,
                 csv |-> Always("ok")]

\* run_sentaurus: the curve and the peaks are read from the files of the run.
SentaurusOutcomes ==
    Request_ @@ [executed |-> Either("yes", "no"), solver |-> Always("yes"), command |-> Either("ok", "failed"),
                 curve |-> <<"ok", "few", "none">>, patches |-> <<"verified", "unverified", "optional_unverified", "none">>,
                 bracket |-> Either("yes", "no"), peak |-> Either("yes", "no"),
                 log |-> <<"none", "license", "convergence", "mesh">>]

AggregateOutcomes ==
    [deck |-> Always("none"), models |-> Always("none"), measured |-> Always("no"), requested |-> Always("unasked"),
     items |-> Either("completed", "none"), suspicious_items |-> Either("none", "some"),
     failed_items |-> <<"none", "failed", "judged">>, best |-> <<"kept", "lost">>, csv |-> Always("ok")]

outcomes_of(tool, device, fidelity) ==
    CASE tool = "pn_junction_iv_sweep" -> PnOutcomes
      [] tool = "mos_capacitor_cv_sweep" -> MosCapOutcomes
      [] tool = "diode_breakdown_leakage_sweep" -> DiodeOutcomes
      [] tool = "mosfet_2d_id_sweep" -> MosfetOutcomes
      [] tool = Extended -> ExtendedOutcomes(device, fidelity)
      [] tool = "schottky_iv_calibration" -> CalibrationOutcomes
      [] tool = "golden_curve_comparison" -> ComparisonOutcomes
      [] tool = "sentaurus_run" -> SentaurusOutcomes
      [] tool \in Studies_ -> StudyOutcomes
      [] tool \in Aggregates -> AggregateOutcomes

------------------------------------------------------------------------------
(* The facts of a run *)

\* All facts on their nominal side but those of departures, a function
Facts(domain, departures) ==
    [fact \in DOMAIN domain |-> IF fact \in DOMAIN departures THEN departures[fact] ELSE domain[fact][1]]

\* The facts that hang together: a deck that is not there asks for nothing, and
\* metrics are those of the curve they were read from.  A curve in the project of
\* a Sentaurus run counts as one of its own.
Settled(tool, f) ==
    LET asks == IF f.deck = "none" THEN [models |-> "none", measured |-> "no"] ELSE << >>
    IN  asks @@
        (CASE tool = "pn_junction_iv_sweep" /\ f.csv # "ok" ->
                [curve |-> "empty", ideality |-> "none", rectification |-> "none", turnOn |-> "none",
                 current |-> "ok", forward |-> "ok", reverse |-> "ok", span |-> "ok"]
           [] tool = "diode_breakdown_leakage_sweep" /\ f.bias = "forward_only" ->
                [leakage |-> "none", breakdown |-> "none", reverse |-> "ok", gain |-> "ok"]
           [] tool = "mos_capacitor_cv_sweep" ->
                [range |-> IF f.min_cap # "ok" \/ f.max_cap = "none" THEN "none"
                           ELSE IF f.range = "none" THEN "ok" ELSE f.range,
                 shift |-> IF f.charge = "none" THEN "none" ELSE f.shift]
           [] tool = "sentaurus_run" ->
                (IF f.executed = "yes" THEN << >>
                 ELSE [command |-> "ok", log |-> "none", solver |-> IF f.curve = "none" THEN "no" ELSE "yes"])
                @@ (IF f.curve = "none" THEN [bracket |-> "no", peak |-> "no"] ELSE << >>)
           [] tool \in Studies_ -> [delta |-> IF f.cases = "few" THEN "none" ELSE f.delta]
           [] tool \in Aggregates -> [best |-> IF f.items = "none" THEN "none" ELSE f.best]
           [] OTHER -> << >>) @@ f
------------------------------------------------------------------------------
(* The state file *)

\* The judge of the tool; a calibration with no candidate does not complete here.
issues_of(tool, device, fidelity, f) ==
    CASE tool = "pn_junction_iv_sweep" -> judge_pn_junction_iv(f)
      [] tool = "mos_capacitor_cv_sweep" -> judge_mos_capacitor(f)
      [] tool = "diode_breakdown_leakage_sweep" -> judge_diode_breakdown(f)
      [] tool = "mosfet_2d_id_sweep" -> judge_mosfet(f)
      [] tool = Extended -> judge_extended_device(device, fidelity, f)
      [] tool = "schottky_iv_calibration" -> Findings(judge_schottky_calibration, f)
      [] tool = "golden_curve_comparison" -> Findings(judge_golden_curve, f)
      [] tool = "sentaurus_run" -> Findings(judge_sentaurus, f)
      [] tool \in Studies_ -> judge_convergence(tool, f)
      [] OTHER -> {}

\* What the tools do with a failed quality report: some let the run fail ...
FailsWithQuality == {"mos_capacitor_cv_sweep", "mosfet_2d_id_sweep", "golden_curve_comparison", "sentaurus_run"}
                    \cup Studies_

\* ... and a sweep fails with one case, a search without a completed one.
status_of(tool, f, quality) ==
    IF Has(f, "executed", "no") THEN "planned"
    ELSE IF \/ quality = "failed" /\ tool \in FailsWithQuality
            \/ tool = "parameter_sweep" /\ f.failed_items = "failed"
            \/ tool \in Aggregates \ {"parameter_sweep"} /\ f.items = "none"
    THEN "failed" ELSE "completed"

NoChild == << >>

state_of(tool, device, fidelity, f, child) ==
    LET issues == issues_of(tool, device, fidelity, f)
        quality == IF tool \in Aggregates THEN "none"
                   ELSE IF Has(f, "executed", "no") THEN "suspicious" ELSE choose_status(issues)
    IN  [tool |-> tool, device |-> device, fidelity |-> fidelity, status |-> status_of(tool, f, quality),
         quality |-> quality, issues |-> Codes(issues), facts |-> f, child |-> child]

\* A search or a sweep over runs of another tool, whose best case is child:
\* its quality is counted among the cases.
aggregate_of(tool, f, child) ==
    LET counted == CASE f.best = "none" -> << >>
                     [] child.quality = "suspicious" -> [suspicious_items |-> "some"]
                     [] child.quality = "failed" -> [failed_items |-> "judged"]
                     [] OTHER -> << >>
    IN  state_of(tool, "none", "none", counted @@ f, child)

\* A run that failed before there was a summary: its request and the reason
Absent(domain, fact) ==
    IF fact \in DOMAIN Request_ THEN domain[fact][1]
    ELSE IF "yes" \in {domain[fact][i] : i \in DOMAIN domain[fact]} THEN "no" ELSE "none"

failed_state(tool, device, fidelity, domain, departures, reason) ==
    [tool |-> tool, device |-> device, fidelity |-> fidelity, status |-> "failed", quality |-> "none", issues |-> {},
     facts |-> departures @@ [fact \in DOMAIN domain |-> Absent(domain, fact)] @@ [reason |-> reason],
     child |-> NoChild]
=============================================================================
