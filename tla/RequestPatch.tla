---------------------------- MODULE RequestPatch ----------------------------
(***************************************************************************)
(* The request patches of repair_strategy.py over the requests of the      *)
(* sweep tools, and the validators of those tools.  A run is repaired      *)
(* round after round, so that each patch meets a request that earlier ones *)
(* have changed; the tool of the next attempt validates what comes out.    *)
(*                                                                         *)
(* Voltages and steps are integers in units of 12.5 mV, lengths in units   *)
(* of one mesh spacing; a quotient is rounded down and is at least 1 where *)
(* the code has a floor of 1e-6.                                           *)
(***************************************************************************)
EXTENDS Integers, FiniteSets

CONSTANTS
    Patches,     \* the patches that may be applied
    Sweeps,      \* the requests to start from: valid ones
    MaxPatches   \* bound: patches in a row

ASSUME PatchAssumption == MaxPatches \in Nat

VARIABLES
    request,     \* [start, stop, step, min_step, length, junction, depth, silicon, source, x_divisions, attempts]
    patched      \* how many patches it has had

patchVars == <<request, patched>>

Volt == 80
Lesser(a, b) == IF a <= b THEN a ELSE b
Greater(a, b) == IF a >= b THEN a ELSE b
Size(a) == IF a < 0 THEN -a ELSE a

PatchInit == request \in Sweeps /\ patched = 0

\* Mutant: min_step is not lowered with the step.
HalvedKeepingMin(r) == [r EXCEPT !.step = Greater(@ \div 2, 1)]

\* Mutant: min_step is a quarter of the step less one.
HalvedToNothing(r) ==
    LET half == Greater(r.step \div 2, r.min_step)
    IN  [r EXCEPT !.step = half, !.min_step = Lesser(@, half \div 4 - 1)]

\* halve_step_patch, for the steps of the gate and the drain as for this one
halve_step_patch(r) ==
    LET half == Greater(r.step \div 2, r.min_step)
    IN  [r EXCEPT !.step = half, !.min_step = Lesser(@, Greater(half \div 4, 1))]

\* reverse_range_extension_patch
reverse_range_extension_patch(r) ==
    LET stop == IF r.stop >= -Volt THEN -10 * Volt ELSE Lesser((3 * r.stop) \div 2, r.stop - 5 * Volt)
    IN  [r EXCEPT !.stop = stop,
                  !.step = Lesser(@, Greater(Size(stop - r.start) \div 40, Volt \div 20)),
                  !.min_step = Greater(Lesser(r.step \div 4, Volt \div 20), 1)]

\* geometry_sanity_patch
geometry_sanity_patch(r) ==
    [r EXCEPT !.junction = IF @ >= r.length THEN r.length \div 2 ELSE @,
              !.depth = IF @ >= r.silicon THEN r.silicon \div 2 ELSE @,
              !.source = IF 2 * @ >= r.length THEN r.length \div 4 ELSE @]

\* unit_bias_patch: the new min_step does not look at the step.
unit_bias_patch(r) ==
    IF Size(r.stop - r.start) <= 50 * Volt THEN r
    ELSE [r EXCEPT !.stop = IF r.stop > r.start THEN r.start + 50 * Volt ELSE r.start - 50 * Volt,
                   !.step = Lesser(@, 5 * Volt), !.min_step = (5 * Volt) \div 4]

\* The patch of moscap_bias_and_charge_window_review: the step without min_step
moscap_window_patch(r) ==
    [r EXCEPT !.start = Lesser(@, -2 * Volt), !.stop = Greater(@, 2 * Volt), !.step = Lesser(@, Volt \div 4)]

\* The patches an action of the plan may carry.  continuation_patch is also the
\* core of convergence_case_safe_retry_patch and solver_initialization_backoff_patch;
\* densify is the patch of signoff_evidence_density_retry.
patched_request(patch, r) ==
    CASE patch = "halve" -> [halve_step_patch(r) EXCEPT !.attempts = Greater(@, 3)]
      [] patch = "continuation" -> [halve_step_patch(r) EXCEPT !.attempts = Greater(@ + 2, 5)]
      [] patch = "mesh_relax" -> [r EXCEPT !.x_divisions = Greater(@ \div 2, 4)]
      [] patch = "mesh_refine" -> [r EXCEPT !.x_divisions = (3 * @) \div 2 + 1]
      [] patch = "densify" -> [halve_step_patch(r) EXCEPT !.x_divisions = (3 * @) \div 2 + 1]
      [] patch = "reverse_range" -> reverse_range_extension_patch(r)
      [] patch = "geometry" -> geometry_sanity_patch(r)
      [] patch = "unit_bias" -> unit_bias_patch(r)
      [] patch = "moscap_window" -> moscap_window_patch(r)

Patch ==
    /\ patched < MaxPatches /\ patched' = patched + 1
    /\ \E patch \in Patches : request' = patched_request(patch, request)

PatchNext == Patch
PatchSpec == PatchInit /\ [][PatchNext]_patchVars

------------------------------------------------------------------------------
(* validate_sweep and validate_request of the tools *)

ValidSteps(r) == 0 < r.min_step /\ r.min_step <= r.step
ValidRange(r) == r.stop # r.start
ValidGeometry(r) ==
    0 < r.junction /\ r.junction < r.length /\ r.depth < r.silicon /\ 2 * r.source < r.length
    /\ r.x_divisions >= 4
Validates(r) == ValidSteps(r) /\ ValidRange(r) /\ ValidGeometry(r)

Request == [start : Int, stop : Int, step : Nat, min_step : Nat, length : Nat, junction : Nat,
            depth : Nat, silicon : Nat, source : Nat, x_divisions : Nat, attempts : Nat]

\* A run that is repaired had a request its tool accepted.
ASSUME SweepsAssumption == \A r \in Sweeps : r \in Request /\ Validates(r)

PatchTypeOK == patched \in 0 .. MaxPatches /\ request \in Request

\* The next attempt of a repair is not lost to a request that its own patches,
\* one after the other, have made invalid.
PatchedRequestValid == Validates(request)

\* Patches keep a request in its types and valid.
PatchInvariant == PatchTypeOK /\ PatchedRequestValid
=============================================================================
