------------------------------ MODULE MCEvidence ------------------------------
(***************************************************************************)
(* One instance for TLC of what is made of results: the chain from a state *)
(* file to its conclusion, the ranking of candidates, the patches of a    *)
(* repair and the loop of Sentaurus patches.  A behaviour belongs to one   *)
(* subject; the subjects share no state, so nothing is lost by checking    *)
(* one at a time.                                                          *)
(***************************************************************************)
EXTENDS EvidenceChain, Outcomes, Objectives, RequestPatch, PatchLoop

CONSTANT Subjects  \* the subjects tried

VARIABLE subject   \* the one a behaviour is about

evidenceVars == <<subject, chainVars, objectiveVars, patchVars, loopVars>>

\* The facts of a tool with up to two of them off their nominal side
Sides(domain, fact) == {domain[fact][i] : i \in DOMAIN domain[fact]}
Departures(domain, facts) ==
    {<< >>} \cup UNION {{(fact :> side) : side \in Sides(domain, fact)} : fact \in facts}
OneOff(domain) == Departures(domain, DOMAIN domain)
TwoOff(domain, facts) == {d @@ e : d \in Departures(domain, facts), e \in OneOff(domain)}

FactsOf(tool, domain, departures) == {Settled(tool, Facts(domain, d)) : d \in departures}

\* Two requests facts and whatever else is off at once
RequestPart == {"deck", "measured", "models", "requested"}

SweepTools == {"pn_junction_iv_sweep", "mos_capacitor_cv_sweep", "diode_breakdown_leakage_sweep", "mosfet_2d_id_sweep"}
OtherTools == {"schottky_iv_calibration", "golden_curve_comparison", "sentaurus_run"} \cup Studies_

SingleResults ==
    UNION {{state_of(tool, "none", "none", f, NoChild) :
              f \in FactsOf(tool, outcomes_of(tool, "none", "none"), TwoOff(outcomes_of(tool, "none", "none"), RequestPart))} :
             tool \in SweepTools \cup OtherTools}

Devices == DOMAIN DEFAULT_GOLDEN_PROFILES
DeviceResults ==
    UNION {UNION {{state_of(Extended, device, fidelity, f, NoChild) :
              f \in FactsOf(Extended, ExtendedOutcomes(device, fidelity), TwoOff(ExtendedOutcomes(device, fidelity), RequestPart))} :
             fidelity \in Fidelities(device)} : device \in Devices}

FailedResults ==
    UNION {{failed_state(tool, "none", "none", outcomes_of(tool, "none", "none"), d, why) :
              d \in {<< >>, [deck |-> "baseline"], [deck |-> "signoff"]},
              why \in {"none", "validation", "convergence", "runtime_exception"}} : tool \in SweepTools}

Children ==
    {r \in SingleResults : r.tool \in {"pn_junction_iv_sweep", "mosfet_2d_id_sweep"}
                           /\ r.facts.deck = "none" /\ r.facts.requested = "unasked"}
AggregateResults ==
    {aggregate_of(tool, Settled(tool, Facts(AggregateOutcomes, d)), child) :
        tool \in Aggregates, d \in TwoOff(AggregateOutcomes, {"items"}), child \in Children}

AllResults == SingleResults \cup DeviceResults \cup FailedResults \cup AggregateResults

\* What a run into the same directory may leave instead
SomeReruns ==
    {r \in AllResults : r.tool \in {"mesh_convergence", "pn_junction_iv_sweep"}
                        /\ r.facts.requested = "unasked" /\ r.facts.effect = "none" /\ r.facts.mutations = "none"}

------------------------------------------------------------------------------
(* Candidates of a study *)

TwoMetrics == {"leakage", "bv"}
SomeValues == {[leakage |-> a, bv |-> b] : a, b \in {<< >>, <<-1>>, <<1>>, <<2>>}}
SomeGoals ==
    {[leakage |-> [direction |-> "minimize_abs", weight |-> 1], bv |-> [direction |-> "maximize", weight |-> w]] : w \in {1, 3}}
    \cup {[leakage |-> [direction |-> d, weight |-> 2]] : d \in {"minimize", "maximize_abs"}}
SomeLimits == {[metric |-> "bv", bound |-> 0, required |-> TRUE], [metric |-> "leakage", bound |-> 1, required |-> FALSE]}

(* Requests a sweep may start from: steps of 12.5 mV *)
SomeSweeps ==
    {[start |-> 0, stop |-> stop, step |-> step, min_step |-> min, length |-> length, junction |-> length \div 2,
      depth |-> 2, silicon |-> 4, source |-> source, x_divisions |-> x, attempts |-> attempts] :
        stop \in {-8000, -800, -40, 80}, step \in {1, 4, 80}, min \in {1}, length \in {4, 40},
        source \in {1}, x \in {4, 9}, attempts \in {1, 6}}
    \cup {[start |-> 4000, stop |-> -4000, step |-> 40, min_step |-> min, length |-> 4, junction |-> 1, depth |-> 1,
           silicon |-> 2, source |-> 1, x_divisions |-> 4, attempts |-> 2] : min \in {1, 40}}

------------------------------------------------------------------------------
(* Decks, goals and the readings of runs: gains with and without a loss beyond  *)
(* its tolerance, losses within it, none, a run that fails and one unmeasured.  *)
SomeDecks ==
    {[lifetime |-> 6400, trap_density |-> 6400, drift_doping |-> 6400, field_plate |-> 6400,
      Iterations |-> 40, NotDamped |-> 0, InitialStep |-> 6400, MaxStep |-> 6400, Voltage |-> -300],
     [drift_doping |-> 6400, implant_dose |-> 6400],
     [trench_corner_radius |-> 6400, Voltage |-> -1200]}
SomeTags == {{"leakage"}, {"bv"}, {"field", "leakage"}, {"ron"}, {"ron", "tradeoff_guard"}, {"convergence"}}
Gives(quality, leakage_, bv_, field_, ron_, points_) ==
    [reading |-> [leakage |-> leakage_, bv |-> bv_, field |-> field_, ron |-> ron_, points |-> points_], quality |-> quality]
SomeBaselines == {Gives("passed", 100, 1000, 300, 50, 20), Gives("failed", 100, 0, 0, 50, 9)}
SomeOutcomes ==
    {Gives("passed", 80, 1000, 300, 50, 20), Gives("passed", 80, 1000, 300, 62, 20), Gives("passed", 90, 1010, 290, 48, 20),
     Gives("passed", 70, 985, 310, 54, 30), Gives("suspicious", 70, 1100, 300, 54, 30), Gives("passed", 105, 960, 300, 50, 20),
     Gives("passed", 100, 1000, 300, 50, 20), Gives("failed", 100, 0, 0, 50, 9), Gives("suspicious", 0, 0, 0, 0, 20)}

------------------------------------------------------------------------------
Is(s) == subject = s /\ UNCHANGED subject
NominalResult ==
    state_of("mesh_convergence", "none", "none", Settled("mesh_convergence", Facts(StudyOutcomes, << >>)), NoChild)

ChainRests ==
    /\ result = NominalResult /\ benchmark = {} /\ augmented = {} /\ plan = {} /\ design = {}
    /\ conclusion = "none" /\ rerun = FALSE
ObjectivesRest == goals = (CHOOSE g \in Goals : TRUE) /\ limits = {} /\ candidates = << >> /\ judged = NoJudgement
PatchRests == request = (CHOOSE r \in Sweeps : TRUE) /\ patched = 0
LoopRests ==
    /\ tags = {} /\ bold = FALSE /\ advised = FALSE /\ pending = {} /\ history = << >>
    /\ runs = <<Unpatched(CHOOSE deck \in Decks : TRUE, CHOOSE b \in Baselines : TRUE)>>
    /\ rounds = 0 /\ planned = 0 /\ planStatus = "none" /\ archive = [chain |-> << >>, front |-> {}, best |-> {}]

EvidenceInit ==
    /\ subject \in Subjects
    /\ IF subject = "chain" THEN ChainInit ELSE ChainRests
    /\ IF subject = "objectives" THEN ObjectivesInit ELSE ObjectivesRest
    /\ IF subject = "patch" THEN PatchInit ELSE PatchRests
    /\ IF subject = "loop" THEN LoopInit ELSE LoopRests

EvidenceNext ==
    \/ Is("chain") /\ ChainNext /\ UNCHANGED <<objectiveVars, patchVars, loopVars>>
    \/ Is("objectives") /\ ObjectivesNext /\ UNCHANGED <<chainVars, patchVars, loopVars>>
    \/ Is("patch") /\ PatchNext /\ UNCHANGED <<chainVars, objectiveVars, loopVars>>
    \/ Is("loop") /\ LoopNext /\ UNCHANGED <<chainVars, objectiveVars, patchVars>>

EvidenceSpec == EvidenceInit /\ [][EvidenceNext]_evidenceVars
===============================================================================
