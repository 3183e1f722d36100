------------------------------ MODULE PatchLoop ------------------------------
(***************************************************************************)
(* How the agent changes a Sentaurus deck.  sentaurus_patch_planner.py     *)
(* proposes patches of the deck of the latest run; one is run with all the *)
(* patches run before it, on a fresh copy of the user's project;           *)
(* sentaurus_mutation_effect.py compares the run with the one before it,   *)
(* and sentaurus_patch_refiner.py goes on in the same direction or         *)
(* switches the target.  sentaurus_lineage.py archives the chain of runs.  *)
(*                                                                         *)
(* A reading gives a metric a positive number, the breakdown voltage by    *)
(* its magnitude, or 0 where a run leaves none.  A class stands for the    *)
(* one variable of the deck it is found in.                                *)
(***************************************************************************)
EXTENDS Integers, SequencesExt, FiniteSetsExt

CONSTANTS
    Decks,      \* the decks of a project: functions from parameters to numbers, 0 where absent
    GoalTags,   \* what goals speak of: sets of tags
    Target,     \* the voltage a goal names
    Baselines,  \* what the run of the deck as it is may give: [reading, quality]
    Outcomes_,  \* what the run of a patched deck may give
    MaxRounds,  \* max_experiment_design_rounds
    IdParts     \* the parts of a candidate's name that fit into the name of a run

Watched == {"leakage", "bv", "field", "ron"}
Metrics == Watched \cup {"points"}

ASSUME PatchLoopAssumption ==
    /\ MaxRounds \in Nat /\ IdParts \in Nat \ {0} /\ Target \in Int
    /\ \A deck \in Decks : deck \in [DOMAIN deck -> Int]
    /\ \A o \in Baselines \cup Outcomes_ :
          o.reading \in [Metrics -> Nat] /\ o.quality \in {"passed", "suspicious", "failed"}

VARIABLES
    tags,      \* goal_tags of the goal
    bold,      \* allow_user_confirmation_actions, the planner's allow_high_risk
    advised,   \* a model chooses among the eligible refinements
    runs,      \* the state files, oldest first: the candidate run, its deck, what it gave and how it compares
    pending,   \* pending_sentaurus_patch_candidate: {} or one not executed
    history,   \* sentaurus_patch_history: the patches of every candidate run
    rounds,    \* experiment_design_runs
    planned,   \* the run the last plan was made from
    planStatus, \* status of the last plan
    archive    \* sentaurus_lineage_archive of the latest run: [chain, front, best]

loopVars == <<tags, bold, advised, runs, pending, history, rounds, planned, planStatus, archive>>

Latest == runs[Len(runs)]
Deck(i) == runs[i].deck

------------------------------------------------------------------------------
(* sentaurus_deck.py: semantic patches *)

PatchOf(deck, parameter, value) == [parameter |-> parameter, old |-> deck[parameter], value |-> value]
Parameters(patches) == {patches[i].parameter : i \in DOMAIN patches}

\* A patch that changes nothing is not applied.
apply_sentaurus_semantic_patch_text(deck, patch) == [deck EXCEPT ![patch.parameter] = patch.value]
Applied(deck, patches) ==
    LET after[n \in 0 .. Len(patches)] ==
          IF n = 0 THEN deck ELSE apply_sentaurus_semantic_patch_text(after[n - 1], patches[n])
    IN  after[Len(patches)]

\* Mutant: a patch counts as verified once its parameter is found.
VerifiedWhenFound(deck, patches) == \A i \in DOMAIN patches : patches[i].parameter \in DOMAIN deck
verified(deck, patches) == \A i \in DOMAIN patches : deck[patches[i].parameter] # patches[i].value

------------------------------------------------------------------------------
(* sentaurus_patch_planner.py *)

Times(factor, value) == (factor[1] * value) \div factor[2]

\* What a candidate is once it was tried on the deck
Validated(deck, c) ==
    IF verified(deck, c.patches) THEN c ELSE [c EXCEPT !.risk = "high", !.sound = FALSE]

CandidateOf(class, score, risk, patches) ==
    [name |-> <<class>>, about |-> {class}, score |-> score, risk |-> risk, patches |-> patches,
     sound |-> TRUE, action |-> "plan"]

Tagged(tag) == tag \in tags

\* The direction of a class of variables: {} or {[factor, risk, score]}
variable_mutation_direction(class) ==
    LET Move(when, factor, risk, score) ==
          IF when THEN {[factor |-> factor, risk |-> risk, score |-> score]} ELSE {}
    IN  CASE class = "lifetime" -> Move(Tagged("leakage"), <<2, 1>>, "low", 800)
          [] class = "region_specific_lifetime" -> Move(Tagged("leakage"), <<3, 2>>, "medium", 720)
          [] class = "trap_density" -> Move(Tagged("leakage"), <<1, 2>>, "medium", 720)
          [] class = "drift_doping" ->
               IF Tagged("ron")
               THEN Move(TRUE, <<23, 20>>,
                         IF tags \cap {"tradeoff_guard", "bv", "field"} # {} THEN "high" ELSE "medium", 650)
               ELSE Move(tags \cap {"bv", "field", "leakage"} # {}, <<4, 5>>, "medium", 700)
          [] class = "field_plate" -> Move(tags \cap {"field", "bv"} # {}, <<23, 20>>, "high", 620)
          [] class = "guard_ring" -> Move(tags \cap {"field", "bv"} # {}, <<11, 10>>, "high", 580)
          [] class = "oxide_thickness" -> Move(tags \cap {"field", "leakage", "bv"} # {}, <<11, 10>>, "high", 550)
          [] class = "implant_dose" -> Move(tags \cap {"bv", "leakage", "ron"} # {},
                                            IF tags \cap {"bv", "leakage"} # {} THEN <<9, 10>> ELSE <<11, 10>>, "high", 520)
          [] class = "junction_depth" -> Move(tags \cap {"field", "bv"} # {}, <<21, 20>>, "high", 500)
          [] class = "trench_corner_radius" -> Move(tags \cap {"field", "bv"} # {}, <<6, 5>>, "high", 500)
          [] OTHER -> {}

variable_candidates(deck) ==
    UNION {{CandidateOf(class, d.score, d.risk, <<PatchOf(deck, class, Times(d.factor, deck[class]))>>) :
              d \in variable_mutation_direction(class)} : class \in {p \in DOMAIN deck : deck[p] # 0}}

\* Newton controls and the steps of the continuation, as far as the deck has them;
\* NotDamped is added where absent.
Existing(deck, parameter, value) ==
    IF parameter \in DOMAIN deck THEN <<PatchOf(deck, parameter, value)>> ELSE <<>>

ConvergencePatches(deck) ==
    Existing(deck, "Iterations", Max({Times(<<3, 2>>, deck["Iterations"]), deck["Iterations"] + 10}))
    \o Existing(deck, "NotDamped", IF deck["NotDamped"] = 0 THEN 100
                                   ELSE Max({Times(<<3, 2>>, deck["NotDamped"]), deck["NotDamped"] + 25}))
    \o Existing(deck, "InitialStep", Times(<<1, 10>>, deck["InitialStep"]))
    \o Existing(deck, "MaxStep", Times(<<1, 2>>, deck["MaxStep"]))

step_control_candidate(deck, stuck) ==
    IF "Iterations" \in DOMAIN deck /\ (stuck \/ tags \cap {"convergence", "bv", "transient"} # {})
    THEN {CandidateOf("convergence", IF stuck \/ Tagged("convergence") THEN 880 ELSE 660, "low", ConvergencePatches(deck))}
    ELSE {}

\* The sweep of a cathode ends at the voltage the goal names, in reverse.
bias_candidate(deck) ==
    IF Tagged("bv") /\ "Voltage" \in DOMAIN deck
    THEN {CandidateOf("bv_goal", 860, "medium", <<PatchOf(deck, "Voltage", -Target)>>)}
    ELSE {}

build_candidates(run) ==
    {Validated(run.deck, c) : c \in step_control_candidate(run.deck, run.quality = "failed")
                                   \cup bias_candidate(run.deck) \cup variable_candidates(run.deck)}

eligible_candidates(cs) == {c \in cs : c.sound /\ (bold \/ c.risk # "high")}
select_patch(cs) == {c \in eligible_candidates(cs) : \A d \in eligible_candidates(cs) : d.score <= c.score}

------------------------------------------------------------------------------
(* sentaurus_mutation_effect.py *)

Given(metrics, reading) == {m \in metrics : reading[m] # 0}

\* The first of the metrics the words point at, of those either run gives
infer_primary_metric(name, base, new) ==
    LET given == Given(DOMAIN base, base) \cup Given(DOMAIN new, new)
        Of(ms) == IF \E i \in DOMAIN ms : ms[i] \in given
                  THEN ms[CHOOSE i \in DOMAIN ms : ms[i] \in given /\ \A j \in 1..(i - 1) : ms[j] \notin given]
                  ELSE "none"
        Speaks(words) == Range(name) \cap words # {}
    IN  CASE (Speaks({"convergence"}) \/ Tagged("convergence")) /\ "points" \in given -> "points"
          [] Speaks({"lifetime", "region_specific_lifetime", "trap_density"}) \/ Tagged("leakage") -> Of(<<"leakage">>)
          [] Speaks({"field_plate", "guard_ring", "trench_corner_radius"}) \/ Tagged("field") -> Of(<<"field">>)
          [] Speaks({"drift_doping"}) /\ Tagged("ron") -> Of(<<"ron">>)
          [] Speaks({"bv_goal", "drift_doping", "junction_depth"}) \/ Tagged("bv") -> Of(<<"bv">>)
          [] OTHER -> Of(<<"leakage", "bv", "field", "ron">>)

status_improved(base, new) ==
    \/ base.quality \in {"failed", "suspicious"} /\ new.quality = "passed"
    \/ base.quality = "failed" /\ new.quality # "failed"
status_regressed(base, new) == base.quality = "passed" /\ new.quality \in {"failed", "suspicious"}

HigherIsBetter == {"bv", "points"}
\* Better(m, old, new): new is the better of the two.
Better(m, old, new) == IF m \in HigherIsBetter THEN new > old ELSE new < old
sentaurus_metric_improved(m, base, new) == Better(m, base, new) \/ (m = "points" /\ new = base)

\* In hundredths of the baseline
tradeoff_tolerance(m) == CASE m = "ron" -> 20 [] m = "bv" -> 2 [] OTHER -> 10
Distance(a, b) == IF a < b THEN b - a ELSE a - b

Compared(base, new) == Given(DOMAIN base, base) \cap Given(DOMAIN new, new)

\* Mutant: a higher value is taken for a gain whatever the metric.
TradeoffsBelowOnly(base, new, primary) ==
    {m \in (Compared(base, new) \cap Watched) \ {primary} :
        new[m] < base[m] /\ 100 * Distance(base[m], new[m]) > tradeoff_tolerance(m) * base[m]}

infer_tradeoff_violations(base, new, primary) ==
    {m \in (Compared(base, new) \cap Watched) \ {primary} :
        Better(m, new[m], base[m]) /\ 100 * Distance(base[m], new[m]) > tradeoff_tolerance(m) * base[m]}

\* Dominance over the metrics of both runs, as assign_pareto_front finds it
Dominates(a, b, metrics) ==
    /\ \A m \in metrics : ~Better(m, a[m], b[m])
    /\ \E m \in metrics : Better(m, b[m], a[m])

decision_from_evidence(name, base, new) ==
    LET primary == infer_primary_metric(name, base.reading, new.reading)
        comparable == Compared(base.reading, new.reading)
        measured == primary \in comparable
        improved == measured /\ sentaurus_metric_improved(primary, base.reading[primary], new.reading[primary])
        objectives == comparable \cap Watched
        onFront == objectives # {} /\ ~Dominates(base.reading, new.reading, objectives)
    IN  IF status_regressed(base, new) THEN "reject_candidate"
        ELSE IF \/ infer_tradeoff_violations(base.reading, new.reading, primary) # {}
                \/ improved /\ ~onFront
             THEN "blocked_for_pareto_review"
        ELSE IF improved \/ status_improved(base, new) THEN "continue_refine"
        ELSE IF ~measured THEN "insufficient_evidence"
        ELSE IF Dominates(new.reading, base.reading, objectives) THEN "continue_refine" ELSE "switch_target"

\* The target named for a patch not worth going on with
recommended_target(name, base, new) ==
    LET primary == infer_primary_metric(name, base.reading, new.reading)
    IN  CASE primary = "field" -> "field_plate"
          [] primary \in {"ron", "bv"} -> "drift_doping"
          [] OTHER -> "lifetime"

------------------------------------------------------------------------------
(* sentaurus_patch_refiner.py *)

Magnitude_(x) == IF x < 0 THEN -x ELSE x
\* Half of a number that is not 0 is not 0 either: halves are rounded away from 0.
Halved(x) == IF x < 0 THEN -((1 - x) \div 2) ELSE (x + 1) \div 2

\* Mutant: a whole step again, wherever it leads.
RefinedWholeStep(old, new) == new + (new - old)

\* Half a step beyond, or half the value where that would leave the positive side
refined_numeric_text(old, new) ==
    LET next == new + Halved(new - old)
    IN  IF old > 0 /\ new > 0 /\ next <= 0 THEN Halved(new) ELSE next

\* A candidate that takes one patch of the run's further.  All of them score 820
\* and the first is taken, which the subtraction stands for.
Further(run, i) ==
    LET c == run.candidate
        last == c.patches[i]
    IN  [c EXCEPT !.name = Append(c.name, "refine"), !.about = Range(c.name), !.score = 820 - i, !.action = "continue",
                  !.patches = <<PatchOf(run.deck, last.parameter, refined_numeric_text(last.old, last.value))>>]

\* One candidate per patch with a former number
continue_same_direction_candidates(run) ==
    LET patches == run.candidate.patches
        going == {i \in DOMAIN patches : patches[i].old # 0 /\ patches[i].old # patches[i].value}
    IN  {Validated(run.deck, Further(run, i)) : i \in going}

\* Mutant: candidates are told apart by their names.
NotByName(run, cs) == {c \in cs : c.name # run.candidate.name}
OtherTargets(run, cs) == {c \in cs : Parameters(c.patches) \cap Parameters(run.candidate.patches) = {}}

\* What the evidence of a candidate says is part of what it is about.
Switched(run, c, said) ==
    [c EXCEPT !.name = c.name \o <<"switch">> \o run.candidate.name, !.action = "switch",
              !.about = c.about \cup Range(run.candidate.name) \cup said]

\* The recommended class first, unless the patch was about it, and else any other.
switch_target_candidates(run) ==
    LET others == OtherTargets(run, build_candidates(run))
        avoided == run.target \in run.candidate.about
        wanted == IF avoided THEN {} ELSE {c \in others : run.target \in c.about}
        said == IF avoided \/ wanted # {} THEN {run.target} ELSE {}
    IN  {Switched(run, c, said) : c \in IF wanted = {} THEN others ELSE wanted}

refinements(run) ==
    CASE run.decision = "continue_refine" -> continue_same_direction_candidates(run)
      [] run.decision \in {"switch_target", "reject_candidate"} -> switch_target_candidates(run)
      [] OTHER -> {}

\* choose_candidate_with_agent: what the model may choose, and what an answer
\* that names none of them leads to
choose_candidate_with_agent(cs) == IF advised THEN eligible_candidates(cs) ELSE select_patch(cs)

------------------------------------------------------------------------------
(* sentaurus_lineage.py *)

chain_state_paths(states) ==
    LET chain[i \in 0..Len(states)] == IF i = 0 THEN <<>> ELSE Append(chain[states[i].baseline], i)
    IN  chain[Len(states)]

objective_metrics(states, chain) ==
    {m \in Metrics : Cardinality({i \in DOMAIN chain : states[chain[i]].reading[m] # 0}) >= 2}

AsObjectives(metrics) ==
    [m \in metrics |-> [direction |-> CASE m = "bv" -> "maximize_abs" [] m = "points" -> "maximize" [] OTHER -> "minimize",
                        weight |-> 1]]

Ranking(metrics) ==
    INSTANCE Objectives WITH goals <- AsObjectives(metrics), limits <- {}, candidates <- <<>>, judged <- <<>>,
        Metrics_ <- Metrics, Values <- {}, Goals <- {}, Limits <- {}, MaxCandidates <- 0

assign_archive_pareto(states) ==
    LET chain == chain_state_paths(states)
        metrics == objective_metrics(states, chain)
        entries == [i \in DOMAIN chain |->
                      [m \in metrics |-> IF states[chain[i]].reading[m] = 0 THEN <<>> ELSE <<states[chain[i]].reading[m]>>]]
    IN  IF metrics = {} THEN [chain |-> chain, front |-> {Len(chain)}, best |-> {Len(chain)}]
        ELSE LET best == Ranking(metrics)!Best(entries)
             IN  [chain |-> chain, front |-> Ranking(metrics)!assign_pareto_front(entries),
                  best |-> IF best = {} THEN {Len(chain)} ELSE best]

------------------------------------------------------------------------------
(* autonomous_devsim_agent.py *)

NoCandidate ==
    [name |-> <<>>, about |-> {}, score |-> 0, risk |-> "low", patches |-> <<>>, sound |-> TRUE, action |-> "none"]

\* The run of the deck as it is
Unpatched(deck, b) ==
    [candidate |-> NoCandidate, deck |-> deck, reading |-> b.reading, quality |-> b.quality,
     decision |-> "none", target |-> "none", baseline |-> 0]

LoopInit ==
    /\ tags \in GoalTags /\ bold \in BOOLEAN /\ advised \in BOOLEAN
    /\ \E deck \in Decks, b \in Baselines : runs = <<Unpatched(deck, b)>>
    /\ pending = {} /\ history = <<>> /\ rounds = 0 /\ planned = 0 /\ planStatus = "none"
    /\ archive = [chain |-> <<>>, front |-> {}, best |-> {}]

\* A plan is made once of a run, and of at most max_experiment_design_rounds runs.
DuePlan == pending = {} /\ planned # Len(runs) /\ rounds < MaxRounds
Planned(status, choice) ==
    /\ planStatus' = status /\ pending' = choice /\ planned' = Len(runs) /\ rounds' = rounds + 1
    /\ UNCHANGED <<tags, bold, advised, runs, history, archive>>

Chosen(cs, choices) ==
    \/ \E c \in choices : Planned("completed", {c})
    \/ choices = {} /\ Planned(IF cs = {} THEN "no_actionable_candidates" ELSE "blocked_for_user_confirmation", {})

\* plan_sentaurus_patches on a run that no patch was compared for
PlanPatch ==
    /\ DuePlan /\ Latest.decision = "none"
    /\ LET cs == build_candidates(Latest) IN Chosen(cs, select_patch(cs))

Refines(decision) == decision \in {"continue_refine", "switch_target", "reject_candidate"}

\* build_sentaurus_patch_refinement_plan.  A model that names no eligible
\* candidate fails the plan unless the fallback is allowed.
PlanRefinement ==
    /\ DuePlan /\ Refines(Latest.decision)
    /\ LET cs == refinements(Latest)
       IN  \/ Chosen(cs, choose_candidate_with_agent(cs))
           \/ advised /\ eligible_candidates(cs) # {} /\ Planned("failed", {})

RunId(c) == SubSeq(c.name, 1, IF Len(c.name) < IdParts THEN Len(c.name) ELSE IdParts)
Taken(c) == \E i \in DOMAIN runs : RunId(runs[i].candidate) = RunId(c)

\* Mutant: the run starts from the user's project with the candidate alone.
PatchesAlone(c) == c.patches
\* action_from_sentaurus_patch_candidate: everything run before, kept or not, and the candidate
lineage_patches(c) == FlattenSeq(history) \o c.patches

\* augment_sentaurus_patch_result compares with the state that was the latest.
augment_sentaurus_patch_result(c, deck, outcome) ==
    [candidate |-> c, deck |-> deck, reading |-> outcome.reading, quality |-> outcome.quality,
     decision |-> decision_from_evidence(c.name, Latest, outcome),
     target |-> recommended_target(c.name, Latest, outcome), baseline |-> Len(runs)]

RunPatch ==
    \E c \in pending, outcome \in Outcomes_ :
      \E result \in {augment_sentaurus_patch_result(c, Applied(runs[1].deck, lineage_patches(c)), outcome)} :
        /\ ~Taken(c)
        /\ runs' = Append(runs, result) /\ history' = Append(history, c.patches) /\ pending' = {}
        /\ archive' = assign_archive_pareto(Append(runs, result))
        /\ UNCHANGED <<tags, bold, advised, rounds, planned, planStatus>>

\* The directory of a run is never used again: the tool raises, the agent fails.
RunClashes ==
    /\ planStatus # "clash" /\ \E c \in pending : Taken(c)
    /\ planStatus' = "clash"
    /\ UNCHANGED <<tags, bold, advised, runs, pending, history, rounds, planned, archive>>

LoopNext == PlanPatch \/ PlanRefinement \/ RunPatch \/ RunClashes
LoopSpec == LoopInit /\ [][LoopNext]_loopVars

------------------------------------------------------------------------------
LoopTypeOK ==
    /\ planStatus \in {"none", "completed", "no_actionable_candidates", "blocked_for_user_confirmation", "failed", "clash"}
    /\ Cardinality(pending) <= 1 /\ rounds \in 0..MaxRounds /\ planned \in 0..Len(runs)
    /\ Len(runs) = Len(history) + 1

Patched == 2..Len(runs)
Before(i) == runs[runs[i].baseline]

\* A run has the deck its candidate was validated on, with the candidate's
\* patches: what the request repeats from the history gives that deck again, so
\* the comparison of two runs is about the candidate alone.
RunIsTheValidatedDeck == \A i \in Patched : Deck(i) = Applied(Before(i).deck, runs[i].candidate.patches)

\* A continuation goes on in the direction of the patch before it by at most half
\* a step, rounding apart, and a positive number stays positive
\* (docs/autonomous_devsim_agent.md: "smaller verified follow-up step").
ContinuationsShrink ==
    \A i \in Patched : runs[i].candidate.action = "continue" =>
        LET next == runs[i].candidate.patches[1]
        IN  \E k \in DOMAIN Before(i).candidate.patches :
              LET last == Before(i).candidate.patches[k]
                  step == last.value - last.old
                  further == next.value - next.old
              IN  /\ next.parameter = last.parameter /\ next.old = last.value
                  /\ 2 * Magnitude_(further) <= Magnitude_(step) + 1 \/ 2 * Magnitude_(next.value) <= Magnitude_(last.value) + 1
                  /\ (step > 0) = (further > 0) /\ (last.value > 0 => next.value > 0)

\* What was just rejected, or did not help, is not patched again at once.
RejectedIsLeft ==
    \A i \in Patched : Before(i).decision \in {"switch_target", "reject_candidate"} =>
        Parameters(runs[i].candidate.patches) \cap Parameters(Before(i).candidate.patches) = {}

\* After a loss beyond tolerance in a watched metric no further patch is chosen,
\* unless the run was refused for its quality and the target is switched.
TradeoffStops ==
    \A c \in pending : Latest.baseline # 0 =>
        LET base == Before(Len(runs)).reading
            lost == {m \in Compared(base, Latest.reading) \cap Watched :
                        /\ Better(m, Latest.reading[m], base[m])
                        /\ 100 * Distance(base[m], Latest.reading[m]) > tradeoff_tolerance(m) * base[m]}
        IN  \/ c.action = "switch" /\ Latest.decision = "reject_candidate"
            \/ lost \subseteq {infer_primary_metric(Latest.candidate.name, base, Latest.reading)}

\* Without leave to act on what needs confirmation, no run has a patch that is
\* a high risk, and none at all has a patch that changes nothing.
OnlyVerifiedRuns ==
    \A i \in Patched : /\ runs[i].candidate.risk = "high" => bold
                       /\ \A k \in DOMAIN runs[i].candidate.patches :
                            runs[i].candidate.patches[k].old # runs[i].candidate.patches[k].value

\* The archive of the latest run holds every run from the first, and its best
\* entry, where one is scored, is not dominated by another.
ArchiveIsComplete ==
    Patched # {} => /\ archive.chain = [i \in 1..Len(runs) |-> i]
                    /\ archive.best \subseteq archive.front

\* The loop of sentaurus patches: what is run is what was validated, small steps
\* in a direction that helps, another target where it does not, and a stop at a
\* tradeoff.
PatchLoopInvariant ==
    /\ LoopTypeOK /\ RunIsTheValidatedDeck /\ ContinuationsShrink /\ RejectedIsLeft
    /\ TradeoffStops /\ OnlyVerifiedRuns /\ ArchiveIsComplete
==============================================================================
