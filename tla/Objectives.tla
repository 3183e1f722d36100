------------------------------ MODULE Objectives ------------------------------
(***************************************************************************)
(* engineering_objectives.py: the candidates of a study are ranked by a    *)
(* weighted score under constraints and by dominance.  Cases are added by  *)
(* the study; every evaluation reads the cases there are and replaces      *)
(* engineering_objectives.json.                                            *)
(*                                                                         *)
(* A candidate gives every metric a number or "none" (absent or not        *)
(* finite), here as the sequence <<>> or <<number>>.                       *)
(***************************************************************************)
EXTENDS Integers, Sequences, FiniteSetsExt

CONSTANTS
    Metrics_,    \* the metrics objectives and constraints look at
    Values,      \* the metrics of a case: functions from Metrics_ to <<>> or <<number>>
    Goals,       \* objectives: sets of functions from metrics to [direction, weight]
    Limits,      \* constraints: sets of [metric, bound, required], value at least the bound
    MaxCandidates \* bound: cases of the study

ASSUME ObjectivesAssumption ==
    /\ MaxCandidates \in Nat
    /\ \A v \in Values : v \in [Metrics_ -> Seq(Int)]
    /\ IsFiniteSet(Metrics_)
    /\ \A g \in Goals : \A metric \in DOMAIN g :
          /\ metric \in Metrics_ /\ g[metric].weight \in Int
          /\ g[metric].direction \in {"minimize", "maximize", "minimize_abs", "maximize_abs"}
    /\ \A l \in Limits : l.metric \in Metrics_ /\ l.bound \in Int /\ l.required \in BOOLEAN

VARIABLES
    goals,       \* the objectives of the request
    limits,      \* its constraints
    candidates,  \* the cases of the study: a sequence of metrics
    judged       \* engineering_objectives.json: [status, cases, front, best, action]

objectiveVars == <<goals, limits, candidates, judged>>

NoJudgement == [status |-> "none", cases |-> 0, front |-> {}, best |-> {}, action |-> "none"]

ObjectivesInit == goals \in Goals /\ limits \in SUBSET Limits /\ candidates = <<>> /\ judged = NoJudgement

\* A case of the study completes.
AddCase ==
    /\ Len(candidates) < MaxCandidates
    /\ \E v \in Values : candidates' = Append(candidates, v)
    /\ UNCHANGED <<goals, limits, judged>>

Magnitude(x) == IF x < 0 THEN -x ELSE x

\* transformed_objective_value: less is better.
transformed_objective_value(x, direction) ==
    CASE direction = "minimize" -> x
      [] direction = "maximize" -> -x
      [] direction = "minimize_abs" -> Magnitude(x)
      [] direction = "maximize_abs" -> -Magnitude(x)

Known_(c, metric) == c[metric] # <<>>
Value(c, metric) == transformed_objective_value(c[metric][1], goals[metric].direction)

\* compare_constraint and the violations of evaluate_candidate: a metric that is
\* absent violates every constraint on it.
Violations(c) == {l \in limits : ~Known_(c, l.metric) \/ (Known_(c, l.metric) /\ c[l.metric][1] < l.bound)}
feasible(c) == \A l \in Violations(c) : ~l.required

Complete(c) == \A metric \in DOMAIN goals : Known_(c, metric)

\* Mutant: the score adds the metrics as they are.
ScoreOfRaw(c) ==
    MapThenSumSet(LAMBDA metric : goals[metric].weight * c[metric][1], DOMAIN goals)

\* The weighted sum of evaluate_candidate, when no objective is missing
score(c) ==
    MapThenSumSet(LAMBDA metric : goals[metric].weight * Value(c, metric), DOMAIN goals)

\* Mutant: equal candidates dominate one another.
DominatesWeakly(left, right) ==
    /\ feasible(left) /\ feasible(right) /\ Complete(left) /\ Complete(right)
    /\ \A metric \in DOMAIN goals : Value(left, metric) <= Value(right, metric)

dominates(left, right) ==
    /\ feasible(left) /\ feasible(right) /\ Complete(left) /\ Complete(right)
    /\ \A metric \in DOMAIN goals : Value(left, metric) <= Value(right, metric)
    /\ \E metric \in DOMAIN goals : Value(left, metric) < Value(right, metric)

\* Mutant: candidates are numbered from zero.
FrontFromZero(cs) ==
    {i - 1 : i \in {j \in DOMAIN cs : feasible(cs[j]) /\ ~\E k \in DOMAIN cs \ {j} : dominates(cs[k], cs[j])}}

assign_pareto_front(cs) ==
    {i \in DOMAIN cs : feasible(cs[i]) /\ ~\E j \in DOMAIN cs \ {i} : dominates(cs[j], cs[i])}

\* The best of the feasible candidates with a score: the first of equal ones
Best(cs) ==
    LET scored == {i \in DOMAIN cs : feasible(cs[i]) /\ Complete(cs[i])}
        Before(i, j) == score(cs[i]) < score(cs[j]) \/ (score(cs[i]) = score(cs[j]) /\ i < j)
    IN  {i \in scored : \A j \in scored \ {i} : Before(i, j)}

\* Mutant: violated constraints are not looked at once there is a best candidate.
DecisionOfBest(cs, best) ==
    IF cs = <<>> THEN "collect_candidates"
    ELSE IF best = {} THEN "reject_or_collect_more_evidence"
    ELSE "continue_with_best_candidate"

build_objective_decision(cs, best) ==
    IF cs = <<>> THEN "collect_candidates"
    ELSE IF best = {} THEN "reject_or_collect_more_evidence"
    ELSE IF \E i \in DOMAIN cs : ~feasible(cs[i]) THEN "review_constraints"
    ELSE "continue_with_best_candidate"

\* evaluate_engineering_objectives
Evaluate ==
    LET best == Best(candidates)
    IN  /\ judged' = [status |-> "completed", cases |-> Len(candidates), front |-> assign_pareto_front(candidates),
                      best |-> best, action |-> build_objective_decision(candidates, best)]
        /\ UNCHANGED <<goals, limits, candidates>>

ObjectivesNext == AddCase \/ Evaluate
ObjectivesSpec == ObjectivesInit /\ [][ObjectivesNext]_objectiveVars

------------------------------------------------------------------------------
ObjectivesTypeOK ==
    /\ Len(candidates) <= MaxCandidates /\ judged.cases <= Len(candidates)
    /\ judged.front \cup judged.best \subseteq 1 .. judged.cases
    /\ judged.action \in {"none", "collect_candidates", "reject_or_collect_more_evidence", "review_constraints",
                          "continue_with_best_candidate"}

\* What the score calls best no candidate of that evaluation dominates: the two
\* ways engineering_objectives.py compares candidates agree as long as every
\* weight is positive.
BestIsOnTheFront == judged.best \subseteq judged.front

\* The front leaves nobody out who is not beaten by one of its own members, so
\* that a user who continues "only from feasible Pareto candidates" loses nothing.
DominatedByTheFront ==
    judged.status = "completed" =>
        \A i \in 1 .. judged.cases : feasible(candidates[i]) =>
            i \in judged.front \/ \E j \in judged.front : dominates(candidates[j], candidates[i])

\* build_objective_decision lets a study go on unreviewed only from a best
\* candidate, with no case that lacks a required metric or breaks its bound.
ContinuesUnviolated ==
    judged.action = "continue_with_best_candidate" =>
        /\ judged.best # {}
        /\ \A i \in 1 .. judged.cases : \A l \in limits :
               l.required => Known_(candidates[i], l.metric) /\ candidates[i][l.metric][1] >= l.bound

\* The ranking is one a user can follow: its best candidate is on the front, and
\* the front beats what it leaves out.
RankingInvariant == ObjectivesTypeOK /\ DominatedByTheFront /\ BestIsOnTheFront /\ ContinuesUnviolated
==============================================================================
