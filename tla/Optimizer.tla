------------------------------ MODULE Optimizer ------------------------------
(***************************************************************************)
(* The checkpointed searches adaptive_optimizer and multidim_optimizer of  *)
(* src/tcad_agent over parameter_sweep: the calls of one optimize_id, one  *)
(* after another, each of which plans or executes, resumes or overwrites,  *)
(* and may die anywhere.  A round is a sweep over the points it proposes   *)
(* (multidim_optimizer: one sweep for each), a case of a sweep is a task,  *)
(* and a task that executes creates a run directory named after its round  *)
(* and position, which must not be there yet (TaskRunner).                 *)
(*                                                                         *)
(* The arithmetic of the axes is abstracted: a round after the first       *)
(* proposes some points not seen yet.                                      *)
(***************************************************************************)
EXTENDS Naturals, Sequences, FiniteSets, Selections

CONSTANTS
    Points,     \* the points of the grid and between them
    Initial,    \* the points of the first round, in order
    MaxNew,     \* points of a later round
    Searches,   \* the searches tried: "adaptive", "multidim"
    MaxRounds, MaxCases,  \* max_rounds and max_cases of every call
    Modes,      \* the values of execute tried
    Overwritten, \* the searches whose calls may say overwrite
    MaxSearches, MaxSearchCrashes  \* bounds

\* No initial candidate is proposed twice: the adaptive search deduplicates them,
\* the other takes the product of increasing values of distinct axes.
ASSUME OptimizerAssumption ==
    /\ Initial \in Seq(Points) /\ Len(Initial) >= 2 /\ IsFiniteSet(Points)
    /\ \A i, j \in DOMAIN Initial : Initial[i] = Initial[j] => i = j
    /\ MaxNew \in Nat \ {0} /\ MaxRounds \in Nat \ {0} /\ MaxCases \in Nat \ {0}
    /\ MaxSearches \in Nat /\ MaxSearchCrashes \in Nat
    /\ Modes \subseteq BOOLEAN /\ Searches \subseteq {"adaptive", "multidim"} /\ Overwritten \subseteq Searches

VARIABLES
    search,  \* which search it is
    ofile,   \* optimization_state.json
    omem,    \* the state of the call at work
    opc,     \* where it is
    execute, \* its execute flag
    sweep,   \* the sweep at work: the points of the round and its cases so far
    made,    \* the run directories there are: <<round, position>>
    good,    \* history: the runs that completed
    oret,    \* how the last call ended
    ocalls, ocrashes

ovars == <<search, ofile, omem, opc, execute, sweep, made, good, oret, ocalls, ocrashes>>

Objectives == 1 .. 2
Observation == [at: Points, round: 1 .. MaxRounds, pos: Nat, status: {"planned", "completed", "failed"},
         objective: {0} \cup Objectives]
SearchState == [status: {"absent", "planned", "running", "completed", "failed"},
          rounds: Seq({"planned", "completed", "failed"}), seen: Seq(Observation), best: Nat]
NoSearch == [status |-> "absent", rounds |-> << >>, seen |-> << >>, best |-> 0]

OptimizerTypeOK ==
    /\ search \in Searches
    /\ ofile \in SearchState /\ omem \in SearchState /\ execute \in BOOLEAN
    /\ opc \in {"idle", "proposing", "casing", "running", "closing"}
    /\ sweep.points \in Seq(Points) /\ sweep.cases \in Seq(Observation)
    /\ made \cup good \subseteq (1 .. MaxRounds) \X (1 .. Cardinality(Points))
    /\ oret \in {"none", "planned", "completed", "failed"}
    /\ ocalls \in 0 .. MaxSearches /\ ocrashes \in 0 .. MaxSearchCrashes

NoSweep == [points |-> << >>, cases |-> << >>]

OptimizerInit ==
    /\ search \in Searches
    /\ ofile = NoSearch /\ omem = NoSearch /\ opc = "idle" /\ execute = FALSE
    /\ sweep = NoSweep /\ made = {} /\ good = {} /\ oret = "none" /\ ocalls = 0 /\ ocrashes = 0

-----------------------------------------------------------------------------
Executed(cases) == Selected(cases, {n \in DOMAIN cases : cases[n].status # "planned"})

\* completed_observations: the positions of the cases with an objective.
CompletedAt(cases) == {n \in DOMAIN cases : cases[n].status = "completed" /\ cases[n].objective # 0}

\* Mutant: the best of the cases of any status.
BestOfAll(cases) ==
    IF cases = << >> THEN 0
    ELSE CHOOSE n \in DOMAIN cases : \A m \in DOMAIN cases :
           cases[n].objective < cases[m].objective \/ (cases[n].objective = cases[m].objective /\ n <= m)

\* choose_best_observation, as the position of the case, 0 for none: the first
\* of those with the smallest objective.
Best(cases) ==
    IF CompletedAt(cases) = {} THEN 0
    ELSE CHOOSE n \in CompletedAt(cases) : \A m \in CompletedAt(cases) :
           cases[n].objective < cases[m].objective \/ (cases[n].objective = cases[m].objective /\ n <= m)

Min2(a, b) == IF a <= b THEN a ELSE b
Orders(S, n) == {s \in UNION {[1 .. k -> S] : k \in 1 .. n} : \A i, j \in DOMAIN s : s[i] = s[j] => i = j}

\* Mutant: a point that failed is not seen.
ProposalsRetry ==
    LET left == MaxCases - Len(omem.seen)
    IN  IF omem.seen = << >> THEN {SubSeq(Initial, 1, Min2(left, Len(Initial)))}
        ELSE Orders(Points \ {omem.seen[n].at : n \in CompletedAt(omem.seen)}, Min2(left, MaxNew))

\* Mutant: the proposals are not cut to what is left of max_cases.
ProposalsUncut ==
    LET seen == {omem.seen[n].at : n \in DOMAIN omem.seen}
    IN  IF omem.seen = << >> THEN {Initial} ELSE {<< >>} \cup Orders(Points \ seen, MaxNew)

\* propose_refinement_values and propose_refinement_candidates, cut to what is
\* left of max_cases; << >> when there is nothing to propose.
Proposals ==
    LET tried == Executed(omem.seen)
        seen == {tried[n].at : n \in DOMAIN tried}
        left == MaxCases - Len(omem.seen)
    IN  IF omem.seen = << >> THEN {SubSeq(Initial, 1, Min2(left, Len(Initial)))}
        ELSE {<< >>} \cup
             (IF Cardinality(seen) < 2 \/ (search = "multidim" /\ CompletedAt(omem.seen) = {}) THEN {}
              ELSE Orders(Points \ seen, Min2(left, MaxNew)))

-----------------------------------------------------------------------------
SaveSearch(state) == omem' = state /\ ofile' = state
OReturn(how) == opc' = "idle" /\ oret' = how

\* Mutant: an executing call starts from nothing.
LoadedNone(exec) ==
    IF exec THEN [NoSearch EXCEPT !.status = "running"] ELSE [ofile EXCEPT !.status = "planned"]

\* The state a resuming call starts from: an executing one drops what was only
\* planned.
Loaded(exec) ==
    LET old == [ofile EXCEPT !.status = IF exec THEN "running" ELSE "planned"]
    IN  IF exec THEN [old EXCEPT !.rounds = Selected(@, {n \in DOMAIN @ : @[n] # "planned"}), !.seen = Executed(@)]
        ELSE old

\* The loaded state keeps best_observation, which is of a case that is kept.
Rebased(state, old) ==
    [state EXCEPT !.best = IF old.best = 0 \/ state.seen = << >> THEN 0 ELSE
        CHOOSE n \in DOMAIN state.seen : state.seen[n] = old.seen[old.best]]

Call(exec, overwrite) ==
    /\ opc = "idle" /\ ocalls < MaxSearches /\ ocalls' = ocalls + 1
    /\ execute' = exec /\ opc' = "proposing" /\ oret' = "none" /\ sweep' = NoSweep
    /\ IF ofile.status = "absent" \/ overwrite
       THEN SaveSearch([NoSearch EXCEPT !.status = IF exec THEN "running" ELSE "planned"])
       ELSE SaveSearch(Rebased(Loaded(exec), ofile))
    /\ UNCHANGED <<search, made, good, ocrashes>>

InBudget == Len(omem.rounds) < MaxRounds /\ Len(omem.seen) < MaxCases
Round == Len(omem.rounds) + 1

\* The values of the next round; none left ends the search.
Propose ==
    /\ opc = "proposing" /\ InBudget
    /\ \E points \in Proposals :
         IF points = << >> THEN SaveSearch([omem EXCEPT !.status = "completed"]) /\ OReturn("completed") /\ UNCHANGED sweep
         ELSE sweep' = [points |-> points, cases |-> << >>] /\ opc' = "casing" /\ UNCHANGED <<omem, ofile, oret>>
    /\ UNCHANGED <<search, execute, made, good, ocalls, ocrashes>>

Position == Len(sweep.cases) + 1
CaseIs(status, objective) ==
    sweep' = [sweep EXCEPT !.cases = Append(@,
                [at |-> sweep.points[Position], round |-> Round, pos |-> Position,
                 status |-> status, objective |-> objective])]

\* A case of the sweep: task_runner is called with overwrite=True, so the task
\* is replaced; its run is created, or the tool raises because it is there.
CaseStarts ==
    /\ opc = "casing" /\ Position <= Len(sweep.points)
    /\ IF ~execute THEN CaseIs("planned", 0) /\ UNCHANGED <<made, opc>>
       ELSE IF <<Round, Position>> \in made THEN CaseIs("failed", 0) /\ UNCHANGED <<made, opc>>
       ELSE made' = made \cup {<<Round, Position>>} /\ opc' = "running" /\ UNCHANGED sweep
    /\ UNCHANGED <<search, ofile, omem, execute, good, oret, ocalls, ocrashes>>

\* The run ends; a completed one may lack the metric of the objective.
CaseEnds ==
    /\ opc = "running" /\ opc' = "casing"
    /\ \/ CaseIs("failed", 0) /\ UNCHANGED good
       \/ \E v \in {0} \cup Objectives :
            CaseIs("completed", v) /\ good' = good \cup {<<Round, Position>>}
    /\ UNCHANGED <<search, ofile, omem, execute, made, oret, ocalls, ocrashes>>

\* Mutant: a planned round is running.
RoundRunning == IF ~execute THEN "running" ELSE "completed"

\* The status of the round: that of its sweep, or of its sweeps together.
RoundStatus ==
    IF ~execute THEN "planned"
    ELSE IF \E n \in DOMAIN sweep.cases : sweep.cases[n].status = "failed" THEN "failed" ELSE "completed"

\* The round's observations and the best so far become the state.
CloseRound ==
    /\ opc = "casing" /\ Position > Len(sweep.points)
    /\ LET all == omem.seen \o sweep.cases
       IN  SaveSearch([omem EXCEPT !.rounds = Append(@, RoundStatus), !.seen = all, !.best = Best(all)])
    /\ opc' = "closing"
    /\ UNCHANGED <<search, execute, sweep, made, good, oret, ocalls, ocrashes>>

Judge ==
    /\ opc = "closing"
    /\ IF ~execute THEN SaveSearch([omem EXCEPT !.status = "planned"]) /\ OReturn("planned")
       ELSE IF CompletedAt(omem.seen) = {} THEN SaveSearch([omem EXCEPT !.status = "failed"]) /\ OReturn("failed")
       ELSE opc' = "proposing" /\ UNCHANGED <<omem, ofile, oret>>
    /\ UNCHANGED <<search, execute, sweep, made, good, ocalls, ocrashes>>

\* Mutant: the loop ends with its rounds only.
FinishRounds ==
    /\ opc = "proposing" /\ Len(omem.rounds) >= MaxRounds
    /\ SaveSearch([omem EXCEPT !.status = "completed"]) /\ OReturn("completed")
    /\ UNCHANGED <<search, execute, sweep, made, good, ocalls, ocrashes>>

\* The loop is over.
Finish ==
    /\ opc = "proposing" /\ ~InBudget
    /\ SaveSearch([omem EXCEPT !.status = "completed"]) /\ OReturn("completed")
    /\ UNCHANGED <<search, execute, sweep, made, good, ocalls, ocrashes>>

SearchCrash ==
    /\ opc # "idle" /\ ocrashes < MaxSearchCrashes /\ ocrashes' = ocrashes + 1
    /\ opc' = "idle" /\ oret' = "none"
    /\ UNCHANGED <<search, ofile, omem, execute, sweep, made, good, ocalls>>

Work == Propose \/ CaseStarts \/ CaseEnds \/ CloseRound \/ Judge \/ Finish
OptimizerNext ==
    \/ \E e \in Modes, o \in {b \in BOOLEAN : b => search \in Overwritten} : Call(e, o)
    \/ Work \/ SearchCrash
OptimizerSpec == OptimizerInit /\ [][OptimizerNext]_ovars /\ WF_ovars(Work)

-----------------------------------------------------------------------------
\* The budgets count what was tried under the id, over all its calls.
WithinBudgets == Len(ofile.rounds) <= MaxRounds /\ Len(ofile.seen) <= MaxCases

\* "skip parameter combinations that were already evaluated when a long run is
\* resumed" (docs/multidim_optimizer.md:5).
NoPointTwice ==
    LET tried == Executed(ofile.seen)
    IN  \A n, k \in DOMAIN tried : tried[n].at = tried[k].at => n = k

\* best_observation is a completed one, and none is better.
BestIsBest ==
    /\ ofile.best # 0 => ofile.best \in CompletedAt(ofile.seen)
    /\ \A n \in CompletedAt(ofile.seen) :
         ofile.best # 0 /\ ofile.seen[ofile.best].objective <= ofile.seen[n].objective

\* An executing call never drops a completed observation: "completed
\* observations are kept" (docs/multidim_optimizer.md:63).
CompletedKept ==
    search \notin Overwritten =>
       \A n \in CompletedAt(ofile.seen) : \E k \in DOMAIN ofile'.seen : ofile'.seen[k] = ofile.seen[n]

\* A call that does not die returns.
OptimizerReturns == (opc # "idle") ~> (opc = "idle")

\* A search keeps to its budgets, tries no point twice and names its best case,
\* over all the calls of its id.
SearchInvariant == OptimizerTypeOK /\ WithinBudgets /\ NoPointTwice /\ BestIsBest
=============================================================================
