-------------------------------- MODULE Repair --------------------------------
(***************************************************************************)
(* repair_executor of src/tcad_agent, with the choice of repair_agent over *)
(* a plan of repair_strategy: the calls of one execution id, one after     *)
(* another, each of which plans or executes, resumes what the last one     *)
(* left or starts over, and may die anywhere.  A round plans for the current *)
(* result, picks an action, runs the tool with the patched request in a    *)
(* directory named after the action and the round, and benchmarks the      *)
(* result, which becomes the input of the next round.                      *)
(*                                                                         *)
(* Which actions a plan holds for which issues is abstracted to a set of   *)
(* plans, in order of priority; what the model answers, to any action.     *)
(***************************************************************************)
EXTENDS Naturals, Sequences, SequencesExt, FiniteSetsExt

CONSTANTS
    Plans,        \* the action lists a plan may hold
    Answers,      \* the actions the model may answer with; {} without agent policy
    UsesAgent,    \* use_agent_policy
    MaxRounds,    \* max_rounds of every call
    RepairModes,        \* the values of execute tried
    Allows,       \* the values of allow_user_confirmation_actions tried
    MaxRepairs, MaxRepairCrashes  \* bounds

VARIABLES
    xfile,   \* repair_execution_state.json
    xmem,    \* the state of the call at work
    xpc,     \* where it is
    xexec, xallow,  \* its execute and allow_user_confirmation_actions
    xplan,   \* the plan of its round
    xmade,   \* the run directories there are: <<action name, round>>
    xran,    \* history: the actions of the call run, with its permission
    xmet,    \* history: the run of an attempt was there already
    xover,   \* history: a call started over what was there
    xcalls, xcrashes

xvars == <<xfile, xmem, xpc, xexec, xallow, xplan, xmade, xran, xmet, xover, xcalls, xcrashes>>

RepairAction == [name: STRING, confirm: BOOLEAN, review: BOOLEAN, runs: BOOLEAN]

ASSUME RepairAssumption ==
    /\ Plans \subseteq Seq(RepairAction) /\ Answers \subseteq RepairAction
    /\ {UsesAgent} \cup RepairModes \cup Allows \subseteq BOOLEAN
    /\ MaxRounds \in Nat \ {0} /\ {MaxRepairs, MaxRepairCrashes} \subseteq Nat

\* What is known of a result's benchmark: nothing, or what run_physical_benchmark
\* said; only one that failed (or is suspicious) is folded into the result.
Benches == {"none", "unsupported", "passed", "failed"}

\* A result: the attempt it is of (0, the source), whether it is completed with
\* passed quality, and its benchmark.
RepairResult == [of: 0 .. MaxRounds, good: BOOLEAN, bench: Benches]
NoResult == [of |-> 0, good |-> FALSE, bench |-> "none"]

Attempt == [name: STRING, status: {"planned", "running", "completed", "failed"}]
RepairState == [status: {"absent", "planned", "running", "completed", "waiting_for_user", "failed"},
          attempts: Seq(Attempt), current: RepairResult, final: RepairResult, limit: BOOLEAN]

RepairTypeOK ==
    /\ xfile \in RepairState /\ xmem \in RepairState
    /\ xpc \in {"idle", "looping", "starting", "running", "saving"}
    /\ xexec \in BOOLEAN /\ xallow \in BOOLEAN /\ xmet \in BOOLEAN /\ xover \in BOOLEAN
    /\ xplan \in Seq(RepairAction) /\ xran \subseteq RepairAction \X BOOLEAN
    /\ \A r \in xmade : r[2] \in 1 .. MaxRounds
    /\ xcalls \in 0 .. MaxRepairs /\ xcrashes \in 0 .. MaxRepairCrashes

\* create_initial_state; limit says that the rounds ran out.
FreshRepair(exec, source) ==
    [status |-> IF exec THEN "running" ELSE "planned", attempts |-> << >>,
     current |-> source, final |-> NoResult, limit |-> FALSE]

RepairInit ==
    /\ xfile = [FreshRepair(TRUE, NoResult) EXCEPT !.status = "absent"] /\ xmem = xfile
    /\ xpc = "idle" /\ xexec = FALSE /\ xallow = FALSE /\ xplan = << >>
    /\ xmade = {} /\ xran = {} /\ xmet = FALSE /\ xover = FALSE /\ xcalls = 0 /\ xcrashes = 0

-----------------------------------------------------------------------------
\* Mutant: the benchmark folded into the result is not looked at.
AcceptedAnyway(r) == r.good

\* is_accepted_state.
Accepted(r) == r.good /\ r.bench # "failed"

Executable(a) == (a.confirm => xallow) /\ ~a.review
Tried == {xmem.attempts[i].name : i \in DOMAIN xmem.attempts}

\* choose_action: the first executable action not tried yet, or the first one;
\* << >> when there is none.
Chosen(plan) ==
    LET can == {i \in DOMAIN plan : Executable(plan[i])}
        new == {i \in can : plan[i].name \notin Tried}
    IN  IF new # {} THEN <<plan[Min(new)]>> ELSE IF can # {} THEN <<plan[Min(can)]>> ELSE << >>

\* What repair_agent may decide: an action of the model's, or with no usable
\* answer (fallback_decision) the first action of the plan, if any.
Decisions(plan) ==
    IF ~UsesAgent THEN {<< >>}
    ELSE {<<a>> : a \in Answers} \cup {IF plan = << >> THEN << >> ELSE <<Head(plan)>>}

\* Stands for the need of the user's confirmation.
Wait == [name |-> "wait", confirm |-> TRUE, review |-> TRUE, runs |-> FALSE]

\* Mutant: an action that needs confirmation is run like any other.
PickUnconfirmed(plan, answer) == IF answer # << >> THEN answer ELSE Chosen(plan)

\* Mutant: the answer is taken though it was tried.
PickAgain(plan, answer) ==
    IF answer = << >> THEN Chosen(plan)
    ELSE IF answer[1].confirm /\ ~xallow THEN <<Wait>>
    ELSE IF Executable(answer[1]) THEN answer ELSE Chosen(plan)

\* The action of the round: the answer, unless it was tried or cannot be
\* executed; Wait when it needs confirmation.
Pick(plan, answer) ==
    IF answer = << >> \/ answer[1].name \in Tried THEN Chosen(plan)
    ELSE IF answer[1].confirm /\ ~xallow THEN <<Wait>>
    ELSE IF Executable(answer[1]) THEN answer ELSE Chosen(plan)

-----------------------------------------------------------------------------
XSave(state) == xmem' = state /\ xfile' = state

\* Mutant: a planning call is left stopped.
StopStopped(status) ==
    /\ XSave([xmem EXCEPT !.status = IF xexec THEN status ELSE "stopped"]) /\ xpc' = "idle"

\* The end of a round that stops the call, or of a planning one.
Stop(status) ==
    /\ XSave([xmem EXCEPT !.status = IF xexec THEN status ELSE "planned"]) /\ xpc' = "idle"

\* run_repair_executor: resume the state there is, or start (over what is there,
\* and beside its run directories) with a failed, suspicious or passed source.
XCall(exec, allow, resume) ==
    /\ xpc = "idle" /\ xcalls < MaxRepairs /\ xcalls' = xcalls + 1
    /\ xexec' = exec /\ xallow' = allow /\ xpc' = "looping"
    /\ IF resume /\ xfile.status # "absent"
       THEN XSave([xfile EXCEPT !.status = IF exec THEN "running" ELSE "planned"]) /\ UNCHANGED xover
       ELSE /\ \E ok \in BOOLEAN, b \in {"none", "failed"} :
                 XSave(FreshRepair(exec, [of |-> 0, good |-> ok, bench |-> b]))
            /\ xover' = (xover \/ xfile.status # "absent")
    /\ xplan' = << >> /\ xran' = {} /\ UNCHANGED <<xmade, xmet, xcrashes>>

\* Mutant: the rounds are not counted.
RoundLeftAlways == xmem.status \in {"running", "planned"}

RoundLeft == Len(xmem.attempts) < MaxRounds /\ xmem.status \in {"running", "planned"}

Looping == xpc = "looping" /\ RoundLeft

\* The current result is accepted.
Accept ==
    /\ Looping /\ Accepted(xmem.current)
    /\ XSave([xmem EXCEPT !.status = IF xexec THEN "completed" ELSE "planned", !.final = xmem.current])
    /\ xpc' = "idle"
    /\ UNCHANGED <<xexec, xallow, xplan, xmade, xran, xmet, xover, xcalls, xcrashes>>

\* Mutant: the attempt is saved only when it is over.
BeginUnsaved(a) ==
    /\ xmem' = [xmem EXCEPT !.attempts = Append(@, [name |-> a.name, status |-> "running"])]
    /\ xpc' = "starting" /\ UNCHANGED xfile

\* The attempt is saved before it runs; a planning call ends with it.
BeginAttempt(a) ==
    IF xexec
    THEN XSave([xmem EXCEPT !.attempts = Append(@, [name |-> a.name, status |-> "running"])])
         /\ xpc' = "starting"
    ELSE XSave([xmem EXCEPT !.attempts = Append(@, [name |-> a.name, status |-> "planned"])])
         /\ xpc' = "idle"

\* A round: plan, decide, and begin an attempt; or wait for the user; or fail.
PlanRound ==
    /\ Looping /\ ~Accepted(xmem.current)
    /\ \E plan \in Plans : \E answer \in Decisions(plan) :
         /\ xplan' = plan
         /\ LET pick == Pick(plan, answer)
            IN  IF pick = <<Wait>> THEN Stop("waiting_for_user") /\ UNCHANGED xran
                ELSE IF pick # << >>
                THEN BeginAttempt(pick[1]) /\ xran' = IF xexec THEN xran \cup {<<pick[1], xallow>>} ELSE xran
                ELSE /\ Stop(IF \E i \in DOMAIN plan : plan[i].confirm THEN "waiting_for_user" ELSE "failed")
                     /\ UNCHANGED xran
    /\ UNCHANGED <<xexec, xallow, xmade, xmet, xover, xcalls, xcrashes>>

\* The last attempt ends.
Ends(status) == [xmem EXCEPT !.attempts[Len(xmem.attempts)].status = status]
Running == Len(xmem.attempts)
LastRun == <<xmem.attempts[Running].name, Running>>

\* No tool of that name stops the call; a directory that is there is an
\* exception of the tool, which fails the attempt only.  A start over may be over
\* another source, whose runs are named otherwise.
StartAttempt ==
    /\ xpc = "starting"
    /\ IF \A p \in xran : p[1].name = LastRun[1] => ~p[1].runs
       THEN xmem' = [Ends("failed") EXCEPT !.status = "failed"] /\ xpc' = "saving" /\ UNCHANGED <<xmade, xmet>>
       ELSE \/ /\ LastRun \in xmade /\ xmem' = [Ends("failed") EXCEPT !.status = "running"]
               /\ xpc' = "saving" /\ xmet' = TRUE /\ UNCHANGED xmade
            \/ /\ LastRun \in xmade => xover
               /\ xmade' = xmade \cup {LastRun} /\ xpc' = "running" /\ UNCHANGED <<xmem, xmet>>
    /\ UNCHANGED <<xfile, xexec, xallow, xplan, xran, xover, xcalls, xcrashes>>

\* What an attempt that ran may leave in current: its result, completed with
\* passed quality or not, and what is known of its benchmark.
Result(ok, bench) == [of |-> Running, good |-> ok, bench |-> bench]

\* The tool raises, or its benchmark does, when the result is already the current
\* one; or it names no state; or its result is benchmarked and becomes the
\* current one, and the final one when it passes both.
EndAttempt ==
    /\ xpc = "running" /\ xpc' = "saving"
    /\ \/ xmem' = [Ends("failed") EXCEPT !.status = "running"]
       \/ \E ok \in BOOLEAN :
            xmem' = [Ends("failed") EXCEPT !.status = "running", !.current = Result(ok, "none")]
       \/ xmem' = [Ends("completed") EXCEPT !.status = "failed"]
       \/ \E ok \in BOOLEAN, b \in Benches \ {"none"} :
            xmem' = IF ok /\ b = "passed"
                    THEN [Ends("completed") EXCEPT !.status = "completed",
                                                   !.current = Result(ok, b), !.final = Result(ok, b)]
                    ELSE [Ends("completed") EXCEPT !.status = "running", !.current = Result(ok, b)]
    /\ UNCHANGED <<xfile, xexec, xallow, xplan, xmade, xran, xmet, xover, xcalls, xcrashes>>

SaveRound ==
    /\ xpc = "saving" /\ xfile' = xmem
    /\ xpc' = IF xmem.status \in {"completed", "failed"} THEN "idle" ELSE "looping"
    /\ UNCHANGED <<xmem, xexec, xallow, xplan, xmade, xran, xmet, xover, xcalls, xcrashes>>

\* Mutant: only an executing call ends here.
OutOfRoundsExecuting ==
    /\ xpc = "looping" /\ ~RoundLeft /\ xmem.status = "running"
    /\ XSave([xmem EXCEPT !.status = "failed", !.limit = TRUE]) /\ xpc' = "idle"
    /\ UNCHANGED <<xexec, xallow, xplan, xmade, xran, xmet, xover, xcalls, xcrashes>>

\* "maximum repair rounds reached".
OutOfRounds ==
    /\ xpc = "looping" /\ ~RoundLeft
    /\ XSave(IF xmem.status = "running" THEN [xmem EXCEPT !.status = "failed", !.limit = TRUE] ELSE xmem)
    /\ xpc' = "idle"
    /\ UNCHANGED <<xexec, xallow, xplan, xmade, xran, xmet, xover, xcalls, xcrashes>>

XCrash ==
    /\ xpc # "idle" /\ xcrashes < MaxRepairCrashes /\ xcrashes' = xcrashes + 1 /\ xpc' = "idle"
    /\ UNCHANGED <<xfile, xmem, xexec, xallow, xplan, xmade, xran, xmet, xover, xcalls>>

XWork == Accept \/ PlanRound \/ StartAttempt \/ EndAttempt \/ SaveRound \/ OutOfRounds
RepairNext == (\E e \in RepairModes, a \in Allows, r \in BOOLEAN : XCall(e, a, r)) \/ XWork \/ XCrash
RepairSpec == RepairInit /\ [][RepairNext]_xvars /\ WF_xvars(XWork)

-----------------------------------------------------------------------------
\* The budget of rounds holds over a start and all the calls that resume it; a
\* call that starts over has a budget of its own.
RoundsWithinMax == Len(xfile.attempts) <= MaxRounds

\* A repair completes with a result whose quality passed and whose benchmark, by
\* whoever ran it last, does not say otherwise.  A repaired result without one is
\* of an attempt that failed, when the benchmark raised; it is accepted by the next
\* round, as one whose benchmark is "unsupported" is, though
\* docs/repair_executor.md:7 wants the "post-repair physical benchmark" passed.
AcceptedPassed ==
    xfile.status = "completed" =>
        LET final == xfile.final
        IN  /\ final.good /\ final.bench # "failed"
            /\ final.bench = "none" /\ final.of # 0 => xfile.attempts[final.of].status = "failed"

\* "a repair action requires user confirmation" stops the loop
\* (docs/repair_executor.md:8): none is run by a call that does not allow it.
SensitiveIsAllowed == \A p \in xran : p[1].confirm => p[2]

\* Attempts of one start, over its calls and deaths, run in fresh directories: a
\* dead attempt used up its round.  Only a call that starts over an id (as the
\* mission agent's does, mission_agent.py:1523-1531) meets old ones.
RunsAreFresh == xmet => xover

\* An action is tried again only when the plan has no other that can be.
NoRepeatWhileUntried ==
    Len(xmem'.attempts) = Len(xmem.attempts) + 1 /\ Last(xmem'.attempts).name \in Tried
        => \A i \in DOMAIN xplan' : Executable(xplan'[i]) => xplan'[i].name \in Tried

\* A call that does not die returns.
RepairReturns == (xpc # "idle") ~> (xpc = "idle")

\* A repair keeps to its rounds and its permissions, in directories of its own as
\* long as no call starts over, and completes only over a result that passed.
RepairInvariant == RepairTypeOK /\ RoundsWithinMax /\ AcceptedPassed /\ SensitiveIsAllowed /\ RunsAreFresh
=============================================================================
