------------------------------ MODULE AgentSoak ------------------------------
(***************************************************************************)
(* The long-running wrapper of src/tcad_agent/agent_soak.py: a process     *)
(* that runs the autonomous agent in slices of its steps until it is done, *)
(* with the recovery decisions of agent_recovery.py between the slices.    *)
(*                                                                         *)
(* Three files outlive the process: its own state (`file`), the state of   *)
(* the agent (`agent`) and the cancel file.  `soak` is what the process    *)
(* knows; it is written at the start, after a cycle and at the end, so a   *)
(* process that dies loses what it learnt since.  A run of the agent is    *)
(* one step that ends in any of the ways AutonomousAgent allows.           *)
(***************************************************************************)
EXTENDS Naturals

CONSTANTS
    Requests,     \* what a process may be launched with: sets of Options
    MaxSteps,     \* max_steps
    Slice,        \* step_slice
    MaxAttempts,  \* max_recovery_attempts
    MaxGuided,    \* max_curve_guided_patches
    Reasons,      \* bound: the kinds of failure the agent meets
    MaxLaunches   \* bound: launches of the process

\* "timed": duration_hours is not 0; "guided": curve guidance is on and executed
\* automatically; "recovery": enable_recovery; "fallback": allow_llm_fallback.
Options == {"resume", "execute", "timed", "guided", "recovery", "fallback"}

\* The failure families of classify_failure_family; the family of a reason it
\* does not recognise depends on whether there were steps.
Families ==
    {"llm_transport", "llm_schema", "step_slice_exhausted", "simulator_convergence",
     "output_missing", "physical_quality", "cancelled", "unknown"}

AgentStatuses == {"absent", "torn", "running", "planned", "completed", "waiting", "failed", "cancelled"}
SoakStatuses ==
    {"absent", "running", "completed", "waiting", "cancelled", "failed", "timed_out",
     "max_steps_reached"}

ASSUME RequestAssumption ==
    /\ Requests \subseteq SUBSET Options
    /\ Reasons \subseteq Families \ {"step_slice_exhausted"}
ASSUME LimitAssumption ==
    /\ {MaxSteps, Slice} \subseteq Nat \ {0}
    /\ {MaxAttempts, MaxGuided, MaxLaunches} \subseteq Nat

VARIABLES
    pc,        \* "off", "top", "cycle", "judge", "remember" or "finish"
    asks,      \* the options of the process
    soak,      \* what the process knows of its own state
    file,      \* agent_soak_state.json
    agent,     \* autonomous_devsim_agent_state.json
    cap,       \* the max_steps of the slice
    error,     \* the exception the run of the agent raised, "none" if it returned
    token,     \* whether the cancel file exists
    late,      \* whether the duration is over
    memories,  \* records appended to the agent memory
    launches,  \* how often a process was started
    retries,   \* history: retries by family since the state was created
    losses     \* history: states created and processes that died

vars == <<pc, asks, soak, file, agent, cap, error, token, late, memories, launches, retries, losses>>
outside == <<token, late, memories, launches, losses>>

Has(option) == option \in asks

\* A state of the process; `seen` counts the recovery events of each family, as
\* far as it decides anything.
Fresh == [status |-> "running", steps |-> 0, remembered |-> FALSE, seen |-> [f \in Families |-> 0]]
NoState == [Fresh EXCEPT !.status = "absent"]
NoAgent == [status |-> "absent", reason |-> "none", steps |-> 0, guided |-> 0]

Init ==
    /\ pc = "off" /\ asks = {}
    /\ soak = NoState /\ file = NoState /\ agent = NoAgent
    /\ cap = 0 /\ error = "none" /\ token = FALSE /\ late = FALSE
    /\ memories = 0 /\ launches = 0 /\ losses = 0
    /\ retries = [f \in Families |-> 0]

\* The process is gone and what it knew with it.
Forget == soak' = NoState /\ cap' = 0 /\ error' = "none" /\ late' = FALSE

-----------------------------------------------------------------------------
\* Without --resume, or without a state file, the state begins anew; the agent
\* of an earlier soak is continued all the same.
Launch ==
    /\ pc = "off" /\ launches < MaxLaunches
    /\ launches' = launches + 1
    /\ asks' \in Requests
    /\ LET resumed == "resume" \in asks' /\ file.status # "absent"
       IN  /\ soak' = IF resumed THEN [file EXCEPT !.status = "running"] ELSE Fresh
           /\ retries' = IF resumed THEN retries ELSE [f \in Families |-> 0]
           /\ losses' = IF resumed THEN losses ELSE losses + 1
    /\ file' = soak'
    /\ pc' = "top"
    /\ UNCHANGED <<agent, cap, error, token, late, memories>>

Leave(status) ==
    /\ soak' = [soak EXCEPT !.status = status]
    /\ pc' = "remember"
    /\ UNCHANGED <<asks, file, agent, cap, error, retries, outside>>

Overdue == Has("timed") /\ late

\* A state file that does not parse counts for the steps last seen.
ExistingSteps == IF agent.status = "torn" THEN soak.steps ELSE agent.steps

\* Mutant: the cancel file is looked for before the first step only.
CancelledFirst == token /\ soak.steps = 0
Cancelled == token

ObeyCancel == pc = "top" /\ Cancelled /\ Leave("cancelled")
TimeOut == pc = "top" /\ ~Cancelled /\ Overdue /\ Leave("timed_out")
ReachMaxSteps ==
    pc = "top" /\ ~Cancelled /\ ~Overdue /\ ExistingSteps >= MaxSteps /\ Leave("max_steps_reached")

\* Mutant: the slice may be empty.
SliceUnlessFull(existing) == IF existing % Slice = 0 /\ existing > 0 THEN existing ELSE existing + Slice

\* Mutant: the slice may end beyond max_steps.
SliceUnlimited(existing) == existing + Slice
SliceEnd(existing) == IF existing + Slice > MaxSteps THEN MaxSteps ELSE existing + Slice

BeginCycle ==
    /\ pc = "top" /\ ~Cancelled /\ ~Overdue /\ ExistingSteps < MaxSteps
    /\ cap' = SliceEnd(ExistingSteps)
    /\ pc' = "cycle"
    /\ UNCHANGED <<asks, soak, file, agent, error, retries, outside>>

-----------------------------------------------------------------------------
(***************************************************************************)
(* A run of the agent, resumed if it has a state file or the soak was.     *)
(***************************************************************************)
CannotStart == agent.status = "torn" \/ (agent.status = "absent" /\ Has("resume"))

AgentReturns(status, reason, steps, guided) ==
    /\ pc = "cycle" /\ ~CannotStart
    /\ agent' = [status |-> status, reason |-> reason, steps |-> steps, guided |-> guided]
    /\ pc' = "judge" /\ cap' = 0
    /\ UNCHANGED <<asks, soak, file, error, retries, outside>>

\* Steps the slice can add, and the guided patches among them.
Progress == {n \in 0 .. MaxSteps : agent.steps <= n /\ n <= cap}
Guided(steps) ==
    {g \in 0 .. MaxGuided : agent.guided <= g /\ (steps = agent.steps => g = agent.guided)}

\* It stops with a step of its own, pauses or obeys the cancel file before or
\* after a step, fails in a decision or in a step, or uses the slice up.  With
\* execute off it plans one step.
AgentCompletes ==
    /\ Has("execute")
    /\ \E n \in Progress \ {agent.steps} :
        \E g \in Guided(n) : AgentReturns("completed", "none", n, g)
AgentPauses == \E n \in Progress : \E g \in Guided(n) : AgentReturns("waiting", "none", n, g)
AgentObeysCancel ==
    token /\ \E n \in Progress : \E g \in Guided(n) : AgentReturns("cancelled", "none", n, g)
AgentFails ==
    \E r \in Reasons, n \in Progress : \E g \in Guided(n) : AgentReturns("failed", r, n, g)
AgentUsesSlice ==
    Has("execute") /\ \E g \in Guided(cap) : AgentReturns("failed", "step_slice_exhausted", cap, g)
AgentPlans ==
    ~Has("execute") /\ AgentReturns("planned", "none", agent.steps + 1, agent.guided)

\* The run raises: there is nothing to resume, the state file is torn (a
\* message about JSON), or the payload is refused.
AgentRaises ==
    /\ pc = "cycle"
    /\ error' = IF agent.status = "torn" THEN "llm_schema" ELSE "unknown"
    /\ pc' = "judge" /\ cap' = 0
    /\ UNCHANGED <<asks, soak, file, agent, retries, outside>>

RunAgent ==
    \/ AgentCompletes \/ AgentPauses \/ AgentObeysCancel \/ AgentFails \/ AgentUsesSlice
    \/ AgentPlans \/ AgentRaises

-----------------------------------------------------------------------------
(***************************************************************************)
(* What follows from the run.                                              *)
(***************************************************************************)
\* The family of a failure reported as "failed" after that many steps.
classify_failure_family(reason, steps) ==
    IF reason \in {"unknown", "cancelled"} /\ steps > 0 THEN "physical_quality" ELSE reason

\* Bound: the events beyond the last attempt are not counted.
Seen(family) ==
    [soak.seen EXCEPT ![family] = IF @ < MaxAttempts THEN @ + 1 ELSE @]
Spent(family) == soak.seen[family] >= MaxAttempts
Retries(family) ==
    /\ Has("recovery") /\ ~Spent(family)
    /\ family \notin {"cancelled", "step_slice_exhausted"}
Pauses(family) ==
    Spent(family) /\ (family = "unknown" \/ (family = "llm_schema" /\ ~Has("fallback")))

\* Mutant: an agent that used its slice up has failed like any other.
terminal_of_status ==
    IF agent.status \in {"completed", "waiting", "cancelled", "failed"} THEN agent.status ELSE "none"

\* The end the status of the agent means for the soak, "none" if it means none.
terminal_soak_status ==
    CASE agent.status \in {"completed", "waiting", "cancelled"} -> agent.status
      [] agent.status = "failed" /\ agent.reason # "step_slice_exhausted" -> "failed"
      [] OTHER -> "none"

\* Mutant: the recovery event is not saved before the cycle is run again.
RetryUnsaved(known, family) ==
    /\ soak' = known /\ file' = file
    /\ retries' = [retries EXCEPT ![family] = @ + 1]
    /\ pc' = "top" /\ error' = "none"

Retry(known, family) ==
    /\ soak' = known /\ file' = known
    /\ retries' = [retries EXCEPT ![family] = @ + 1]
    /\ pc' = "top" /\ error' = "none"

\* Whether the agent's latest curve recommends a patch that may still be run.
\* The test does not look at how the agent ended.
MayBeGuided == Has("guided") /\ agent.guided < MaxGuided /\ agent.steps < MaxSteps

Conclude(known, status) ==
    /\ soak' = [known EXCEPT !.status = status] /\ file' = soak'
    /\ pc' = IF status = "running" THEN "top" ELSE "remember"
    /\ UNCHANGED <<retries, error>>

\* The agent returned.
Judge ==
    /\ pc = "judge" /\ error = "none"
    /\ \E continue \in IF MayBeGuided THEN BOOLEAN ELSE {FALSE} :
        LET end == terminal_soak_status
            failed == end = "failed"
            family == classify_failure_family(agent.reason, agent.steps)
            known == [soak EXCEPT !.steps = agent.steps,
                                  !.seen = IF failed THEN Seen(family) ELSE @]
        IN  IF failed /\ Retries(family) THEN Retry(known, family)
            ELSE IF continue THEN Conclude(known, "running")
            ELSE IF end # "none" THEN Conclude(known, end)
            ELSE IF agent.reason = "step_slice_exhausted" /\ agent.steps >= MaxSteps
                 THEN Conclude(known, "max_steps_reached")
                 ELSE Conclude(known, "running")
    /\ UNCHANGED <<asks, agent, cap, outside>>

\* The run raised.  If it is not tried again only the last write saves that.
JudgeError ==
    /\ pc = "judge" /\ error # "none"
    /\ LET family == classify_failure_family(error, soak.steps)
           known == [soak EXCEPT !.seen = Seen(family)]
       IN  IF Retries(family) THEN Retry(known, family)
           ELSE /\ soak' = [known EXCEPT !.status = IF Pauses(family) THEN "waiting" ELSE "failed"]
                /\ pc' = "remember"
                /\ UNCHANGED <<file, retries, error>>
    /\ UNCHANGED <<asks, agent, cap, outside>>

\* Mutant: every end is recorded.
RememberAlways ==
    /\ pc = "remember" /\ pc' = "finish"
    /\ soak' = [soak EXCEPT !.remembered = TRUE]
    /\ memories' = memories + 1
    /\ UNCHANGED <<asks, file, agent, cap, error, token, late, launches, retries, losses>>

\* The end is recorded in the agent memory, unless the state names a record.
Remember ==
    /\ pc = "remember" /\ pc' = "finish"
    /\ soak' = [soak EXCEPT !.remembered = TRUE]
    /\ memories' = IF soak.remembered THEN memories ELSE memories + 1
    /\ UNCHANGED <<asks, file, agent, cap, error, token, late, launches, retries, losses>>

Finish ==
    /\ pc = "finish" /\ pc' = "off"
    /\ file' = soak
    /\ Forget
    /\ UNCHANGED <<asks, agent, retries, token, memories, launches, losses>>

-----------------------------------------------------------------------------
(***************************************************************************)
(* The environment.                                                        *)
(***************************************************************************)
\* The process dies; in the middle of a slice it leaves an agent that was
\* running, its state file possibly half written.
Crash ==
    /\ pc # "off"
    /\ pc' = "off"
    /\ losses' = losses + 1
    /\ Forget
    /\ \/ UNCHANGED agent
       \/ /\ pc = "cycle" /\ ~CannotStart
          /\ \E n \in Progress, s \in {"running", "torn"} :
                agent' = [agent EXCEPT !.status = s, !.reason = "none", !.steps = n]
    /\ UNCHANGED <<asks, file, token, memories, launches, retries>>

Cancel ==
    /\ ~token /\ token' = TRUE
    /\ UNCHANGED <<pc, asks, soak, file, agent, cap, error, late, memories, launches, retries, losses>>

\* An approval removes the cancel file.
Approve ==
    /\ pc = "off" /\ token /\ token' = FALSE
    /\ UNCHANGED <<pc, asks, soak, file, agent, cap, error, late, memories, launches, retries, losses>>

Elapse ==
    /\ pc # "off" /\ Has("timed") /\ ~late /\ late' = TRUE
    /\ UNCHANGED <<pc, asks, soak, file, agent, cap, error, token, memories, launches, retries, losses>>

Step ==
    \/ ObeyCancel \/ TimeOut \/ ReachMaxSteps \/ BeginCycle \/ RunAgent \/ Judge \/ JudgeError
    \/ Remember \/ Finish

Next == Launch \/ Step \/ Crash \/ Cancel \/ Approve \/ Elapse

Spec == Init /\ [][Next]_vars

\* The agent returns or raises, and time passes.
FairSpec == Spec /\ WF_vars(Step) /\ WF_vars(Elapse)

-----------------------------------------------------------------------------
(***************************************************************************)
(* Properties.                                                             *)
(***************************************************************************)
SoakState ==
    [status : SoakStatuses, steps : 0 .. MaxSteps, remembered : BOOLEAN, seen : [Families -> 0 .. MaxAttempts]]

\* Every variable has its type, and the agent stays within the steps it is given.
TypeOK ==
    /\ pc \in {"off", "top", "cycle", "judge", "remember", "finish"}
    /\ asks \in SUBSET Options
    /\ soak \in SoakState /\ file \in SoakState
    /\ agent \in [status : AgentStatuses, reason : Families \cup {"none"},
                  steps : 0 .. MaxSteps, guided : 0 .. MaxGuided]
    /\ cap \in 0 .. MaxSteps /\ error \in {"none", "llm_schema", "unknown"}
    /\ token \in BOOLEAN /\ late \in BOOLEAN
    /\ memories \in Nat /\ launches \in 0 .. MaxLaunches /\ losses \in Nat
    /\ retries \in [Families -> Nat]

\* No kind of failure is retried more often than max_recovery_attempts, however
\* often the process dies and is resumed.
RetriesBounded == \A f \in Families : retries[f] <= MaxAttempts

\* A slice that is used up, a process that died or another launch never passes
\* for an end of the agent: a soak that says it completed has an agent that did,
\* and one that says it failed has an agent that failed for a reason of its own
\* or could not be run.
EndMatchesAgent ==
    /\ pc \in {"remember", "finish"} =>
        /\ soak.status = "failed" => error # "none"
                                     \/ (agent.status = "failed" /\ agent.reason # "step_slice_exhausted")
        /\ soak.status = "max_steps_reached" => agent.steps = MaxSteps
    /\ pc = "off" /\ file.status = "completed" => agent.status = "completed"

\* A soak state is recorded in the agent memory at most once, but for a process
\* that dies between the record and the write that names it.
RecordedOnce == memories <= losses

\* Every soak ends: by its deadline, or without curve guidance because each
\* cycle takes a step or uses up a retry.
SoakEnds == (pc # "off" /\ (Has("timed") \/ ~Has("guided"))) ~> pc = "off"

\* The cancel file ends any soak, one included whose agent is run again for
\* ever because the same curve keeps recommending a patch.
CancelEnds == (pc # "off" /\ token) ~> pc = "off"

\* No soak is without an end: its own, or the cancel file's.
SoakIsFinite == SoakEnds /\ CancelEnds
=============================================================================
