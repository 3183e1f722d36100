--------------------------- MODULE AutonomousAgent ---------------------------
(***************************************************************************)
(* The agent loop of src/tcad_agent/autonomous_devsim_agent.py: a process  *)
(* that decides one action, executes it, records the step in               *)
(* agent_state.json and repeats, until it completes, waits for the user,   *)
(* fails, is cancelled or runs out of steps.  The action is the first row  *)
(* of a fixed policy whose condition holds; with an LLM the model chooses  *)
(* instead, unless the policy's action is one of the queued or mandatory   *)
(* ones.                                                                   *)
(*                                                                         *)
(* A TCAD state file is a number, its place in `evidence`, which holds     *)
(* what the agent reads in it; 0 is no file.  The state is written before  *)
(* and after every action and nowhere between, so the file and the memory  *)
(* of the process agree whenever the process can be seen, and a process    *)
(* that dies leaves `state` as it is.                                      *)
(***************************************************************************)
EXTENDS Naturals, Sequences

CONSTANTS
    Requests,        \* the requests a run may be asked for: sets of Features
    Evidence,        \* what the tools may report in the files they write
    MaxSteps(_),     \* the max_steps of a request
    MaxRefinements,  \* max_mutation_refinements
    MaxDesigns,      \* max_experiment_design_rounds
    MaxExtensions,   \* max_mutation_schema_extensions
    MaxFiles,        \* bound: state files the tools write
    MaxLaunches      \* bound: launches of the process

\* What a request can ask for: the options of AutonomousDevsimRequest.
Features ==
    {"audit", "lookup", "allow_gaps", "deck", "deck_patches", "allow_unverified", "confirm",
     "remote", "project", "initial", "initial_sentaurus", "source", "refine", "guidance",
     "design", "auto_design", "extension", "promotion", "objectives", "report", "dashboard",
     "llm", "fallback", "plan_only"}

Flags ==
    {"audit", "evidence_gap", "ingested", "patched", "unverified", "onboarding",
     "onboarding_ready", "preflight", "preflight_ready", "initial_tool", "sentaurus_run",
     "user_deck", "extension_candidate"}
Artifacts == {"benchmark", "objectives", "report", "dashboard"}
Slots == {"refinement", "guidance", "decision", "experiment", "patch", "promotion"}
Plans ==
    {"decision", "decided", "refinement", "tradeoff", "srefinement", "spatch", "exhausted",
     "extension", "promotion", "experiment", "candidate"}
Counters == {"refinement", "guidance", "decision", "spatch", "design", "extension"}

Asks == {"ask_evidence", "ask_unverified", "ask_onboarding", "ask_preflight", "ask_user"}
Tools ==
    {"run_supervisor", "run_initial", "run_sentaurus", "run_sentaurus_patch", "run_user_deck",
     "run_refinement", "run_guidance", "run_candidate", "run_other", "run_repair"}
StateBound ==
    {"run_repair", "run_benchmark", "evaluate_objectives", "generate_report", "stop_success",
     "plan_decision", "plan_refinement", "plan_guidance", "plan_experiment", "plan_extension",
     "plan_promotion"}
Others ==
    {"audit_capability", "ingest_deck", "apply_deck_patch", "run_onboarding", "run_preflight",
     "plan_srefinement", "plan_sentaurus_patch", "generate_dashboard", "pareto_review", "none"}
Acts == Asks \cup Tools \cup StateBound \cup Others

Statuses == {"absent", "planned", "running", "waiting", "completed", "failed", "cancelled"}
Effects == {"none", "analysed", "tradeoff", "refine"}
Report == [tool : {"devsim", "sentaurus_run"}, bad : BOOLEAN, effect : Effects]

ASSUME RequestAssumption ==
    /\ Requests \subseteq SUBSET Features
    /\ Evidence \subseteq Report /\ Evidence # {}

ASSUME LimitAssumption ==
    /\ \A request \in Requests : MaxSteps(request) \in Nat \ {0}
    /\ {MaxRefinements, MaxDesigns, MaxExtensions, MaxFiles, MaxLaunches} \subseteq Nat

VARIABLES
    asks,      \* the features of the request
    pc,        \* "off", "check", "decide" or "execute"
    state,     \* agent_state.json
    action,    \* the action chosen last
    evidence,  \* evidence[p]: what state file p reports
    token,     \* whether the cancel file exists
    launches   \* how often the process was started

vars == <<asks, pc, state, action, evidence, token, launches>>

Has(f) == f \in asks
Did(f) == f \in state.done
Files == 0 .. Len(evidence)

Blank == [tool |-> "none", bad |-> FALSE, effect |-> "none"]

\* What the agent observes in its latest state file.
Observed == IF state.latest = 0 THEN Blank ELSE evidence[state.latest]
NeedsRepair == Observed.bad
IsSentaurus == Observed.tool = "sentaurus_run"

-----------------------------------------------------------------------------
(***************************************************************************)
(* The policy.  `todo[k]` is the action a plan has queued in slot k of the *)
(* checkpoint, `risky` the slots whose action needs a confirmation,        *)
(* `from[k]` the file plan k was last made from and `runs[k]` its counter; *)
(* `raised[k]` is how many of the steps it counted were recorded as failed.*)
(***************************************************************************)
Idle == [act |-> "none", src |-> 0, slot |-> "none", ask |-> FALSE]
Row(act, when) ==
    [when |-> when, do |-> [act |-> act, src |-> state.latest, slot |-> "none", ask |-> FALSE]]
Queue(k, act, src, when) ==
    [when |-> when /\ state.todo[k] # "none",
     do |-> [act |-> act, src |-> src, slot |-> k, ask |-> k \in state.risky]]

InitialTool == Has("initial") \/ Has("initial_sentaurus")
\* Mutant: a preflight that was attempted counts as one that passed.
BaselineDueUntilPreflight == Has("project") /\ ~Did("sentaurus_run") /\ ~Did("preflight")
BaselineDue == Has("project") /\ ~Did("sentaurus_run")
Guide == IF Has("guidance") THEN 1 ELSE state.guide

\* What a curve decision queued becomes: a Pareto review is an evaluation if
\* the request has objectives, and otherwise a question.
Reviewed(act) ==
    IF act # "pareto_review" THEN act
    ELSE IF Has("objectives") THEN "evaluate_objectives" ELSE "ask_user"

\* Deck, profile and baseline: what must be done before any state is judged.
Setup == <<
    Row("audit_capability", Has("audit") /\ ~Did("audit")),
    Row("ask_evidence", Did("evidence_gap") /\ ~Has("allow_gaps")),
    Row("ingest_deck", Has("deck") /\ ~Did("ingested")),
    [Row("apply_deck_patch", Has("deck") /\ Has("deck_patches") /\ ~Did("patched"))
        EXCEPT !.do.ask = TRUE],
    Row("ask_unverified", Did("patched") /\ Did("unverified") /\ ~Has("allow_unverified")),
    Row("run_onboarding", Has("remote") /\ ~Did("onboarding")),
    Row("ask_onboarding", Has("remote") /\ Did("onboarding") /\ ~Did("onboarding_ready")),
    Row("run_preflight", Has("initial_sentaurus") /\ BaselineDue /\ ~Did("preflight")),
    Row("ask_preflight", Has("initial_sentaurus") /\ BaselineDue /\ ~Did("preflight_ready")),
    Row("run_initial", InitialTool /\ ~Did("initial_tool")),
    Row("run_preflight", BaselineDue /\ ~Did("preflight")),
    Row("ask_preflight", BaselineDue /\ ~Did("preflight_ready")),
    Row("run_sentaurus", BaselineDue),
    Row("run_user_deck", Has("deck") /\ ~InitialTool /\ ~Did("user_deck")) >>

\* What earlier plans have queued.
Queued == <<
    Queue("refinement", "run_refinement", state.latest, Has("refine")),
    Queue("guidance", "run_guidance", state.latest, Has("refine")),
    Queue("decision", Reviewed(state.todo["decision"]), state.latest,
          state.from["decided"] = state.latest),
    Queue("experiment", state.todo["experiment"], state.from["candidate"], Has("auto_design")),
    Row("ask_user", Has("promotion") /\ state.todo["promotion"] # "none"),
    Row("plan_promotion", Has("promotion") /\ Did("extension_candidate")
                          /\ state.from["promotion"] # state.runs["extension"]),
    Queue("patch", "run_sentaurus_patch", state.latest, Has("auto_design") /\ Has("project")) >>

\* Mutant: one follow-up patch too many.
BelowMaxOffByOne(k) == state.runs[k] <= MaxRefinements
BelowMax(k) == state.runs[k] < MaxRefinements

\* New plans for the latest state, each once per state and up to its limit.
Planning == <<
    Row("run_supervisor", state.latest = 0),
    Row("plan_guidance", Guide # 0 /\ ~IsSentaurus /\ Guide # state.signed
                         /\ BelowMax("guidance")),
    Row("plan_decision", Has("llm") /\ Observed.effect # "none" /\ ~IsSentaurus
                         /\ BelowMax("decision")
                         /\ state.from["decision"] # state.latest),
    Row("plan_refinement", Observed.effect # "none" /\ ~IsSentaurus
                           /\ BelowMax("refinement")
                           /\ state.from["refinement"] # state.latest),
    [Row(Reviewed("pareto_review"), IsSentaurus /\ Observed.effect = "tradeoff"
                                    /\ state.from["tradeoff"] # state.latest)
        EXCEPT !.do.slot = "tradeoff"],
    Row("plan_srefinement", Has("design") /\ Has("project")
                            /\ IsSentaurus /\ Observed.effect = "refine"
                            /\ state.runs["design"] < MaxDesigns
                            /\ state.from["srefinement"] # state.latest),
    Row("plan_sentaurus_patch", Has("design") /\ IsSentaurus /\ Observed.effect = "none"
                                /\ state.runs["spatch"] < MaxDesigns
                                /\ state.from["spatch"] # state.latest),
    Row("plan_extension", Has("design") /\ Has("extension") /\ IsSentaurus
                          /\ state.from["exhausted"] = state.latest
                          /\ state.runs["extension"] < MaxExtensions
                          /\ state.from["extension"] # state.latest) >>

\* Repair, benchmark and the artifacts that conclude the run.
Signoff == <<
    Row("run_repair", NeedsRepair),
    Row("run_benchmark", state.made["benchmark"] = 0),
    Row("plan_experiment", Has("design") /\ state.runs["design"] < MaxDesigns
                           /\ state.from["experiment"] # state.latest),
    Row("evaluate_objectives", Has("objectives") /\ state.made["objectives"] = 0),
    Row("generate_report", Has("report") /\ state.made["report"] = 0),
    Row("generate_dashboard", Has("dashboard") /\ state.made["dashboard"] = 0),
    Row("stop_success", TRUE) >>

\* Mutant: the policy without its repair row.
PolicyWithoutRepair == Setup \o Queued \o Planning \o Tail(Signoff)
Policy == Setup \o Queued \o Planning \o Signoff

deterministic_action ==
    LET rows == Policy
        first == CHOOSE i \in 1 .. Len(rows) :
                    rows[i].when /\ \A j \in 1 .. i - 1 : ~rows[j].when
    IN  rows[first].do

-----------------------------------------------------------------------------
(***************************************************************************)
(* The choice of the next action.                                          *)
(***************************************************************************)
\* The actions of the policy the model may not replace: those a plan of the
\* model queued, and the mandatory ones.
Enforced(d) ==
    \/ d.slot = "decision"
    \/ d.act \in {"run_guidance", "run_initial", "run_onboarding", "ask_onboarding",
                  "run_preflight", "ask_preflight", "run_sentaurus", "run_sentaurus_patch",
                  "plan_promotion", "run_benchmark", "stop_success", "ask_evidence"}
    \/ /\ Has("project") /\ state.latest # 0
       /\ \/ d.act = "plan_sentaurus_patch"
          \/ d.act = "plan_extension" /\ state.from["extension"] # state.latest

\* What the model may answer with: any kind of action and any registered
\* tool, on a state file of its choice unless the kind is bound to the latest
\* one and there is one.
Answers ==
    {[act |-> a, src |-> p, slot |-> "none", ask |-> c] :
        a \in StateBound, p \in IF state.latest = 0 THEN Files ELSE {state.latest}, c \in BOOLEAN}
    \cup
    {[act |-> a, src |-> p, slot |-> "none", ask |-> c] :
        a \in {"audit_capability", "run_supervisor", "run_other", "run_initial", "run_sentaurus",
               "run_preflight", "run_onboarding", "run_user_deck", "ingest_deck",
               "apply_deck_patch", "plan_srefinement", "plan_sentaurus_patch",
               "generate_dashboard", "ask_user"},
        p \in Files, c \in BOOLEAN}

Unsafe(a) ==
    \/ a.act = "generate_report" /\ ~Has("report")
    \/ a.act = "generate_dashboard" /\ ~Has("dashboard")
    \/ a.act = "run_initial" /\ ~InitialTool

FreeChoice == Has("llm") /\ ~Enforced(deterministic_action)

decide_next_action ==
    IF FreeChoice
    THEN {a \in Answers : ~Unsafe(a)} \cup (IF Has("fallback") THEN {deterministic_action} ELSE {})
    ELSE {deterministic_action}

-----------------------------------------------------------------------------
(***************************************************************************)
(* Starting and ending the process.                                        *)
(***************************************************************************)
Unmade == [a \in Artifacts |-> 0]

\* The state of a new agent.  The only thing decided here that matters later
\* is whether the live evidence lookup verified a source.
create_initial_state(lookupPassed) ==
    [status |-> IF Has("plan_only") THEN "planned" ELSE "running",
     steps |-> 0, step |-> "none", latest |-> IF Has("source") THEN 1 ELSE 0,
     done |-> IF Has("lookup") /\ ~lookupPassed THEN {"evidence_gap"} ELSE {},
     made |-> Unmade, from |-> [k \in Plans |-> 0], runs |-> [k \in Counters |-> 0], raised |-> [k \in Counters |-> 0],
     todo |-> [k \in Slots |-> "none"], risky |-> {}, guide |-> 0, signed |-> 0]

Absent == [status |-> "absent", steps |-> 0, step |-> "none", latest |-> 0, done |-> {},
           made |-> Unmade, from |-> [k \in Plans |-> 0], runs |-> [k \in Counters |-> 0], raised |-> [k \in Counters |-> 0],
           todo |-> [k \in Slots |-> "none"], risky |-> {}, guide |-> 0, signed |-> 0]

Init ==
    /\ asks \in Requests
    /\ pc = "off"
    /\ state = Absent
    /\ action = Idle
    /\ evidence \in IF Has("source") THEN {<<e>> : e \in Evidence} ELSE {<< >>}
    /\ token = FALSE
    /\ launches = 0

Launch ==
    /\ pc = "off"
    /\ launches < MaxLaunches
    /\ pc' = "check"
    /\ launches' = launches + 1
    /\ action' = Idle
    /\ UNCHANGED <<evidence, token>>

\* A launch without --resume begins again from nothing, whatever the file holds.
LaunchFresh ==
    /\ Launch
    /\ \E passed \in BOOLEAN : state' = create_initial_state(passed)
    /\ UNCHANGED asks

LaunchResumed ==
    /\ Launch
    /\ state.status # "absent"
    /\ state' = [state EXCEPT !.status = IF Has("plan_only") THEN "planned" ELSE "running"]
    /\ UNCHANGED asks

\* A user approves what the agent waits for: the request allows it from now
\* on, and the cancel file is removed.
Approve ==
    /\ pc = "off" /\ state.status = "waiting"
    /\ ~({"confirm", "allow_unverified"} \subseteq asks)
    /\ asks' = asks \cup {"confirm", "allow_unverified"}
    /\ token' = FALSE
    /\ UNCHANGED <<pc, state, action, evidence, launches>>

Cancel ==
    /\ ~token
    /\ token' = TRUE
    /\ UNCHANGED <<asks, pc, state, action, evidence, launches>>

Leave(status) ==
    /\ pc' = "off"
    /\ state' = [state EXCEPT !.status = status]
    /\ UNCHANGED <<asks, action, evidence, token, launches>>

Live == state.status \in {"running", "planned"}
OutOfSteps == state.steps >= MaxSteps(asks)

\* The process dies; agent_state.json stays as it was written last.
Crash == pc # "off" /\ Leave(state.status)

-----------------------------------------------------------------------------
(***************************************************************************)
(* The loop.                                                               *)
(***************************************************************************)
Exhaust ==
    /\ pc = "check" /\ OutOfSteps
    /\ Leave(IF state.status = "running" THEN "failed" ELSE state.status)

ObeyCancel == pc = "check" /\ ~OutOfSteps /\ token /\ Leave("cancelled")

Check ==
    /\ pc = "check" /\ ~OutOfSteps /\ ~token
    /\ pc' = "decide"
    /\ UNCHANGED <<asks, state, action, evidence, token, launches>>

\* The model's answer is no action, and falling back is not allowed.
DecisionFails == pc = "decide" /\ FreeChoice /\ ~Has("fallback") /\ Leave("failed")

AskConfirmation ==
    /\ pc = "decide"
    /\ \E a \in decide_next_action : a.ask /\ ~Has("confirm")
    /\ Leave("waiting")

BeginStep ==
    /\ pc = "decide"
    /\ \E a \in decide_next_action :
        /\ a.ask => Has("confirm")
        /\ action' = a
    /\ LET begun == [state EXCEPT !.steps = @ + 1]
       IN  IF Has("plan_only")
           THEN /\ state' = [begun EXCEPT !.step = "planned", !.status = "planned"]
                /\ pc' = "off"
           ELSE /\ state' = [begun EXCEPT !.step = "running"]
                /\ pc' = "execute"
    /\ UNCHANGED <<asks, evidence, token, launches>>

-----------------------------------------------------------------------------
(***************************************************************************)
(* Executing the action.                                                   *)
(***************************************************************************)
Doing(act) == pc = "execute" /\ action.act = act

\* Mutant: the evaluated objectives survive a new state.
invalidate_but_objectives(s, path) ==
    IF path \in {0, s.latest} THEN s
    ELSE [s EXCEPT !.latest = path,
                   !.made = [Unmade EXCEPT !["objectives"] = s.made["objectives"]]]

\* Artifacts made from another state no longer conclude the run.
invalidate_state_dependent_signoff(s, path) ==
    IF path \in {0, s.latest} THEN s ELSE [s EXCEPT !.latest = path, !.made = Unmade]

RunsSentaurus(a) ==
    \/ a.act \in {"run_sentaurus", "run_sentaurus_patch"}
    \/ a.act = "run_initial" /\ Has("initial_sentaurus")
\* Mutant: the initial run is recorded under a key nobody reads.
ToolFlagsMisnamed(a) == IF a.act = "run_initial" THEN {"initial_run"} ELSE {}
ToolFlags(a) ==
    (IF a.act = "run_initial" \/ (RunsSentaurus(a) /\ Has("initial_sentaurus"))
     THEN {"initial_tool"} ELSE {})
    \cup (IF RunsSentaurus(a) /\ Has("project") THEN {"sentaurus_run"} ELSE {})

\* The end of a step that returned: s is the state with what the action
\* changed in it, path the state file of its result.
Complete(s, path) ==
    LET t == [invalidate_state_dependent_signoff(s, path) EXCEPT
                 !.step = "completed", !.done = @ \cup ToolFlags(action)]
        ends == t.status \in {"completed", "waiting"}
    IN  /\ state' = IF ~ends /\ token THEN [t EXCEPT !.status = "cancelled"] ELSE t
        /\ pc' = IF ends \/ token THEN "off" ELSE "check"
        /\ UNCHANGED <<asks, action, token, launches>>

CompleteHere(s, path) == Complete(s, path) /\ UNCHANGED evidence

CompleteWith(s, reports) ==
    /\ Len(evidence) < MaxFiles
    /\ \E e \in reports : evidence' = Append(evidence, e)
    /\ Complete(s, Len(evidence) + 1)

\* What the state file a tool writes may report.  Only a Sentaurus run writes
\* a Sentaurus state, and only a patch, followed by the comparison with its
\* baseline, leaves a mutation effect in it.
Reports ==
    {e \in Evidence :
        /\ e.tool = "sentaurus_run" <=> RunsSentaurus(action)
        /\ e.effect # "none" =>
              action.act \in {"run_refinement", "run_guidance", "run_repair", "run_sentaurus_patch"}}

\* A tool writes a state file of its own, names an earlier one or none.
CompleteTool(s) ==
    \/ \E path \in Files : CompleteHere(s, path)
    \/ CompleteWith(s, Reports)

\* The step raises: it is recorded as failed and ends the run.
FailWith(s) ==
    /\ pc' = "off"
    /\ state' = [s EXCEPT !.step = "failed", !.status = "failed"]
    /\ UNCHANGED <<asks, action, evidence, token, launches>>

Flagged(flags) == [state EXCEPT !.done = @ \cup flags]
Settle(s, k) == IF k \in Slots THEN [s EXCEPT !.todo[k] = "none"] ELSE s
Counted(s, ks) == [s EXCEPT !.runs = [k \in Counters |-> IF k \in ks THEN @[k] + 1 ELSE @[k]]]
\* Mutant: a plan does not record what it was made from.
PlannedUnrecorded(s, ks) == s
Planned(s, ks) == [s EXCEPT !.from = [k \in Plans |-> IF k \in ks THEN action.src ELSE @[k]]]

\* A plan queues action a in slot k, one that needs a confirmation or not.
QueuedIn(s, k, a, ask) ==
    [s EXCEPT !.todo[k] = a, !.risky = IF ask THEN @ \cup {k} ELSE @ \ {k}]

AuditCapability == Doing("audit_capability") /\ CompleteHere(Flagged({"audit"}), 0)

RunSupervisor == Doing("run_supervisor") /\ CompleteTool(state)

RunOnboarding ==
    /\ Doing("run_onboarding")
    /\ \E ready \in BOOLEAN :
        CompleteHere([state EXCEPT
            !.done = (@ \ {"onboarding_ready"}) \cup {"onboarding"}
                     \cup (IF ready THEN {"onboarding_ready"} ELSE {})], 0)

RunPreflight ==
    /\ Doing("run_preflight")
    /\ \E ready \in BOOLEAN :
        CompleteHere([state EXCEPT
            !.done = (@ \ {"preflight_ready"}) \cup {"preflight"}
                     \cup (IF ready THEN {"preflight_ready"} ELSE {})], 0)

\* The follow-up patches, and the counters they raise.
FollowUp == [run_refinement |-> "refinement", run_guidance |-> "guidance"]

\* Tools whose result queues nothing: the slot that asked for them, if one
\* did, is settled, and a follow-up patch is counted.
RunTool ==
    /\ pc = "execute"
    /\ action.act \in Tools \ {"run_supervisor", "run_user_deck", "run_repair"}
    /\ LET counted == {FollowUp[act] : act \in {action.act} \cap DOMAIN FollowUp}
       IN  CompleteTool(Counted(Settle(state, action.slot), counted))

RunRepair ==
    /\ Doing("run_repair") /\ action.src # 0
    /\ CompleteTool(Settle(state, action.slot))

RunUserDeck == Doing("run_user_deck") /\ CompleteTool(Flagged({"user_deck"}))

RunBenchmark ==
    /\ Doing("run_benchmark") /\ action.src # 0
    /\ CompleteHere([state EXCEPT !.made["benchmark"] = action.src], action.src)

EvaluateObjectives ==
    /\ Doing("evaluate_objectives") /\ action.src # 0
    /\ LET evaluated == [Settle(state, action.slot) EXCEPT !.made["objectives"] = action.src]
       IN  CompleteHere(IF action.slot = "tradeoff" THEN Planned(evaluated, {"tradeoff"})
                        ELSE evaluated, action.src)

\* Reading or patching a deck writes a deck session, suspicious if the deck
\* was not understood or a patch was only appended.
IngestDeck ==
    /\ Doing("ingest_deck") /\ Has("deck")
    /\ CompleteWith(Flagged({"ingested"}), [tool : {"devsim"}, bad : BOOLEAN, effect : {"none"}])

ApplyDeckPatch ==
    /\ Doing("apply_deck_patch") /\ Has("deck") /\ Has("deck_patches")
    /\ \E verified \in BOOLEAN :
        CompleteWith([state EXCEPT
                !.done = (@ \ {"unverified"}) \cup {"patched"}
                         \cup (IF verified THEN {} ELSE {"unverified"})],
            {[tool |-> "devsim", bad |-> ~verified, effect |-> "none"]})

\* The guidance of the nth curve decision is n + 1, that of the request 1;
\* guidance that recommends no patch is 0.
PlanCurveDecision ==
    /\ Doing("plan_decision") /\ action.src # 0
    /\ LET counted == Planned(Counted(state, {"decision"}), {"decision"})
           decided == Planned(counted, {"decided"})
       IN  \/ CompleteHere([QueuedIn(decided, "decision", "plan_guidance", FALSE)
                               EXCEPT !.guide = decided.runs["decision"] + 1], action.src)
           \/ \E next \in {"run_repair", "pareto_review"} :
                CompleteHere([QueuedIn(decided, "decision", next, FALSE)
                                EXCEPT !.guide = 0], action.src)
           \/ Has("fallback") /\ CompleteHere(counted, action.src)
           \/ ~Has("fallback") /\ FailWith(counted)

\* Only the mutation effect of a devsim state can be refined further.
PlanRefinement ==
    /\ Doing("plan_refinement") /\ action.src # 0
    /\ LET planned == Planned(state, {"refinement"})
           source == evidence[action.src]
       IN  \/ CompleteHere(planned, action.src)
           \/ /\ source.effect # "none" /\ source.tool = "devsim"
              /\ \E ask \in BOOLEAN :
                    CompleteHere(QueuedIn(planned, "refinement", "run_refinement", ask), action.src)

PlanGuidance ==
    /\ Doing("plan_guidance") /\ action.src # 0
    /\ action.slot = "decision" \/ Guide # 0
    /\ LET planned == [Settle(state, action.slot) EXCEPT
                          !.signed = IF action.slot = "decision" THEN state.guide ELSE Guide]
       IN  \/ CompleteHere(planned, action.src)
           \/ \E ask \in BOOLEAN :
                CompleteHere(QueuedIn(planned, "guidance", "run_guidance", ask), action.src)

\* Both Sentaurus planners select a risky candidate only if they were told
\* that they may, and count as a round of experiment design.
SelectPatch(s) ==
    \E ask \in BOOLEAN :
        /\ ask => Has("confirm") \/ Has("llm")
        /\ CompleteHere(QueuedIn(s, "patch", "run_sentaurus_patch", ask), action.src)

PlanSentaurusPatch ==
    /\ Doing("plan_sentaurus_patch") /\ action.src # 0
    /\ LET planned == Planned(Counted(state, {"spatch", "design"}), {"spatch", "experiment"})
       IN  \/ SelectPatch(planned)
           \/ CompleteHere(planned, action.src)
           \/ CompleteHere(Planned(planned, {"exhausted"}), action.src)

PlanSentaurusRefinement ==
    /\ Doing("plan_srefinement") /\ action.src # 0
    /\ LET planned == Planned(Counted(state, {"design"}), {"srefinement", "experiment"})
       IN  SelectPatch(planned) \/ CompleteHere(planned, action.src)

PlanSchemaExtension ==
    /\ Doing("plan_extension") /\ action.src # 0
    /\ LET planned == Planned(Counted(state, {"extension"}), {"extension"})
       IN  \/ CompleteHere(planned, action.src)
           \/ CompleteHere([planned EXCEPT !.done = @ \cup {"extension_candidate"}], action.src)

\* The extension a promotion is made from is named by its number.
PlanSchemaPromotion ==
    /\ Doing("plan_promotion") /\ state.runs["extension"] # 0
    /\ \E next \in {"none", "ask_user"} :
        CompleteHere([state EXCEPT !.todo["promotion"] = next,
                                   !.from["promotion"] = state.runs["extension"]], action.src)

\* The best candidate of an experiment design.  The effect that proposes a
\* refinement or a question may also come from a comparison with the baseline.
\* A candidate is settled by a tool or a repair, never by a plan or a question.
Candidates ==
    {<<"run_candidate", FALSE>>, <<"run_candidate", TRUE>>, <<"run_repair", FALSE>>,
     <<"plan_refinement", FALSE>>, <<"ask_user", TRUE>>}
    \cup (IF evidence[action.src].tool = "sentaurus_run" THEN {<<"plan_extension", FALSE>>} ELSE {})

PlanExperiment ==
    /\ Doing("plan_experiment") /\ action.src # 0
    /\ LET planned == Planned(Counted(state, {"design"}), {"experiment"})
       IN  \/ CompleteHere(planned, action.src)
           \/ \E c \in Candidates :
                CompleteHere(Planned(QueuedIn(planned, "experiment", c[1], c[2]), {"candidate"}),
                             action.src)

GenerateReport ==
    /\ Doing("generate_report") /\ action.src # 0
    /\ CompleteHere([state EXCEPT !.made["report"] = action.src], action.src)

GenerateDashboard ==
    /\ Doing("generate_dashboard") /\ action.src # 0
    /\ CompleteHere([state EXCEPT !.made["dashboard"] = action.src], 0)

StopSuccess ==
    Doing("stop_success") /\ CompleteHere([state EXCEPT !.status = "completed"], action.src)

AskUser ==
    /\ pc = "execute" /\ action.act \in Asks
    /\ CompleteHere([state EXCEPT !.status = "waiting"], state.latest)

\* What the branch of an action has changed in place before a later call of it
\* may raise: the counter of a follow-up patch before its effect is analysed
\* (the patch stays pending), the slot of a Sentaurus patch before its lineage
\* is read, and the flag of the audit before the promotion plan is built.
HalfDone ==
    CASE action.act = "audit_capability" -> {Flagged({"audit"})}
      [] action.act \in DOMAIN FollowUp ->
            LET k == FollowUp[action.act]
            IN  {[Counted(state, {k}) EXCEPT !.raised[k] = @ + 1]}
      [] action.act = "run_sentaurus_patch" -> {Settle(state, action.slot)}
      [] OTHER -> {}

\* Anything an action calls may raise.  The handler saves the checkpoint with
\* what the branch had already changed in it.
Raise == pc = "execute" /\ \E s \in {state} \cup HalfDone : FailWith(s)

execute_action ==
    \/ AuditCapability \/ RunSupervisor \/ RunOnboarding \/ RunPreflight \/ RunTool
    \/ RunRepair \/ RunUserDeck \/ RunBenchmark \/ EvaluateObjectives \/ IngestDeck
    \/ ApplyDeckPatch \/ PlanCurveDecision \/ PlanRefinement \/ PlanGuidance
    \/ PlanSentaurusPatch \/ PlanSentaurusRefinement \/ PlanSchemaExtension
    \/ PlanSchemaPromotion \/ PlanExperiment \/ GenerateReport \/ GenerateDashboard
    \/ StopSuccess \/ AskUser \/ Raise

Step ==
    \/ Exhaust \/ ObeyCancel \/ Check \/ DecisionFails \/ AskConfirmation \/ BeginStep
    \/ execute_action

Next == LaunchFresh \/ LaunchResumed \/ Approve \/ Cancel \/ Crash \/ Step

Spec == Init /\ [][Next]_vars

-----------------------------------------------------------------------------
(***************************************************************************)
(* Properties.                                                             *)
(***************************************************************************)
AgentState ==
    [status : Statuses, steps : Nat, step : {"none", "planned", "running", "completed", "failed"},
     latest : Nat, done : SUBSET Flags, made : [Artifacts -> Nat], from : [Plans -> Nat],
     runs : [Counters -> Nat], raised : [Counters -> Nat], todo : [Slots -> Acts], risky : SUBSET Slots,
     guide : Nat, signed : Nat]

\* Every variable has its type, and the files named in the state exist.
TypeOK ==
    /\ asks \in SUBSET Features
    /\ pc \in {"off", "check", "decide", "execute"}
    /\ state \in AgentState
    /\ state.latest \in Files /\ \A a \in Artifacts : state.made[a] \in Files
    /\ action.act \in Acts /\ action.src \in Files /\ action.ask \in BOOLEAN
    /\ evidence \in Seq(Report)
    /\ token \in BOOLEAN
    /\ launches \in 0 .. MaxLaunches

\* The benchmark, the objectives and the report the checkpoint names were made
\* from the latest state, whatever order of tools, resumes and crashes led to
\* it: a new state drops them (invalidate_state_dependent_signoff).
SignoffIsCurrent ==
    \A a \in Artifacts \ {"dashboard"} : state.made[a] \in {0, state.latest}

\* An agent of the deterministic policy completes only with a state that needs
\* no repair, that was benchmarked, and for which every requested artifact was
\* made.
SignedOff ==
    state.status = "completed" /\ ~Has("llm") =>
        /\ state.latest # 0 /\ ~NeedsRepair
        /\ state.made["benchmark"] = state.latest
        /\ Has("objectives") => state.made["objectives"] = state.latest
        /\ Has("report") => state.made["report"] = state.latest

\* Neither a crash nor a resume lets the deterministic policy run a Sentaurus
\* project whose preflight did not pass, or go past unverified evidence or an
\* unverified deck patch without permission.
GatesHold ==
    pc = "execute" /\ ~Has("llm") /\ action.act \in Tools =>
        /\ RunsSentaurus(action) /\ Has("project") => Did("preflight_ready")
        /\ Did("evidence_gap") => Has("allow_gaps")
        /\ Did("unverified") => Has("allow_unverified")

\* The deterministic policy never orders again, on the same state, what it has
\* just done: the flags and plans a step leaves are what its row asks for.
\* Repairs and the supervisor may repeat, and so may what an experiment
\* candidate orders.
NeverRepeats ==
    [][ /\ pc = "execute" /\ pc' = "check" /\ action = deterministic_action
        /\ action.act \notin {"run_repair", "run_supervisor"} /\ action.slot # "experiment"
        => deterministic_action' # action ]_vars

\* No more than max_mutation_refinements follow-up patches of either kind come
\* to an end under the deterministic policy, across crashes, resumes and the
\* states the patches write.  The limit is tested when a patch is planned and
\* counted while it is run: a patch whose step raises after that stays pending,
\* a resumed agent runs it again and counts it again, so the counter itself
\* exceeds the limit by as many as raised.  Candidates of an experiment design
\* do not obey the limit.
RefinementsWithinMax ==
    ~Has("llm") /\ ~Has("auto_design") =>
        \A k \in {"refinement", "guidance"} :
            state.runs[k] <= MaxRefinements + state.raised[k]

\* The gates and the budget of follow-up patches hold wherever a run was
\* interrupted.
LimitsHold == TypeOK /\ GatesHold /\ RefinementsWithinMax

\* What the checkpoint calls signed off is, and stays, about the latest state.
SignoffHolds == SignoffIsCurrent /\ SignedOff
=============================================================================
