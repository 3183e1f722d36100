-------------------------- MODULE MCAutonomousAgent --------------------------
(***************************************************************************)
(* Instances of AutonomousAgent for TLC.                                   *)
(***************************************************************************)
EXTENDS AutonomousAgent

Devsim(bad, effect) == [tool |-> "devsim", bad |-> bad, effect |-> effect]
Sentaurus(bad, effect) == [tool |-> "sentaurus_run", bad |-> bad, effect |-> effect]

MCEvidence ==
    {Devsim(FALSE, "none"), Devsim(TRUE, "none"), Devsim(FALSE, "analysed"),
     Sentaurus(FALSE, "none"), Sentaurus(FALSE, "tradeoff"), Sentaurus(FALSE, "refine")}

\* A devsim flow, a user deck, a remote Sentaurus project, a Sentaurus initial
\* tool, follow-up patches of an existing state, a plan without execution, and
\* an agent the model steers.
MCRequests == {
    {"audit", "initial", "objectives", "report", "dashboard"},
    {"lookup", "deck", "deck_patches", "report"},
    {"remote", "project", "design", "auto_design", "objectives"},
    {"initial_sentaurus", "project", "design", "extension", "promotion", "auto_design"},
    {"source", "refine", "guidance", "report"},
    {"source", "plan_only"},
    {"llm", "fallback", "audit", "guidance"},
    {"llm", "source"} }

\* A Sentaurus project steered by the model.
GateRequests == {{"llm", "project", "audit"}}

\* Enough steps for each flow to reach its end; what the model may choose in
\* a step does not depend much on how many steps preceded it.
MCMaxSteps(request) ==
    IF "llm" \notin request THEN 10 ELSE IF "fallback" \in request THEN 2 ELSE 1
=============================================================================
