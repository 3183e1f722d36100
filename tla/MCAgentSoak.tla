---------------------------- MODULE MCAgentSoak -----------------------------
(***************************************************************************)
(* Instances of AgentSoak for TLC.                                         *)
(***************************************************************************)
EXTENDS AgentSoak

\* A soak with recovery, a guided one with a deadline and one without, and one
\* that plans.
MCRequests == {
    {"execute", "recovery", "resume"},
    {"execute", "timed", "guided", "recovery", "fallback"},
    {"execute", "guided", "resume"},
    {"resume", "timed"} }
=============================================================================
