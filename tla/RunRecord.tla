----------------------------- MODULE RunRecord ------------------------------
(***************************************************************************)
(* What a run id promises to those who only read its state.json: the run   *)
(* appears as running, gathers attempts that are never taken back, may     *)
(* fail and be resumed, and is completed at most once, by an attempt that  *)
(* completed, and for good.  SweepTool implements it, with everything      *)
(* about its calls, their crashes and the runner hidden.                   *)
(***************************************************************************)
EXTENDS Naturals, Sequences

VARIABLES
    status,   \* status in state.json, absent while there is none
    outcomes  \* the status of each attempt in it

record == <<status, outcomes>>

RecordInit == status = "absent" /\ outcomes = << >>

Appear == status = "absent" /\ status' = "running" /\ UNCHANGED outcomes

\* An attempt starts while the run is not completed; one that was at work when its
\* call died stays as it is, and so does one that completed and was not judged.
StartAttempt ==
    /\ status \in {"running", "failed"} /\ UNCHANGED status
    /\ outcomes' = Append(outcomes, "running")

EndAttempt ==
    /\ status \in {"running", "failed"} /\ UNCHANGED status
    /\ outcomes # << >> /\ outcomes[Len(outcomes)] = "running"
    /\ \E o \in {"completed", "failed"} : outcomes' = [outcomes EXCEPT ![Len(outcomes)] = o]

Complete ==
    /\ status \in {"running", "failed"} /\ status' = "completed"
    /\ outcomes # << >> /\ outcomes[Len(outcomes)] = "completed" /\ UNCHANGED outcomes

Fail == status = "running" /\ status' = "failed" /\ UNCHANGED outcomes

RecordNext == Appear \/ StartAttempt \/ EndAttempt \/ Complete \/ Fail
RecordSpec == RecordInit /\ [][RecordNext]_record
=============================================================================
