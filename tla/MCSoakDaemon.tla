---------------------------- MODULE MCSoakDaemon -----------------------------
(***************************************************************************)
(* Instances of SoakDaemon for TLC: daemons that share one soak item, next *)
(* to an item of higher priority that is not theirs.                       *)
(***************************************************************************)
EXTENDS SoakDaemon

CONSTANTS i1, i2, w1, w2, c1

MCOwner == [p \in Workers |-> p]
MCRank == [i \in Items |-> IF i = i1 THEN 2 ELSE 1]
MCSoakItem == [d \in Daemons |-> i1]
TwoAttempts == [i \in Items |-> 2]

\* Either two daemons with an idle limit of two share the soak item, one of
\* which may die, or one daemon of any limits finds the other item before its
\* own.
Alone ==
    /\ row'[i2].status # "absent" => at'[w2] = "off" /\ crashes' = 0
    /\ \A d \in Daemons : at'[w2] # "off" /\ at'[d] # "off" => limit'[d] = {2}
MCDaemonSpec ==
    /\ DaemonInit /\ [][DaemonNext /\ Alone]_DaemonVars
    /\ \A d \in Daemons : WF_DaemonVars(DaemonStep(d))
=============================================================================
