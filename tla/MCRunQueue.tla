----------------------------- MODULE MCRunQueue -----------------------------
(***************************************************************************)
(* Instances of RunQueue for TLC.  Two items of different priority, and    *)
(* workers with owner names of their own; the .cfg files choose how many.  *)
(***************************************************************************)
EXTENDS RunQueue

CONSTANTS i1, i2, w1, w2, w3, c1, c2

MCOwner == [p \in Workers |-> p]
MCRank == [i \in Items |-> IF i = i1 THEN 1 ELSE 2]
OneAttempt == [i \in Items |-> 1]
TwoAttempts == [i \in Items |-> 2]
SomeAttempts == [i \in Items |-> IF i = i1 THEN 2 ELSE 1]
=============================================================================
