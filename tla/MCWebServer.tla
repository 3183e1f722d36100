---------------------------- MODULE MCWebServer -----------------------------
(***************************************************************************)
(* Instances of WebServer for TLC: a server, that is an event loop and two *)
(* thread identities, and a worker outside of it.                          *)
(***************************************************************************)
EXTENDS WebServer

CONSTANTS i1, s1, m1, t1, t2, x1, c1, owner

MCMain == [s \in Servers |-> m1]
MCThreads == [s \in Servers |-> {t1, t2}]
MCWebOwner == owner
MCOwner == [p \in Workers |-> IF p = x1 THEN x1 ELSE owner]
MCRank == [i \in Items |-> 1]
TwoAttempts == [i \in Items |-> 2]
=============================================================================
