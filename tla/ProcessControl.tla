---------------------------- MODULE ProcessControl ----------------------------
(***************************************************************************)
(* run_cancellable of src/tcad_agent/process_control.py: a child process   *)
(* polled once per interval, a timeout, and a cancel file that another     *)
(* process may write or remove at any time.                                *)
(*                                                                         *)
(* communicate() returns when the child has exited and nothing holds its   *)
(* pipes any more, so a grandchild that inherited them keeps it waiting.   *)
(* One tick of the clock is one poll interval; a Python timeout is checked *)
(* only between two polls.                                                 *)
(***************************************************************************)
EXTENDS Integers

CONSTANTS
    Timeouts,     \* the timeouts of the calls tried, in ticks; NoTimeout is none
    Grace,        \* terminate_grace_seconds in ticks
    Grandchildren \* whether a grandchild may inherit the pipes

NoTimeout == 0

\* Bound: the clock stops one tick after the last one the code looks at.
MaxClock == (CHOOSE t \in Timeouts : \A u \in Timeouts : u <= t) + Grace + 1

\* The timeouts tried have a greatest one.
ASSUME ProcessAssumption ==
    /\ Timeouts \subseteq Nat /\ \E t \in Timeouts : \A u \in Timeouts : u <= t
    /\ Grace \in Nat \ {0} /\ Grandchildren \in BOOLEAN

VARIABLES
    timeout,   \* timeout of the call
    ppc,       \* polling, checking, grace, killing, draining or done
    why,      \* what made it terminate the child: none, timeout or cancel
    child,    \* running or exited
    code,     \* the return code of the child, once it has exited
    held,     \* a grandchild holds the pipes
    deaf,     \* the child ignores SIGTERM
    token,    \* the cancel file exists
    seen,     \* history: the cancel file was read as present
    clock,    \* ticks since the start
    patience, \* ticks left of the grace period
    result    \* what run_cancellable returned or raised

pvars == <<timeout, ppc, why, child, code, held, deaf, token, seen, clock, patience, result>>

Sigterm == -15
Sigkill == -9
Result == [kind: {"none", "completed", "cancelled", "timed_out"},
           code: {0, 1, Sigterm, Sigkill}]

ProcessTypeOK ==
    /\ timeout \in Timeouts
    /\ ppc \in {"polling", "checking", "grace", "killing", "draining", "done"}
    /\ why \in {"none", "timeout", "cancel"}
    /\ child \in {"running", "exited"} /\ code \in {0, 1, Sigterm, Sigkill}
    /\ {held, deaf, token, seen} \subseteq BOOLEAN
    /\ clock \in 0 .. MaxClock /\ patience \in 0 .. Grace
    /\ result \in Result

ProcessInit ==
    /\ timeout \in Timeouts
    /\ ppc = "polling" /\ why = "none" /\ child = "running" /\ code = 0
    /\ held = FALSE /\ deaf \in BOOLEAN /\ token \in BOOLEAN /\ seen = FALSE
    /\ clock = 0 /\ patience = 0 /\ result = [kind |-> "none", code |-> 0]

\* communicate() has everything it waits for.
Ended == child = "exited" /\ ~held

Expired == timeout # NoTimeout /\ clock >= timeout

Later(t) == IF t < MaxClock THEN t + 1 ELSE t

\* Mutant: the return code as it is, 0 for a child that ended by itself.
PlainCode == code

\* process.returncode or -15
CancelCode == IF code = 0 THEN Sigterm ELSE code

CallOver(kind, c) ==
    /\ ppc' = "done"
    /\ result' = [kind |-> kind, code |-> c]

-----------------------------------------------------------------------------
\* The child, its descendants, the other processes and the clock.

ChildExits ==
    /\ child = "running" /\ ppc # "done"
    /\ child' = "exited" /\ code' \in {0, 1}
    /\ UNCHANGED <<timeout, ppc, why, held, deaf, token, seen, clock, patience, result>>

Fork ==
    /\ Grandchildren /\ child = "running" /\ ~held /\ ppc # "done"
    /\ held' = TRUE
    /\ UNCHANGED <<timeout, ppc, why, child, code, deaf, token, seen, clock, patience, result>>

GrandchildEnds ==
    /\ held /\ held' = FALSE
    /\ UNCHANGED <<timeout, ppc, why, child, code, deaf, token, seen, clock, patience, result>>

Flip ==
    /\ ppc # "done" /\ token' = ~token
    /\ UNCHANGED <<timeout, ppc, why, child, code, held, deaf, seen, clock, patience, result>>

-----------------------------------------------------------------------------
\* The loop.

\* Mutant: a return code no child of this program has.
CompleteTwice ==
    /\ ppc = "polling" /\ Ended
    /\ CallOver("completed", code - 2)
    /\ UNCHANGED <<timeout, why, child, code, held, deaf, token, seen, clock, patience>>

\* communicate(timeout=poll_interval) returns: the child has ended.
Complete ==
    /\ ppc = "polling" /\ Ended
    /\ CallOver("completed", code)
    /\ UNCHANGED <<timeout, why, child, code, held, deaf, token, seen, clock, patience>>

\* communicate(timeout=poll_interval) raises: a poll has passed.
PollExpires ==
    /\ ppc = "polling" /\ ~Ended
    /\ clock' = Later(clock) /\ ppc' = "checking"
    /\ UNCHANGED <<timeout, why, child, code, held, deaf, token, seen, patience, result>>

\* process.terminate(): a child that listens dies of it, an exited one is left
\* alone.
Terminate(reason) ==
    /\ why' = reason /\ patience' = Grace /\ ppc' = "grace"
    /\ IF child = "running" /\ ~deaf
       THEN child' = "exited" /\ code' = Sigterm
       ELSE UNCHANGED <<child, code>>

TimesOut ==
    /\ ppc = "checking" /\ Expired
    /\ Terminate("timeout")
    /\ UNCHANGED <<timeout, held, deaf, token, seen, clock, result>>

SeesCancel ==
    /\ ppc = "checking" /\ ~Expired /\ token
    /\ Terminate("cancel") /\ seen' = TRUE
    /\ UNCHANGED <<timeout, held, deaf, token, clock, result>>

\* Mutant: the time limit is passed at elapsed > timeout.
PollAgainLate ==
    /\ ppc = "checking" /\ (clock <= timeout \/ timeout = NoTimeout) /\ ~token
    /\ ppc' = "polling"
    /\ UNCHANGED <<timeout, why, child, code, held, deaf, token, seen, clock, patience, result>>

PollAgain ==
    /\ ppc = "checking" /\ ~Expired /\ ~token
    /\ ppc' = "polling"
    /\ UNCHANGED <<timeout, why, child, code, held, deaf, token, seen, clock, patience, result>>

GraceTick ==
    /\ ppc = "grace" /\ ~Ended /\ patience > 0
    /\ clock' = Later(clock) /\ patience' = patience - 1
    /\ UNCHANGED <<timeout, ppc, why, child, code, held, deaf, token, seen, result>>

\* Mutant: the grace period is over, the child is told once more to end.
Insist ==
    /\ ppc = "grace" /\ ~Ended /\ patience = 0
    /\ ppc' = "draining"
    /\ UNCHANGED <<timeout, why, child, code, held, deaf, token, seen, clock, patience, result>>

\* Mutant: the grace period is over and the call returns.
GiveUp ==
    /\ ppc = "grace" /\ ~Ended /\ patience = 0
    /\ CallOver(IF why = "timeout" THEN "timed_out" ELSE "cancelled", CancelCode)
    /\ UNCHANGED <<timeout, why, child, code, held, deaf, token, seen, clock, patience>>

\* The grace period is over: process.kill().
Kill ==
    /\ ppc = "grace" /\ ~Ended /\ patience = 0
    /\ ppc' = "draining" /\ child' = "exited"
    /\ code' = IF child = "running" THEN Sigkill ELSE code
    /\ UNCHANGED <<timeout, why, held, deaf, token, seen, clock, patience, result>>

\* communicate() of the grace period, or the unbounded one after the kill.
Drained ==
    /\ ppc \in {"grace", "draining"} /\ Ended
    /\ IF why = "timeout" THEN CallOver("timed_out", code)
       ELSE CallOver("cancelled", CancelCode)
    /\ UNCHANGED <<timeout, why, child, code, held, deaf, token, seen, clock, patience>>

Caller == \/ Complete \/ PollExpires \/ TimesOut \/ SeesCancel \/ PollAgain
          \/ GraceTick \/ Kill \/ Drained
Environment == ChildExits \/ Fork \/ GrandchildEnds \/ Flip
ProcessNext == Caller \/ Environment

\* The caller is an ordinary process.  Nothing obliges the child to end, or a
\* grandchild to close the pipes.
ProcessSpec == ProcessInit /\ [][ProcessNext]_pvars /\ WF_pvars(Caller)
-----------------------------------------------------------------------------
\* The docstring of run_cancellable: "Cancellation returns a non-zero completed
\* process".  Not even a child that ends by itself with 0 between the poll and
\* the cancel file is taken for one that did its work.
CancelIsNonzero == result.kind = "cancelled" => result.code # 0

\* However run_cancellable returns, the child does not outlive the call: no
\* runner goes on writing into the run directory of a tool that gave it up.
NoChildLeft == ppc = "done" => child = "exited"

\* A child with a timeout, cancelled or not, deaf or not, runs no longer than
\* the timeout and one grace period.
StoppedInTime == timeout # NoTimeout /\ child = "running" => clock <= timeout + Grace

\* With a timeout, or once the cancel file stays, the call ends, provided the
\* pipes are closed at last: the communicate() after the kill has no timeout,
\* and a grandchild that keeps them open would hold the caller for good.
CallEnds ==
    (<>[]~held /\ (timeout # NoTimeout \/ <>[]token)) => <>(ppc = "done")

\* run_cancellable leaves nothing running behind its deadline or its return, and
\* a cancellation is never taken for a success.
ProcessInvariant == ProcessTypeOK /\ CancelIsNonzero /\ NoChildLeft /\ StoppedInTime
=============================================================================
