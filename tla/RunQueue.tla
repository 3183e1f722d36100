------------------------------ MODULE RunQueue ------------------------------
(***************************************************************************)
(* The durable run queue of src/tcad_agent/run_queue.py: one SQLite table  *)
(* of queue items shared by worker processes that claim, execute and       *)
(* settle items under leases, and by clients (the CLI and the web page)    *)
(* that pause, resume, cancel, approve, reject, renew and recover them.    *)
(*                                                                         *)
(* Python's sqlite3 runs a SELECT in autocommit and opens a transaction at *)
(* the first UPDATE, so a function that reads a row and then updates it is *)
(* two atomic steps with every other process in between.  Each such        *)
(* function is a reading action and a writing action here, and what it     *)
(* read stays in the local state of its process.  Leases are countdowns:   *)
(* a lease of 0 has expired.                                               *)
(***************************************************************************)
EXTENDS Integers, FiniteSets

CONSTANTS
    Items,        \* queue ids
    Workers,      \* processes (or threads) that call run_queue_worker
    Clients,      \* processes that call the control functions
    Owner,        \* Owner[p] is the --owner name worker p runs under
    Rank,         \* Rank[i]: position of i in "priority DESC, created_at ASC"
    MaxAttempts,  \* MaxAttempts[i]: the max_attempts column of item i
    Concurrency,  \* how many items one call of run_queue_worker claims
    LeaseTicks,   \* lease_seconds, in ticks of the clock
    AgentItems,   \* items whose tool is given a cancel.requested file
    WebWorkers,   \* workers that recover the items of their owner at start
    Commands,     \* the control calls the clients make
    None,         \* SQL NULL for an owner; "no item" for a process
    MaxCalls,     \* bound: control calls made in a behaviour
    MaxCrashes,   \* bound: worker crashes in a behaviour
    MaxRestarts   \* bound: owner recoveries in a behaviour

Procs == Workers \cup Clients
Owners == {Owner[p] : p \in Workers}

ASSUME SetsAssumption ==
    /\ Workers \cap Clients = {}
    /\ Commands \subseteq {"pause", "resume", "cancel", "approve", "reject", "renew", "recover"}
    /\ None \notin Items /\ None \notin Owners

\* enqueue_run rejects max_attempts < 1, claim_next_items rejects
\* lease_seconds <= 0, and a worker claims at least max(1, concurrency) items.
ASSUME BoundsAssumption ==
    /\ MaxAttempts \in [Items -> Nat \ {0}]
    /\ Rank \in [Items -> Nat]
    /\ Concurrency \in Nat \ {0}
    /\ LeaseTicks \in Nat \ {0}
    /\ MaxCalls \in Nat /\ MaxCrashes \in Nat /\ MaxRestarts \in Nat

VARIABLES
    row,       \* row[i]: the run_queue row of item i
    token,     \* the items whose cancel.requested file exists
    pc,        \* pc[q]: where process q is
    sel,       \* sel[q]: the items the last SELECT of q returned
    spent,     \* spent[q]: those of sel[q] read with no attempt left
    focus,     \* focus[q]: the item q executes or controls
    intent,    \* intent[q]: the verdict or the command q carries out
    newLease,  \* newLease[q]: the lease q computed and has still to write
    held,      \* held[p][i]: ticket under which p holds i, 0 if it does not
    ticket,    \* history: ticket[i] numbers the claims of i that took effect
    calls, crashes, restarts  \* how much of the bounds is used

local == <<pc, sel, spent, focus, intent, newLease>>
bounds == <<calls, crashes, restarts>>
vars == <<row, token, local, held, ticket, bounds>>

Statuses == {"absent", "queued", "running", "paused", "completed", "failed", "cancelled"}
Verdicts == {"completed", "paused", "failed", "error"}
NoLease == -1
Leases == NoLease .. LeaseTicks
Labels == {"idle", "recovering", "selecting", "claiming", "working", "executing",
           "settling", "owner_recovering", "merge", "unlink", "token", "check", "write"}

Row == [status: Statuses, attempts: Nat, owner: Owners \cup {None}, lease: Leases,
        result: BOOLEAN, resume: BOOLEAN]

\* Every variable has its type; of a lease: none is longer than lease_seconds,
\* whatever was renewed, computed early or written late.
TypeOK ==
    /\ row \in [Items -> Row]
    /\ token \in SUBSET Items
    /\ pc \in [Procs -> Labels]
    /\ sel \in [Procs -> SUBSET Items]
    /\ spent \in [Procs -> SUBSET Items]
    /\ focus \in [Procs -> Items \cup {None}]
    /\ intent \in [Procs -> Verdicts \cup Commands \cup {None}]
    /\ newLease \in [Procs -> Leases]
    /\ held \in [Workers -> [Items -> Nat]]
    /\ ticket \in [Items -> Nat]
    /\ calls \in Nat /\ crashes \in Nat /\ restarts \in Nat

Absent == [status |-> "absent", attempts |-> 0, owner |-> None, lease |-> NoLease,
           result |-> FALSE, resume |-> FALSE]

Init ==
    /\ row = [i \in Items |-> Absent]
    /\ token = {}
    /\ pc = [q \in Procs |-> "idle"]
    /\ sel = [q \in Procs |-> {}]
    /\ spent = [q \in Procs |-> {}]
    /\ focus = [q \in Procs |-> None]
    /\ intent = [q \in Procs |-> None]
    /\ newLease = [q \in Procs |-> NoLease]
    /\ held = [p \in Workers |-> [i \in Items |-> 0]]
    /\ ticket = [i \in Items |-> 0]
    /\ calls = 0 /\ crashes = 0 /\ restarts = 0

-----------------------------------------------------------------------------
\* The rows the functions select, and the rows their UPDATEs leave.

\* Mutant: the UPDATE forgets lease_owner.
ReleasedWithOwner(r, status) == [r EXCEPT !.status = status, !.lease = NoLease]

Released(r, status) == [r EXCEPT !.status = status, !.owner = None, !.lease = NoLease]

Leased(r, owner, lease) ==
    [r EXCEPT !.status = "running", !.attempts = @ + 1, !.owner = owner, !.lease = lease]

\* attempts = MAX(attempts - 1, 0)
Refunded(r) == [r EXCEPT !.attempts = IF @ > 0 THEN @ - 1 ELSE 0]

\* A lease with one tick less to run.
Elapse(lease) == IF lease > 0 THEN lease - 1 ELSE lease

Aged(r) == [r EXCEPT !.lease = Elapse(@)]

\* Mutant: recovery leaves the rows without attempts alone.
StaleWithAttempts(i) ==
    row[i].status = "running" /\ row[i].lease = 0 /\ row[i].attempts < MaxAttempts[i]

Stale(i) == row[i].status = "running" /\ row[i].lease = 0

\* Mutant: attempts > max_attempts.
SpentLate(i) == row[i].attempts > MaxAttempts[i]

Spent(i) == row[i].attempts >= MaxAttempts[i]

\* Mutant: the claiming UPDATE without "AND status = 'queued'".
WonUnguarded(p) == sel[p]

\* The queued rows a claiming transaction turns to running, and all those it
\* counts as claimed: a row that is no longer queued is left alone, yet counts
\* if it runs under p's owner name.
Won(p) == {i \in sel[p] : row[i].status = "queued"}

\* Mutants: a claim counts when the row runs, whoever its owner is; all of the
\* selected rows count.
MineByStatus(p) == Won(p) \cup {i \in sel[p] : row[i].status = "running"}

MineUnread(p) == sel[p]

Mine(p) == Won(p) \cup {i \in sel[p] : row[i].status = "running" /\ row[i].owner = Owner[p]}

\* Mutant: attempts + 1 < max_attempts.
ClaimableEarly(i) == row[i].status = "queued" /\ row[i].attempts + 1 < MaxAttempts[i]

Claimable(i) == row[i].status = "queued" /\ ~Spent(i)

\* The first Concurrency claimable rows in the ORDER BY of claim_next_items;
\* rows of equal rank come in either order.
Selections ==
    LET queued == {i \in Items : Claimable(i)}
    IN  {S \in SUBSET queued :
            /\ Cardinality(S) = IF Cardinality(queued) < Concurrency
                                THEN Cardinality(queued) ELSE Concurrency
            /\ \A i \in S, j \in queued \ S : Rank[i] <= Rank[j]}

HeldBy(p) == {i \in Items : held[p][i] # 0}

FirstHeld(p, i) == i \in HeldBy(p) /\ \A j \in HeldBy(p) : Rank[i] <= Rank[j]

Settled(r, verdict) ==
    CASE verdict = "completed" -> [Released(r, "completed") EXCEPT !.result = TRUE]
      [] verdict = "paused"    -> [Released(r, "paused") EXCEPT !.result = TRUE]
      [] verdict = "failed"    -> [Released(r, "failed") EXCEPT !.result = TRUE]
      [] OTHER                 -> [Released(r, "failed") EXCEPT !.result = FALSE]

\* set_item_status: only QUEUED, PAUSED and CANCELLED are ever asked for.
Target == [pause |-> "paused", resume |-> "queued", approve |-> "queued",
           cancel |-> "cancelled", reject |-> "cancelled"]

Goto(q, label) == pc' = [pc EXCEPT ![q] = label]

-----------------------------------------------------------------------------
\* enqueue_run: one INSERT.
Enqueue(i) ==
    /\ row[i].status = "absent"
    /\ row' = [row EXCEPT ![i] = [Absent EXCEPT !.status = "queued"]]
    /\ UNCHANGED <<token, local, held, ticket, bounds>>

\* recover_stale_items, the SELECT of expired leases.
RecoverRead(q, next) ==
    /\ sel' = [sel EXCEPT ![q] = {i \in Items : Stale(i)}]
    /\ spent' = [spent EXCEPT ![q] = {i \in Items : Stale(i) /\ Spent(i)}]
    /\ Goto(q, next)
    /\ UNCHANGED <<row, token, focus, intent, newLease, held, ticket>>

\* recover_stale_items, the UPDATEs: by queue_id alone.
RecoverWrite(q, next) ==
    /\ pc[q] = "recovering"
    /\ row' = [i \in Items |->
                 IF i \in spent[q] THEN Released(row[i], "failed")
                 ELSE IF i \in sel[q] THEN Released(row[i], "queued")
                 ELSE row[i]]
    /\ sel' = [sel EXCEPT ![q] = {}]
    /\ spent' = [spent EXCEPT ![q] = {}]
    /\ Goto(q, next)
    /\ UNCHANGED <<token, focus, intent, newLease, held, ticket, bounds>>

\* claim_next_items begins with recover_stale_items.
BeginClaim(p) ==
    /\ pc[p] = "idle"
    /\ RecoverRead(p, "recovering")
    /\ UNCHANGED bounds

\* claim_next_items, the SELECT; the lease is computed just before it.
ClaimRead(p) ==
    /\ pc[p] = "selecting"
    /\ \E S \in Selections :
          /\ sel' = [sel EXCEPT ![p] = S]
          /\ Goto(p, IF S = {} THEN "idle" ELSE "claiming")
          /\ newLease' = [newLease EXCEPT ![p] = IF S = {} THEN NoLease ELSE LeaseTicks]
    /\ UNCHANGED <<row, token, spent, focus, intent, held, ticket, bounds>>

\* claim_next_items, the UPDATEs of one transaction.
ClaimWrite(p) ==
    /\ pc[p] = "claiming"
    /\ row' = [i \in Items |->
                 IF i \in Won(p) THEN Leased(row[i], Owner[p], newLease[p]) ELSE row[i]]
    /\ ticket' = [i \in Items |-> IF i \in Won(p) THEN ticket[i] + 1 ELSE ticket[i]]
    /\ held' = [held EXCEPT ![p] = [i \in Items |-> IF i \in Mine(p) THEN ticket'[i] ELSE 0]]
    /\ Goto(p, IF Mine(p) = {} THEN "idle" ELSE "working")
    /\ sel' = [sel EXCEPT ![p] = {}]
    /\ newLease' = [newLease EXCEPT ![p] = NoLease]
    /\ UNCHANGED <<token, spent, focus, intent, bounds>>

\* The worker is done with item i of its batch.
Drop(p, i) ==
    /\ held' = [held EXCEPT ![p][i] = 0]
    /\ focus' = [focus EXCEPT ![p] = None]
    /\ intent' = [intent EXCEPT ![p] = None]
    /\ Goto(p, IF HeldBy(p) = {i} THEN "idle" ELSE "working")

\* run_queue_worker re-reads each claimed item and looks at its status only.
Reread(p) ==
    /\ pc[p] = "working"
    /\ \E i \in Items :
          /\ FirstHeld(p, i)
          /\ IF row[i].status = "running"
             THEN /\ focus' = [focus EXCEPT ![p] = i]
                  /\ Goto(p, "executing")
                  /\ UNCHANGED <<held, intent>>
             ELSE Drop(p, i)
    /\ UNCHANGED <<row, token, sel, spent, newLease, ticket, bounds>>

\* execute_item returns from the runner with some verdict and the settling
\* function (complete_item, pause_item_with_result, fail_item) reads the row.
FinishRead(p) ==
    /\ pc[p] = "executing"
    /\ IF row[focus[p]].status = "cancelled"
       THEN Drop(p, focus[p])
       ELSE /\ \E v \in Verdicts : intent' = [intent EXCEPT ![p] = v]
            /\ Goto(p, "settling")
            /\ UNCHANGED <<held, focus>>
    /\ UNCHANGED <<row, token, sel, spent, newLease, ticket, bounds>>

\* The UPDATE of the settling function: by queue_id alone.
Settle(p) ==
    /\ pc[p] = "settling"
    /\ row' = [row EXCEPT ![focus[p]] = Settled(@, intent[p])]
    /\ Drop(p, focus[p])
    /\ UNCHANGED <<token, sel, spent, newLease, ticket, bounds>>

\* recover_owner_running_items at the start of the web worker.
OwnerRead(p) ==
    /\ p \in WebWorkers /\ pc[p] = "idle" /\ restarts < MaxRestarts
    /\ sel' = [sel EXCEPT ![p] = {i \in Items : row[i].status = "running" /\ row[i].owner = Owner[p]}]
    /\ Goto(p, "owner_recovering")
    /\ restarts' = restarts + 1
    /\ UNCHANGED <<row, token, spent, focus, intent, newLease, held, ticket, calls, crashes>>

OwnerWrite(p) ==
    /\ pc[p] = "owner_recovering"
    /\ row' = [i \in Items |->
                 IF i \in sel[p] THEN Refunded(Released(row[i], "queued")) ELSE row[i]]
    /\ sel' = [sel EXCEPT ![p] = {}]
    /\ Goto(p, "idle")
    /\ UNCHANGED <<token, spent, focus, intent, newLease, held, ticket, bounds>>

\* A worker process dies (also: SQLite reports "database is locked" and the
\* exception ends the worker) and is started again.
Forget(q) ==
    /\ sel' = [sel EXCEPT ![q] = {}]
    /\ spent' = [spent EXCEPT ![q] = {}]
    /\ focus' = [focus EXCEPT ![q] = None]
    /\ intent' = [intent EXCEPT ![q] = None]
    /\ newLease' = [newLease EXCEPT ![q] = NoLease]
    /\ Goto(q, "idle")

Crash(p) ==
    /\ pc[p] # "idle" /\ crashes < MaxCrashes
    /\ crashes' = crashes + 1
    /\ held' = [held EXCEPT ![p] = [i \in Items |-> 0]]
    /\ Forget(p)
    /\ UNCHANGED <<row, token, ticket, calls, restarts>>

-----------------------------------------------------------------------------
\* The control functions, called by a client for an existing item.

FirstLabel == [pause |-> "check", resume |-> "check", renew |-> "check", cancel |-> "token",
               approve |-> "merge", reject |-> "merge"]

BeginCall(c) ==
    /\ pc[c] = "idle" /\ calls < MaxCalls
    /\ calls' = calls + 1
    /\ \E cmd \in Commands \ {"recover"}, i \in Items :
          /\ row[i].status # "absent"
          /\ focus' = [focus EXCEPT ![c] = i]
          /\ intent' = [intent EXCEPT ![c] = cmd]
          /\ Goto(c, FirstLabel[cmd])
    /\ UNCHANGED <<row, token, sel, spent, newLease, held, ticket, crashes, restarts>>

BeginRecover(c) ==
    /\ pc[c] = "idle" /\ calls < MaxCalls /\ "recover" \in Commands
    /\ calls' = calls + 1
    /\ RecoverRead(c, "recovering")
    /\ UNCHANGED <<crashes, restarts>>

\* approve_item_confirmation and reject_item_confirmation patch the request;
\* an approval then goes for the cancel file that the row's result names.
Merge(c) ==
    /\ pc[c] = "merge"
    /\ row' = [row EXCEPT ![focus[c]].resume = (intent[c] = "approve")]
    /\ Goto(c, IF intent[c] = "reject" THEN "token"
               ELSE IF row[focus[c]].result THEN "unlink" ELSE "check")
    /\ UNCHANGED <<token, sel, spent, focus, intent, newLease, held, ticket, bounds>>

\* approve_item_confirmation removes the cancel file.
Unlink(c) ==
    /\ pc[c] = "unlink"
    /\ token' = token \ {focus[c]}
    /\ Goto(c, "check")
    /\ UNCHANGED <<row, sel, spent, focus, intent, newLease, held, ticket, bounds>>

\* cancel_item writes the cancel file before it looks at the status.
WriteToken(c) ==
    /\ pc[c] = "token"
    /\ token' = token \cup ({focus[c]} \cap AgentItems)
    /\ Goto(c, "check")
    /\ UNCHANGED <<row, sel, spent, focus, intent, newLease, held, ticket, bounds>>

\* Mutant: set_item_status without its check for terminal items.
MayChangeAny(cmd, r) == cmd = "renew" => r.status = "running"

\* set_item_status and heartbeat_item read the row and raise unless it may
\* change; heartbeat_item is given the name of the owner, any owner's.
MayChange(cmd, r) ==
    IF cmd = "renew" THEN r.status = "running" ELSE r.status \notin {"completed", "cancelled"}

Check(c) ==
    LET r == row[focus[c]]
    IN  /\ pc[c] = "check"
        /\ IF MayChange(intent[c], r)
           THEN /\ Goto(c, "write")
                /\ newLease' = [newLease EXCEPT ![c] = IF intent[c] = "renew" THEN LeaseTicks ELSE NoLease]
                /\ UNCHANGED <<sel, spent, focus, intent>>
           ELSE Forget(c)
        /\ UNCHANGED <<row, token, held, ticket, bounds>>

\* Mutant: the heartbeat adds the new lease to what is left of the old one.
WriteExtending(c) ==
    /\ pc[c] = "write"
    /\ row' = [row EXCEPT ![focus[c]] =
                 IF intent[c] = "renew" THEN [@ EXCEPT !.lease = @ + newLease[c]]
                 ELSE Released(@, Target[intent[c]])]
    /\ Forget(c)
    /\ UNCHANGED <<token, held, ticket, bounds>>

\* Their UPDATE: by queue_id alone.
Write(c) ==
    /\ pc[c] = "write"
    /\ row' = [row EXCEPT ![focus[c]] =
                 IF intent[c] = "renew" THEN [@ EXCEPT !.lease = newLease[c]]
                 ELSE Released(@, Target[intent[c]])]
    /\ Forget(c)
    /\ UNCHANGED <<token, held, ticket, bounds>>

\* The calling process dies between two steps of its call.
Abandon(c) ==
    /\ pc[c] # "idle"
    /\ Forget(c)
    /\ UNCHANGED <<row, token, held, ticket, bounds>>

-----------------------------------------------------------------------------
\* Time passes for every lease, those computed but not yet written included.
Tick ==
    /\ \/ \E i \in Items : row[i].lease > 0
       \/ \E q \in Procs : newLease[q] > 0
    /\ row' = [i \in Items |-> Aged(row[i])]
    /\ newLease' = [q \in Procs |-> Elapse(newLease[q])]
    /\ UNCHANGED <<token, pc, sel, spent, focus, intent, held, ticket, bounds>>

WorkerStep(p) ==
    \/ BeginClaim(p)
    \/ RecoverWrite(p, "selecting")
    \/ ClaimRead(p)
    \/ ClaimWrite(p)
    \/ Reread(p)
    \/ FinishRead(p)
    \/ Settle(p)
    \/ OwnerWrite(p)

ClientStep(c) ==
    \/ RecoverWrite(c, "idle")
    \/ Merge(c)
    \/ Unlink(c)
    \/ WriteToken(c)
    \/ Check(c)
    \/ Write(c)

Next ==
    \/ \E i \in Items : Enqueue(i)
    \/ \E p \in Workers : WorkerStep(p) \/ OwnerRead(p) \/ Crash(p)
    \/ \E c \in Clients : ClientStep(c) \/ BeginCall(c) \/ BeginRecover(c) \/ Abandon(c)
    \/ Tick

\* A daemon polls for ever, a call that was made goes on, and time passes.
Fairness ==
    /\ \A p \in Workers : WF_vars(WorkerStep(p))
    /\ \A c \in Clients : WF_vars(ClientStep(c))
    /\ WF_vars(Tick)

Spec == Init /\ [][Next]_vars
FairSpec == Spec /\ Fairness

\* Workers on time: no lease expires, and what was queued once is not queued
\* again by hand (Commands without resume and approve) or by a web restart.
PunctualNext ==
    \/ \E i \in Items : Enqueue(i)
    \/ \E p \in Workers : WorkerStep(p) \/ Crash(p)
    \/ \E c \in Clients : ClientStep(c) \/ BeginCall(c) \/ BeginRecover(c) \/ Abandon(c)

PunctualSpec == Init /\ [][PunctualNext]_vars

-----------------------------------------------------------------------------
\* Every running row names an owner and carries a lease, so that some recovery
\* can return it; no other row names an owner.  (The lease columns written by
\* claim_next_items and cleared by six different UPDATEs.)
LeaseDiscipline ==
    \A i \in Items :
        /\ row[i].status = "running" <=> row[i].owner # None
        /\ row[i].status = "running" => row[i].lease # NoLease

\* No claim of an item is given to two workers: two workers that hold the same
\* item hold different claims of it, so one of them has been superseded.  Needs
\* owner names that differ; run_queue.py compares names, not processes.
OneHolderPerTicket ==
    \A p, q \in Workers, i \in Items :
        held[p][i] # 0 /\ held[p][i] = held[q][i] => p = q

\* A running row names the owner of the worker holding the latest claim: a
\* worker that was superseded is never the one the table names.
RunningUnderHolder ==
    \A p \in Workers, i \in Items :
        row[i].status = "running" /\ held[p][i] # 0
            => (held[p][i] = ticket[i] <=> row[i].owner = Owner[p])

\* Two workers never execute the same item at once (docs/run_queue.md: "worker
\* leases for concurrency control and duplicate-run prevention").
Runs(p, i) == pc[p] \in {"executing", "settling"} /\ focus[p] = i

NoOverlap == \A p, q \in Workers, i \in Items : Runs(p, i) /\ Runs(q, i) => p = q

\* Nobody is about to update item i after a read that came earlier.
Quiet(i) ==
    /\ \A q \in Procs : pc[q] \in {"recovering", "owner_recovering"} => i \notin sel[q]
    /\ \A q \in Procs : pc[q] \in {"settling", "write"} => focus[q] # i

\* Once nobody is in the middle of an update of it, a cancelled item stays
\* cancelled, and a completed item that nobody executes stays completed: the
\* reads that guard the updates leave exactly this window.
TerminalAndQuiet(i) ==
    /\ Quiet(i)
    /\ \/ row[i].status = "cancelled"
       \/ row[i].status = "completed" /\ \A p \in Workers : ~Runs(p, i)

TerminalSticks ==
    [][\A i \in Items : TerminalAndQuiet(i) =>
            TerminalAndQuiet(i)' /\ row'[i].status = row[i].status]_vars

\* docs/run_queue.md:161 "If max_attempts has been reached, the item becomes
\* failed": no claim is made beyond max_attempts.  Two workers keep it; with
\* three, a recovery that read an older lease re-queues a row claimed since.
AttemptsWithinMax == \A i \in Items : row[i].attempts <= MaxAttempts[i]

\* A row does not stay running for ever, whatever became of its worker.
RunningIsSettled == \A i \in Items : row[i].status = "running" ~> row[i].status # "running"

\* A queued item with attempts left eventually leaves the queue.
QueuedIsServed ==
    \A i \in Items :
        row[i].status = "queued" /\ row[i].attempts < MaxAttempts[i] ~> row[i].status # "queued"

\* No row is forgotten, neither a running one nor a queued one.
RowsAreServed == RunningIsSettled /\ QueuedIsServed
=============================================================================
