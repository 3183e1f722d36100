------------------------------ MODULE SoakDaemon -----------------------------
(***************************************************************************)
(* run_agent_soak_daemon of src/tcad_agent/agent_soak_daemon.py on the run *)
(* queue: a process that puts one agent_soak item into the queue, unless   *)
(* it is there, works as a worker until a stop file, a number of polls or  *)
(* a number of empty ones ends its loop, and reports what became of its    *)
(* item.  Other workers and daemons share the queue; a daemon may die and  *)
(* be started again, with other limits.                                    *)
(***************************************************************************)
EXTENDS RunQueue

CONSTANTS
    Daemons,      \* the workers that are daemons
    SoakItem,     \* SoakItem[d]: the queue_id of daemon d
    IdleLimits,   \* what max_idle_loops may be: {} for None, {n} for n
    LimitsLoops   \* whether starts may set max_loops (the count is left out)

ASSUME DaemonAssumption ==
    /\ Daemons \subseteq Workers
    /\ SoakItem \in [Daemons -> Items]
    /\ IdleLimits \subseteq SUBSET Nat
    /\ LimitsLoops \in BOOLEAN

VARIABLES
    limit,     \* limit[d]: max_idle_loops of the present start, in a set
    at,        \* at[d]: where daemon d is in run_agent_soak_daemon
    idleLoops, \* idleLoops[d]: empty polls in a row
    stopFile,  \* the daemons whose stop file exists
    stoppedBy, \* stoppedBy[d]: why its loop ended
    report     \* report[d]: the status in its state file

dvars == <<limit, at, idleLoops, stopFile, stoppedBy, report>>

DaemonTypeOK ==
    /\ at \in [Daemons -> {"off", "asking", "inserting", "looping", "polling", "reporting", "ended"}]
    /\ limit \in [Daemons -> SUBSET Nat]
    /\ idleLoops \in [Daemons -> Nat]
    /\ \A d \in Daemons : \A n \in limit[d] : idleLoops[d] <= n
    /\ stopFile \in SUBSET Daemons
    /\ stoppedBy \in [Daemons -> {"nothing", "stop_file", "max_loops", "idle"}]
    /\ report \in [Daemons -> {"none", "running", "completed", "waiting_for_user", "failed",
                               "stopped", "idle"}]

DaemonInit ==
    /\ Init
    /\ limit = [d \in Daemons |-> {}]
    /\ at = [d \in Daemons |-> "off"]
    /\ idleLoops = [d \in Daemons |-> 0]
    /\ stopFile = {}
    /\ stoppedBy = [d \in Daemons |-> "nothing"]
    /\ report = [d \in Daemons |-> "none"]

To(d, place) == at' = [at EXCEPT ![d] = place]
Report(d, status) == report' = [report EXCEPT ![d] = status]

-----------------------------------------------------------------------------
Start(d) ==
    /\ at[d] = "off" /\ To(d, "asking") /\ Report(d, "running")
    /\ \E n \in IdleLimits : limit' = [limit EXCEPT ![d] = n]
    /\ idleLoops' = [idleLoops EXCEPT ![d] = 0]
    /\ stoppedBy' = [stoppedBy EXCEPT ![d] = "nothing"]
    /\ UNCHANGED <<vars, stopFile>>

\* queue_item_exists
Ask(d) ==
    /\ at[d] = "asking"
    /\ To(d, IF row[SoakItem[d]].status = "absent" THEN "inserting" ELSE "looping")
    /\ UNCHANGED <<vars, limit, idleLoops, stopFile, stoppedBy, report>>

\* enqueue_run: the queue_id is the primary key, so a second insertion raises.
Insert(d) ==
    /\ at[d] = "inserting"
    /\ \/ Enqueue(SoakItem[d]) /\ To(d, "looping") /\ UNCHANGED report
       \/ /\ row[SoakItem[d]].status # "absent"
          /\ To(d, "ended") /\ Report(d, "failed") /\ UNCHANGED vars
    /\ UNCHANGED <<limit, idleLoops, stopFile, stoppedBy>>

\* The number of polls, or of empty ones in a row, that ends the loop.
LoopsDone == LimitsLoops

\* A mutant: any limit ends a loop whose last poll was not empty.
IdleAtOnce(d) == limit[d] # {} /\ idleLoops[d] = 0

IdleDone(d) == \E n \in limit[d] : idleLoops[d] >= n

\* The top of the loop of run_queue_daemon.
Poll(d) ==
    /\ at[d] = "looping"
    /\ \/ /\ d \in stopFile
          /\ stoppedBy' = [stoppedBy EXCEPT ![d] = "stop_file"]
          /\ To(d, "reporting") /\ UNCHANGED vars
       \/ /\ d \notin stopFile /\ LoopsDone
          /\ stoppedBy' = [stoppedBy EXCEPT ![d] = "max_loops"]
          /\ To(d, "reporting") /\ UNCHANGED vars
       \/ /\ d \notin stopFile /\ IdleDone(d)
          /\ stoppedBy' = [stoppedBy EXCEPT ![d] = "idle"]
          /\ To(d, "reporting") /\ UNCHANGED vars
       \/ /\ d \notin stopFile /\ ~IdleDone(d)
          /\ BeginClaim(d) /\ To(d, "polling") /\ UNCHANGED stoppedBy
    /\ UNCHANGED <<limit, idleLoops, stopFile, report>>

\* A mutant: an empty poll is not counted.
CountedNever(d) == 0

\* The empty polls in a row once run_queue_worker has returned: it claimed
\* nothing if it comes straight from its claim.  Without a limit nobody reads
\* their number.
Counted(d) == IF limit[d] # {} /\ pc[d] \in {"selecting", "claiming"} THEN idleLoops[d] + 1 ELSE 0

\* run_queue_worker under the daemon's owner name.
Work(d) ==
    /\ at[d] = "polling" /\ pc[d] # "idle" /\ WorkerStep(d)
    /\ IF pc'[d] = "idle"
       THEN To(d, "looping") /\ idleLoops' = [idleLoops EXCEPT ![d] = Counted(d)]
       ELSE UNCHANGED <<at, idleLoops>>
    /\ UNCHANGED <<limit, stopFile, stoppedBy, report>>

\* What the daemon makes of its item when its loop is over.
Outcome(d) ==
    CASE row[SoakItem[d]].status = "completed" -> "completed"
      [] row[SoakItem[d]].status = "paused" -> "waiting_for_user"
      [] row[SoakItem[d]].status = "failed" -> "failed"
      [] OTHER -> IF stoppedBy[d] = "stop_file" THEN "stopped" ELSE "idle"

Finish(d) ==
    /\ at[d] = "reporting" /\ To(d, "ended") /\ Report(d, Outcome(d))
    /\ UNCHANGED <<vars, limit, idleLoops, stopFile, stoppedBy>>

\* Somebody creates the stop file; nothing in the code removes it.
RequestStop(d) ==
    /\ d \notin stopFile /\ stopFile' = stopFile \cup {d}
    /\ UNCHANGED <<vars, limit, at, idleLoops, stoppedBy, report>>

\* The daemon dies, wherever it is, and can be started again.
Die(d) ==
    /\ at[d] \notin {"off", "ended"} /\ crashes < MaxCrashes
    /\ crashes' = crashes + 1
    /\ held' = [held EXCEPT ![d] = [i \in Items |-> 0]]
    /\ Forget(d) /\ To(d, "off")
    /\ UNCHANGED <<row, token, ticket, calls, restarts, limit, idleLoops, stopFile,
                   stoppedBy, report>>

DaemonStep(d) == Ask(d) \/ Insert(d) \/ Poll(d) \/ Work(d) \/ Finish(d)

Others ==
    /\ \/ \E p \in Workers \ Daemons : WorkerStep(p)
       \/ \E i \in Items \ {SoakItem[d] : d \in Daemons} : Enqueue(i)
       \/ \E c \in Clients : ClientStep(c) \/ BeginCall(c)
    /\ UNCHANGED dvars

DaemonNext ==
    \/ \E d \in Daemons : DaemonStep(d) \/ Start(d) \/ RequestStop(d) \/ Die(d)
    \/ Others
    \/ Tick /\ UNCHANGED dvars

DaemonVars == <<vars, dvars>>
DaemonSpec == DaemonInit /\ [][DaemonNext]_DaemonVars /\ \A d \in Daemons : WF_DaemonVars(DaemonStep(d))

-----------------------------------------------------------------------------

\* A daemon with an idle limit, or a stop file, ends: the queue gives out each
\* item a bounded number of times, whatever dies in between.
DaemonEnds ==
    \A d \in Daemons :
        at[d] = "looping" /\ (limit[d] # {} \/ d \in stopFile) ~> at[d] \in {"ended", "off"}

\* docs/run_queue.md:126 "The daemon repeatedly runs the worker, sleeps when no
\* item is available": a daemon that ends for want of items and says it is
\* idle, which its exit code calls a success, has not left its own item in the
\* queue, while it is the only daemon.  (With another one, a claim lost to it
\* counts as an empty poll.  A daemon that max_loops ends says that it is idle
\* whatever is left, agent_soak_daemon.py:169, and so does one with
\* max_idle_loops = 0, which line 44 accepts and which never looks.)
IdleLeavesNothing ==
    \A d \in Daemons :
        /\ report[d] = "idle" /\ stoppedBy[d] = "idle" /\ 0 \notin limit[d]
        /\ \A e \in Daemons \ {d} : report[e] = "none"
        => row[SoakItem[d]].status # "queued"

\* A daemon that ended for want of items has served its own.
DaemonInvariant == DaemonTypeOK /\ IdleLeavesNothing
=============================================================================
