------------------------------ MODULE WebServer -----------------------------
(***************************************************************************)
(* The web server of src/tcad_agent/asgi_web.py and its WorkerController   *)
(* (web_app.py) at work on the run queue.  A server is one event loop,     *)
(* which handles one request at a time, and a daemon thread that calls     *)
(* run_queue_worker until it finds the stop file.  Both claim under one    *)
(* owner name, WebConfig.worker_owner; other workers share the queue.      *)
(*                                                                         *)
(* Main[s] and Threads[s] are workers of RunQueue: the process-local state *)
(* of the event loop and of the threads is theirs, "idle" is the event     *)
(* loop waiting for a request and the thread at the top of its loop.       *)
(***************************************************************************)
EXTENDS RunQueue

CONSTANTS
    Servers,    \* server processes on one queue database
    Main,       \* Main[s]: the worker that is the event loop of s
    Threads,    \* Threads[s]: the workers that are threads of s
    WebOwner,   \* WebConfig.worker_owner
    Requests    \* which of the worker requests are made; with "bounded_start"
                \* a start may set max_loops or max_idle_loops

WebProcs == {Main[s] : s \in Servers} \cup UNION {Threads[s] : s \in Servers}
Outsiders == Workers \ WebProcs

ASSUME WebAssumption ==
    /\ WebProcs \subseteq Workers /\ WebWorkers = {Main[s] : s \in Servers}
    /\ \A s \in Servers : Main[s] \notin Threads[s]
    /\ \A p \in Workers : Owner[p] = WebOwner <=> p \in WebProcs
    /\ Requests \subseteq {"start", "bounded_start", "stop", "run_once"}

VARIABLES
    up,        \* the servers that run
    thread,    \* thread[s]: self.thread of the WorkerController of s
    alive,     \* the threads that are alive
    starting,  \* servers inside WorkerController.start, after the stop file went
    stopFile,  \* whether config.worker_stop_file exists
    clean      \* history: servers nothing has failed in since an owner recovery

web == <<up, thread, alive, starting, stopFile, clean>>
webVars == <<vars, web>>

WebTypeOK ==
    /\ TypeOK
    /\ up \subseteq Servers /\ starting \subseteq up /\ clean \subseteq up
    /\ thread \in [Servers -> WebProcs \cup {None}]
    /\ alive \subseteq UNION {Threads[s] : s \in up}
    /\ stopFile \in BOOLEAN

WebInit ==
    /\ Init
    /\ up = {} /\ alive = {} /\ starting = {} /\ clean = {}
    /\ thread = [s \in Servers |-> None]
    /\ stopFile = FALSE

\* Mutant: is_running looks at the start request only.
RunningByRequest(s) == s \in starting

\* is_running, under the lock of the controller.
IsRunning(s) == thread[s] \in alive

\* The event loop of s can take a request.
Free(s) == s \in up /\ pc[Main[s]] = "idle"

-----------------------------------------------------------------------------
\* Importing asgi_web recovers the rows of the web owner: read, then update.
Boot(s) ==
    /\ s \notin up
    /\ OwnerRead(Main[s])
    /\ up' = up \cup {s}
    /\ UNCHANGED <<thread, alive, starting, stopFile, clean>>

\* Mutant: the module is imported without recovering anything.
BootBlindly(s) ==
    /\ s \in up \ starting /\ pc[Main[s]] = "owner_recovering"
    /\ Forget(Main[s])
    /\ UNCHANGED <<row, token, held, ticket, bounds>>
    /\ clean' = clean \cup {s}
    /\ UNCHANGED <<up, thread, alive, starting, stopFile>>

Booted(s) ==
    /\ s \in up \ starting
    /\ OwnerWrite(Main[s])
    /\ clean' = clean \cup {s}
    /\ UNCHANGED <<up, thread, alive, starting, stopFile>>

\* WorkerController.start, no thread running: the stop file is removed and the
\* rows of the owner are recovered, all under the lock ...
StartWorker(s) ==
    /\ "start" \in Requests /\ Free(s) /\ ~IsRunning(s)
    /\ OwnerRead(Main[s])
    /\ stopFile' = FALSE
    /\ starting' = starting \cup {s}
    /\ UNCHANGED <<up, thread, alive, clean>>

\* ... then the thread is started.
Launch(s) ==
    /\ s \in starting
    /\ OwnerWrite(Main[s])
    /\ \E t \in Threads[s] \ alive :
          /\ thread' = [thread EXCEPT ![s] = t]
          /\ alive' = alive \cup {t}
    /\ starting' = starting \ {s}
    /\ clean' = clean \cup {s}
    /\ UNCHANGED <<up, stopFile>>

\* WorkerController.start, a thread running: nothing but the answer.
StartAgain(s) ==
    /\ "start" \in Requests /\ Free(s) /\ IsRunning(s)
    /\ UNCHANGED webVars

StopWorker(s) ==
    /\ "stop" \in Requests /\ Free(s)
    /\ stopFile' = TRUE
    /\ UNCHANGED <<vars, up, thread, alive, starting, clean>>

\* /api/worker/run-once calls run_queue_worker in the event loop itself, under
\* the web owner; to the queue a call that names an owner of its own is a round
\* of one of the Outsiders.
RunOnce(s) ==
    /\ "run_once" \in Requests /\ Free(s)
    /\ BeginClaim(Main[s])
    /\ UNCHANGED web

RunOnceStep(s) ==
    /\ s \in up /\ pc[Main[s]] \notin {"idle", "owner_recovering"}
    /\ WorkerStep(Main[s])
    /\ UNCHANGED web

\* The handler raises (a locked database) and the request is answered 400.
RequestFails(s) ==
    /\ s \in up /\ (pc[Main[s]] = "owner_recovering" => s \in starting)
    /\ Crash(Main[s])
    /\ starting' = starting \ {s}
    /\ clean' = clean \ {s}
    /\ UNCHANGED <<up, thread, alive, stopFile>>

\* Mutant: a thread that is not a daemon thread outlives the event loop.
DiesWithLoop(s) == {Main[s]}

DiesWith(s) == Threads[s] \cup {Main[s]}

\* The process ends and its daemon thread with it.
ServerDies(s) ==
    LET Clear(f, v) == [q \in Procs |-> IF q \in DiesWith(s) THEN v ELSE f[q]]
    IN  /\ s \in up /\ crashes < MaxCrashes
        /\ crashes' = crashes + 1
        /\ pc' = Clear(pc, "idle") /\ sel' = Clear(sel, {}) /\ spent' = Clear(spent, {})
        /\ focus' = Clear(focus, None) /\ intent' = Clear(intent, None)
        /\ newLease' = Clear(newLease, NoLease)
        /\ held' = [p \in Workers |-> IF p \in DiesWith(s) THEN [i \in Items |-> 0] ELSE held[p]]
        /\ up' = up \ {s} /\ alive' = alive \ DiesWith(s)
        /\ thread' = [thread EXCEPT ![s] = None]
        /\ starting' = starting \ {s} /\ clean' = clean \ {s}
        /\ UNCHANGED <<row, token, ticket, calls, restarts, stopFile>>

-----------------------------------------------------------------------------
\* Mutant: the loop does not look for the stop file.
LoopOn(t) ==
    /\ t \in alive
    /\ BeginClaim(t)
    /\ UNCHANGED web

\* run_queue_daemon: a stop file ends it at the top of the loop, and so do the
\* max_loops and max_idle_loops of the start request, which may be any.
Loop(t) ==
    /\ t \in alive /\ ~stopFile
    /\ BeginClaim(t)
    /\ UNCHANGED web

LoopEnds(t) ==
    /\ t \in alive /\ pc[t] = "idle"
    /\ stopFile \/ "bounded_start" \in Requests
    /\ alive' = alive \ {t}
    /\ UNCHANGED <<vars, up, thread, starting, stopFile, clean>>

ThreadWork(t) ==
    /\ t \in alive /\ pc[t] # "idle"
    /\ WorkerStep(t)
    /\ UNCHANGED web

\* An exception leaves run_queue_worker: the thread records it and ends.
ThreadFails(s, t) ==
    /\ t \in Threads[s] \cap alive
    /\ Crash(t)
    /\ alive' = alive \ {t}
    /\ clean' = clean \ {s}
    /\ UNCHANGED <<up, thread, starting, stopFile>>

ServerStep(s) == Launch(s) \/ Booted(s) \/ RunOnceStep(s)

ThreadStep(t) == Loop(t) \/ ThreadWork(t) \/ LoopEnds(t)

Others ==
    /\ \/ \E i \in Items : Enqueue(i)
       \/ \E p \in Outsiders : WorkerStep(p) \/ Crash(p)
       \/ \E c \in Clients : ClientStep(c) \/ BeginCall(c) \/ BeginRecover(c) \/ Abandon(c)
    /\ UNCHANGED web

WebNext ==
    \/ Others
    \/ \E s \in Servers :
          \/ Boot(s) \/ ServerStep(s) \/ StartWorker(s) \/ StartAgain(s) \/ StopWorker(s)
          \/ RunOnce(s) \/ RequestFails(s) \/ ServerDies(s)
          \/ \E t \in Threads[s] : ThreadStep(t) \/ ThreadFails(s, t)

WebFairness ==
    /\ \A s \in Servers : WF_webVars(ServerStep(s))
    /\ \A s \in Servers : \A t \in Threads[s] : WF_webVars(ThreadStep(t))
    /\ \A p \in Outsiders : WF_webVars(WorkerStep(p) /\ UNCHANGED web)

\* No lease expires here: they outlast the work.
WebSpec == WebInit /\ [][WebNext]_webVars
FairWebSpec == WebSpec /\ WebFairness

-----------------------------------------------------------------------------
\* One controller never has two threads at work.
OneThread == \A s \in Servers : Cardinality(Threads[s] \cap alive) <= 1

\* While leases outlast the work, a web worker and a worker with a name of its
\* own never execute one item at once, whatever starts, stops, restarts and
\* owner recoveries come between.  (Two workers of the web owner may:
\* claim_next_items tells claims apart by the owner name alone.)
OwnersExclude ==
    \A p, q \in Workers, i \in Items : Runs(p, i) /\ Runs(q, i) => Owner[p] = Owner[q]

\* A row that names the web owner is at work in the server, unless something
\* failed there since rows were last recovered: a restart leaves no orphan.
WebRowsHaveWorker ==
    \A s \in up \cap clean, i \in Items :
        row[i].status = "running" /\ row[i].owner = WebOwner /\ pc[Main[s]] # "owner_recovering"
            => \E p \in {Main[s]} \cup (Threads[s] \cap alive) : held[p][i] = ticket[i]

\* A stop request ends the thread, or a later start takes it back.
StopIsObeyed == stopFile ~> (alive = {} \/ ~stopFile)

\* One thread per controller, owners that exclude one another, and a worker for
\* every row that names the web owner.
WebInvariant == WebTypeOK /\ OneThread /\ OwnersExclude /\ WebRowsHaveWorker
=============================================================================
