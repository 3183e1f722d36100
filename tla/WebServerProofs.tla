--------------------------- MODULE WebServerProofs --------------------------
(***************************************************************************)
(* Proofs about WebServer, for one server of any threads and any number of *)
(* other workers, items and clients, when nobody re-queues an item by hand *)
(* (NoRequeue).  No lease expires here, so a row returns to the queue only *)
(* when the server recovers the rows of its owner, and then nobody holds   *)
(* it: the event loop is in the recovery and no thread is alive.           *)
(***************************************************************************)
EXTENDS WebServer, RunQueueProofs, FiniteSetTheorems

OneServer == \E s : Servers = {s}

\* No running lease is over, and none that is about to be written.
LeaseInv ==
    /\ \A i \in Items : row[i].status = "running" => row[i].lease > 0
    /\ \A q \in Procs : /\ pc[q] = "recovering" => sel[q] = {}
                        /\ pc[q] = "claiming" => newLease[q] > 0
                        /\ pc[q] = "write" /\ intent[q] = "renew" => newLease[q] > 0

\* What is held is at work under one owner, the one its row names while it runs.
HoldInv ==
    /\ \A p \in Workers, i \in Items : held[p][i] # 0 => pc[p] \in {"working", "executing", "settling"}
    /\ \A p \in Workers, i \in Items : held[p][i] # 0 =>
          row[i].status \notin {"absent", "queued"} /\ (row[i].status = "running" => row[i].owner = Owner[p])
    /\ \A p, q \in Workers, i \in Items : held[p][i] # 0 /\ held[q][i] # 0 => Owner[p] = Owner[q]
    /\ \A i \in Items : row[i].status = "running" => ticket[i] # 0
    /\ RunsHeld

\* A recovery has found every row that runs for the server, and nobody is at
\* work on what it has found.
RecoveryInv ==
    /\ \A p \in Procs : pc[p] = "owner_recovering" => p \in WebWorkers
    /\ \A s \in Servers : pc[Main[s]] = "owner_recovering" =>
          /\ Threads[s] \cap alive = {}
          /\ \A i \in Items : row[i].status = "running" /\ row[i].owner = WebOwner => i \in sel[Main[s]]
          /\ \A i \in sel[Main[s]] : /\ row[i].status \notin {"absent", "queued"}
                                     /\ row[i].status = "running" => row[i].owner = WebOwner
                                     /\ \A p \in Workers : held[p][i] = 0

ServerInv ==
    \A s \in Servers :
        /\ s \notin up => pc[Main[s]] = "idle"
        /\ s \in starting => pc[Main[s]] = "owner_recovering"
        /\ Threads[s] \cap alive \subseteq {thread[s]}
        /\ \A t \in Threads[s] \ alive : pc[t] = "idle"

WebInv == BasicInv /\ WebTypeOK /\ LeaseInv /\ HoldInv /\ RecoveryInv /\ ServerInv /\ WebRowsHaveWorker

\* The steps of the queue in which no time passes.
CalmNext == PunctualNext \/ \E p \in Workers : OwnerRead(p)

-----------------------------------------------------------------------------
LEMMA CalmStep == [CalmNext]_vars => [Next]_vars
  BY PunctualStep DEF CalmNext, Next

LEMMA WebIsCalm ==
  ASSUME [WebNext]_webVars, \A s \in Servers : ~ServerDies(s)
  PROVE  [CalmNext]_vars
<1>1. WebProcs \subseteq Workers /\ Outsiders \subseteq Workers
  BY WebAssumption DEF Outsiders
<1>2. \A s \in Servers : Main[s] \in Workers /\ \A t \in Threads[s] : t \in Workers
  BY <1>1 DEF WebProcs
<1>3. QED
  BY <1>1, <1>2
  DEF WebNext, webVars, CalmNext, PunctualNext, Others, Boot, ServerStep, Launch, Booted, RunOnceStep, StartWorker,
      StartAgain, StopWorker, RunOnce, RequestFails, ThreadStep, Loop, ThreadWork, LoopEnds, ThreadFails, WorkerStep,
      vars

LEMMA WebInitially == WebInit => WebInv
<1> SUFFICES ASSUME WebInit
             PROVE  WebInv
  OBVIOUS
<1>1. Init /\ BasicInv
  BY BasicInit DEF WebInit
<1>2. \A i \in Items : row[i].status = "absent"
  BY <1>1 DEF Init, Absent
<1>3. /\ \A q \in Procs : pc[q] = "idle"
      /\ \A p \in Workers, i \in Items : held[p][i] = 0
  BY <1>1 DEF Init
<1>4. LeaseInv /\ HoldInv
  BY <1>2, <1>3 DEF LeaseInv, HoldInv, RunsHeld, Runs, Procs
<1>5. \A s \in Servers : Main[s] \in Procs /\ \A t \in Threads[s] : t \in Procs
  BY WebAssumption DEF WebProcs, Procs
<1>6. RecoveryInv /\ ServerInv
  BY <1>3, <1>5 DEF RecoveryInv, ServerInv, WebInit
<1>7. stopFile \in BOOLEAN
  BY Zenon DEF WebInit
<1>8. WebTypeOK /\ WebRowsHaveWorker
  BY <1>1, <1>7 DEF WebInit, WebTypeOK, WebRowsHaveWorker, BasicInv
<1>9. QED
  BY <1>1, <1>4, <1>6, <1>8 DEF WebInv

-----------------------------------------------------------------------------
(***************************************************************************)
(* What a step of the queue does to the processes, the rows and the claims.*)
(***************************************************************************)
\* No recovery finds a lease that is over, and a lease that is written is still
\* to run.
LEMMA LeasePathNext ==
  ASSUME BasicInv, LeaseInv, [CalmNext]_vars
  PROVE  \A q \in Procs : /\ pc'[q] = "recovering" => sel'[q] = {}
                          /\ pc'[q] = "claiming" => newLease'[q] > 0
                          /\ pc'[q] = "write" /\ intent'[q] = "renew" => newLease'[q] > 0
<1> DEFINE Path == \A q \in Procs : /\ pc[q] = "recovering" => sel[q] = {}
                                    /\ pc[q] = "claiming" => newLease[q] > 0
                                    /\ pc[q] = "write" /\ intent[q] = "renew" => newLease[q] > 0
<1> SUFFICES Path'
  OBVIOUS
<1>0. Path
  BY DEF LeaseInv
<1> USE <1>0 DEF Procs, BasicInv, TypeOK
<1>1. CASE UNCHANGED vars
  BY <1>1 DEF vars, local
<1>2. \A i \in Items : ~Stale(i)
  BY DEF LeaseInv, Stale
<1>3. LeaseTicks > 0
  BY BoundsAssumption
<1>4. ASSUME NEW q \in Procs, RecoverRead(q, "recovering") PROVE Path'
  BY <1>2, <1>4 DEF RecoverRead, Goto
<1>5. ASSUME NEW q \in Procs, NEW next \in {"selecting", "idle"}, RecoverWrite(q, next) PROVE Path'
  BY <1>5 DEF RecoverWrite, Goto
<1>6. ASSUME NEW p \in Workers, ClaimRead(p) PROVE Path'
  BY <1>3, <1>6 DEF ClaimRead, Goto
<1>7. ASSUME NEW p \in Workers, ClaimWrite(p) PROVE Path'
  BY <1>7 DEF ClaimWrite, Goto
<1>8. ASSUME NEW p \in Workers, Reread(p) PROVE Path'
  BY <1>8 DEF Reread, Drop, Goto
<1>9. ASSUME NEW p \in Workers, FinishRead(p) \/ Settle(p) PROVE Path'
  BY <1>9 DEF FinishRead, Settle, Drop, Goto
<1>10. ASSUME NEW q \in Procs, Crash(q) \/ Abandon(q) PROVE Path'
  BY <1>10 DEF Crash, Abandon, Forget, Goto
<1>11. ASSUME NEW c \in Clients, BeginCall(c) PROVE Path'
  <2>1. PICK cmd \in Commands \ {"recover"}, i \in Items :
             intent' = [intent EXCEPT ![c] = cmd] /\ Goto(c, FirstLabel[cmd])
    BY <1>11 DEF BeginCall
  <2>2. FirstLabel[cmd] \in {"check", "token", "merge"}
    BY <2>1, SetsAssumption DEF FirstLabel
  <2>3. UNCHANGED <<sel, newLease>>
    BY <1>11 DEF BeginCall
  <2>4. QED
    BY <1>11, <2>1, <2>2, <2>3 DEF Goto
<1>12. ASSUME NEW c \in Clients, Merge(c) \/ Unlink(c) \/ WriteToken(c) PROVE Path'
  BY <1>12 DEF Merge, Unlink, WriteToken, Goto
<1>13. ASSUME NEW c \in Clients, Check(c) PROVE Path'
  BY <1>3, <1>13 DEF Check, Forget, Goto
<1>14. ASSUME NEW c \in Clients, Write(c) PROVE Path'
  BY <1>14 DEF Write, Forget, Goto
<1>15. ASSUME NEW i \in Items, Enqueue(i) PROVE Path'
  BY <1>15 DEF Enqueue, local
<1>16. ASSUME NEW p \in Workers, OwnerWrite(p) \/ OwnerRead(p) PROVE Path'
  BY <1>16 DEF OwnerWrite, OwnerRead, Goto
<1>17. QED
  BY <1>1, <1>4, <1>5, <1>6, <1>7, <1>8, <1>9, <1>10, <1>11, <1>12, <1>13, <1>14, <1>15, <1>16
  DEF CalmNext, PunctualNext, WorkerStep, ClientStep, BeginClaim, BeginRecover

\* A step of the queue is a step of one process.
Moves(q) ==
    /\ \A r \in Procs \ {q} : pc'[r] = pc[r] /\ sel'[r] = sel[r]
    /\ \A r \in Workers \ {q} : held'[r] = held[r]

LEMMA DropMoves ==
  ASSUME BasicInv, NEW p \in Workers, NEW i \in Items, Drop(p, i), UNCHANGED sel
  PROVE  /\ Moves(p) /\ held'[p][i] = 0
         /\ \A j \in Items \ {i} : held'[p][j] = held[p][j]
         /\ pc'[p] = IF HeldBy(p) = {i} THEN "idle" ELSE "working"
<1>1. held' = [held EXCEPT ![p][i] = 0] /\ held \in [Workers -> [Items -> Nat]]
  BY DEF Drop, BasicInv, TypeOK
<1>2. pc' = [pc EXCEPT ![p] = IF HeldBy(p) = {i} THEN "idle" ELSE "working"] /\ pc \in [Procs -> Labels] /\ p \in Procs
  BY DEF Drop, Goto, BasicInv, TypeOK, Procs
<1>3. QED
  BY <1>1, <1>2 DEF Moves

LEMMA WorkerMoves ==
  ASSUME BasicInv, NEW p \in Workers, WorkerStep(p) \/ OwnerRead(p) \/ Crash(p)
  PROVE  Moves(p)
<1> USE DEF BasicInv, TypeOK, Procs
<1>1. CASE BeginClaim(p)
  BY <1>1 DEF BeginClaim, RecoverRead, Goto, Moves
<1>2. CASE RecoverWrite(p, "selecting")
  BY <1>2 DEF RecoverWrite, Goto, Moves
<1>3. CASE ClaimRead(p)
  BY <1>3 DEF ClaimRead, Goto, Moves
<1>4. CASE ClaimWrite(p)
  BY <1>4 DEF ClaimWrite, Goto, Moves
<1>5. CASE Reread(p)
  <2>1. PICK i \in Items :
             IF row[i].status = "running"
             THEN Goto(p, "executing") /\ UNCHANGED held
             ELSE Drop(p, i)
    BY <1>5 DEF Reread
  <2>2. UNCHANGED sel
    BY <1>5 DEF Reread
  <2>3. CASE row[i].status = "running"
    BY <2>1, <2>2, <2>3 DEF Goto, Moves
  <2>4. CASE row[i].status # "running"
    BY <2>1, <2>2, <2>4, DropMoves
  <2>5. QED
    BY <2>3, <2>4
<1>6. CASE FinishRead(p)
  <2>1. UNCHANGED sel /\ focus[p] \in Items
    BY <1>6 DEF FinishRead, ProcInv
  <2>2. Drop(p, focus[p]) \/ (Goto(p, "settling") /\ UNCHANGED held)
    BY <1>6 DEF FinishRead
  <2>3. QED
    BY <2>1, <2>2, DropMoves DEF Goto, Moves
<1>7. CASE Settle(p)
  <2>1. UNCHANGED sel /\ focus[p] \in Items /\ Drop(p, focus[p])
    BY <1>7 DEF Settle, ProcInv
  <2>2. QED
    BY <2>1, DropMoves
<1>8. CASE OwnerWrite(p) \/ OwnerRead(p)
  BY <1>8 DEF OwnerWrite, OwnerRead, Goto, Moves
<1>9. CASE Crash(p)
  BY <1>9 DEF Crash, Forget, Goto, Moves
<1>10. QED
  BY <1>1, <1>2, <1>3, <1>4, <1>5, <1>6, <1>7, <1>8, <1>9 DEF WorkerStep

LEMMA ClientMoves ==
  ASSUME BasicInv, NEW c \in Clients, ClientStep(c) \/ BeginCall(c) \/ BeginRecover(c) \/ Abandon(c)
  PROVE  Moves(c) /\ UNCHANGED held
<1> USE DEF BasicInv, TypeOK, Procs, Moves
<1>1. CASE RecoverWrite(c, "idle") \/ Merge(c) \/ Unlink(c) \/ WriteToken(c)
  BY <1>1 DEF RecoverWrite, Merge, Unlink, WriteToken, Goto
<1>2. CASE Check(c)
  BY <1>2 DEF Check, Forget, Goto
<1>3. CASE Write(c) \/ Abandon(c)
  BY <1>3 DEF Write, Abandon, Forget, Goto
<1>4. CASE BeginCall(c)
  BY <1>4 DEF BeginCall, Goto
<1>5. CASE BeginRecover(c)
  BY <1>5 DEF BeginRecover, RecoverRead, Goto
<1>6. QED
  BY <1>1, <1>2, <1>3, <1>4, <1>5 DEF ClientStep

\* What a worker holds, it is at work on.
LEMMA HeldAtWork ==
  ASSUME BasicInv, HoldInv, NEW p \in Workers, WorkerStep(p) \/ OwnerRead(p) \/ Crash(p), NEW i \in Items, held'[p][i] # 0
  PROVE  pc'[p] \in {"working", "executing", "settling"}
<1> USE DEF BasicInv, TypeOK, Procs
<1>1. held[p][i] # 0 => pc[p] \in {"working", "executing", "settling"}
  BY DEF HoldInv
<1>2. CASE BeginClaim(p) \/ RecoverWrite(p, "selecting") \/ ClaimRead(p) \/ OwnerWrite(p) \/ OwnerRead(p)
  BY <1>1, <1>2 DEF BeginClaim, RecoverRead, RecoverWrite, ClaimRead, OwnerWrite, OwnerRead, Goto
<1>3. CASE ClaimWrite(p)
  <2>1. held'[p][i] = IF i \in Mine(p) THEN ticket'[i] ELSE 0
    BY <1>3 DEF ClaimWrite
  <2>2. QED
    BY <1>3, <2>1 DEF ClaimWrite, Goto
<1>4. ASSUME NEW j \in Items, Drop(p, j), UNCHANGED sel
      PROVE  pc'[p] \in {"working", "executing", "settling"}
  <2>1. held'[p][j] = 0 /\ pc'[p] = IF HeldBy(p) = {j} THEN "idle" ELSE "working"
    BY <1>4, DropMoves
  <2>2. i # j /\ held[p][i] # 0
    BY <1>4, <2>1, DropMoves
  <2>3. i \in HeldBy(p)
    BY <2>2 DEF HeldBy
  <2>4. QED
    BY <2>1, <2>2, <2>3
<1>5. CASE Reread(p)
  BY <1>4, <1>5 DEF Reread, Goto
<1>6. CASE FinishRead(p)
  BY <1>4, <1>6 DEF FinishRead, ProcInv, Goto
<1>7. CASE Settle(p)
  BY <1>4, <1>7 DEF Settle, ProcInv
<1>8. CASE Crash(p)
  BY <1>8 DEF Crash
<1>9. QED
  BY <1>2, <1>3, <1>5, <1>6, <1>7, <1>8 DEF WorkerStep

\* What becomes of a row: it stays, leaves the queue, returns to it, or is
\* claimed.
Stays(i) ==
    /\ row'[i].status = row[i].status /\ row'[i].owner = row[i].owner
    /\ row[i].status = "running" => row'[i].lease > 0

Leaves(i) == row'[i].status \in {"paused", "completed", "failed", "cancelled"} /\ row'[i].owner = None

Requeued(i) ==
    /\ row'[i].status = "queued"
    /\ row[i].status = "absent" \/ \E p \in Workers : OwnerWrite(p) /\ i \in sel[p]

Taken(i) ==
    \E p \in Workers :
        /\ ClaimWrite(p) /\ i \in Won(p)
        /\ row'[i].status = "running" /\ row'[i].owner = Owner[p] /\ row'[i].lease > 0

LEMMA CalmFate ==
  ASSUME NoRequeue, BasicInv, LeaseInv, [CalmNext]_vars
  PROVE  \A i \in Items : Stays(i) \/ Leaves(i) \/ Requeued(i) \/ Taken(i)
<1> DEFINE Fate == \A i \in Items : Stays(i) \/ Leaves(i) \/ Requeued(i) \/ Taken(i)
<1> SUFFICES Fate
  OBVIOUS
<1> USE DEF BasicInv, TypeOK
<1>0. \A i \in Items : row[i].status = "running" => row[i].lease > 0
  BY DEF LeaseInv
<1>1. ASSUME UNCHANGED row PROVE Fate
  BY <1>0, <1>1 DEF Stays
<1>2. ASSUME NEW f \in Items, NEW r, row' = [row EXCEPT ![f] = r],
             \/ r.status \in {"paused", "completed", "failed", "cancelled"} /\ r.owner = None
             \/ r.status = row[f].status /\ r.owner = row[f].owner /\ (r.status = "running" => r.lease > 0)
      PROVE  Fate
  BY <1>0, <1>2 DEF Stays, Leaves
<1>3. ASSUME NEW i \in Items, Enqueue(i) PROVE Fate
  <2>1. [Absent EXCEPT !.status = "queued"].status = "queued"
    BY DEF Absent
  <2>2. row'[i].status = "queued" /\ row[i].status = "absent" /\ \A j \in Items \ {i} : row'[j] = row[j]
    BY <1>3, <2>1 DEF Enqueue
  <2>3. QED
    BY <1>0, <2>2 DEF Requeued, Stays
<1>4. ASSUME NEW q \in Procs, NEW next \in {"selecting", "idle"}, RecoverWrite(q, next) PROVE Fate
  <2>1. sel[q] = {} /\ spent[q] = {}
    BY <1>4 DEF RecoverWrite, LeaseInv, ProcInv
  <2>2. \A i \in Items : row'[i] = row[i]
    BY <1>4, <2>1 DEF RecoverWrite
  <2>3. QED
    BY <1>0, <2>2 DEF Stays
<1>5. ASSUME NEW p \in Workers, ClaimWrite(p) PROVE Fate
  <2>1. ASSUME NEW i \in Items PROVE Taken(i) \/ Stays(i)
    <3>1. Owner[p] \in Owners /\ newLease[p] \in Leases /\ row[i] \in Row /\ newLease[p] > 0
      BY <1>5, <2>1 DEF Owners, Procs, LeaseInv, ClaimWrite
    <3>2. i \in Won(p) => row'[i] = Leased(row[i], Owner[p], newLease[p])
      BY <1>5, <2>1 DEF ClaimWrite
    <3>3. i \in Won(p) => row'[i].status = "running" /\ row'[i].owner = Owner[p] /\ row'[i].lease > 0
      BY <3>1, <3>2, LeasedType
    <3>4. i \notin Won(p) => row'[i] = row[i]
      BY <1>5, <2>1 DEF ClaimWrite
    <3>5. QED
      BY <1>0, <1>5, <3>3, <3>4 DEF Taken, Stays
  <2>2. QED
    BY <2>1
<1>6. ASSUME NEW p \in Workers, Settle(p) PROVE Fate
  <2>1. focus[p] \in Items
    BY <1>6 DEF Settle, ProcInv, Procs
  <2>2. QED
    BY <1>2, <1>6, <2>1, SettledType DEF Settle
<1>7. ASSUME NEW c \in Clients, Merge(c) PROVE Fate
  <2>1. focus[c] \in Items
    BY <1>7 DEF Merge, ProcInv, Procs, ControlLabels
  <2>2. LET t == [row[focus[c]] EXCEPT !.resume = (intent[c] = "approve")]
        IN  t.status = row[focus[c]].status /\ t.owner = row[focus[c]].owner /\ t.lease = row[focus[c]].lease
    BY <2>1, FieldType
  <2>3. QED
    BY <1>0, <1>2, <1>7, <2>1, <2>2 DEF Merge
<1>8. ASSUME NEW c \in Clients, Write(c) PROVE Fate
  <2>1. focus[c] \in Items /\ intent[c] \in Commands \ {"recover"}
    BY <1>8 DEF Write, ProcInv, Procs, ControlLabels
  <2>2. CASE intent[c] = "renew"
    <3>1. newLease[c] \in Leases /\ newLease[c] > 0
      BY <1>8, <2>2 DEF Write, LeaseInv, Procs
    <3>2. LET t == [row[focus[c]] EXCEPT !.lease = newLease[c]]
          IN  t.status = row[focus[c]].status /\ t.owner = row[focus[c]].owner /\ t.lease > 0
      BY <2>1, <3>1, FieldType
    <3>3. QED
      BY <1>2, <1>8, <2>1, <2>2, <3>2 DEF Write
  <2>3. CASE intent[c] # "renew"
    <3>1. intent[c] \in {"pause", "cancel", "reject"}
      <4>1. intent[c] \notin {"resume", "approve"}
        BY <2>1 DEF NoRequeue
      <4>2. QED
        BY <2>1, <2>3, <4>1, SetsAssumption
    <3>2. Target[intent[c]] \in {"paused", "cancelled"}
      BY <3>1 DEF Target
    <3>3. LET t == Released(row[focus[c]], Target[intent[c]]) IN t.status \in {"paused", "cancelled"} /\ t.owner = None
      BY <2>1, <3>2, ReleasedType DEF Statuses
    <3>4. QED
      BY <1>2, <1>8, <2>1, <2>3, <3>3 DEF Write
  <2>4. QED
    BY <2>2, <2>3
<1>9. ASSUME NEW p \in Workers, OwnerWrite(p) PROVE Fate
  <2>1. \A i \in Items : Released(row[i], "queued") \in Row /\ Released(row[i], "queued").status = "queued"
    BY ReleasedType DEF Statuses
  <2>2. \A i \in Items : IF i \in sel[p] THEN row'[i].status = "queued" ELSE row'[i] = row[i]
    BY <1>9, <2>1, RefundedType DEF OwnerWrite
  <2>3. QED
    BY <1>0, <1>9, <2>2 DEF Requeued, Stays
<1>10. QED
  BY <1>1, <1>3, <1>4, <1>5, <1>6, <1>7, <1>8, <1>9
  DEF CalmNext, PunctualNext, WorkerStep, ClientStep, BeginClaim, RecoverRead, ClaimRead, Reread, FinishRead, Crash,
      OwnerRead, BeginCall, BeginRecover, Unlink, WriteToken, Check, Abandon, Procs, vars

\* A claim: what it wins was queued and held by nobody; the rest of what it
\* counts runs under the claimer's name already.
LEMMA ClaimEffect ==
  ASSUME BasicInv, NEW p \in Workers, ClaimWrite(p), NEW i \in Items
  PROVE  /\ held'[p][i] = IF i \in Mine(p) THEN ticket'[i] ELSE 0
         /\ i \in Won(p) => /\ ticket'[i] = ticket[i] + 1 /\ row[i].status = "queued" /\ i \in Mine(p)
                            /\ row'[i].status = "running" /\ row'[i].owner = Owner[p]
         /\ i \notin Won(p) => ticket'[i] = ticket[i] /\ row'[i] = row[i]
         /\ i \in Mine(p) \ Won(p) => row[i].status = "running" /\ row[i].owner = Owner[p]
<1> USE DEF BasicInv, TypeOK
<1>1. Owner[p] \in Owners /\ newLease[p] \in Leases /\ row[i] \in Row
  BY DEF Owners, Procs
<1>2. i \in Won(p) => row'[i] = Leased(row[i], Owner[p], newLease[p])
  BY DEF ClaimWrite
<1>3. i \in Won(p) => row'[i].status = "running" /\ row'[i].owner = Owner[p]
  BY <1>1, <1>2, LeasedType
<1>4. held' = [held EXCEPT ![p] = [j \in Items |-> IF j \in Mine(p) THEN ticket'[j] ELSE 0]]
  BY DEF ClaimWrite
<1>5. held'[p] = [j \in Items |-> IF j \in Mine(p) THEN ticket'[j] ELSE 0]
  BY <1>4
<1>6. QED
  BY <1>3, <1>5 DEF ClaimWrite, Won, Mine

LEMMA CallLabels ==
  ASSUME NEW cmd \in Commands \ {"recover"}
  PROVE  FirstLabel[cmd] # "owner_recovering"
<1>1. cmd \in {"pause", "resume", "cancel", "approve", "reject", "renew"}
  BY SetsAssumption
<1>2. QED
  BY <1>1 DEF FirstLabel

\* Only OwnerRead begins a recovery of an owner.
LEMMA RecoveryBegins ==
  ASSUME BasicInv, [CalmNext]_vars, NEW r \in Procs, pc'[r] = "owner_recovering", pc[r] # "owner_recovering"
  PROVE  r \in WebWorkers
<1> USE DEF BasicInv, TypeOK, Procs
<1>1. ASSUME NEW q \in Procs, NEW l, Goto(q, l), l # "owner_recovering"
      PROVE  FALSE
  BY <1>1 DEF Goto
<1>2. ASSUME UNCHANGED pc
      PROVE  FALSE
  BY <1>2
<1>3. ASSUME NEW q \in Procs, RecoverRead(q, "recovering") \/ RecoverWrite(q, "selecting") \/ RecoverWrite(q, "idle")
      PROVE  FALSE
  BY <1>1, <1>3 DEF RecoverRead, RecoverWrite
<1>4. ASSUME NEW p \in Workers, ClaimRead(p) \/ ClaimWrite(p) \/ OwnerWrite(p)
      PROVE  FALSE
  <2>1. \E l \in {"idle", "claiming", "working"} : Goto(p, l)
    BY <1>4 DEF ClaimRead, ClaimWrite, OwnerWrite
  <2>2. QED
    BY <1>1, <2>1
<1>5. ASSUME NEW p \in Workers, Reread(p) \/ FinishRead(p) \/ Settle(p)
      PROVE  FALSE
  <2>1. \E l \in {"idle", "executing", "working", "settling"} : Goto(p, l)
    BY <1>5 DEF Reread, FinishRead, Settle, Drop
  <2>2. QED
    BY <1>1, <2>1
<1>6. ASSUME NEW q \in Procs, Forget(q)
      PROVE  FALSE
  BY <1>1, <1>6 DEF Forget
<1>7. ASSUME NEW c \in Clients, BeginCall(c)
      PROVE  FALSE
  <2>1. PICK cmd \in Commands \ {"recover"} : Goto(c, FirstLabel[cmd])
    BY <1>7 DEF BeginCall
  <2>2. FirstLabel[cmd] # "owner_recovering"
    BY CallLabels
  <2>3. QED
    BY <1>1, <2>1, <2>2
<1>8. ASSUME NEW c \in Clients, Merge(c) \/ Unlink(c) \/ WriteToken(c) \/ Check(c)
      PROVE  FALSE
  <2>1. \E l \in {"token", "unlink", "check", "write"} : Goto(c, l) \/ Forget(c)
    BY <1>8 DEF Merge, Unlink, WriteToken, Check
  <2>2. QED
    BY <1>1, <1>6, <2>1
<1>9. ASSUME NEW p \in Workers, OwnerRead(p)
      PROVE  r \in WebWorkers
  BY <1>9 DEF OwnerRead, Goto
<1>10. QED
  BY <1>2, <1>3, <1>4, <1>5, <1>6, <1>7, <1>8, <1>9
  DEF CalmNext, PunctualNext, WorkerStep, ClientStep, Enqueue, BeginClaim, BeginRecover, Crash, Write, Abandon, vars, local

\* A row that returns to the queue is held by nobody.
LEMMA RequeuedIsFree ==
  ASSUME BasicInv, HoldInv, RecoveryInv, NEW i \in Items, Requeued(i), NEW p \in Workers
  PROVE  held[p][i] = 0
<1>1. CASE row[i].status = "absent"
  BY <1>1 DEF HoldInv
<1>2. ASSUME NEW q \in Workers, OwnerWrite(q), i \in sel[q]
      PROVE  held[p][i] = 0
  <2>1. pc[q] = "owner_recovering" /\ q \in Procs
    BY <1>2 DEF OwnerWrite, Procs
  <2>2. PICK s \in Servers : q = Main[s]
    BY <2>1, WebAssumption DEF RecoveryInv
  <2>3. QED
    BY <1>2, <2>1, <2>2 DEF RecoveryInv
<1>3. QED
  BY <1>1, <1>2 DEF Requeued

LEMMA HoldNext ==
  ASSUME NoRequeue, BasicInv, BasicInv', LeaseInv, HoldInv, RecoveryInv, [CalmNext]_vars
  PROVE  HoldInv'
<1>1. \A i \in Items : Stays(i) \/ Leaves(i) \/ Requeued(i) \/ Taken(i)
  BY CalmFate
<1>2. \A p \in Workers, i \in Items : /\ held[p][i] \in Nat /\ held'[p][i] \in Nat
                                      /\ ticket[i] \in Nat /\ ticket'[i] \in Nat
  BY DEF BasicInv, TypeOK
<1>3. RunsHeld'
  BY CalmStep, RunsNext DEF HoldInv
<1>4. \A p \in Workers, i \in Items : held'[p][i] # 0 => pc'[p] \in {"working", "executing", "settling"}
  <2>1. ASSUME NEW p \in Workers, NEW i \in Items, held'[p][i] # 0, held'[p] = held[p], pc'[p] = pc[p]
        PROVE  pc'[p] \in {"working", "executing", "settling"}
    BY <2>1 DEF HoldInv
  <2>2. ASSUME NEW q \in Workers, WorkerStep(q) \/ OwnerRead(q) \/ Crash(q), NEW p \in Workers, NEW i \in Items, held'[p][i] # 0
        PROVE  pc'[p] \in {"working", "executing", "settling"}
    <3>1. CASE p = q
      BY <2>2, <3>1, HeldAtWork
    <3>2. CASE p # q
      BY <2>1, <2>2, <3>2, WorkerMoves DEF Moves, Procs
    <3>3. QED
      BY <3>1, <3>2
  <2>3. ASSUME NEW c \in Clients, ClientStep(c) \/ BeginCall(c) \/ BeginRecover(c) \/ Abandon(c),
               NEW p \in Workers, NEW i \in Items, held'[p][i] # 0
        PROVE  pc'[p] \in {"working", "executing", "settling"}
    <3>1. p # c
      BY <2>3, SetsAssumption
    <3>2. QED
      BY <2>1, <2>3, <3>1, ClientMoves DEF Moves, Procs
  <2>4. ASSUME UNCHANGED <<held, pc>>, NEW p \in Workers, NEW i \in Items, held'[p][i] # 0
        PROVE  pc'[p] \in {"working", "executing", "settling"}
    BY <2>1, <2>4
  <2>5. QED
    BY <2>2, <2>3, <2>4 DEF CalmNext, PunctualNext, Enqueue, vars, local
<1>5. CASE NoClaim
  <2>1. ASSUME NEW i \in Items, row'[i].status = "running"
        PROVE  ticket'[i] # 0 /\ row[i].status = "running" /\ row'[i].owner = row[i].owner
    <3>1. row[i].status = "running" /\ row'[i].owner = row[i].owner
      BY <1>5, <2>1 DEF NoClaim, Kept, Cleared
    <3>2. QED
      BY <1>5, <3>1 DEF NoClaim, HoldInv
  <2>2. ASSUME NEW p \in Workers, NEW i \in Items, held'[p][i] # 0
        PROVE  /\ row'[i].status \notin {"absent", "queued"} /\ (row'[i].status = "running" => row'[i].owner = Owner[p])
               /\ held[p][i] # 0
    <3>1. held[p][i] # 0
      BY <1>5, <2>2 DEF NoClaim
    <3>2. row[i].status \notin {"absent", "queued"} /\ (row[i].status = "running" => row[i].owner = Owner[p])
      BY <3>1 DEF HoldInv
    <3>3. ~Requeued(i)
      BY <3>1, RequeuedIsFree
    <3>4. ~Taken(i)
      BY <3>2 DEF Taken, Won
    <3>5. row'[i].status \notin {"absent", "queued"}
      BY <1>1, <3>2, <3>3, <3>4 DEF Stays, Leaves
    <3>6. QED
      BY <2>1, <3>1, <3>2, <3>5
  <2>3. \A p, q \in Workers, i \in Items : held'[p][i] # 0 /\ held'[q][i] # 0 => Owner[p] = Owner[q]
    BY <2>2 DEF HoldInv
  <2>4. QED
    BY <1>3, <1>4, <2>1, <2>2, <2>3 DEF HoldInv
<1>6. ASSUME NEW p \in Workers, ClaimWrite(p)
      PROVE  HoldInv'
  <2>1. \A q \in Workers \ {p} : held'[q] = held[q]
    BY <1>6, WorkerMoves DEF Moves, WorkerStep
  <2>2. ASSUME NEW i \in Items, row'[i].status = "running"
        PROVE  ticket'[i] # 0
    BY <1>2, <1>6, <2>2, ClaimEffect DEF HoldInv
  <2>3. ASSUME NEW q \in Workers, NEW i \in Items, held'[q][i] # 0
        PROVE  row'[i].status \notin {"absent", "queued"} /\ (row'[i].status = "running" => row'[i].owner = Owner[q])
    <3>1. CASE q = p
      <4>1. i \in Mine(p)
        BY <1>6, <2>3, <3>1, ClaimEffect
      <4>2. QED
        BY <1>6, <3>1, <4>1, ClaimEffect
    <3>2. CASE q # p
      <4>1. row[i].status \notin {"absent", "queued"} /\ (row[i].status = "running" => row[i].owner = Owner[q])
        BY <2>1, <2>3, <3>2 DEF HoldInv
      <4>2. i \notin Won(p)
        BY <4>1 DEF Won
      <4>3. QED
        BY <1>6, <4>1, <4>2, ClaimEffect
    <3>3. QED
      BY <3>1, <3>2
  <2>4. ASSUME NEW q \in Workers \ {p}, NEW i \in Items, held'[p][i] # 0, held'[q][i] # 0
        PROVE  Owner[p] = Owner[q]
    <3>1. held[q][i] # 0
      BY <2>1, <2>4
    <3>2. i \in Mine(p)
      BY <1>6, <2>4, ClaimEffect
    <3>3. i \notin Won(p)
      BY <3>1 DEF Won, HoldInv
    <3>4. row[i].status = "running" /\ row[i].owner = Owner[p]
      BY <1>6, <3>2, <3>3, ClaimEffect
    <3>5. QED
      BY <3>1, <3>4 DEF HoldInv
  <2>5. \A q, r \in Workers, i \in Items : held'[q][i] # 0 /\ held'[r][i] # 0 => Owner[q] = Owner[r]
    BY <2>1, <2>4 DEF HoldInv
  <2>6. QED
    BY <1>3, <1>4, <2>2, <2>3, <2>5 DEF HoldInv
<1>7. QED
  BY <1>5, <1>6, ClaimOrNot, CalmStep

\* The queue's part of the invariant.
LEMMA QueueNext ==
  ASSUME NoRequeue, WebInv, [CalmNext]_vars
  PROVE  /\ BasicInv' /\ LeaseInv' /\ HoldInv'
         /\ \A p \in Procs : pc'[p] = "owner_recovering" => p \in WebWorkers
<1>1. BasicInv'
  BY CalmStep, BasicNext DEF WebInv
<1>2. \A i \in Items : row'[i].status = "running" => row'[i].lease > 0
  BY CalmFate DEF WebInv, LeaseInv, Stays, Leaves, Requeued, Taken
<1>3. LeaseInv'
  BY <1>2, LeasePathNext DEF WebInv, LeaseInv
<1>4. HoldInv'
  BY <1>1, HoldNext DEF WebInv
<1>5. \A p \in Procs : pc'[p] = "owner_recovering" => p \in WebWorkers
  BY RecoveryBegins DEF WebInv, RecoveryInv
<1>6. QED
  BY <1>1, <1>3, <1>4, <1>5

-----------------------------------------------------------------------------
(***************************************************************************)
(* The steps of the server.                                                *)
(***************************************************************************)
LEMMA ServersAreWorkers ==
  ASSUME OneServer, NEW s \in Servers
  PROVE  /\ Servers = {s} /\ WebProcs = {Main[s]} \cup Threads[s] /\ Main[s] \notin Threads[s]
         /\ Main[s] \in Workers /\ Threads[s] \subseteq Workers
         /\ \A p \in Workers : Owner[p] = WebOwner <=> p = Main[s] \/ p \in Threads[s]
         /\ \A p \in WebWorkers : p = Main[s]
<1>1. Servers = {s}
  BY DEF OneServer
<1>2. WebProcs = {Main[s]} \cup Threads[s]
  BY <1>1 DEF WebProcs
<1>3. QED
  BY <1>1, <1>2, WebAssumption

\* A worker's step uses nothing up, so it is no crash, and a step of another
\* process is none of this one.
LEMMA NotACrash ==
  ASSUME BasicInv, NEW p \in Workers, NEW q \in Procs, (Moves(q) /\ q # p) \/ UNCHANGED crashes
  PROVE  ~Crash(p)
<1>1. Crash(p) => pc'[p] = "idle" /\ pc[p] # "idle" /\ crashes' = crashes + 1 /\ crashes \in Nat
  BY DEF Crash, Forget, Goto, BasicInv, TypeOK, Procs
<1>2. QED
  BY <1>1 DEF Moves, Procs

LEMMA WorkerStepKeepsBounds ==
  ASSUME NEW p, WorkerStep(p)
  PROVE  UNCHANGED bounds
  BY DEF WorkerStep, BeginClaim, RecoverWrite, ClaimRead, ClaimWrite, Reread, FinishRead, Settle, OwnerWrite

\* A worker that holds a row keeps it as long as the row runs.
LEMMA DropEnds ==
  ASSUME BasicInv, NEW p \in Workers, NEW i \in Items, NEW j \in Items, j # i, Drop(p, j)
  PROVE  held'[p][i] = held[p][i]
  BY DEF Drop, BasicInv, TypeOK

LEMMA HeldKept ==
  ASSUME BasicInv, HoldInv, [CalmNext]_vars, NEW p \in Workers, ~Crash(p), NEW i \in Items, held[p][i] # 0,
         row[i].status = "running", row'[i].status = "running"
  PROVE  held'[p][i] = held[p][i] /\ ticket'[i] = ticket[i]
<1>1. ticket'[i] = ticket[i]
  <2>1. CASE NoClaim
    BY <2>1 DEF NoClaim
  <2>2. ASSUME NEW q \in Workers, ClaimWrite(q)
        PROVE  ticket'[i] = ticket[i]
    <3>1. i \notin Won(q)
      BY DEF Won
    <3>2. QED
      BY <2>2, <3>1, ClaimEffect
  <2>3. QED
    BY <2>1, <2>2, ClaimOrNot, CalmStep
<1>2. ASSUME held' = held
      PROVE  held'[p][i] = held[p][i]
  BY <1>2
<1>3. ASSUME NEW q \in Procs \ {p}, Moves(q)
      PROVE  held'[p][i] = held[p][i]
  BY <1>3 DEF Moves
<1>4. CASE ClaimWrite(p)
  BY <1>4 DEF ClaimWrite, HoldInv
<1>5. CASE Reread(p)
  <2>1. PICK j \in Items :
             IF row[j].status = "running" THEN UNCHANGED held ELSE Drop(p, j)
    BY <1>5 DEF Reread
  <2>2. QED
    BY <1>1, <2>1, DropEnds
<1>6. CASE FinishRead(p)
  <2>1. focus[p] \in Items
    BY <1>6 DEF FinishRead, BasicInv, ProcInv, Procs
  <2>2. IF row[focus[p]].status = "cancelled" THEN Drop(p, focus[p]) ELSE UNCHANGED held
    BY <1>6 DEF FinishRead
  <2>3. QED
    BY <1>1, <2>1, <2>2, DropEnds
<1>7. CASE Settle(p)
  <2>1. focus[p] \in Items /\ Drop(p, focus[p])
    BY <1>7 DEF Settle, BasicInv, ProcInv, Procs
  <2>2. row'[focus[p]] = Settled(row[focus[p]], intent[p]) /\ row[focus[p]] \in Row
    BY <1>7, <2>1 DEF Settle, BasicInv, TypeOK
  <2>3. focus[p] # i
    BY <2>2, SettledType
  <2>4. QED
    BY <1>1, <2>1, <2>3, DropEnds
<1>8. CASE WorkerStep(p) \/ OwnerRead(p)
  BY <1>1, <1>2, <1>4, <1>5, <1>6, <1>7, <1>8
  DEF WorkerStep, BeginClaim, RecoverRead, RecoverWrite, ClaimRead, OwnerWrite, OwnerRead
<1>9. held'[p][i] = held[p][i]
  <2>1. \A q \in Workers : q \in Procs
    BY DEF Procs
  <2>2. ASSUME NEW q \in Workers, WorkerStep(q) \/ OwnerRead(q) \/ Crash(q)
        PROVE  held'[p][i] = held[p][i]
    BY <1>3, <1>8, <2>1, <2>2, WorkerMoves
  <2>3. ASSUME NEW c \in Clients, ClientStep(c) \/ BeginCall(c) \/ BeginRecover(c) \/ Abandon(c)
        PROVE  held'[p][i] = held[p][i]
    BY <1>2, <2>3, ClientMoves
  <2>4. QED
    BY <1>2, <2>2, <2>3 DEF CalmNext, PunctualNext, Enqueue, vars
<1>10. QED
  BY <1>1, <1>9

\* A row of the web owner keeps a worker in the server.
LEMMA RowsKeep ==
  ASSUME OneServer, NoRequeue, WebInv, [CalmNext]_vars, NEW s \in up \cap clean, pc[Main[s]] # "owner_recovering",
         \A p \in {Main[s]} \cup (Threads[s] \cap alive) : ~Crash(p),
         NEW i \in Items, row'[i].status = "running", row'[i].owner = WebOwner
  PROVE  \E p \in {Main[s]} \cup (Threads[s] \cap alive) : held'[p][i] = ticket'[i]
<1>0. s \in Servers
  BY DEF WebInv, WebTypeOK
<1>1. CASE Taken(i)
  <2>1. PICK p \in Workers : ClaimWrite(p) /\ i \in Won(p) /\ row'[i].owner = Owner[p]
    BY <1>1 DEF Taken
  <2>2. pc[p] = "claiming"
    BY <2>1 DEF ClaimWrite
  <2>3. p \in {Main[s]} \cup Threads[s]
    BY <1>0, <2>1, ServersAreWorkers
  <2>4. p \in Threads[s] => p \in alive
    BY <1>0, <2>2 DEF WebInv, ServerInv
  <2>5. held'[p][i] = ticket'[i]
    BY <2>1, ClaimEffect DEF WebInv
  <2>6. QED
    BY <2>3, <2>4, <2>5
<1>2. CASE Stays(i)
  <2>1. row[i].status = "running" /\ row[i].owner = WebOwner
    BY <1>2 DEF Stays
  <2>2. PICK p \in {Main[s]} \cup (Threads[s] \cap alive) : held[p][i] = ticket[i]
    BY <2>1 DEF WebInv, WebRowsHaveWorker
  <2>3. ticket[i] # 0
    BY <2>1 DEF WebInv, HoldInv
  <2>4. p \in Workers
    BY <1>0, ServersAreWorkers
  <2>5. held'[p][i] = held[p][i] /\ ticket'[i] = ticket[i]
    BY <2>1, <2>2, <2>3, <2>4, HeldKept DEF WebInv
  <2>6. QED
    BY <2>2, <2>5
<1>3. QED
  BY <1>1, <1>2, CalmFate DEF WebInv, Leaves, Requeued

\* What a recovery has found.
Found(s) ==
    /\ \A i \in Items : row[i].status = "running" /\ row[i].owner = WebOwner => i \in sel[Main[s]]
    /\ \A i \in sel[Main[s]] : /\ row[i].status \notin {"absent", "queued"}
                               /\ row[i].status = "running" => row[i].owner = WebOwner
                               /\ \A p \in Workers : held[p][i] = 0

\* While the event loop is in the recovery nobody claims for the server.
LEMMA FoundKept ==
  ASSUME OneServer, NoRequeue, WebInv, [CalmNext]_vars, NEW s \in Servers, pc[Main[s]] = "owner_recovering",
         pc'[Main[s]] = "owner_recovering", sel'[Main[s]] = sel[Main[s]]
  PROVE  Found(s)'
<1>0. Found(s) /\ Threads[s] \cap alive = {} /\ Main[s] \in Workers /\ Main[s] \in Procs
  BY ServersAreWorkers DEF WebInv, RecoveryInv, Found, Procs
<1>1. \A p \in Workers : ClaimWrite(p) => Owner[p] # WebOwner
  <2>1. SUFFICES ASSUME NEW p \in Workers, pc[p] = "claiming", Owner[p] = WebOwner PROVE FALSE
    BY DEF ClaimWrite
  <2>2. p \in Threads[s]
    BY <2>1, ServersAreWorkers
  <2>3. QED
    BY <1>0, <2>1, <2>2 DEF WebInv, ServerInv
<1>2. \A p \in Workers : ~OwnerWrite(p)
  <2>1. SUFFICES ASSUME NEW p \in Workers, OwnerWrite(p) PROVE FALSE
    OBVIOUS
  <2>2. pc[p] = "owner_recovering" /\ pc' = [pc EXCEPT ![p] = "idle"] /\ p \in Procs
    BY <2>1 DEF OwnerWrite, Goto, Procs
  <2>3. p = Main[s]
    BY <2>2, ServersAreWorkers DEF WebInv, RecoveryInv
  <2>4. QED
    BY <2>2, <2>3 DEF WebInv, BasicInv, TypeOK
<1>3. \A i \in Items : Stays(i) \/ Leaves(i) \/ Requeued(i) \/ Taken(i)
  BY CalmFate DEF WebInv
<1>4. ASSUME NEW i \in Items, row'[i].status = "running", row'[i].owner = WebOwner
      PROVE  i \in sel'[Main[s]]
  <2>1. Stays(i)
    BY <1>1, <1>3, <1>4 DEF Leaves, Requeued, Taken
  <2>2. QED
    BY <1>0, <1>4, <2>1 DEF Stays, Found
<1>5. ASSUME NEW i \in sel'[Main[s]]
      PROVE  /\ row'[i].status \notin {"absent", "queued"}
             /\ row'[i].status = "running" => row'[i].owner = WebOwner
             /\ \A p \in Workers : held'[p][i] = 0
  <2>0. i \in Items
    BY <1>0, <1>5 DEF WebInv, BasicInv, TypeOK
  <2>1. /\ row[i].status \notin {"absent", "queued"}
        /\ row[i].status = "running" => row[i].owner = WebOwner
        /\ \A p \in Workers : held[p][i] = 0
    BY <1>0, <1>5 DEF Found
  <2>2. ~Requeued(i) /\ ~Taken(i)
    BY <1>2, <2>1 DEF Requeued, Taken, Won
  <2>3. \A p \in Workers : held'[p][i] = 0
    <3>1. CASE NoClaim
      BY <2>0, <2>1, <3>1 DEF NoClaim
    <3>2. ASSUME NEW q \in Workers, ClaimWrite(q)
          PROVE  \A p \in Workers : held'[p][i] = 0
      <4>1. i \notin Mine(q)
        BY <1>1, <2>1, <3>2 DEF Mine, Won
      <4>2. held'[q][i] = 0
        BY <2>0, <3>2, <4>1, ClaimEffect DEF WebInv
      <4>3. \A p \in Workers \ {q} : held'[p] = held[p]
        BY <3>2, WorkerMoves DEF WebInv, WorkerStep, Moves
      <4>4. QED
        BY <2>1, <4>2, <4>3
    <3>3. QED
      BY <3>1, <3>2, ClaimOrNot, CalmStep DEF WebInv
  <2>4. QED
    BY <1>3, <2>0, <2>1, <2>2, <2>3 DEF Stays, Leaves
<1>6. QED
  BY <1>4, <1>5 DEF Found

-----------------------------------------------------------------------------
\* The parts of the invariant that are about the server, from the pieces a step
\* of one server leaves to show.
LEMMA WebParts ==
  ASSUME OneServer, NoRequeue, WebInv, [CalmNext]_vars, WebTypeOK', ServerInv', NEW s \in Servers,
         pc'[Main[s]] = "owner_recovering" => Threads[s] \cap alive' = {} /\ Found(s)',
         s \in up' \cap clean' /\ pc'[Main[s]] # "owner_recovering" =>
             \A i \in Items : row'[i].status = "running" /\ row'[i].owner = WebOwner =>
                 \E p \in {Main[s]} \cup (Threads[s] \cap alive') : held'[p][i] = ticket'[i]
  PROVE  WebInv'
<1>1. \A r \in Servers : r = s
  BY DEF OneServer
<1>2. /\ BasicInv' /\ LeaseInv' /\ HoldInv'
      /\ \A p \in Procs : pc'[p] = "owner_recovering" => p \in WebWorkers
  BY QueueNext
<1>3. RecoveryInv'
  BY <1>1, <1>2 DEF RecoveryInv, Found
<1>4. up' \subseteq Servers
  BY DEF WebTypeOK
<1>5. WebRowsHaveWorker'
  BY <1>1, <1>4 DEF WebRowsHaveWorker
<1>6. QED
  BY <1>2, <1>3, <1>5 DEF WebInv

\* A step of the queue that no server takes part in, or in which the event loop
\* or a thread that is alive goes on with its work.
LEMMA QuietKeeps ==
  ASSUME OneServer, NoRequeue, WebInv, [CalmNext]_vars, UNCHANGED web, NEW s \in Servers,
         \/ pc'[Main[s]] = pc[Main[s]] /\ sel'[Main[s]] = sel[Main[s]]
         \/ s \in up /\ pc[Main[s]] # "owner_recovering" /\ pc'[Main[s]] # "owner_recovering",
         \A t \in Threads[s] \ alive : pc'[t] = pc[t],
         \A p \in WebProcs : ~Crash(p)
  PROVE  WebInv'
<1>1. \A r \in Servers : r = s
  BY DEF OneServer
<1>2. UNCHANGED <<up, thread, alive, starting, stopFile, clean>>
  BY DEF web
<1>3. WebTypeOK'
  BY <1>2, QueueNext DEF WebInv, BasicInv, WebTypeOK
<1>4. ServerInv'
  BY <1>1, <1>2 DEF WebInv, ServerInv
<1>5. pc'[Main[s]] = "owner_recovering" => Threads[s] \cap alive' = {} /\ Found(s)'
  BY <1>2, FoundKept DEF WebInv, RecoveryInv
<1>6. ASSUME s \in up' \cap clean', pc'[Main[s]] # "owner_recovering", NEW i \in Items,
             row'[i].status = "running", row'[i].owner = WebOwner
      PROVE  \E p \in {Main[s]} \cup (Threads[s] \cap alive') : held'[p][i] = ticket'[i]
  <2>1. pc[Main[s]] # "owner_recovering"
    BY <1>6
  <2>2. \A p \in {Main[s]} \cup (Threads[s] \cap alive) : ~Crash(p)
    BY ServersAreWorkers
  <2>3. QED
    BY <1>2, <1>6, <2>1, <2>2, RowsKeep
<1>7. QED
  BY <1>3, <1>4, <1>5, <1>6, WebParts

\* The queue alone: a worker of another owner, a client, a new item.
LEMMA OthersKeep ==
  ASSUME OneServer, NoRequeue, WebInv, Others, NEW s \in Servers
  PROVE  WebInv'
<1>1. UNCHANGED web /\ WebNext /\ \A r \in Servers : ~ServerDies(r)
  <2>1. UNCHANGED web
    BY DEF Others
  <2>2. \A r \in Servers : r \in up => ~ServerDies(r)
    BY <2>1 DEF ServerDies, web
  <2>3. QED
    BY <2>1, <2>2 DEF WebNext, ServerDies
<1>2. [CalmNext]_vars
  BY <1>1, WebIsCalm
<1>3. WebProcs = {Main[s]} \cup Threads[s] /\ WebProcs \subseteq Workers /\ WebProcs \subseteq Procs
  BY ServersAreWorkers DEF Procs
<1>4. ASSUME NEW q \in Procs \ WebProcs, Moves(q)
      PROVE  WebInv'
  <2>1. \A p \in WebProcs : ~Crash(p) /\ pc'[p] = pc[p] /\ sel'[p] = sel[p]
    BY <1>3, <1>4, NotACrash DEF Moves, WebInv
  <2>2. QED
    BY <1>1, <1>2, <1>3, <2>1, QuietKeeps
<1>5. ASSUME NEW i \in Items, Enqueue(i)
      PROVE  WebInv'
  <2>1. UNCHANGED <<pc, sel, crashes>>
    BY <1>5 DEF Enqueue, local, bounds
  <2>2. \A p \in WebProcs : ~Crash(p)
    BY <1>3, <2>1, NotACrash DEF WebInv
  <2>3. QED
    BY <1>1, <1>2, <2>1, <2>2, QuietKeeps
<1>6. ASSUME NEW p \in Outsiders, WorkerStep(p) \/ Crash(p)
      PROVE  WebInv'
  <2>1. p \in Workers /\ p \in Procs \ WebProcs
    BY DEF Outsiders, Procs
  <2>2. QED
    BY <1>4, <1>6, <2>1, WorkerMoves DEF WebInv
<1>7. ASSUME NEW c \in Clients, ClientStep(c) \/ BeginCall(c) \/ BeginRecover(c) \/ Abandon(c)
      PROVE  WebInv'
  <2>1. c \in Procs \ WebProcs
    BY <1>3, SetsAssumption DEF Procs
  <2>2. QED
    BY <1>4, <1>7, <2>1, ClientMoves DEF WebInv
<1>8. QED
  BY <1>5, <1>6, <1>7 DEF Others

\* The event loop works on a batch of its own, a thread on its.
LEMMA WorkKeeps ==
  ASSUME OneServer, NoRequeue, WebInv, NEW s \in Servers, NEW p \in Workers, WorkerStep(p), UNCHANGED web,
         \/ p = Main[s] /\ s \in up /\ pc[p] # "owner_recovering"
         \/ p \in Threads[s] \cap alive
  PROVE  WebInv'
<1>1. [CalmNext]_vars
  BY DEF CalmNext, PunctualNext
<1>2. Moves(p) /\ UNCHANGED crashes /\ p \in Procs
  BY WorkerMoves, WorkerStepKeepsBounds DEF WebInv, bounds, Procs
<1>3. /\ WebProcs = {Main[s]} \cup Threads[s] /\ WebProcs \subseteq Workers /\ WebProcs \subseteq Procs
      /\ Main[s] \notin Threads[s]
  BY ServersAreWorkers DEF Procs
<1>4. \A q \in WebProcs : ~Crash(q)
  BY <1>2, <1>3, NotACrash DEF WebInv
<1>5. pc[p] # "owner_recovering" => pc'[p] # "owner_recovering"
  <2>1. ASSUME NEW l \in {"recovering", "selecting", "idle", "claiming", "working", "executing", "settling"}, Goto(p, l)
        PROVE  pc'[p] # "owner_recovering"
    BY <1>2, <2>1 DEF Goto, WebInv, BasicInv, TypeOK
  <2>2. CASE BeginClaim(p) \/ RecoverWrite(p, "selecting")
    BY <2>1, <2>2 DEF BeginClaim, RecoverRead, RecoverWrite
  <2>3. CASE ClaimRead(p) \/ ClaimWrite(p)
    <3>1. \E l \in {"idle", "claiming", "working"} : Goto(p, l)
      BY <2>3 DEF ClaimRead, ClaimWrite
    <3>2. QED
      BY <2>1, <3>1
  <2>4. CASE Reread(p) \/ FinishRead(p) \/ Settle(p)
    <3>1. \E l \in {"idle", "executing", "working", "settling"} : Goto(p, l)
      BY <2>4 DEF Reread, FinishRead, Settle, Drop
    <3>2. QED
      BY <2>1, <3>1
  <2>5. CASE OwnerWrite(p)
    BY <2>1, <2>5 DEF OwnerWrite
  <2>6. QED
    BY <2>2, <2>3, <2>4, <2>5 DEF WorkerStep
<1>6. \A t \in Threads[s] \ alive : pc'[t] = pc[t]
  BY <1>2, <1>3 DEF Moves
<1>7. \/ pc'[Main[s]] = pc[Main[s]] /\ sel'[Main[s]] = sel[Main[s]]
      \/ s \in up /\ pc[Main[s]] # "owner_recovering" /\ pc'[Main[s]] # "owner_recovering"
  BY <1>2, <1>3, <1>5 DEF Moves
<1>8. QED
  BY <1>1, <1>4, <1>6, <1>7, QuietKeeps

\* A recovery begins with no thread alive: what it finds nobody holds.
LEMMA RecoveryFinds ==
  ASSUME OneServer, NoRequeue, WebInv, NEW s \in Servers, OwnerRead(Main[s]), Threads[s] \cap alive = {},
         WebTypeOK', ServerInv', Threads[s] \cap alive' = {}
  PROVE  WebInv'
<1>1. /\ Main[s] \in Workers /\ Main[s] \in Procs /\ Owner[Main[s]] = WebOwner
      /\ \A p \in Workers : Owner[p] = WebOwner => p = Main[s] \/ p \in Threads[s]
  BY ServersAreWorkers DEF Procs
<1>2. [CalmNext]_vars
  BY <1>1 DEF CalmNext
<1>3. /\ pc[Main[s]] = "idle" /\ pc'[Main[s]] = "owner_recovering" /\ row' = row /\ held' = held
      /\ sel'[Main[s]] = {i \in Items : row[i].status = "running" /\ row[i].owner = WebOwner}
  BY <1>1 DEF OwnerRead, Goto, WebInv, BasicInv, TypeOK
<1>4. ASSUME NEW i \in Items, row[i].status = "running", row[i].owner = WebOwner, NEW p \in Workers, held[p][i] # 0
      PROVE  FALSE
  <2>1. Owner[p] = WebOwner /\ pc[p] # "idle"
    BY <1>4 DEF WebInv, HoldInv
  <2>2. p \in Threads[s] \ alive
    BY <1>1, <1>3, <2>1
  <2>3. QED
    BY <2>1, <2>2 DEF WebInv, ServerInv
<1>5. Found(s)'
  BY <1>3, <1>4 DEF Found
<1>6. QED
  BY <1>2, <1>3, <1>5, WebParts

LEMMA BootKeeps ==
  ASSUME OneServer, NoRequeue, WebInv, NEW s \in Servers, Boot(s)
  PROVE  WebInv'
<1>1. Servers = {s} /\ Main[s] \in Workers /\ Main[s] \in Procs /\ Main[s] \notin Threads[s] /\ Threads[s] \subseteq Procs
  BY ServersAreWorkers DEF Procs
<1>2. alive = {} /\ up = {} /\ starting = {} /\ clean = {}
  BY <1>1 DEF Boot, WebInv, WebTypeOK
<1>3. OwnerRead(Main[s]) /\ up' = {s} /\ UNCHANGED <<thread, alive, starting, stopFile, clean>>
  BY <1>2 DEF Boot
<1>4. BasicInv'
  BY <1>1, <1>3, BasicNext DEF WebInv, Next
<1>5. WebTypeOK'
  BY <1>1, <1>2, <1>3, <1>4 DEF BasicInv, WebInv, WebTypeOK
<1>6. Moves(Main[s])
  BY <1>1, <1>3, WorkerMoves DEF WebInv
<1>7. ServerInv'
  BY <1>1, <1>2, <1>3, <1>6 DEF WebInv, ServerInv, Moves
<1>8. QED
  BY <1>2, <1>3, <1>5, <1>7, RecoveryFinds

LEMMA StartKeeps ==
  ASSUME OneServer, NoRequeue, WebInv, NEW s \in Servers, StartWorker(s)
  PROVE  WebInv'
<1>1. Servers = {s} /\ Main[s] \in Workers /\ Main[s] \in Procs /\ Main[s] \notin Threads[s] /\ Threads[s] \subseteq Procs
  BY ServersAreWorkers DEF Procs
<1>2. Threads[s] \cap alive = {}
  BY DEF StartWorker, IsRunning, WebInv, ServerInv
<1>3. /\ OwnerRead(Main[s]) /\ s \in up /\ stopFile' = FALSE
      /\ starting' = starting \cup {s} /\ UNCHANGED <<up, thread, alive, clean>>
  BY DEF StartWorker, Free
<1>4. BasicInv'
  BY <1>1, <1>3, BasicNext DEF WebInv, Next
<1>5. WebTypeOK'
  <2>1. stopFile' \in BOOLEAN
    BY <1>3, Zenon
  <2>2. QED
    BY <1>1, <1>3, <1>4, <2>1 DEF BasicInv, WebInv, WebTypeOK
<1>6. Moves(Main[s]) /\ pc'[Main[s]] = "owner_recovering"
  <2>1. pc' = [pc EXCEPT ![Main[s]] = "owner_recovering"]
    BY <1>3 DEF OwnerRead, Goto
  <2>2. QED
    BY <1>1, <1>3, <2>1, WorkerMoves DEF WebInv, BasicInv, TypeOK
<1>7. ServerInv'
  BY <1>1, <1>3, <1>6 DEF WebInv, ServerInv, Moves
<1>8. QED
  BY <1>2, <1>3, <1>5, <1>7, RecoveryFinds

\* The recovery is over: no row runs for the server, until a worker claims one.
LEMMA RecoveryEnds ==
  ASSUME OneServer, NoRequeue, WebInv, NEW s \in Servers, OwnerWrite(Main[s]), WebTypeOK', ServerInv'
  PROVE  WebInv'
<1>1. Main[s] \in Workers /\ Main[s] \in Procs
  BY ServersAreWorkers DEF Procs
<1>2. [CalmNext]_vars
  BY <1>1 DEF CalmNext, PunctualNext, WorkerStep
<1>3. pc[Main[s]] = "owner_recovering" /\ pc'[Main[s]] = "idle"
  BY <1>1 DEF OwnerWrite, Goto, WebInv, BasicInv, TypeOK
<1>4. ASSUME NEW i \in Items, row'[i].status = "running", row'[i].owner = WebOwner
      PROVE  FALSE
  <2>1. row[i] \in Row
    BY DEF WebInv, BasicInv, TypeOK
  <2>2. Released(row[i], "queued") \in Row /\ Released(row[i], "queued").status = "queued"
    BY <2>1, ReleasedType DEF Statuses
  <2>3. i \in sel[Main[s]] => row'[i].status = "queued"
    BY <2>2, RefundedType DEF OwnerWrite
  <2>4. i \notin sel[Main[s]] => row'[i] = row[i]
    BY DEF OwnerWrite
  <2>5. QED
    BY <1>3, <1>4, <2>3, <2>4 DEF WebInv, RecoveryInv
<1>5. QED
  BY <1>2, <1>3, <1>4, WebParts

LEMMA BootedKeeps ==
  ASSUME OneServer, NoRequeue, WebInv, NEW s \in Servers, Booted(s)
  PROVE  WebInv'
<1>1. Servers = {s} /\ Main[s] \in Workers /\ Main[s] \in Procs /\ Main[s] \notin Threads[s] /\ Threads[s] \subseteq Procs
  BY ServersAreWorkers DEF Procs
<1>2. /\ OwnerWrite(Main[s]) /\ s \in up /\ s \notin starting /\ clean' = clean \cup {s}
      /\ UNCHANGED <<up, thread, alive, starting, stopFile>>
  BY DEF Booted
<1>3. BasicInv'
  BY <1>1, <1>2, BasicNext DEF WebInv, Next, WorkerStep
<1>4. WebTypeOK'
  BY <1>1, <1>2, <1>3 DEF BasicInv, WebInv, WebTypeOK
<1>5. Moves(Main[s])
  BY <1>1, <1>2, WorkerMoves DEF WebInv, WorkerStep
<1>6. ServerInv'
  BY <1>1, <1>2, <1>5 DEF WebInv, ServerInv, Moves
<1>7. QED
  BY <1>2, <1>4, <1>6, RecoveryEnds

LEMMA LaunchKeeps ==
  ASSUME OneServer, NoRequeue, WebInv, NEW s \in Servers, Launch(s)
  PROVE  WebInv'
<1>1. /\ Servers = {s} /\ Main[s] \in Workers /\ Main[s] \in Procs /\ Main[s] \notin Threads[s] /\ Threads[s] \subseteq Procs
      /\ Threads[s] \subseteq WebProcs
  BY ServersAreWorkers DEF Procs
<1>2. /\ OwnerWrite(Main[s]) /\ starting' = starting \ {s} /\ clean' = clean \cup {s}
      /\ s \in starting /\ UNCHANGED <<up, stopFile>>
  BY DEF Launch
<1>3. PICK t \in Threads[s] \ alive : thread' = [thread EXCEPT ![s] = t] /\ alive' = alive \cup {t}
  BY DEF Launch
<1>4. s \in up /\ thread \in [Servers -> WebProcs \cup {None}] /\ alive \subseteq Threads[s]
  BY <1>1, <1>2 DEF WebInv, WebTypeOK
<1>5. thread' \in [Servers -> WebProcs \cup {None}] /\ thread'[s] = t /\ alive' \subseteq Threads[s]
  BY <1>1, <1>3, <1>4
<1>6. BasicInv'
  BY <1>1, <1>2, BasicNext DEF WebInv, Next, WorkerStep
<1>7. WebTypeOK'
  BY <1>1, <1>2, <1>4, <1>5, <1>6 DEF BasicInv, WebInv, WebTypeOK
<1>8. Moves(Main[s]) /\ pc[Main[s]] = "owner_recovering"
  BY <1>1, <1>2, WorkerMoves DEF WebInv, WorkerStep, OwnerWrite
<1>9. Threads[s] \cap alive = {}
  BY <1>8 DEF WebInv, RecoveryInv
<1>10. starting' = {}
  BY <1>1, <1>2 DEF WebInv, WebTypeOK
<1>11. ServerInv'
  BY <1>1, <1>2, <1>3, <1>4, <1>5, <1>8, <1>9, <1>10 DEF WebInv, ServerInv, Moves
<1>12. QED
  BY <1>2, <1>7, <1>11, RecoveryEnds

\* A step of the server's own that leaves the queue alone; a thread whose loop
\* ends holds nothing.
LEMMA AloneKeeps ==
  ASSUME OneServer, NoRequeue, WebInv, UNCHANGED <<vars, up, thread, starting, clean>>, stopFile' \in BOOLEAN,
         NEW s \in Servers, alive' \subseteq alive, \A t \in alive \ alive' : pc[t] = "idle"
  PROVE  WebInv'
<1>1. Servers = {s} /\ \A p \in {Main[s]} \cup Threads[s] : p \in Workers
  BY ServersAreWorkers
<1>2. [CalmNext]_vars
  OBVIOUS
<1>3. UNCHANGED <<row, pc, sel, held, ticket>>
  BY DEF vars, local
<1>4. BasicInv'
  BY <1>2, QueueNext
<1>5. WebTypeOK'
  BY <1>4 DEF BasicInv, WebInv, WebTypeOK
<1>6. ServerInv'
  BY <1>3 DEF WebInv, ServerInv
<1>7. pc'[Main[s]] = "owner_recovering" => Threads[s] \cap alive' = {} /\ Found(s)'
  BY <1>3 DEF WebInv, RecoveryInv, Found
<1>8. ASSUME s \in up' \cap clean', pc'[Main[s]] # "owner_recovering", NEW i \in Items,
             row'[i].status = "running", row'[i].owner = WebOwner
      PROVE  \E p \in {Main[s]} \cup (Threads[s] \cap alive') : held'[p][i] = ticket'[i]
  <2>1. PICK p \in {Main[s]} \cup (Threads[s] \cap alive) : held[p][i] = ticket[i]
    BY <1>3, <1>8 DEF WebInv, WebRowsHaveWorker
  <2>2. held[p][i] # 0 /\ pc[p] # "idle"
    BY <1>1, <1>3, <1>8, <2>1 DEF WebInv, HoldInv
  <2>3. QED
    BY <1>3, <2>1, <2>2
<1>9. QED
  BY <1>2, <1>5, <1>6, <1>7, <1>8, WebParts

\* An exception ends a request or a thread: nobody answers for its rows, until
\* the next recovery.
LEMMA RequestFailsKeeps ==
  ASSUME OneServer, NoRequeue, WebInv, NEW s \in Servers, RequestFails(s)
  PROVE  WebInv'
<1>1. Servers = {s} /\ Main[s] \in Workers /\ Main[s] \in Procs /\ Main[s] \notin Threads[s] /\ Threads[s] \subseteq Procs
  BY ServersAreWorkers DEF Procs
<1>2. /\ Crash(Main[s]) /\ s \in up /\ starting' = starting \ {s} /\ clean' = clean \ {s}
      /\ UNCHANGED <<up, thread, alive, stopFile>>
  BY DEF RequestFails
<1>3. [CalmNext]_vars
  BY <1>1, <1>2 DEF CalmNext, PunctualNext
<1>4. BasicInv'
  BY <1>3, QueueNext
<1>5. WebTypeOK'
  BY <1>2, <1>4 DEF BasicInv, WebInv, WebTypeOK
<1>6. Moves(Main[s]) /\ pc'[Main[s]] = "idle"
  <2>1. pc' = [pc EXCEPT ![Main[s]] = "idle"]
    BY <1>2 DEF Crash, Forget, Goto
  <2>2. QED
    BY <1>1, <1>2, <2>1, WorkerMoves DEF WebInv, BasicInv, TypeOK
<1>7. ServerInv'
  BY <1>1, <1>2, <1>6 DEF WebInv, ServerInv, Moves
<1>8. QED
  BY <1>2, <1>3, <1>5, <1>6, <1>7, WebParts

LEMMA ThreadFailsKeeps ==
  ASSUME OneServer, NoRequeue, WebInv, NEW s \in Servers, NEW t \in Threads[s], ThreadFails(s, t)
  PROVE  WebInv'
<1>1. /\ Servers = {s} /\ Main[s] \in Procs /\ Main[s] # t /\ Threads[s] \subseteq Procs /\ t \in Workers
  BY ServersAreWorkers DEF Procs
<1>2. /\ Crash(t) /\ t \in alive /\ alive' = alive \ {t} /\ clean' = clean \ {s}
      /\ UNCHANGED <<up, thread, starting, stopFile>>
  BY DEF ThreadFails
<1>3. [CalmNext]_vars
  BY <1>1, <1>2 DEF CalmNext, PunctualNext
<1>4. BasicInv'
  BY <1>3, QueueNext
<1>5. WebTypeOK'
  BY <1>2, <1>4 DEF BasicInv, WebInv, WebTypeOK
<1>6. Moves(t) /\ pc'[t] = "idle"
  <2>1. pc' = [pc EXCEPT ![t] = "idle"]
    BY <1>2 DEF Crash, Forget, Goto
  <2>2. QED
    BY <1>1, <1>2, <2>1, WorkerMoves DEF WebInv, BasicInv, TypeOK
<1>7. ServerInv'
  BY <1>1, <1>2, <1>6 DEF WebInv, ServerInv, Moves
<1>8. pc'[Main[s]] # "owner_recovering"
  <2>1. pc[Main[s]] # "owner_recovering"
    BY <1>2 DEF WebInv, RecoveryInv
  <2>2. QED
    BY <1>1, <1>6, <2>1 DEF Moves
<1>9. QED
  BY <1>2, <1>3, <1>5, <1>7, <1>8, WebParts

\* The process dies: what its event loop and its threads knew is gone, the
\* table stays.
LEMMA DeathKeeps ==
  ASSUME OneServer, NoRequeue, WebInv, NEW s \in Servers, ServerDies(s)
  PROVE  WebInv'
<1> DEFINE D == DiesWith(s)
<1>1. /\ Servers = {s} /\ D \subseteq Workers /\ D \subseteq Procs /\ Main[s] \in D /\ Threads[s] \subseteq D
      /\ \A p \in WebWorkers : p = Main[s]
  BY ServersAreWorkers DEF Procs, DiesWith
<1>2. /\ pc' = [q \in Procs |-> IF q \in D THEN "idle" ELSE pc[q]]
      /\ sel' = [q \in Procs |-> IF q \in D THEN {} ELSE sel[q]]
      /\ spent' = [q \in Procs |-> IF q \in D THEN {} ELSE spent[q]]
      /\ focus' = [q \in Procs |-> IF q \in D THEN None ELSE focus[q]]
      /\ intent' = [q \in Procs |-> IF q \in D THEN None ELSE intent[q]]
      /\ newLease' = [q \in Procs |-> IF q \in D THEN NoLease ELSE newLease[q]]
      /\ held' = [p \in Workers |-> IF p \in D THEN [i \in Items |-> 0] ELSE held[p]]
      /\ crashes' = crashes + 1
      /\ UNCHANGED <<row, token, ticket, calls, restarts, stopFile>>
  BY DEF ServerDies
<1>3. up' = up \ {s} /\ alive' = alive \ D /\ thread' = [thread EXCEPT ![s] = None]
      /\ starting' = starting \ {s} /\ clean' = clean \ {s}
  BY DEF ServerDies
<1>4. up' = {} /\ alive' = {} /\ starting' = {} /\ clean' = {}
  BY <1>1, <1>3 DEF WebInv, WebTypeOK
<1> HIDE DEF D
<1>5. TypeOK /\ ProcInv /\ LeaseInv /\ HoldInv /\ RecoveryInv
  BY DEF WebInv, BasicInv
<1>6. TypeOK'
  <2>1. pc' \in [Procs -> Labels] /\ newLease' \in [Procs -> Leases]
    BY <1>2, <1>5, LeaseType DEF TypeOK, Labels
  <2>2. sel' \in [Procs -> SUBSET Items] /\ spent' \in [Procs -> SUBSET Items] /\ focus' \in [Procs -> Items \cup {None}]
    BY <1>2, <1>5 DEF TypeOK
  <2>3. intent' \in [Procs -> Verdicts \cup Commands \cup {None}]
    BY <1>2, <1>5 DEF TypeOK
  <2>4. held' \in [Workers -> [Items -> Nat]]
    BY <1>2, <1>5 DEF TypeOK
  <2>5. QED
    BY <1>2, <1>5, <2>1, <2>2, <2>3, <2>4 DEF TypeOK
<1>7. \A q \in Procs : \/ pc'[q] = "idle" /\ sel'[q] = {} /\ spent'[q] = {}
                       \/ /\ pc'[q] = pc[q] /\ sel'[q] = sel[q] /\ spent'[q] = spent[q] /\ focus'[q] = focus[q]
                          /\ intent'[q] = intent[q] /\ newLease'[q] = newLease[q]
  BY <1>2
<1>8. ProcInv'
  BY <1>5, <1>7 DEF ProcInv, ControlLabels
<1>9. LeaseInv'
  BY <1>2, <1>5, <1>7 DEF LeaseInv
<1>10. \A p \in Workers : /\ p \in D => pc'[p] = "idle" /\ \A i \in Items : held'[p][i] = 0
                          /\ p \notin D => pc'[p] = pc[p] /\ focus'[p] = focus[p] /\ held'[p] = held[p]
  BY <1>2 DEF Procs
<1>11. HoldInv'
  <2>1. \A p \in Workers, i \in Items : held'[p][i] # 0 => held[p][i] # 0 /\ pc'[p] = pc[p]
    BY <1>10
  <2>2. RunsHeld'
    BY <1>5, <1>10 DEF HoldInv, RunsHeld, Runs
  <2>3. QED
    BY <1>2, <1>5, <2>1, <2>2 DEF HoldInv
<1>12. pc'[Main[s]] = "idle"
  BY <1>1, <1>2
<1>13. RecoveryInv'
  BY <1>1, <1>5, <1>7, <1>12 DEF RecoveryInv
<1>14. WebTypeOK'
  <2>1. thread' \in [Servers -> WebProcs \cup {None}]
    BY <1>3 DEF WebInv, WebTypeOK
  <2>2. stopFile' \in BOOLEAN
    BY <1>2, Zenon DEF WebInv, WebTypeOK
  <2>3. QED
    BY <1>4, <1>6, <2>1, <2>2 DEF WebTypeOK
<1>15. ServerInv'
  BY <1>1, <1>2, <1>4, <1>12 DEF ServerInv
<1>16. WebRowsHaveWorker'
  BY <1>4 DEF WebRowsHaveWorker
<1>17. QED
  BY <1>6, <1>8, <1>9, <1>11, <1>13, <1>14, <1>15, <1>16 DEF WebInv, BasicInv

LEMMA WebNextKeeps ==
  ASSUME OneServer, NoRequeue, WebInv, [WebNext]_webVars
  PROVE  WebInv'
<1>1. PICK s : Servers = {s}
  BY DEF OneServer
<1>2. s \in Servers /\ Main[s] \in Workers /\ Threads[s] \subseteq Workers /\ Main[s] \notin Threads[s]
  BY <1>1, ServersAreWorkers
<1>3. stopFile \in BOOLEAN
  BY DEF WebInv, WebTypeOK
<1>4. CASE UNCHANGED webVars
  BY <1>2, <1>3, <1>4, AloneKeeps DEF webVars, web
<1>5. CASE Others
  BY <1>2, <1>5, OthersKeep
<1>6. CASE Boot(s) \/ StartWorker(s) \/ Booted(s) \/ Launch(s) \/ RequestFails(s) \/ ServerDies(s)
  BY <1>2, <1>6, BootKeeps, StartKeeps, BootedKeeps, LaunchKeeps, RequestFailsKeeps, DeathKeeps
<1>7. CASE StartAgain(s)
  BY <1>4, <1>7 DEF StartAgain
<1>8. CASE StopWorker(s)
  <2>1. UNCHANGED <<vars, up, thread, starting, clean>> /\ alive' = alive
    BY <1>8 DEF StopWorker
  <2>2. stopFile' \in BOOLEAN
    BY <1>8, Zenon DEF StopWorker
  <2>3. QED
    BY <1>2, <2>1, <2>2, AloneKeeps
<1>9. CASE RunOnce(s)
  BY <1>2, <1>9, WorkKeeps DEF RunOnce, Free, WorkerStep
<1>10. CASE RunOnceStep(s)
  BY <1>2, <1>10, WorkKeeps DEF RunOnceStep
<1>11. ASSUME NEW t \in Threads[s], ThreadStep(t)
       PROVE  WebInv'
  <2>1. CASE Loop(t) \/ ThreadWork(t)
    BY <1>2, <2>1, WorkKeeps DEF Loop, ThreadWork, WorkerStep
  <2>2. CASE LoopEnds(t)
    BY <1>2, <1>3, <2>2, AloneKeeps DEF LoopEnds
  <2>3. QED
    BY <1>11, <2>1, <2>2 DEF ThreadStep
<1>12. ASSUME NEW t \in Threads[s], ThreadFails(s, t)
       PROVE  WebInv'
  BY <1>2, <1>12, ThreadFailsKeeps
<1>13. QED
  BY <1>1, <1>4, <1>5, <1>6, <1>7, <1>8, <1>9, <1>10, <1>11, <1>12 DEF WebNext, ServerStep

\* At most one thread, no item run by two owners at once, and a worker for every
\* row that names the server: start, stop and restart requests, a worker that
\* fails and a server that dies and comes back keep all three, with any number
\* of threads, other workers, clients and items, as long as there is one server
\* and nobody re-queues an item by hand.
THEOREM WebServerHolds == OneServer /\ NoRequeue => (WebSpec => []WebInvariant)
<1> SUFFICES ASSUME OneServer, NoRequeue
             PROVE  WebSpec => []WebInvariant
  OBVIOUS
<1>1. WebInit => WebInv
  BY WebInitially
<1>2. WebInv /\ [WebNext]_webVars => WebInv'
  BY WebNextKeeps
<1>3. WebInv => OneThread
  <2> SUFFICES ASSUME WebInv, NEW s \in Servers PROVE Cardinality(Threads[s] \cap alive) <= 1
    BY DEF OneThread
  <2>1. Threads[s] \cap alive \subseteq {thread[s]}
    BY DEF WebInv, ServerInv
  <2>2. Threads[s] \cap alive = {} \/ Threads[s] \cap alive = {thread[s]}
    BY <2>1
  <2>3. Cardinality({}) = 0 /\ Cardinality({thread[s]}) = 1
    BY FS_EmptySet, FS_Singleton
  <2>4. QED
    BY <2>2, <2>3
<1>4. WebInv => OwnersExclude
  BY DEF WebInv, HoldInv, RunsHeld, OwnersExclude
<1>5. WebInv => WebInvariant
  BY <1>3, <1>4 DEF WebInv, WebInvariant
<1>6. QED
  BY <1>1, <1>2, <1>5, PTL DEF WebSpec
=============================================================================
