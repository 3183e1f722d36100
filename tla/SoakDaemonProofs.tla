-------------------------- MODULE SoakDaemonProofs --------------------------
(***************************************************************************)
(* Proofs about SoakDaemon where no worker but daemons, and no client,     *)
(* touches the queue (OnlyDaemons): another worker may win a row the       *)
(* daemon has selected, and a client may cancel it, and a poll that loses  *)
(* its claim counts as an empty one.                                       *)
(***************************************************************************)
EXTENDS SoakDaemon, RunQueueProofs, FiniteSetTheorems

OnlyDaemons == Workers = Daemons /\ Clients = {} /\ IsFiniteSet(Items)

\* Where a daemon is, it is a worker only while it polls, and what it counts and
\* has noted belongs to that place.
PlaceInv ==
    \A d \in Daemons :
        /\ report[d] = "none" => at[d] = "off"
        /\ report[d] = "idle" => at[d] = "ended"
        /\ at[d] # "polling" => pc[d] = "idle"
        /\ pc[d] # "owner_recovering"
        /\ at[d] = "reporting" => stoppedBy[d] # "nothing"
        /\ at[d] \in {"asking", "inserting"} => idleLoops[d] = 0
        /\ at[d] = "polling" => \A n \in limit[d] : idleLoops[d] < n

\* No other daemon has been started.
Single(d) == \A e \in Daemons \ {d} : report[e] = "none"

\* The rows in the queue have attempts left, and so have those d is about to
\* recover.
AttemptsLeft(d) ==
    /\ \A i \in Items : row[i].status = "queued" => row[i].attempts < MaxAttempts[i]
    /\ pc[d] = "recovering" => \A i \in sel[d] \ spent[d] : row[i].attempts < MaxAttempts[i]

\* What d has selected is still there when it claims it.
Selected(d) == pc[d] = "claiming" => sel[d] # {} /\ \A i \in sel[d] : row[i].status = "queued"

\* After an empty poll d's own item is not in the queue, and a daemon that ends
\* for want of items has made one, unless its limit is zero.
Found(d) ==
    \/ at[d] = "looping" /\ idleLoops[d] > 0
    \/ /\ at[d] = "reporting" \/ report[d] = "idle"
       /\ stoppedBy[d] = "idle" /\ 0 \notin limit[d]
    => row[SoakItem[d]].status # "queued"

\* What a single daemon may rely on.
Served(d) == AttemptsLeft(d) /\ Selected(d) /\ Found(d)

DaemonInv ==
    /\ BasicInv /\ DaemonTypeOK /\ PlaceInv
    /\ \A d \in Daemons : Single(d) => Served(d)

-----------------------------------------------------------------------------
LEMMA DaemonInitially == DaemonInit => DaemonInv
<1> SUFFICES ASSUME DaemonInit
             PROVE  DaemonInv
  OBVIOUS
<1> USE DEF DaemonInit
<1>1. BasicInv
  BY BasicInit
<1>2. DaemonTypeOK
  BY DaemonAssumption DEF DaemonTypeOK
<1>3. \A d \in Daemons : pc[d] = "idle"
  BY DaemonAssumption DEF Init, Procs
<1>4. PlaceInv
  BY <1>3 DEF PlaceInv
<1>5. \A d \in Daemons : Served(d)
  BY <1>3, DaemonAssumption, BoundsAssumption
     DEF Served, AttemptsLeft, Selected, Found, Init, Absent
<1>6. QED
  BY <1>1, <1>2, <1>4, <1>5 DEF DaemonInv

\* The daemon's steps are steps of the queue, but for the death of a daemon
\* that is not at work.
LEMMA DaemonBasic ==
  ASSUME BasicInv, [DaemonNext]_DaemonVars
  PROVE  BasicInv'
<1>1. CASE \E d \in Daemons : Die(d)
  <2>1. PICK d \in Daemons : Die(d)
    BY <1>1
  <2>2. d \in Procs /\ d \in Workers /\ Forget(d)
    BY <2>1, DaemonAssumption DEF Die, Procs
  <2>3. /\ UNCHANGED <<row, token, ticket, calls, restarts>> /\ crashes' = crashes + 1
        /\ held' = [held EXCEPT ![d] = [i \in Items |-> 0]]
    BY <2>1 DEF Die
  <2>4. held' \in [Workers -> [Items -> Nat]] /\ crashes' \in Nat
    BY <2>2, <2>3 DEF BasicInv, TypeOK
  <2>5. QED
    BY <2>2, <2>3, <2>4, ForgetBasic DEF BasicInv, TypeOK
<1>2. CASE ~\E d \in Daemons : Die(d)
  <2>1. [Next]_vars
    BY <1>2, DaemonAssumption
       DEF DaemonNext, DaemonVars, DaemonStep, Others, Ask, Insert, Poll, Work, Finish, Start, RequestStop,
           Next, WorkerStep
  <2>2. QED
    BY <2>1, BasicNext
<1>3. QED
  BY <1>1, <1>2


LEMMA DaemonTypes ==
  ASSUME DaemonTypeOK, PlaceInv, [DaemonNext]_DaemonVars
  PROVE  DaemonTypeOK'
<1> USE DEF DaemonTypeOK, To, Report
<1>1. CASE UNCHANGED dvars
  BY <1>1 DEF dvars
<1>2. ASSUME NEW d \in Daemons, RequestStop(d) \/ Die(d)
      PROVE  DaemonTypeOK'
  BY <1>2, DaemonAssumption DEF RequestStop, Die
<1>3. ASSUME NEW d \in Daemons, Ask(d) \/ Insert(d) \/ Poll(d)
      PROVE  DaemonTypeOK'
  BY <1>3 DEF Ask, Insert, Poll
<1>4. ASSUME NEW d \in Daemons, Work(d)
      PROVE  DaemonTypeOK'
  <2>1. at[d] = "polling" /\ idleLoops[d] \in Nat /\ \A n \in limit[d] : n \in Nat /\ idleLoops[d] < n
    BY <1>4 DEF Work, PlaceInv
  <2>2. Counted(d) \in Nat /\ \A n \in limit[d] : Counted(d) <= n
    BY <2>1 DEF Counted
  <2>3. QED
    BY <1>4, <2>2 DEF Work
<1>5. ASSUME NEW d \in Daemons, Finish(d)
      PROVE  DaemonTypeOK'
  <2>1. Outcome(d) \in {"completed", "waiting_for_user", "failed", "stopped", "idle"}
    BY DEF Outcome
  <2>2. QED
    BY <1>5, <2>1 DEF Finish
<1>6. ASSUME NEW d \in Daemons, Start(d)
      PROVE  DaemonTypeOK'
  <2>1. PICK n \in IdleLimits : limit' = [limit EXCEPT ![d] = n]
    BY <1>6 DEF Start
  <2>2. n \in SUBSET Nat /\ \A k \in n : 0 <= k
    BY DaemonAssumption
  <2>3. limit' \in [Daemons -> SUBSET Nat] /\ limit'[d] = n /\ \A e \in Daemons \ {d} : limit'[e] = limit[e]
    BY <2>1, <2>2
  <2>4. idleLoops' \in [Daemons -> Nat] /\ idleLoops'[d] = 0 /\ \A e \in Daemons \ {d} : idleLoops'[e] = idleLoops[e]
    BY <1>6 DEF Start
  <2>5. \A e \in Daemons : \A k \in limit'[e] : idleLoops'[e] <= k
    BY <2>2, <2>3, <2>4
  <2>6. QED
    BY <1>6, <2>3, <2>4, <2>5 DEF Start
<1>7. QED
  BY <1>1, <1>2, <1>3, <1>4, <1>5, <1>6 DEF DaemonNext, DaemonVars, DaemonStep, Others, dvars

\* A worker moves itself alone, and where its call can end.
LEMMA WorkerPath ==
  ASSUME BasicInv, NEW p \in Workers, WorkerStep(p), pc[p] # "owner_recovering"
  PROVE  /\ pc' \in [Procs -> Labels] /\ \A q \in Procs \ {p} : pc'[q] = pc[q]
         /\ pc'[p] # "owner_recovering"
         /\ \A q \in Procs \ {p} : sel'[q] = sel[q] /\ spent'[q] = spent[q]
<1> USE DEF Goto
<1>1. p \in Procs /\ pc \in [Procs -> Labels] /\ sel \in [Procs -> SUBSET Items]
      /\ spent \in [Procs -> SUBSET Items]
  BY DEF Procs, BasicInv, TypeOK
<1>2. CASE BeginClaim(p) \/ RecoverWrite(p, "selecting") \/ ClaimRead(p) \/ ClaimWrite(p)
  BY <1>1, <1>2 DEF BeginClaim, RecoverRead, RecoverWrite, ClaimRead, ClaimWrite, Labels
<1>3. CASE Reread(p) \/ FinishRead(p) \/ Settle(p)
  <2>1. UNCHANGED <<sel, spent>> /\ \E label \in {"executing", "idle", "working", "settling"} : Goto(p, label)
    BY <1>3 DEF Reread, FinishRead, Settle, Drop
  <2>2. QED
    BY <1>1, <2>1 DEF Labels
<1>4. QED
  BY <1>2, <1>3 DEF WorkerStep, OwnerWrite

LEMMA PlaceNext ==
  ASSUME DaemonInv, [DaemonNext]_DaemonVars
  PROVE  PlaceInv'
<1> USE DaemonAssumption DEF To, Report
<1>0. /\ DaemonTypeOK /\ PlaceInv /\ BasicInv
      /\ pc \in [Procs -> Labels] /\ Daemons \subseteq Procs
  BY DEF DaemonInv, BasicInv, TypeOK, Procs
<1>1. CASE UNCHANGED <<limit, at, idleLoops, stoppedBy, report>> /\ \A d \in Daemons : pc'[d] = pc[d]
  BY <1>0, <1>1 DEF PlaceInv
<1>2. CASE Others
  <2>1. UNCHANGED <<limit, at, idleLoops, stoppedBy, report>>
    BY <1>2 DEF Others, dvars
  <2>2. CASE \E p \in Workers \ Daemons : WorkerStep(p)
    <3>1. \A d \in Daemons : pc'[d] = pc[d]
      BY <1>0, <2>2 DEF WorkerStep, BeginClaim, RecoverRead, RecoverWrite, ClaimRead, ClaimWrite, Reread,
         FinishRead, Settle, OwnerWrite, Drop, Goto
    <3>2. QED
      BY <1>1, <2>1, <3>1
  <2>3. CASE \E i \in Items \ {SoakItem[d] : d \in Daemons} : Enqueue(i)
    BY <1>1, <2>1, <2>3 DEF Enqueue, local
  <2>4. CASE \E c \in Clients : ClientStep(c) \/ BeginCall(c)
    <3>1. \A c \in Clients : c \notin Daemons
      BY SetsAssumption
    <3>2. \A d \in Daemons : pc'[d] = pc[d]
      BY <1>0, <2>4, <3>1 DEF ClientStep, BeginCall, RecoverWrite, Merge, Unlink, WriteToken, Check, Write,
         Forget, Goto
    <3>3. QED
      BY <1>1, <2>1, <3>2
  <2>5. QED
    BY <1>2, <2>2, <2>3, <2>4 DEF Others
<1>3. CASE Tick /\ UNCHANGED dvars
  BY <1>1, <1>3 DEF Tick, dvars
<1>4. ASSUME NEW d \in Daemons, Start(d) \/ Ask(d) \/ Insert(d) \/ RequestStop(d)
      PROVE  PlaceInv'
  BY <1>0, <1>4 DEF PlaceInv, DaemonTypeOK, Start, Ask, Insert, RequestStop, Enqueue, vars, local
<1>5. ASSUME NEW d \in Daemons, Poll(d)
      PROVE  PlaceInv'
  <2>1. CASE UNCHANGED vars
    BY <1>0, <1>5, <2>1 DEF PlaceInv, DaemonTypeOK, Poll, vars, local, BeginClaim, RecoverRead, Goto
  <2>2. CASE BeginClaim(d) /\ To(d, "polling") /\ ~IdleDone(d) /\ UNCHANGED stoppedBy
    <3>1. \A n \in limit[d] : idleLoops[d] < n
      BY <1>0, <1>5, <2>2 DEF IdleDone, DaemonTypeOK
    <3>2. QED
      BY <1>0, <1>5, <2>2, <3>1 DEF PlaceInv, DaemonTypeOK, Poll, BeginClaim, RecoverRead, Goto
  <2>3. QED
    BY <1>5, <2>1, <2>2 DEF Poll
<1>6. ASSUME NEW d \in Daemons, Work(d)
      PROVE  PlaceInv'
  <2>1. d \in Workers /\ d \in Procs /\ WorkerStep(d) /\ pc[d] # "owner_recovering"
    BY <1>0, <1>6 DEF Work, PlaceInv
  <2>2. /\ \A q \in Procs \ {d} : pc'[q] = pc[q]
        /\ pc'[d] # "owner_recovering"
    BY <1>0, <2>1, WorkerPath
  <2>3. /\ at[d] = "polling" /\ UNCHANGED <<limit, stoppedBy, report>>
        /\ IF pc'[d] = "idle" THEN To(d, "looping") ELSE UNCHANGED <<at, idleLoops>>
        /\ \A e \in Daemons \ {d} : idleLoops'[e] = idleLoops[e]
    BY <1>0, <1>6 DEF Work, DaemonTypeOK
  <2>4. QED
    BY <1>0, <2>2, <2>3 DEF PlaceInv, DaemonTypeOK
<1>7. ASSUME NEW d \in Daemons, Finish(d)
      PROVE  PlaceInv'
  <2>1. Outcome(d) # "none"
    BY DEF Outcome
  <2>2. QED
    BY <1>0, <1>7, <2>1 DEF PlaceInv, DaemonTypeOK, Finish, vars, local
<1>8. ASSUME NEW d \in Daemons, Die(d)
      PROVE  PlaceInv'
  BY <1>0, <1>8 DEF PlaceInv, DaemonTypeOK, Die, Forget, Goto
<1>9. CASE UNCHANGED DaemonVars
  BY <1>1, <1>9 DEF DaemonVars, vars, dvars, local
<1>10. QED
  BY <1>2, <1>3, <1>4, <1>5, <1>6, <1>7, <1>8, <1>9 DEF DaemonNext, DaemonStep

\* While no other daemon is started, none of them has been, and none is at work.
LEMMA SingleNext ==
  ASSUME DaemonInv, [DaemonNext]_DaemonVars, NEW d \in Daemons, Single(d)'
  PROVE  /\ Single(d)
         /\ \A e \in Daemons \ {d} : ~(DaemonStep(e) \/ Start(e) \/ Die(e))
<1> USE DEF To, Report
<1>0. DaemonTypeOK /\ PlaceInv /\ \A e \in Daemons \ {d} : report'[e] = "none"
  BY DEF DaemonInv, Single
<1>1. ASSUME NEW e \in Daemons \ {d} PROVE ~Start(e)
  BY <1>0, <1>1 DEF Start, DaemonTypeOK
<1>2. ASSUME NEW e \in Daemons \ {d}, report[e] = "none" PROVE ~(DaemonStep(e) \/ Die(e))
  BY <1>0, <1>2 DEF PlaceInv, DaemonStep, Ask, Insert, Poll, Work, Finish, Die
<1>3. ASSUME NEW e \in Daemons \ {d}, report[e] # "none" PROVE FALSE
  <2>1. report' # report /\ ~UNCHANGED dvars /\ ~UNCHANGED DaemonVars
    BY <1>0, <1>3 DEF dvars, DaemonVars
  <2>2. PICK f \in Daemons : DaemonStep(f) \/ Start(f) \/ RequestStop(f) \/ Die(f)
    BY <2>1 DEF DaemonNext, Others
  <2>3. f = e
    BY <1>0, <1>3, <2>2
       DEF DaemonTypeOK, DaemonStep, Ask, Insert, Poll, Work, Finish, Start, RequestStop, Die
  <2>4. Outcome(e) # "none"
    BY DEF Outcome
  <2>5. QED
    BY <1>0, <1>3, <2>2, <2>3, <2>4
       DEF DaemonTypeOK, DaemonStep, Ask, Insert, Poll, Work, Finish, Start, RequestStop, Die
<1>4. QED
  BY <1>1, <1>2, <1>3 DEF Single

LEMMA ReleasedFields ==
  ASSUME NEW r \in Row, NEW s \in Statuses
  PROVE  Released(r, s).status = s /\ Released(r, s).attempts = r.attempts
  BY LeaseType DEF Released, Row

\* A step of the single worker.
LEMMA AttemptsStep ==
  ASSUME BasicInv, NEW d \in Workers, AttemptsLeft(d), WorkerStep(d), pc[d] # "owner_recovering"
  PROVE  AttemptsLeft(d)'
<1> USE BoundsAssumption DEF Goto, AttemptsLeft
<1>0. /\ d \in Procs /\ row \in [Items -> Row] /\ pc \in [Procs -> Labels]
      /\ sel \in [Procs -> SUBSET Items] /\ spent \in [Procs -> SUBSET Items]
      /\ \A i \in Items : row[i] \in Row /\ row[i].attempts \in Nat /\ MaxAttempts[i] \in Nat
  BY DEF Procs, BasicInv, TypeOK, Row
<1>1. CASE BeginClaim(d)
  <2>1. \A i \in sel'[d] \ spent'[d] : row[i].attempts < MaxAttempts[i]
    BY <1>0, <1>1 DEF BeginClaim, RecoverRead, Spent
  <2>2. QED
    BY <1>0, <1>1, <2>1 DEF BeginClaim, RecoverRead
<1>2. CASE RecoverWrite(d, "selecting")
  <2>1. \A i \in Items : /\ i \in spent[d] => row'[i].status = "failed"
                         /\ i \in sel[d] \ spent[d] => row'[i].attempts = row[i].attempts
                         /\ i \notin sel[d] \cup spent[d] => row'[i] = row[i]
    BY <1>0, <1>2, ReleasedFields DEF RecoverWrite, Statuses
  <2>2. pc[d] = "recovering" /\ pc'[d] = "selecting"
    BY <1>0, <1>2 DEF RecoverWrite
  <2>3. QED
    BY <1>0, <2>1, <2>2
<1>3. CASE ClaimWrite(d)
  <2>1. \A i \in Items : row'[i].status = "queued" => row'[i] = row[i]
    BY <1>0, <1>3 DEF ClaimWrite, Leased, Row
  <2>2. pc'[d] # "recovering"
    BY <1>0, <1>3 DEF ClaimWrite
  <2>3. QED
    BY <1>0, <2>1, <2>2
<1>4. CASE ClaimRead(d) \/ Reread(d) \/ FinishRead(d)
  <2>1. row' = row /\ pc'[d] # "recovering"
    BY <1>0, <1>4 DEF ClaimRead, Reread, FinishRead, Drop
  <2>2. QED
    BY <2>1
<1>5. CASE Settle(d)
  <2>1. \A i \in Items : row'[i].status = "queued" => row'[i] = row[i]
    BY <1>0, <1>5, SettledType DEF Settle
  <2>2. pc'[d] # "recovering"
    BY <1>0, <1>5 DEF Settle, Drop
  <2>3. QED
    BY <1>0, <2>1, <2>2
<1>6. QED
  BY <1>1, <1>2, <1>3, <1>4, <1>5 DEF WorkerStep, OwnerWrite

\* An empty selection means that no row can be claimed.
LEMMA NothingSelected ==
  ASSUME IsFiniteSet(Items), {} \in Selections
  PROVE  \A i \in Items : ~Claimable(i)
<1> DEFINE queued == {i \in Items : Claimable(i)}
<1>1. IsFiniteSet(queued)
  BY FS_Subset
<1>2. Cardinality({}) = IF Cardinality(queued) < Concurrency THEN Cardinality(queued) ELSE Concurrency
  BY DEF Selections
<1>3. Cardinality({}) = 0 /\ Cardinality(queued) \in Nat
  BY <1>1, FS_EmptySet, FS_CardinalityType
<1> HIDE DEF queued
<1>4. Cardinality(queued) = 0
  BY <1>2, <1>3, BoundsAssumption
<1>5. queued = {}
  BY <1>1, <1>4, FS_EmptySet
<1>6. QED
  BY <1>5 DEF queued

\* The single daemon claims what it has selected; a poll that gives it nothing
\* ended at its selection, and found the queue empty.
LEMMA ClaimsStep ==
  ASSUME BasicInv, IsFiniteSet(Items), NEW d \in Workers, AttemptsLeft(d), Selected(d), WorkerStep(d),
         pc[d] # "owner_recovering"
  PROVE  /\ Selected(d)'
         /\ pc[d] \in {"selecting", "claiming"} /\ pc'[d] = "idle" =>
               \A i \in Items : row'[i].status # "queued"
<1> USE DEF Goto
<1>0. /\ d \in Procs /\ pc \in [Procs -> Labels] /\ sel \in [Procs -> SUBSET Items]
      /\ \A i \in Items : row[i] \in Row /\ row[i].attempts \in Nat /\ MaxAttempts[i] \in Nat
  BY BoundsAssumption DEF Procs, BasicInv, TypeOK, Row
<1>1. CASE ClaimRead(d)
  <2>1. PICK S \in Selections :
             /\ sel' = [sel EXCEPT ![d] = S] /\ Goto(d, IF S = {} THEN "idle" ELSE "claiming")
             /\ row' = row
    BY <1>1 DEF ClaimRead
  <2>2. S \in SUBSET {i \in Items : Claimable(i)}
    BY DEF Selections
  <2>3. Selected(d)'
    BY <1>0, <2>1, <2>2 DEF Selected, Claimable
  <2>4. S = {} => \A i \in Items : row[i].status # "queued"
    BY <1>0, <2>1, NothingSelected DEF AttemptsLeft, Claimable, Spent
  <2>5. QED
    BY <1>0, <2>1, <2>3, <2>4
<1>2. CASE ClaimWrite(d)
  <2>1. Won(d) = sel[d] /\ sel[d] # {}
    BY <1>0, <1>2 DEF Selected, Won, ClaimWrite
  <2>2. pc'[d] = "working"
    BY <1>0, <1>2, <2>1 DEF ClaimWrite, Mine
  <2>3. QED
    BY <2>2 DEF Selected
<1>3. CASE BeginClaim(d) \/ RecoverWrite(d, "selecting") \/ Reread(d) \/ FinishRead(d) \/ Settle(d)
  <2>1. pc[d] \notin {"selecting", "claiming"} /\ pc'[d] # "claiming"
    BY <1>0, <1>3 DEF BeginClaim, RecoverRead, RecoverWrite, Reread, FinishRead, Settle, Drop
  <2>2. QED
    BY <2>1 DEF Selected
<1>4. QED
  BY <1>1, <1>2, <1>3 DEF WorkerStep, OwnerWrite

\* What others do to a single daemon: they insert items that are not its own,
\* ask for its end, and let time pass.
LEMMA OutsideStep ==
  ASSUME BasicInv, NEW d \in Daemons, Served(d), pc'[d] = pc[d], sel' = sel, spent' = spent,
         limit'[d] = limit[d], at'[d] = at[d], idleLoops'[d] = idleLoops[d], stoppedBy'[d] = stoppedBy[d], report'[d] = report[d],
         \/ row' = row
         \/ \E i \in Items \ {SoakItem[d]} : Enqueue(i)
         \/ Tick
  PROVE  Served(d)'
<1>0. /\ \A i \in Items : row[i] \in Row /\ MaxAttempts[i] \in Nat \ {0}
      /\ SoakItem[d] \in Items /\ row \in [Items -> Row]
      /\ d \in Procs /\ sel[d] \in SUBSET Items
  BY BoundsAssumption, DaemonAssumption DEF BasicInv, TypeOK, Procs
<1>1. \A i \in Items : \/ row'[i].status = row[i].status /\ row'[i].attempts = row[i].attempts
                       \/ /\ i # SoakItem[d] /\ row[i].status = "absent"
                          /\ row'[i].status = "queued" /\ row'[i].attempts = 0
  <2>1. CASE \E i \in Items \ {SoakItem[d]} : Enqueue(i)
    BY <1>0, <2>1 DEF Enqueue, Absent
  <2>2. CASE Tick
    BY <1>0, <2>2 DEF Tick, Aged, Row
  <2>3. QED
    BY <2>1, <2>2
<1>2. AttemptsLeft(d)'
  BY <1>0, <1>1 DEF Served, AttemptsLeft
<1>3. Selected(d)'
  BY <1>0, <1>1 DEF Served, Selected
<1>4. Found(d)'
  BY <1>0, <1>1 DEF Served, Found
<1>5. QED
  BY <1>2, <1>3, <1>4 DEF Served

\* The single daemon's own steps outside the queue's worker.
LEMMA LoopStep ==
  ASSUME DaemonInv, NEW d \in Daemons, Served(d),
         Start(d) \/ Ask(d) \/ Insert(d) \/ Finish(d) \/ Die(d)
  PROVE  Served(d)'
<1> USE DEF To, Report
<1>0. /\ DaemonTypeOK /\ PlaceInv /\ BasicInv /\ pc[d] \in Labels /\ d \in Procs /\ pc \in [Procs -> Labels]
      /\ SoakItem[d] \in Items /\ row \in [Items -> Row] /\ \A i \in Items : MaxAttempts[i] \in Nat \ {0}
  BY DaemonAssumption, BoundsAssumption DEF DaemonInv, BasicInv, TypeOK, Procs
<1>1. pc'[d] = "idle" /\ (Start(d) \/ Ask(d) \/ Insert(d) \/ Finish(d) => pc' = pc)
  BY <1>0 DEF PlaceInv, Start, Ask, Insert, Finish, Die, Forget, Goto, Enqueue, vars, local
<1>2. CASE Start(d) \/ Die(d)
  <2>1. row' = row /\ (at'[d] \in {"asking", "off"}) /\ report'[d] # "idle"
    BY <1>0, <1>2 DEF Start, Die, vars, PlaceInv, DaemonTypeOK
  <2>2. QED
    BY <1>1, <2>1 DEF Served, AttemptsLeft, Selected, Found
<1>3. CASE Ask(d) \/ Insert(d)
  <2>1. /\ idleLoops'[d] = 0 /\ at'[d] # "reporting" /\ report'[d] # "idle"
    BY <1>0, <1>3 DEF Ask, Insert, PlaceInv, DaemonTypeOK
  <2>2. \A i \in Items : row'[i] = row[i] \/ row'[i].attempts = 0
    BY <1>0, <1>3 DEF Ask, Insert, Enqueue, Absent, vars
  <2>3. QED
    BY <1>0, <1>1, <2>1, <2>2 DEF Served, AttemptsLeft, Selected, Found
<1>4. CASE Finish(d)
  <2>1. /\ row' = row /\ at[d] = "reporting" /\ at'[d] = "ended" /\ report'[d] = Outcome(d)
        /\ UNCHANGED <<limit, stoppedBy>>
    BY <1>0, <1>4 DEF Finish, DaemonTypeOK, vars
  <2>2. QED
    BY <1>0, <1>1, <2>1 DEF Served, AttemptsLeft, Selected, Found
<1>5. QED
  BY <1>2, <1>3, <1>4

\* Its loop: a poll ends it after so many empty ones, or begins a claim.
LEMMA PollStep ==
  ASSUME DaemonInv, NEW d \in Daemons, Served(d), Poll(d)
  PROVE  Served(d)'
<1> USE DEF To
<1>0. /\ DaemonTypeOK /\ PlaceInv /\ BasicInv /\ d \in Procs /\ d \in Workers /\ pc \in [Procs -> Labels]
      /\ limit[d] \in SUBSET Nat /\ idleLoops[d] \in Nat /\ at[d] = "looping" /\ report'[d] # "idle"
  BY DaemonAssumption DEF DaemonInv, BasicInv, TypeOK, Procs, Poll, DaemonTypeOK, PlaceInv
<1>1. CASE UNCHANGED vars
  <2>1. /\ row' = row /\ pc' = pc /\ sel' = sel /\ at'[d] = "reporting"
        /\ limit' = limit /\ (stoppedBy'[d] = "idle" => IdleDone(d))
    BY <1>0, <1>1 DEF Poll, vars, local, DaemonTypeOK, BeginClaim, RecoverRead, Goto
  <2>4. IdleDone(d) /\ 0 \notin limit[d] => idleLoops[d] > 0
    BY <1>0 DEF IdleDone
  <2>2. pc[d] = "idle"
    BY <1>0 DEF PlaceInv
  <2>3. QED
    BY <1>0, <2>1, <2>2, <2>4 DEF Served, AttemptsLeft, Selected, Found
<1>2. CASE BeginClaim(d) /\ To(d, "polling")
  <2>1. AttemptsLeft(d)'
    <3>1. WorkerStep(d) /\ pc[d] # "owner_recovering"
      BY <1>0, <1>2 DEF WorkerStep, BeginClaim
    <3>2. QED
      BY <1>0, <3>1, AttemptsStep DEF Served
  <2>2. pc'[d] = "recovering" /\ at'[d] = "polling"
    BY <1>0, <1>2 DEF BeginClaim, RecoverRead, Goto, DaemonTypeOK
  <2>3. QED
    BY <1>0, <2>1, <2>2 DEF Served, Selected, Found
<1>3. QED
  BY <1>1, <1>2 DEF Poll

\* The worker under the daemon's name.
LEMMA WorkStep ==
  ASSUME DaemonInv, IsFiniteSet(Items), NEW d \in Daemons, Served(d), Work(d)
  PROVE  Served(d)'
<1> USE DEF To
<1>0. /\ DaemonTypeOK /\ PlaceInv /\ BasicInv /\ d \in Workers /\ SoakItem[d] \in Items
      /\ WorkerStep(d) /\ pc[d] # "owner_recovering" /\ at[d] = "polling"
  BY DaemonAssumption DEF DaemonInv, Work, PlaceInv
<1>1. AttemptsLeft(d)' /\ Selected(d)'
  BY <1>0, AttemptsStep, ClaimsStep DEF Served
<1>2. report'[d] # "idle" /\ at'[d] \in {"polling", "looping"}
  BY <1>0 DEF Work, PlaceInv, DaemonTypeOK
<1>3. at'[d] = "looping" => pc'[d] = "idle" /\ idleLoops'[d] = Counted(d)
  BY <1>0 DEF Work, DaemonTypeOK
<1>4. at'[d] = "looping" /\ idleLoops'[d] > 0 => \A i \in Items : row'[i].status # "queued"
  BY <1>0, <1>3, ClaimsStep DEF Counted, Served
<1>5. Found(d)'
  BY <1>0, <1>2, <1>4 DEF Found
<1>6. QED
  BY <1>1, <1>5 DEF Served

LEMMA ServedNext ==
  ASSUME OnlyDaemons, DaemonInv, [DaemonNext]_DaemonVars, NEW d \in Daemons, Single(d)'
  PROVE  Served(d)'
<1>0. /\ Single(d) /\ Served(d) /\ BasicInv /\ SoakItem[d] \in Items
      /\ \A e \in Daemons \ {d} : ~(DaemonStep(e) \/ Start(e) \/ Die(e))
  BY SingleNext, DaemonAssumption DEF DaemonInv
<1>1. CASE DaemonStep(d) \/ Start(d) \/ Die(d)
  BY <1>0, <1>1, LoopStep, PollStep, WorkStep DEF OnlyDaemons, DaemonStep
<1>2. CASE UNCHANGED DaemonVars \/ \E e \in Daemons : RequestStop(e)
  <2>1. UNCHANGED <<row, pc, sel, spent, limit, at, idleLoops, stoppedBy, report>>
    BY <1>2 DEF DaemonVars, RequestStop, vars, local, dvars
  <2>2. QED
    BY <1>0, <2>1, OutsideStep
<1>3. CASE Others
  <2>1. PICK i \in Items \ {SoakItem[e] : e \in Daemons} : Enqueue(i) /\ UNCHANGED dvars
    BY <1>3 DEF Others, OnlyDaemons
  <2>2. i \in Items \ {SoakItem[d]} /\ UNCHANGED <<pc, sel, spent, limit, at, idleLoops, stoppedBy, report>>
    BY <2>1 DEF Enqueue, dvars, local
  <2>3. QED
    BY <1>0, <2>1, <2>2, OutsideStep
<1>4. CASE Tick /\ UNCHANGED dvars
  <2>1. UNCHANGED <<pc, sel, spent, limit, at, idleLoops, stoppedBy, report>>
    BY <1>4 DEF Tick, dvars
  <2>2. QED
    BY <1>0, <1>4, <2>1, OutsideStep
<1>5. QED
  BY <1>0, <1>1, <1>2, <1>3, <1>4 DEF DaemonNext

\* A daemon that ends for want of items and reports that it is idle, and is the
\* only one that was started, has not left its own item in the queue, in
\* whatever places it died before and whatever limits its starts are given; with
\* max_idle_loops = 0 it never looks, and IdleLeavesNothing says nothing of it.
THEOREM IdleDaemonsServed == OnlyDaemons => (DaemonSpec => []DaemonInvariant)
<1> SUFFICES ASSUME OnlyDaemons
             PROVE  DaemonSpec => []DaemonInvariant
  OBVIOUS
<1>1. DaemonInv /\ [DaemonNext]_DaemonVars => DaemonInv'
  BY DaemonBasic, DaemonTypes, PlaceNext, ServedNext DEF DaemonInv
<1>2. DaemonInv => DaemonInvariant
  BY DEF DaemonInv, DaemonInvariant, IdleLeavesNothing, Single, Served, Found
<1>3. DaemonSpec => DaemonInit /\ [][DaemonNext]_DaemonVars
  BY PTL DEF DaemonSpec
<1>4. QED
  BY <1>1, <1>2, <1>3, DaemonInitially, PTL
=============================================================================
