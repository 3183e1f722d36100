--------------------------- MODULE RunQueueProofs ---------------------------
(***************************************************************************)
(* Proofs about RunQueue, for every set of items, workers and clients and  *)
(* every value of the other constants.                                     *)
(***************************************************************************)
EXTENDS RunQueue, TLAPS

ControlLabels == {"merge", "unlink", "token", "check", "write"}

\* What a process carries from one step of a function to the next.
ProcInv ==
    \A q \in Procs :
        /\ pc[q] \in ControlLabels => focus[q] \in Items /\ intent[q] \in Commands \ {"recover"}
        /\ pc[q] \in {"executing", "settling"} => focus[q] \in Items
        /\ spent[q] \subseteq sel[q]
        /\ pc[q] # "recovering" => spent[q] = {}
        /\ pc[q] = "claiming" => newLease[q] # NoLease
        /\ pc[q] = "write" /\ intent[q] = "renew" => newLease[q] # NoLease

BasicInv == TypeOK /\ ProcInv

\* What the UPDATEs leave is a row again.
LEMMA LeaseType == NoLease \in Leases /\ LeaseTicks \in Leases /\ LeaseTicks # NoLease
  BY BoundsAssumption DEF NoLease, Leases

LEMMA ElapseType ==
  ASSUME NEW l \in Leases
  PROVE  Elapse(l) \in Leases /\ (l # NoLease => Elapse(l) # NoLease)
  BY BoundsAssumption DEF Elapse, Leases, NoLease

LEMMA ReleasedType ==
  ASSUME NEW r \in Row, NEW s \in Statuses
  PROVE  /\ Released(r, s) \in Row
         /\ Released(r, s).status = s /\ Released(r, s).owner = None
  BY LeaseType DEF Released, Row

LEMMA SettledType ==
  ASSUME NEW r \in Row, NEW v
  PROVE  /\ Settled(r, v) \in Row
         /\ Settled(r, v).status \in {"completed", "paused", "failed"}
         /\ Settled(r, v).owner = None
<1>1. \A s \in {"completed", "paused", "failed"} :
         /\ Released(r, s) \in Row
         /\ Released(r, s).status = s /\ Released(r, s).owner = None
  BY ReleasedType DEF Statuses
<1>2. \A s \in {"completed", "paused", "failed"}, b \in BOOLEAN :
         LET t == [Released(r, s) EXCEPT !.result = b]
         IN  t \in Row /\ t.status = s /\ t.owner = None
  BY <1>1 DEF Row
<1>3. QED
  BY <1>2 DEF Settled

LEMMA AbsentType == Absent \in Row
  BY LeaseType DEF Absent, Row, Statuses

LEMMA LeasedType ==
  ASSUME NEW r \in Row, NEW o \in Owners, NEW l \in Leases
  PROVE  /\ Leased(r, o, l) \in Row
         /\ Leased(r, o, l).status = "running"
         /\ Leased(r, o, l).owner = o /\ Leased(r, o, l).lease = l
<1>1. r.attempts + 1 \in Nat
  BY DEF Row
<1>2. QED
  BY <1>1 DEF Leased, Row, Statuses

LEMMA RefundedType ==
  ASSUME NEW r \in Row
  PROVE  /\ Refunded(r) \in Row
         /\ Refunded(r).status = r.status /\ Refunded(r).owner = r.owner
<1>1. r.attempts \in Nat
  BY DEF Row
<1>2. (IF r.attempts > 0 THEN r.attempts - 1 ELSE 0) \in Nat
  BY <1>1
<1>3. QED
  BY <1>2 DEF Refunded, Row

LEMMA AgedType ==
  ASSUME NEW r \in Row
  PROVE  /\ Aged(r) \in Row
         /\ Aged(r).status = r.status /\ Aged(r).owner = r.owner
         /\ r.lease # NoLease => Aged(r).lease # NoLease
<1>1. r.lease \in Leases
  BY DEF Row
<1>2. QED
  BY <1>1, ElapseType DEF Aged, Row

LEMMA FieldType ==
  ASSUME NEW r \in Row
  PROVE  /\ \A b \in BOOLEAN : LET t == [r EXCEPT !.resume = b]
                               IN  /\ t \in Row /\ t.lease = r.lease
                                   /\ t.status = r.status /\ t.owner = r.owner
         /\ \A l \in Leases : LET t == [r EXCEPT !.lease = l]
                              IN  /\ t \in Row /\ t.lease = l
                                  /\ t.status = r.status /\ t.owner = r.owner
  BY DEF Row

LEMMA DropType ==
  ASSUME held \in [Workers -> [Items -> Nat]], NEW p \in Workers, NEW i
  PROVE  [held EXCEPT ![p][i] = 0] \in [Workers -> [Items -> Nat]]
<1>1. [held[p] EXCEPT ![i] = 0] \in [Items -> Nat]
  OBVIOUS
<1>2. QED
  BY <1>1

LEMMA BasicInit == Init => BasicInv
  BY LeaseType, AbsentType DEF Init, BasicInv, TypeOK, ProcInv, Labels, ControlLabels

\* A process that forgets what it was doing keeps the local invariant, whatever
\* becomes of the shared state.
LEMMA ForgetBasic ==
  ASSUME BasicInv, NEW q \in Procs, Forget(q),
         row' \in [Items -> Row], token' \in SUBSET Items,
         held' \in [Workers -> [Items -> Nat]], ticket' = ticket,
         calls' \in Nat, crashes' \in Nat, restarts' \in Nat
  PROVE  BasicInv'
<1> USE DEF BasicInv, TypeOK, ProcInv
<1>1. /\ sel' = [sel EXCEPT ![q] = {}] /\ spent' = [spent EXCEPT ![q] = {}]
      /\ focus' = [focus EXCEPT ![q] = None] /\ intent' = [intent EXCEPT ![q] = None]
      /\ newLease' = [newLease EXCEPT ![q] = NoLease] /\ pc' = [pc EXCEPT ![q] = "idle"]
  BY DEF Forget, Goto
<1>2. /\ sel' \in [Procs -> SUBSET Items] /\ spent' \in [Procs -> SUBSET Items]
      /\ focus' \in [Procs -> Items \cup {None}]
      /\ intent' \in [Procs -> Verdicts \cup Commands \cup {None}]
  BY <1>1
<1>3. newLease' \in [Procs -> Leases] /\ pc' \in [Procs -> Labels]
  BY <1>1, LeaseType DEF Labels
<1>4. TypeOK'
  BY <1>2, <1>3
<1>5. /\ pc'[q] = "idle" /\ spent'[q] = {} /\ sel'[q] = {}
      /\ \A p \in Procs \ {q} :
            /\ pc'[p] = pc[p] /\ focus'[p] = focus[p] /\ intent'[p] = intent[p]
            /\ sel'[p] = sel[p] /\ spent'[p] = spent[p] /\ newLease'[p] = newLease[p]
  BY <1>1
<1>6. ProcInv'
  BY <1>5 DEF ControlLabels
<1>7. QED
  BY <1>4, <1>6

\* Every action keeps the types and the local invariant of the processes.
LEMMA BasicNext == BasicInv /\ [Next]_vars => BasicInv'
<1> SUFFICES ASSUME BasicInv, [Next]_vars PROVE BasicInv'
  OBVIOUS
<1> USE DEF BasicInv
<1> USE DEF TypeOK, ProcInv, Procs, ControlLabels, Labels
<1>1. CASE UNCHANGED vars
  BY <1>1 DEF vars, local, bounds
<1>2. ASSUME NEW i \in Items, Enqueue(i) PROVE BasicInv'
  <2>1. [Absent EXCEPT !.status = "queued"] \in Row
    BY AbsentType DEF Row, Statuses
  <2>2. QED
    BY <1>2, <2>1 DEF Enqueue, local, bounds
<1>3. ASSUME NEW p \in Workers, BeginClaim(p) PROVE BasicInv'
  BY <1>3 DEF BeginClaim, RecoverRead, Goto, bounds
<1>4. ASSUME NEW q \in Procs, NEW next \in {"selecting", "idle"}, RecoverWrite(q, next) PROVE BasicInv'
  <2>1. row' \in [Items -> Row]
    BY <1>4, ReleasedType DEF RecoverWrite, Statuses
  <2>2. QED
    BY <1>4, <2>1 DEF RecoverWrite, Goto, bounds
<1>5. ASSUME NEW p \in Workers, ClaimRead(p) PROVE BasicInv'
  BY <1>5, LeaseType DEF ClaimRead, Goto, Selections, bounds
<1>6. ASSUME NEW p \in Workers, ClaimWrite(p) PROVE BasicInv'
  <2>1. row' \in [Items -> Row]
    <3>1. Owner[p] \in Owners /\ newLease[p] \in Leases
      BY DEF Owners
    <3>2. QED
      BY <1>6, <3>1, LeasedType DEF ClaimWrite
  <2>2. ticket' \in [Items -> Nat]
    <3>1. \A i \in Items : ticket[i] \in Nat /\ ticket[i] + 1 \in Nat
      OBVIOUS
    <3>2. QED
      BY <1>6, <3>1 DEF ClaimWrite
  <2>3. [i \in Items |-> IF i \in Mine(p) THEN ticket'[i] ELSE 0] \in [Items -> Nat]
    BY <2>2
  <2>4. held' \in [Workers -> [Items -> Nat]]
    BY <1>6, <2>3 DEF ClaimWrite
  <2>5. QED
    BY <1>6, <2>1, <2>2, <2>4, LeaseType DEF ClaimWrite, Goto, bounds
<1>7. ASSUME NEW p \in Workers, Reread(p) PROVE BasicInv'
  <2>1. PICK i \in Items :
             IF row[i].status = "running"
             THEN /\ focus' = [focus EXCEPT ![p] = i]
                  /\ Goto(p, "executing")
                  /\ UNCHANGED <<held, intent>>
             ELSE Drop(p, i)
    BY <1>7 DEF Reread
  <2>2. held' = held \/ held' = [held EXCEPT ![p][i] = 0]
    BY <2>1 DEF Drop
  <2>3. held' \in [Workers -> [Items -> Nat]]
    BY <2>2, DropType
  <2>4. UNCHANGED <<row, token, sel, spent, newLease, ticket, bounds>>
    BY <1>7 DEF Reread
  <2>5. /\ focus' \in [Procs -> Items \cup {None}]
        /\ intent' \in [Procs -> Verdicts \cup Commands \cup {None}]
        /\ pc' \in [Procs -> Labels]
    BY ZenonT(60), <1>7, <2>1 DEF Drop, Goto
  <2>6. TypeOK'
    BY <2>3, <2>4, <2>5 DEF bounds
  <2>7. ProcInv'
    <3>1. pc[p] = "working" /\ pc'[p] \in {"executing", "idle", "working"}
      BY <1>7, <2>1 DEF Reread, Drop, Goto
    <3>2. pc'[p] = "executing" => focus'[p] \in Items
      BY <1>7, <2>1 DEF Drop, Goto
    <3>3. \A q \in Procs \ {p} : pc'[q] = pc[q] /\ focus'[q] = focus[q] /\ intent'[q] = intent[q]
      BY <1>7, <2>1 DEF Drop, Goto
    <3>4. sel' = sel /\ spent' = spent /\ newLease' = newLease
      BY <2>4
    <3>5. QED
      BY <1>7, <3>1, <3>2, <3>3, <3>4
  <2>8. QED
    BY <2>6, <2>7
<1>8. ASSUME NEW p \in Workers, FinishRead(p) PROVE BasicInv'
  <2>1. held' \in [Workers -> [Items -> Nat]]
    <3>1. held' = held \/ held' = [held EXCEPT ![p][focus[p]] = 0]
      BY <1>8 DEF FinishRead, Drop
    <3>2. QED
      BY SMTT(60), <3>1, DropType
  <2>2. QED
    BY SMTT(60), <1>8, <2>1 DEF FinishRead, Drop, Goto, Verdicts, bounds
<1>9. ASSUME NEW p \in Workers, Settle(p) PROVE BasicInv'
  <2>1. row' \in [Items -> Row]
    BY <1>9, SettledType DEF Settle
  <2>2. held' \in [Workers -> [Items -> Nat]]
    BY <1>9, DropType DEF Settle, Drop
  <2>3. QED
    BY <1>9, <2>1, <2>2 DEF Settle, Drop, Goto, bounds
<1>10. ASSUME NEW p \in Workers, OwnerRead(p) PROVE BasicInv'
  BY <1>10 DEF OwnerRead, Goto, bounds
<1>11. ASSUME NEW p \in Workers, OwnerWrite(p) PROVE BasicInv'
  <2>1. row' \in [Items -> Row]
    <3>1. \A i \in Items : Released(row[i], "queued") \in Row
      BY ReleasedType DEF Statuses
    <3>2. QED
      BY <1>11, <3>1, RefundedType DEF OwnerWrite
  <2>2. QED
    BY <1>11, <2>1 DEF OwnerWrite, Goto, bounds
<1>12. ASSUME NEW p \in Workers, Crash(p) PROVE BasicInv'
  <2>1. Forget(p) /\ held' \in [Workers -> [Items -> Nat]]
    BY <1>12 DEF Crash
  <2>2. QED
    BY <1>12, <2>1, ForgetBasic DEF Crash
<1>13. ASSUME NEW c \in Clients, BeginCall(c) PROVE BasicInv'
  BY <1>13, SetsAssumption DEF BeginCall, Goto, FirstLabel
<1>14. ASSUME NEW c \in Clients, BeginRecover(c) PROVE BasicInv'
  BY <1>14 DEF BeginRecover, RecoverRead, Goto
<1>15. ASSUME NEW c \in Clients, Merge(c) PROVE BasicInv'
  <2>1. row' \in [Items -> Row]
    BY ZenonT(60), <1>15, FieldType DEF Merge
  <2>2. QED
    BY <1>15, <2>1 DEF Merge, Goto, bounds
<1>16. ASSUME NEW c \in Clients, Unlink(c) PROVE BasicInv'
  BY <1>16 DEF Unlink, Goto, bounds
<1>17. ASSUME NEW c \in Clients, WriteToken(c) PROVE BasicInv'
  BY <1>17 DEF WriteToken, Goto, bounds
<1>18. ASSUME NEW c \in Clients, Check(c) PROVE BasicInv'
  <2>1. CASE MayChange(intent[c], row[focus[c]])
    <3>1. newLease' \in [Procs -> Leases]
      BY <1>18, <2>1, LeaseType DEF Check
    <3>2. intent[c] = "renew" => newLease'[c] # NoLease
      BY <1>18, <2>1, LeaseType DEF Check
    <3>3. pc[c] = "check" /\ pc' = [pc EXCEPT ![c] = "write"]
      BY <1>18, <2>1 DEF Check, Goto
    <3>4. \A q \in Procs \ {c} : newLease'[q] = newLease[q]
      BY <1>18, <2>1 DEF Check
    <3>5. UNCHANGED <<row, token, sel, spent, focus, intent, held, ticket, bounds>>
      BY <1>18, <2>1 DEF Check
    <3>6. QED
      BY <3>1, <3>2, <3>3, <3>4, <3>5 DEF bounds
  <2>2. CASE ~MayChange(intent[c], row[focus[c]])
    <3>1. Forget(c)
      BY <1>18, <2>2 DEF Check
    <3>2. UNCHANGED <<row, token, held, ticket, bounds>>
      BY <1>18 DEF Check
    <3>3. QED
      BY <3>1, <3>2, ForgetBasic DEF bounds
  <2>3. QED
    BY <2>1, <2>2
<1>19. ASSUME NEW c \in Clients, Write(c) PROVE BasicInv'
  <2>1. row' \in [Items -> Row]
    <3>1. CASE intent[c] = "renew"
      BY <1>19, <3>1, FieldType DEF Write
    <3>2. CASE intent[c] # "renew"
      <4>1. Target[intent[c]] \in Statuses
        BY <1>19, <3>2, SetsAssumption DEF Write, Target, Statuses
      <4>2. QED
        BY <1>19, <3>2, <4>1, ReleasedType DEF Write
    <3>3. QED
      BY <3>1, <3>2
  <2>2. QED
    <3>1. Forget(c) /\ UNCHANGED <<token, held, ticket, bounds>>
      BY <1>19 DEF Write
    <3>2. QED
      BY <2>1, <3>1, ForgetBasic DEF bounds
<1>20. ASSUME NEW c \in Clients, Abandon(c) PROVE BasicInv'
  <2>1. Forget(c) /\ UNCHANGED <<row, token, held, ticket, bounds>>
    BY <1>20 DEF Abandon
  <2>2. QED
    BY <2>1, ForgetBasic DEF bounds
<1>21. CASE Tick
  <2>2. row' \in [Items -> Row]
    BY <1>21, AgedType DEF Tick
  <2>3. newLease' \in [Procs -> Leases] /\ \A q \in Procs : newLease[q] # NoLease => newLease'[q] # NoLease
    BY <1>21, ElapseType DEF Tick
  <2>4. QED
    BY <1>21, <2>2, <2>3 DEF Tick, bounds
<1>22. QED
  BY <1>1, <1>2, <1>3, <1>4, <1>5, <1>6, <1>7, <1>8, <1>9, <1>10, <1>11, <1>12, <1>13, <1>14,
     <1>15, <1>16, <1>17, <1>18, <1>19, <1>20, <1>21
  DEF Next, WorkerStep, ClientStep

\* The variables keep their types in every behaviour of the queue.
THEOREM TypeCorrect == Spec => []TypeOK
<1>1. Init => BasicInv
  BY BasicInit
<1>2. BasicInv /\ [Next]_vars => BasicInv'
  BY BasicNext
<1>3. BasicInv => TypeOK
  BY DEF BasicInv
<1>4. QED
  BY <1>1, <1>2, <1>3, PTL DEF Spec

-----------------------------------------------------------------------------
(***************************************************************************)
(* What one step does to a row: it keeps the status and the owner, or it   *)
(* takes the row out of running and clears the owner, or it is a claim.    *)
(***************************************************************************)
Kept(i) ==
    /\ row'[i].status = row[i].status /\ row'[i].owner = row[i].owner
    /\ row[i].lease # NoLease => row'[i].lease # NoLease

Cleared(i) == row'[i].status # "running" /\ row'[i].owner = None

Claimed(i) ==
    \E p \in Workers :
        /\ ClaimWrite(p) /\ i \in Won(p)
        /\ row'[i].status = "running" /\ row'[i].owner = Owner[p] /\ row'[i].lease # NoLease

RowFate == \A i \in Items : Kept(i) \/ Cleared(i) \/ Claimed(i)

LEMMA RowStep == BasicInv /\ [Next]_vars => RowFate
<1> SUFFICES ASSUME BasicInv, [Next]_vars PROVE RowFate
  OBVIOUS
<1> USE DEF BasicInv, TypeOK, RowFate
<1>1. ASSUME row' = row PROVE RowFate
  BY <1>1 DEF Kept
<1>2. ASSUME NEW f \in Items, NEW r, row' = [row EXCEPT ![f] = r],
             \/ r.status # "running" /\ r.owner = None
             \/ /\ r.status = row[f].status /\ r.owner = row[f].owner
                /\ row[f].lease # NoLease => r.lease # NoLease
      PROVE  RowFate
  BY <1>2 DEF Kept, Cleared
<1>3. ASSUME NEW i \in Items, Enqueue(i) PROVE RowFate
  <2>1. [Absent EXCEPT !.status = "queued"].status = "queued" /\ [Absent EXCEPT !.status = "queued"].owner = None
    BY DEF Absent
  <2>2. QED
    BY <1>2, <1>3, <2>1 DEF Enqueue
<1>4. ASSUME NEW q \in Procs, NEW next \in {"selecting", "idle"}, RecoverWrite(q, next) PROVE RowFate
  <2>1. \A i \in Items : row'[i] \in {row[i], Released(row[i], "failed"), Released(row[i], "queued")}
    BY <1>4 DEF RecoverWrite
  <2>2. QED
    BY <2>1, ReleasedType DEF Kept, Cleared, Statuses
<1>5. ASSUME NEW p \in Workers, ClaimWrite(p) PROVE RowFate
  <2>1. newLease[p] # NoLease
    BY <1>5 DEF ProcInv, ClaimWrite, Procs
  <2>2. ASSUME NEW i \in Items PROVE Kept(i) \/ Claimed(i)
    <3>1. CASE i \in Won(p)
      <4>1. row'[i] = Leased(row[i], Owner[p], newLease[p])
        BY <1>5, <2>2, <3>1 DEF ClaimWrite
      <4>2. Owner[p] \in Owners /\ newLease[p] \in Leases
        BY <1>5 DEF Owners, Procs
      <4>3. row'[i].status = "running" /\ row'[i].owner = Owner[p] /\ row'[i].lease = newLease[p]
        BY <2>2, <4>1, <4>2, LeasedType
      <4>4. QED
        BY <1>5, <2>1, <3>1, <4>3 DEF Claimed
    <3>2. CASE i \notin Won(p)
      BY <1>5, <3>2 DEF ClaimWrite, Kept
    <3>3. QED
      BY <3>1, <3>2
  <2>3. QED
    BY <2>2
<1>6. ASSUME NEW p \in Workers, Settle(p) PROVE RowFate
  <2>1. focus[p] \in Items
    BY <1>6 DEF Settle, ProcInv, Procs
  <2>2. QED
    BY <1>2, <1>6, <2>1, SettledType DEF Settle
<1>7. ASSUME NEW p \in Workers, OwnerWrite(p) PROVE RowFate
  <2>1. \A i \in Items : LET t == Released(row[i], "queued")
                         IN  t \in Row /\ t.status = "queued" /\ t.owner = None
    BY ReleasedType DEF Statuses
  <2>2. \A i \in Items : row'[i] = row[i] \/ (row'[i].status = "queued" /\ row'[i].owner = None)
    BY <1>7, <2>1, RefundedType DEF OwnerWrite
  <2>3. QED
    BY <2>2 DEF Kept, Cleared
<1>8. ASSUME NEW c \in Clients, Merge(c) PROVE RowFate
  <2>1. focus[c] \in Items
    BY <1>8 DEF Merge, ProcInv, Procs, ControlLabels
  <2>2. LET r == [row[focus[c]] EXCEPT !.resume = (intent[c] = "approve")]
        IN  /\ r.status = row[focus[c]].status /\ r.owner = row[focus[c]].owner
            /\ r.lease = row[focus[c]].lease
    BY <2>1 DEF Row
  <2>3. QED
    BY <1>2, <1>8, <2>1, <2>2 DEF Merge
<1>9. ASSUME NEW c \in Clients, Write(c) PROVE RowFate
  <2>1. focus[c] \in Items /\ intent[c] \in Commands \ {"recover"}
    BY <1>9 DEF Write, ProcInv, Procs, ControlLabels
  <2>2. CASE intent[c] = "renew"
    <3>1. newLease[c] # NoLease
      BY <1>9, <2>2 DEF Write, ProcInv, Procs
    <3>2. LET r == [row[focus[c]] EXCEPT !.lease = newLease[c]]
          IN  /\ r.status = row[focus[c]].status /\ r.owner = row[focus[c]].owner
              /\ r.lease # NoLease
      BY <2>1, <3>1 DEF Row
    <3>3. QED
      BY <1>2, <1>9, <2>1, <2>2, <3>2 DEF Write
  <2>3. CASE intent[c] # "renew"
    <3>1. intent[c] \in {"pause", "resume", "cancel", "approve", "reject"}
      BY <2>1, <2>3, SetsAssumption
    <3>2. Target[intent[c]] \in Statuses /\ Target[intent[c]] # "running"
      BY <3>1 DEF Target, Statuses
    <3>3. /\ Released(row[focus[c]], Target[intent[c]]).status = Target[intent[c]]
          /\ Released(row[focus[c]], Target[intent[c]]).owner = None
      BY <2>1, <3>2, ReleasedType
    <3>4. row' = [row EXCEPT ![focus[c]] = Released(row[focus[c]], Target[intent[c]])]
      BY <1>9, <2>3 DEF Write
    <3>5. QED
      BY <1>2, <2>1, <3>2, <3>3, <3>4
  <2>4. QED
    BY <2>2, <2>3
<1>10. CASE Tick
  BY <1>10, AgedType DEF Tick, Kept
<1>11. QED
  BY <1>1, <1>3, <1>4, <1>5, <1>6, <1>7, <1>8, <1>9, <1>10
  DEF Next, WorkerStep, ClientStep, BeginClaim, RecoverRead, ClaimRead, Reread, FinishRead, OwnerRead,
      Crash, BeginCall, BeginRecover, Unlink, WriteToken, Check, Abandon, Forget, Procs, vars

\* Every running row names an owner and carries a lease, and no other row
\* names an owner: the columns the six UPDATEs of run_queue.py keep together.
THEOREM LeasesAreDisciplined == Spec => []LeaseDiscipline
<1>1. Init => BasicInv /\ LeaseDiscipline
  BY BasicInit DEF Init, LeaseDiscipline, Absent
<1>2. BasicInv /\ LeaseDiscipline /\ [Next]_vars => BasicInv' /\ LeaseDiscipline'
  <2> SUFFICES ASSUME BasicInv, LeaseDiscipline, [Next]_vars PROVE LeaseDiscipline'
    BY BasicNext
  <2>1. RowFate
    BY RowStep
  <2>2. \A p \in Workers : Owner[p] # None
    BY SetsAssumption DEF Owners
  <2>3. QED
    BY <2>1, <2>2 DEF LeaseDiscipline, RowFate, Kept, Cleared, Claimed
<1>3. QED
  BY <1>1, <1>2, PTL DEF Spec

-----------------------------------------------------------------------------
(***************************************************************************)
(* Claims.  A ticket is a claim that took effect; a step other than a      *)
(* claim issues no ticket and can only let go of the ones that are held.   *)
(***************************************************************************)
DistinctOwners == \A p, q \in Workers : Owner[p] = Owner[q] => p = q

NoClaim ==
    /\ ticket' = ticket
    /\ \A q \in Workers, i \in Items : held'[q][i] = held[q][i] \/ held'[q][i] = 0
    /\ \A i \in Items : Kept(i) \/ Cleared(i)

LEMMA ClaimOrNot ==
  BasicInv /\ [Next]_vars => NoClaim \/ \E p \in Workers : ClaimWrite(p)
<1> SUFFICES ASSUME BasicInv, [Next]_vars, \A p \in Workers : ~ClaimWrite(p) PROVE NoClaim
  OBVIOUS
<1>1. \A i \in Items : Kept(i) \/ Cleared(i)
  BY RowStep DEF RowFate, Claimed
<1> USE DEF BasicInv, TypeOK
<1>2. ASSUME NEW p \in Workers, NEW f, Drop(p, f)
      PROVE  \A q \in Workers, i \in Items : held'[q][i] = held[q][i] \/ held'[q][i] = 0
  <2>1. held' = [held EXCEPT ![p][f] = 0]
    BY <1>2 DEF Drop
  <2>2. \A i \in Items : [held[p] EXCEPT ![f] = 0][i] \in {held[p][i], 0}
    BY <1>2
  <2>3. QED
    BY <1>2, <2>1, <2>2
<1>3. ASSUME NEW p \in Workers, Reread(p) PROVE NoClaim
  <2>1. ticket' = ticket
    BY <1>3 DEF Reread
  <2>2. PICK i \in Items : UNCHANGED held \/ Drop(p, i)
    BY <1>3 DEF Reread
  <2>3. QED
    BY <1>1, <1>2, <2>1, <2>2 DEF NoClaim
<1>4. ASSUME NEW p \in Workers, FinishRead(p) PROVE NoClaim
  <2>1. ticket' = ticket /\ (UNCHANGED held \/ Drop(p, focus[p]))
    BY <1>4 DEF FinishRead
  <2>2. QED
    BY <1>1, <1>2, <2>1 DEF NoClaim
<1>5. ASSUME NEW p \in Workers, Settle(p) PROVE NoClaim
  <2>1. ticket' = ticket /\ Drop(p, focus[p])
    BY <1>5 DEF Settle
  <2>2. QED
    BY <1>1, <1>2, <2>1 DEF NoClaim
<1>6. ASSUME NEW p \in Workers, Crash(p) PROVE NoClaim
  BY <1>1, <1>6 DEF Crash, NoClaim
<1>7. ASSUME UNCHANGED <<held, ticket>> PROVE NoClaim
  BY <1>1, <1>7 DEF NoClaim
<1>8. QED
  BY <1>3, <1>4, <1>5, <1>6, <1>7
  DEF Next, WorkerStep, ClientStep, Enqueue, BeginClaim, RecoverRead, RecoverWrite, ClaimRead, OwnerRead,
      OwnerWrite, BeginCall, BeginRecover, Merge, Unlink, WriteToken, Check, Write, Abandon, Tick, vars

\* Why a ticket has one holder: nobody holds a ticket not yet issued, a running
\* row was claimed, and the holder of its last ticket is the owner it names.
TicketInv ==
    /\ \A p \in Workers, i \in Items : held[p][i] <= ticket[i]
    /\ \A i \in Items : row[i].status = "running" => ticket[i] # 0
    /\ OneHolderPerTicket
    /\ RunningUnderHolder

LEMMA TicketNext ==
  ASSUME DistinctOwners, BasicInv, BasicInv', TicketInv, [Next]_vars
  PROVE  TicketInv'
<1> USE DEF TicketInv, OneHolderPerTicket, RunningUnderHolder
<1> \A p \in Workers, i \in Items : /\ held[p][i] \in Nat /\ held'[p][i] \in Nat
                                  /\ ticket[i] \in Nat /\ ticket'[i] \in Nat
  BY DEF BasicInv, TypeOK
<1>1. CASE NoClaim
  <2>1. \A i \in Items : row'[i].status = "running" =>
            row[i].status = "running" /\ row'[i].owner = row[i].owner
    BY <1>1 DEF NoClaim, Kept, Cleared
  <2>2. QED
    BY <1>1, <2>1 DEF NoClaim
<1>2. ASSUME NEW p \in Workers, ClaimWrite(p) PROVE TicketInv'
  <2>1. ASSUME NEW i \in Items
        PROVE  /\ i \in Won(p) => /\ ticket'[i] = ticket[i] + 1
                                  /\ row'[i].status = "running" /\ row'[i].owner = Owner[p]
               /\ i \notin Won(p) => ticket'[i] = ticket[i] /\ row'[i] = row[i]
               /\ i \in Mine(p) => held'[p][i] = ticket'[i]
               /\ i \notin Mine(p) => held'[p][i] = 0
               /\ i \in Mine(p) \ Won(p) => row[i].status = "running" /\ row[i].owner = Owner[p]
               /\ i \in Won(p) => row[i].status # "running" /\ i \in Mine(p)
               /\ \A q \in Workers \ {p} : held'[q][i] = held[q][i]
    <3>1. Owner[p] \in Owners /\ newLease[p] \in Leases /\ row[i] \in Row
      BY <1>2, <2>1 DEF Owners, Procs, BasicInv, TypeOK
    <3>2. i \in Won(p) => row'[i] = Leased(row[i], Owner[p], newLease[p])
      BY <1>2, <2>1 DEF ClaimWrite
    <3>3. i \in Won(p) => row'[i].status = "running" /\ row'[i].owner = Owner[p]
      BY <3>1, <3>2, LeasedType
    <3>4. held' = [held EXCEPT ![p] = [j \in Items |-> IF j \in Mine(p) THEN ticket'[j] ELSE 0]]
      BY <1>2 DEF ClaimWrite
    <3>5. held'[p] = [j \in Items |-> IF j \in Mine(p) THEN ticket'[j] ELSE 0]
      BY <1>2, <3>4 DEF BasicInv, TypeOK
    <3>6. QED
      BY <1>2, <2>1, <3>3, <3>4, <3>5 DEF ClaimWrite, Won, Mine, BasicInv, TypeOK
  <2>2. \A q \in Workers, i \in Items : held'[q][i] <= ticket'[i]
    BY <1>2, <2>1
  <2>3. \A i \in Items : row'[i].status = "running" => ticket'[i] # 0
    BY <2>1
  <2>4. ASSUME NEW q \in Workers \ {p}, NEW i \in Items, held'[q][i] # 0
        PROVE  held'[q][i] # held'[p][i]
    <3>1. CASE i \in Won(p)
      BY <2>1, <2>4, <3>1
    <3>2. CASE i \in Mine(p) \ Won(p)
      BY <1>2, <2>1, <2>4, <3>2 DEF DistinctOwners
    <3>3. CASE i \notin Mine(p)
      BY <2>1, <2>4, <3>3
    <3>4. QED
      BY <3>1, <3>2, <3>3
  <2>5. OneHolderPerTicket'
    BY <1>2, <2>1, <2>4
  <2>6. RunningUnderHolder'
    <3>1. ASSUME NEW q \in Workers, NEW i \in Items, row'[i].status = "running", held'[q][i] # 0
          PROVE  held'[q][i] = ticket'[i] <=> row'[i].owner = Owner[q]
      <4>1. CASE q = p
        BY <1>2, <2>1, <3>1, <4>1
      <4>2. CASE q # p
        <5>1. CASE i \in Won(p)
          BY <1>2, <2>1, <3>1, <4>2, <5>1 DEF DistinctOwners
        <5>2. CASE i \notin Won(p)
          BY <1>2, <2>1, <3>1, <4>2, <5>2
        <5>3. QED
          BY <5>1, <5>2
      <4>3. QED
        BY <4>1, <4>2
    <3>2. QED
      BY <3>1
  <2>7. QED
    BY <2>2, <2>3, <2>5, <2>6
<1>3. QED
  BY <1>1, <1>2, ClaimOrNot

LEMMA TicketInit == Init => TicketInv
  BY DEF Init, TicketInv, OneHolderPerTicket, RunningUnderHolder, Absent

\* When every worker has an owner name of its own, no claim of an item is held
\* by two workers.
THEOREM ClaimsAreExclusive == DistinctOwners => (Spec => []OneHolderPerTicket)
<1> SUFFICES ASSUME DistinctOwners PROVE Spec => []OneHolderPerTicket
  OBVIOUS
<1>1. Init => BasicInv /\ TicketInv
  BY BasicInit, TicketInit
<1>2. BasicInv /\ TicketInv /\ [Next]_vars => BasicInv' /\ TicketInv'
  BY BasicNext, TicketNext
<1>3. TicketInv => OneHolderPerTicket
  BY DEF TicketInv
<1>4. QED
  BY <1>1, <1>2, <1>3, PTL DEF Spec

\* ... and a running row names the worker that holds its latest claim, never
\* one that was superseded.
THEOREM RowsNameTheirHolder == DistinctOwners => (Spec => []RunningUnderHolder)
<1> SUFFICES ASSUME DistinctOwners PROVE Spec => []RunningUnderHolder
  OBVIOUS
<1>1. Init => BasicInv /\ TicketInv
  BY BasicInit, TicketInit
<1>2. BasicInv /\ TicketInv /\ [Next]_vars => BasicInv' /\ TicketInv'
  BY BasicNext, TicketNext
<1>3. TicketInv => RunningUnderHolder
  BY DEF TicketInv
<1>4. QED
  BY <1>1, <1>2, <1>3, PTL DEF Spec

-----------------------------------------------------------------------------
(***************************************************************************)
(* A terminal item that no process is about to update stays as it is.      *)
(***************************************************************************)
StatusKept(i) == row'[i].status = row[i].status

LEMMA StickNext ==
  ASSUME BasicInv, [Next]_vars, NEW i \in Items, TerminalAndQuiet(i)
  PROVE  TerminalAndQuiet(i)' /\ StatusKept(i)
<1> DEFINE Goal == TerminalAndQuiet(i)' /\ StatusKept(i)
<1> SUFFICES Goal
  OBVIOUS
<1> USE DEF BasicInv, TypeOK
<1> row[i].status \in {"completed", "cancelled"}
  BY DEF TerminalAndQuiet
\* A step that leaves the rows alone and sends no process to an update of i.
<1>1. ASSUME StatusKept(i),
             \A q \in Procs : pc'[q] \in {"recovering", "owner_recovering"} => i \notin sel'[q],
             \A q \in Procs : pc'[q] \in {"settling", "write"} => focus'[q] # i,
             \A q \in Workers : Runs(q, i)' => Runs(q, i) \/ row[i].status = "cancelled"
      PROVE  Goal
  BY <1>1 DEF TerminalAndQuiet, Quiet, StatusKept
<1> USE DEF TerminalAndQuiet, Quiet, Runs, Procs, Goto
<1>2. ASSUME UNCHANGED <<pc, sel, focus>>, StatusKept(i) PROVE Goal
  BY <1>1, <1>2
<1>3. ASSUME NEW q \in Procs, NEW l \in {"idle", "selecting", "claiming", "working", "merge", "unlink", "token", "check"},
             Goto(q, l), \A r \in Procs \ {q} : sel'[r] = sel[r] /\ focus'[r] = focus[r], StatusKept(i)
      PROVE  Goal
  BY <1>1, <1>3
<1>4. ASSUME NEW p \in Workers, NEW f, Drop(p, f), UNCHANGED sel, StatusKept(i) PROVE Goal
  <2>1. \A r \in Procs \ {p} : sel'[r] = sel[r] /\ focus'[r] = focus[r]
    BY <1>4 DEF Drop
  <2>2. QED
    BY <1>3, <1>4, <2>1 DEF Drop
<1>5. ASSUME NEW j \in Items, Enqueue(j) PROVE Goal
  BY <1>2, <1>5 DEF Enqueue, local, StatusKept
<1>6. ASSUME NEW q \in Procs, NEW next \in {"selecting", "idle"}, RecoverWrite(q, next) PROVE Goal
  <2>1. i \notin sel[q] /\ i \notin spent[q]
    BY <1>6 DEF RecoverWrite, ProcInv
  <2>2. StatusKept(i)
    BY <1>6, <2>1 DEF RecoverWrite, StatusKept
  <2>3. QED
    BY <1>3, <1>6, <2>2 DEF RecoverWrite
<1>7. ASSUME NEW q \in Procs, RecoverRead(q, "recovering") PROVE Goal
  BY <1>1, <1>7 DEF RecoverRead, Stale, StatusKept
<1>8. ASSUME NEW p \in Workers, ClaimRead(p) PROVE Goal
  <2>1. PICK S \in Selections : /\ sel' = [sel EXCEPT ![p] = S]
                                /\ Goto(p, IF S = {} THEN "idle" ELSE "claiming")
    BY <1>8 DEF ClaimRead
  <2>2. UNCHANGED <<row, focus>>
    BY <1>8 DEF ClaimRead
  <2>3. QED
    BY <1>3, <1>8, <2>1, <2>2 DEF StatusKept
<1>9. ASSUME NEW p \in Workers, ClaimWrite(p) PROVE Goal
  <2>1. StatusKept(i)
    BY <1>9 DEF ClaimWrite, Won, StatusKept
  <2>2. QED
    BY <1>3, <1>9, <2>1 DEF ClaimWrite
<1>10. ASSUME NEW p \in Workers, Reread(p) PROVE Goal
  <2>1. PICK j \in Items :
             IF row[j].status = "running"
             THEN /\ focus' = [focus EXCEPT ![p] = j]
                  /\ Goto(p, "executing")
                  /\ UNCHANGED <<held, intent>>
             ELSE Drop(p, j)
    BY <1>10 DEF Reread
  <2>2. UNCHANGED sel /\ StatusKept(i)
    BY <1>10 DEF Reread, StatusKept
  <2>3. CASE row[j].status = "running"
    <3>1. j # i /\ pc'[p] = "executing" /\ focus'[p] = j
      BY <1>10, <2>1, <2>3
    <3>2. \A r \in Procs \ {p} : pc'[r] = pc[r] /\ focus'[r] = focus[r]
      BY <1>10, <2>1, <2>3
    <3>3. QED
      BY <1>1, <1>10, <2>2, <3>1, <3>2
  <2>4. CASE row[j].status # "running"
    BY <1>4, <1>10, <2>1, <2>2, <2>4
  <2>5. QED
    BY <2>3, <2>4
<1>11. ASSUME NEW p \in Workers, FinishRead(p) PROVE Goal
  <2>1. UNCHANGED sel /\ StatusKept(i)
    BY <1>11 DEF FinishRead, StatusKept
  <2>2. CASE row[focus[p]].status = "cancelled"
    BY <1>4, <1>11, <2>1, <2>2 DEF FinishRead
  <2>3. CASE row[focus[p]].status # "cancelled"
    <3>1. focus[p] # i
      BY <1>11, <2>3 DEF FinishRead
    <3>2. pc' = [pc EXCEPT ![p] = "settling"] /\ UNCHANGED focus
      BY <1>11, <2>3 DEF FinishRead
    <3>3. QED
      BY <1>1, <1>11, <2>1, <3>1, <3>2
  <2>4. QED
    BY <2>2, <2>3
<1>12. ASSUME NEW p \in Workers, Settle(p) PROVE Goal
  <2>1. focus[p] # i
    BY <1>12 DEF Settle
  <2>2. StatusKept(i) /\ UNCHANGED sel /\ Drop(p, focus[p])
    BY <1>12, <2>1 DEF Settle, StatusKept
  <2>3. QED
    BY <1>4, <1>12, <2>2
<1>13. ASSUME NEW p \in Workers, OwnerRead(p) PROVE Goal
  BY <1>1, <1>13 DEF OwnerRead, StatusKept
<1>14. ASSUME NEW p \in Workers, OwnerWrite(p) PROVE Goal
  <2>1. StatusKept(i)
    BY <1>14 DEF OwnerWrite, StatusKept
  <2>2. QED
    BY <1>3, <1>14, <2>1 DEF OwnerWrite
<1>15. ASSUME NEW q \in Procs, Forget(q), StatusKept(i) PROVE Goal
  BY <1>3, <1>15 DEF Forget
<1>16. ASSUME NEW c \in Clients, BeginCall(c) PROVE Goal
  <2>1. PICK cmd \in Commands \ {"recover"}, j \in Items :
             focus' = [focus EXCEPT ![c] = j] /\ Goto(c, FirstLabel[cmd])
    BY <1>16 DEF BeginCall
  <2>2. FirstLabel[cmd] \in {"check", "token", "merge"}
    BY <2>1, SetsAssumption DEF FirstLabel
  <2>3. UNCHANGED <<row, sel>>
    BY <1>16 DEF BeginCall
  <2>4. QED
    BY <1>3, <1>16, <2>1, <2>2, <2>3 DEF StatusKept
<1>17. ASSUME NEW c \in Clients, Merge(c) PROVE Goal
  <2>1. StatusKept(i)
    BY <1>17, FieldType DEF Merge, StatusKept
  <2>2. QED
    BY <1>3, <1>17, <2>1 DEF Merge
<1>18. ASSUME NEW c \in Clients, Unlink(c) \/ WriteToken(c) PROVE Goal
  BY <1>3, <1>18 DEF Unlink, WriteToken, StatusKept
<1>19. ASSUME NEW c \in Clients, Check(c) PROVE Goal
  <2>1. StatusKept(i)
    BY <1>19 DEF Check, StatusKept
  <2>2. CASE MayChange(intent[c], row[focus[c]])
    <3>1. focus[c] # i
      BY <2>2 DEF MayChange
    <3>2. pc' = [pc EXCEPT ![c] = "write"] /\ UNCHANGED <<sel, focus>>
      BY <1>19, <2>2 DEF Check
    <3>3. QED
      BY <1>1, <1>19, <2>1, <3>1, <3>2
  <2>3. CASE ~MayChange(intent[c], row[focus[c]])
    BY <1>15, <1>19, <2>1, <2>3 DEF Check
  <2>4. QED
    BY <2>2, <2>3
<1>20. ASSUME NEW c \in Clients, Write(c) PROVE Goal
  <2>1. focus[c] # i
    BY <1>20 DEF Write
  <2>2. StatusKept(i)
    BY <1>20, <2>1 DEF Write, StatusKept
  <2>3. QED
    BY <1>15, <1>20, <2>2 DEF Write
<1>21. ASSUME NEW q \in Procs, Crash(q) \/ Abandon(q) PROVE Goal
  BY <1>15, <1>21 DEF Crash, Abandon, StatusKept
<1>22. CASE Tick
  <2>1. row'[i] = Aged(row[i])
    BY <1>22 DEF Tick
  <2>2. QED
    BY <1>2, <1>22, <2>1, AgedType DEF Tick, StatusKept
<1>23. CASE UNCHANGED vars
  BY <1>2, <1>23 DEF vars, local, StatusKept
<1>24. QED
  BY <1>5, <1>6, <1>7, <1>8, <1>9, <1>10, <1>11, <1>12, <1>13, <1>14, <1>16, <1>17, <1>18, <1>19,
     <1>20, <1>21, <1>22, <1>23
  DEF Next, WorkerStep, ClientStep, BeginClaim, BeginRecover

\* A cancelled item, and a completed one that nobody executes, keeps its status
\* once no process is between the read and the update of it.
THEOREM TerminalItemsStick == Spec => TerminalSticks
<1> DEFINE Step == \A i \in Items : TerminalAndQuiet(i) =>
                       TerminalAndQuiet(i)' /\ row'[i].status = row[i].status
<1>1. Init => BasicInv
  BY BasicInit
<1>2. BasicInv /\ [Next]_vars => BasicInv'
  BY BasicNext
<1>3. BasicInv /\ [Next]_vars => [Step]_vars
  BY StickNext DEF StatusKept
<1>4. QED
  BY <1>1, <1>2, <1>3, PTL DEF Spec, TerminalSticks

-----------------------------------------------------------------------------
(***************************************************************************)
(* While no lease expires and nothing is queued a second time, an item is  *)
(* claimed once, so the one holder of its claim is the only one to run it. *)
(***************************************************************************)
NoRequeue == Commands \cap {"resume", "approve"} = {}

OnceInv ==
    \A i \in Items : /\ row[i].status \in {"absent", "queued"} => ticket[i] = 0
                     /\ ticket[i] <= 1
                     /\ row[i].status = "running" => row[i].lease > 0

PathInv ==
    \A q \in Procs : /\ pc[q] # "owner_recovering"
                     /\ pc[q] = "recovering" => sel[q] = {}
                     /\ pc[q] = "claiming" => newLease[q] > 0
                     /\ pc[q] = "write" /\ intent[q] = "renew" => newLease[q] > 0

RunsHeld == \A p \in Workers, i \in Items : Runs(p, i) => held[p][i] # 0

LEMMA PunctualStep == PunctualNext => Next
  BY DEF PunctualNext, Next

\* Recoveries find nothing, and a lease that is written is still to run.
LEMMA PathNext ==
  ASSUME BasicInv, OnceInv, PathInv, [PunctualNext]_vars
  PROVE  PathInv'
<1> USE DEF PathInv, Procs, BasicInv, TypeOK
<1>1. CASE UNCHANGED vars
  BY <1>1 DEF vars, local
<1>2. \A i \in Items : ~Stale(i)
  BY DEF OnceInv, Stale
<1>3. LeaseTicks > 0
  BY BoundsAssumption
<1>4. ASSUME NEW q \in Procs, RecoverRead(q, "recovering") PROVE PathInv'
  BY <1>2, <1>4 DEF RecoverRead, Goto
<1>5. ASSUME NEW q \in Procs, NEW next \in {"selecting", "idle"}, RecoverWrite(q, next) PROVE PathInv'
  BY <1>5 DEF RecoverWrite, Goto
<1>6. ASSUME NEW p \in Workers, ClaimRead(p) PROVE PathInv'
  BY <1>3, <1>6 DEF ClaimRead, Goto
<1>7. ASSUME NEW p \in Workers, ClaimWrite(p) PROVE PathInv'
  BY <1>7 DEF ClaimWrite, Goto
<1>8. ASSUME NEW p \in Workers, Reread(p) PROVE PathInv'
  BY <1>8 DEF Reread, Drop, Goto
<1>9. ASSUME NEW p \in Workers, FinishRead(p) \/ Settle(p) PROVE PathInv'
  BY <1>9 DEF FinishRead, Settle, Drop, Goto
<1>10. ASSUME NEW q \in Procs, Crash(q) \/ Abandon(q) PROVE PathInv'
  BY <1>10 DEF Crash, Abandon, Forget, Goto
<1>11. ASSUME NEW c \in Clients, BeginCall(c) PROVE PathInv'
  <2>1. PICK cmd \in Commands \ {"recover"}, i \in Items :
             intent' = [intent EXCEPT ![c] = cmd] /\ Goto(c, FirstLabel[cmd])
    BY <1>11 DEF BeginCall
  <2>2. FirstLabel[cmd] \in {"check", "token", "merge"}
    BY <2>1, SetsAssumption DEF FirstLabel
  <2>3. UNCHANGED <<sel, newLease>>
    BY <1>11 DEF BeginCall
  <2>4. QED
    BY <1>11, <2>1, <2>2, <2>3 DEF Goto
<1>12. ASSUME NEW c \in Clients, Merge(c) \/ Unlink(c) \/ WriteToken(c) PROVE PathInv'
  BY <1>12 DEF Merge, Unlink, WriteToken, Goto
<1>13. ASSUME NEW c \in Clients, Check(c) PROVE PathInv'
  BY <1>3, <1>13 DEF Check, Forget, Goto
<1>14. ASSUME NEW c \in Clients, Write(c) PROVE PathInv'
  BY <1>14 DEF Write, Forget, Goto
<1>15. ASSUME NEW i \in Items, Enqueue(i) PROVE PathInv'
  BY <1>15 DEF Enqueue, local
<1>16. ASSUME NEW p \in Workers, OwnerWrite(p) PROVE PathInv'
  BY <1>16 DEF OwnerWrite
<1>17. QED
  BY <1>1, <1>4, <1>5, <1>6, <1>7, <1>8, <1>9, <1>10, <1>11, <1>12, <1>13, <1>14, <1>15, <1>16
  DEF PunctualNext, WorkerStep, ClientStep, BeginClaim, BeginRecover

\* No row comes back to the queue, so none is claimed twice.
LEMMA OnceNext ==
  ASSUME NoRequeue, BasicInv, OnceInv, PathInv, [PunctualNext]_vars
  PROVE  OnceInv'
<1> USE DEF OnceInv, BasicInv, TypeOK
<1>1. ASSUME UNCHANGED <<row, ticket>> PROVE OnceInv'
  BY <1>1
\* A step that changes one row, or none, and issues no ticket.
<1>2. ASSUME NEW f \in Items, NEW r, row' = [row EXCEPT ![f] = r], ticket' = ticket,
             \/ r.status \in {"paused", "completed", "failed", "cancelled"}
             \/ r.status = row[f].status /\ (r.status = "running" => r.lease > 0)
             \/ r.status = "queued" /\ row[f].status = "absent"
      PROVE  OnceInv'
  BY <1>2
<1>3. ASSUME NEW i \in Items, Enqueue(i) PROVE OnceInv'
  <2>1. [Absent EXCEPT !.status = "queued"].status = "queued"
    BY DEF Absent
  <2>2. QED
    BY <1>2, <1>3, <2>1 DEF Enqueue
<1>4. ASSUME NEW q \in Procs, NEW next \in {"selecting", "idle"}, RecoverWrite(q, next) PROVE OnceInv'
  <2>1. sel[q] = {} /\ spent[q] = {}
    BY <1>4 DEF RecoverWrite, PathInv, ProcInv
  <2>2. QED
    BY <1>1, <1>4, <2>1 DEF RecoverWrite
<1>5. ASSUME NEW p \in Workers, ClaimWrite(p) PROVE OnceInv'
  <2>1. ASSUME NEW i \in Items
        PROVE  /\ i \in Won(p) => /\ ticket[i] = 0 /\ ticket'[i] = ticket[i] + 1
                                  /\ row'[i].status = "running" /\ row'[i].lease > 0
               /\ i \notin Won(p) => ticket'[i] = ticket[i] /\ row'[i] = row[i]
    <3>1. Owner[p] \in Owners /\ newLease[p] \in Leases /\ row[i] \in Row /\ newLease[p] > 0
      BY <1>5, <2>1 DEF Owners, Procs, PathInv, ClaimWrite
    <3>2. i \in Won(p) => row'[i] = Leased(row[i], Owner[p], newLease[p])
      BY <1>5, <2>1 DEF ClaimWrite
    <3>3. i \in Won(p) => row'[i].status = "running" /\ row'[i].lease > 0
      BY <3>1, <3>2, LeasedType
    <3>4. QED
      BY <1>5, <2>1, <3>3 DEF ClaimWrite, Won
  <2>2. QED
    BY <2>1
<1>6. ASSUME NEW p \in Workers, Settle(p) PROVE OnceInv'
  <2>1. focus[p] \in Items
    BY <1>6 DEF Settle, ProcInv, Procs
  <2>2. QED
    BY <1>2, <1>6, <2>1, SettledType DEF Settle
<1>7. ASSUME NEW c \in Clients, Merge(c) PROVE OnceInv'
  <2>1. focus[c] \in Items
    BY <1>7 DEF Merge, ProcInv, Procs, ControlLabels
  <2>2. LET t == [row[focus[c]] EXCEPT !.resume = (intent[c] = "approve")]
        IN  t.status = row[focus[c]].status /\ t.lease = row[focus[c]].lease
    BY <2>1, FieldType
  <2>3. QED
    BY <1>2, <1>7, <2>1, <2>2 DEF Merge
<1>8. ASSUME NEW c \in Clients, Write(c) PROVE OnceInv'
  <2>1. focus[c] \in Items /\ intent[c] \in Commands \ {"recover"}
    BY <1>8 DEF Write, ProcInv, Procs, ControlLabels
  <2>2. CASE intent[c] = "renew"
    <3>1. newLease[c] \in Leases /\ newLease[c] > 0
      BY <1>8, <2>2 DEF Write, PathInv, Procs
    <3>2. LET t == [row[focus[c]] EXCEPT !.lease = newLease[c]]
          IN  t.status = row[focus[c]].status /\ t.lease > 0
      BY <2>1, <3>1, FieldType
    <3>3. QED
      BY <1>2, <1>8, <2>1, <2>2, <3>2 DEF Write
  <2>3. CASE intent[c] # "renew"
    <3>1. Target[intent[c]] \in {"paused", "cancelled"}
      <4>1. intent[c] \in {"pause", "cancel", "reject"}
        <5>1. intent[c] \notin {"resume", "approve"}
          BY <2>1 DEF NoRequeue
        <5>2. QED
          BY <2>1, <2>3, <5>1, SetsAssumption
      <4>2. QED
        BY <4>1 DEF Target
    <3>2. Released(row[focus[c]], Target[intent[c]]).status \in {"paused", "cancelled"}
      BY <2>1, <3>1, ReleasedType DEF Statuses
    <3>3. QED
      BY <1>2, <1>8, <2>1, <2>3, <3>2 DEF Write
  <2>4. QED
    BY <2>2, <2>3
<1>9. ASSUME NEW p \in Workers, OwnerWrite(p) PROVE OnceInv'
  BY <1>9 DEF OwnerWrite, PathInv, Procs
<1>10. QED
  BY <1>1, <1>3, <1>4, <1>5, <1>6, <1>7, <1>8, <1>9
  DEF PunctualNext, WorkerStep, ClientStep, BeginClaim, RecoverRead, ClaimRead, Reread, FinishRead, Crash,
      BeginCall, BeginRecover, Unlink, WriteToken, Check, Abandon, Procs, vars

\* A worker executes only what it holds.
LEMMA RunsNext ==
  ASSUME BasicInv, BasicInv', RunsHeld, [Next]_vars
  PROVE  RunsHeld'
<1> USE DEF RunsHeld, Runs
<1>1. ASSUME UNCHANGED held, \A p \in Workers, i \in Items : Runs(p, i)' => Runs(p, i) PROVE RunsHeld'
  BY <1>1
<1>2. ASSUME NEW q \in Procs, NEW l \in Labels \ {"executing", "settling"}, Goto(q, l),
             \A r \in Procs \ {q} : focus'[r] = focus[r],
             \A r \in Workers \ {q} : held'[r] = held[r]
      PROVE  RunsHeld'
  BY <1>2 DEF Goto, Procs, BasicInv, TypeOK
<1>3. ASSUME NEW p \in Workers, NEW f, Drop(p, f) PROVE RunsHeld'
  <2>1. \A r \in Procs \ {p} : focus'[r] = focus[r]
    BY <1>3 DEF Drop, BasicInv, TypeOK
  <2>2. \A r \in Workers \ {p} : held'[r] = held[r]
    BY <1>3 DEF Drop, BasicInv, TypeOK
  <2>3. PICK l \in {"idle", "working"} : Goto(p, l)
    BY <1>3 DEF Drop
  <2>4. QED
    BY <1>2, <1>3, <2>1, <2>2, <2>3 DEF Labels, Procs
<1>4. ASSUME NEW p \in Workers, ClaimWrite(p) PROVE RunsHeld'
  <2>1. \A r \in Workers \ {p} : held'[r] = held[r]
    BY <1>4 DEF ClaimWrite, BasicInv, TypeOK
  <2>2. UNCHANGED focus
    BY <1>4 DEF ClaimWrite
  <2>3. PICK l \in {"idle", "working"} : Goto(p, l)
    BY <1>4 DEF ClaimWrite
  <2>4. QED
    BY <1>2, <1>4, <2>1, <2>2, <2>3 DEF Labels, Procs
<1>5. ASSUME NEW p \in Workers, Reread(p) PROVE RunsHeld'
  <2>1. PICK i \in Items :
             /\ FirstHeld(p, i)
             /\ IF row[i].status = "running"
                THEN /\ focus' = [focus EXCEPT ![p] = i]
                     /\ Goto(p, "executing")
                     /\ UNCHANGED <<held, intent>>
                ELSE Drop(p, i)
    BY <1>5 DEF Reread
  <2>2. CASE row[i].status = "running"
    <3>1. held[p][i] # 0
      BY <2>1 DEF FirstHeld, HeldBy
    <3>2. /\ focus' = [focus EXCEPT ![p] = i] /\ pc' = [pc EXCEPT ![p] = "executing"]
          /\ held' = held
      BY <2>1, <2>2 DEF Goto
    <3>3. QED
      BY <1>5, <3>1, <3>2 DEF BasicInv, TypeOK, Procs
  <2>3. CASE row[i].status # "running"
    BY <1>3, <1>5, <2>1, <2>3
  <2>4. QED
    BY <2>2, <2>3
<1>6. ASSUME NEW p \in Workers, FinishRead(p) PROVE RunsHeld'
  <2>1. CASE row[focus[p]].status = "cancelled"
    BY <1>3, <1>6, <2>1 DEF FinishRead
  <2>2. CASE row[focus[p]].status # "cancelled"
    BY <1>6, <2>2 DEF FinishRead, Goto, BasicInv, TypeOK, Procs
  <2>3. QED
    BY <2>1, <2>2
<1>7. ASSUME NEW p \in Workers, Settle(p) PROVE RunsHeld'
  BY <1>3, <1>7 DEF Settle
<1>8. ASSUME NEW q \in Procs, NEW l \in Labels \ {"executing", "settling"}, Goto(q, l),
             UNCHANGED <<held, focus>>
      PROVE  RunsHeld'
  BY <1>2, <1>8
<1>9. ASSUME NEW p \in Workers, Crash(p) PROVE RunsHeld'
  <2>1. \A r \in Workers \ {p} : held'[r] = held[r]
    BY <1>9 DEF Crash, BasicInv, TypeOK
  <2>2. \A r \in Procs \ {p} : focus'[r] = focus[r]
    BY <1>9 DEF Crash, Forget, BasicInv, TypeOK
  <2>3. Goto(p, "idle")
    BY <1>9 DEF Crash, Forget
  <2>4. QED
    BY <1>2, <1>9, <2>1, <2>2, <2>3 DEF Labels, Procs
<1>10. ASSUME NEW c \in Clients, UNCHANGED held, \A r \in Procs \ {c} : pc'[r] = pc[r] /\ focus'[r] = focus[r]
       PROVE  RunsHeld'
  BY <1>1, <1>10, SetsAssumption DEF Procs
<1>11. ASSUME NEW c \in Clients, Forget(c), UNCHANGED held PROVE RunsHeld'
  BY <1>10, <1>11 DEF Forget, Goto, BasicInv, TypeOK
<1>12. ASSUME NEW c \in Clients, BeginCall(c) PROVE RunsHeld'
  BY <1>10, <1>12 DEF BeginCall, Goto, BasicInv, TypeOK
<1>13. ASSUME NEW c \in Clients, Merge(c) \/ Unlink(c) \/ WriteToken(c) \/ Check(c) PROVE RunsHeld'
  BY <1>10, <1>11, <1>13 DEF Merge, Unlink, WriteToken, Check, Goto, BasicInv, TypeOK
<1>14. ASSUME NEW q \in Procs, RecoverRead(q, "recovering") PROVE RunsHeld'
  BY <1>8, <1>14 DEF RecoverRead, Labels
<1>15. ASSUME NEW q \in Procs, NEW next \in {"selecting", "idle"}, RecoverWrite(q, next) PROVE RunsHeld'
  BY <1>8, <1>15 DEF RecoverWrite, Labels
<1>16. ASSUME NEW p \in Workers, ClaimRead(p) PROVE RunsHeld'
  <2>1. PICK l \in {"idle", "claiming"} : Goto(p, l)
    BY <1>16 DEF ClaimRead
  <2>2. QED
    BY <1>8, <1>16, <2>1 DEF ClaimRead, Labels, Procs
<1>17. ASSUME NEW p \in Workers, OwnerRead(p) \/ OwnerWrite(p) PROVE RunsHeld'
  BY <1>8, <1>17 DEF OwnerRead, OwnerWrite, Labels, Procs
<1>18. QED
  BY <1>1, <1>4, <1>5, <1>6, <1>7, <1>9, <1>11, <1>12, <1>13, <1>14, <1>15, <1>16, <1>17
  DEF Next, WorkerStep, ClientStep, BeginClaim, BeginRecover, Enqueue, Write, Abandon, Tick, Procs, vars, local

\* As long as leases outlast the work and nothing is queued by hand again, no
\* two workers execute an item at once, whatever crashes and control calls
\* come between: claim_next_items alone excludes a duplicate run.
THEOREM PunctualExclusion ==
  DistinctOwners /\ NoRequeue => (PunctualSpec => []NoOverlap)
<1> SUFFICES ASSUME DistinctOwners, NoRequeue PROVE PunctualSpec => []NoOverlap
  OBVIOUS
<1> DEFINE PunctualInv == BasicInv /\ TicketInv /\ OnceInv /\ PathInv /\ RunsHeld
<1>1. Init => PunctualInv
  <2>1. ASSUME Init PROVE OnceInv /\ PathInv /\ RunsHeld
    <3>1. \A i \in Items : row[i].status = "absent" /\ ticket[i] = 0
      BY <2>1 DEF Init, Absent
    <3>2. \A q \in Procs : pc[q] = "idle"
      BY <2>1 DEF Init
    <3>3. QED
      BY <3>1, <3>2 DEF OnceInv, PathInv, RunsHeld, Runs, Procs
  <2>2. QED
    BY <2>1, BasicInit, TicketInit
<1>2. PunctualInv /\ [PunctualNext]_vars => PunctualInv'
  <2> SUFFICES ASSUME PunctualInv, [PunctualNext]_vars PROVE PunctualInv'
    OBVIOUS
  <2>1. [Next]_vars
    BY PunctualStep
  <2>2. BasicInv'
    BY <2>1, BasicNext
  <2>3. QED
    BY <2>1, <2>2, TicketNext, OnceNext, PathNext, RunsNext
<1>3. PunctualInv => NoOverlap
  <2> SUFFICES ASSUME PunctualInv, NEW p \in Workers, NEW q \in Workers, NEW i \in Items,
                      Runs(p, i), Runs(q, i)
               PROVE  p = q
    BY DEF NoOverlap
  <2>1. held[p][i] # 0 /\ held[q][i] # 0
    BY DEF RunsHeld
  <2>2. held[p][i] \in Nat /\ held[q][i] \in Nat /\ ticket[i] \in Nat
    BY DEF BasicInv, TypeOK
  <2>3. held[p][i] = 1 /\ held[q][i] = 1
    BY <2>1, <2>2 DEF TicketInv, OnceInv
  <2>4. QED
    BY <2>1, <2>3 DEF TicketInv, OneHolderPerTicket
<1>4. QED
  BY <1>1, <1>2, <1>3, PTL DEF PunctualSpec

-----------------------------------------------------------------------------
(***************************************************************************)
(* Attempts.  A claim takes a row that had attempts left when it was       *)
(* selected, so it needs that nobody has claimed the row and a recovery    *)
(* with an older reading returned it in between: for that a third worker   *)
(* is needed, or a client that returns rows to the queue.                  *)
(***************************************************************************)
TwoWorkers == \A p, q, r \in Workers : p = q \/ q = r \/ p = r
NoReturn == Commands \cap {"resume", "approve", "recover"} = {}

\* Worker r is about to claim i.
Selects(r, i) == pc[r] = "claiming" /\ i \in sel[r]

\* A row that is selected, and one that may be returned to the queue while it
\* is, has an attempt left.
AttemptsInv ==
    /\ AttemptsWithinMax
    /\ \A r \in Workers, i \in Items :
          Selects(r, i) /\ row[i].status = "queued" => row[i].attempts < MaxAttempts[i]
    /\ \A q, r \in Workers, i \in Items :
          pc[q] = "recovering" /\ i \in sel[q] \ spent[q] /\ Selects(r, i) => row[i].attempts < MaxAttempts[i]
    /\ \A c \in Clients : pc[c] # "recovering"

LEMMA AttemptsInit == Init => AttemptsInv
<1> SUFFICES ASSUME Init PROVE AttemptsInv
  OBVIOUS
<1>1. \A i \in Items : row[i].status = "absent" /\ row[i].attempts = 0
  BY DEF Init, Absent
<1>2. \A q \in Procs : pc[q] = "idle"
  BY DEF Init
<1>3. \A i \in Items : MaxAttempts[i] \in Nat \ {0}
  BY BoundsAssumption
<1>4. AttemptsWithinMax
  BY <1>1, <1>3 DEF AttemptsWithinMax
<1>5. QED
  BY <1>2, <1>4 DEF AttemptsInv, Selects, Procs

\* What a step that writes a row makes of its attempts.
LEMMA AttemptsOfRows ==
  ASSUME NEW r \in Row
  PROVE  /\ \A s \in Statuses : Released(r, s).attempts = r.attempts
         /\ \A v : Settled(r, v).attempts = r.attempts
         /\ \A o \in Owners, l \in Leases : Leased(r, o, l).attempts = r.attempts + 1
         /\ \A s \in Statuses, n \in Nat \ {0} : r.attempts <= n => Refunded(Released(r, s)).attempts < n
         /\ \A s \in Statuses : /\ Refunded(Released(r, s)).attempts <= r.attempts
                                /\ Refunded(Released(r, s)).attempts \in Nat
         /\ Aged(r).attempts = r.attempts /\ Aged(r).status = r.status
<1>1. \A s \in Statuses : Released(r, s) \in Row /\ Released(r, s).attempts = r.attempts
  BY LeaseType DEF Released, Row
<1>2. \A v : Settled(r, v).attempts = r.attempts
  <2>1. \A s \in {"completed", "paused", "failed"}, b \in BOOLEAN :
           [Released(r, s) EXCEPT !.result = b].attempts = r.attempts
    BY <1>1 DEF Row, Statuses
  <2>2. QED
    BY <2>1 DEF Settled
<1>3. \A o \in Owners, l \in Leases : Leased(r, o, l).attempts = r.attempts + 1
  BY DEF Leased, Row
<1>4. \A t \in Row : Refunded(t).attempts = IF t.attempts > 0 THEN t.attempts - 1 ELSE 0
  BY DEF Refunded, Row
<1>5. r.attempts \in Nat
  BY DEF Row
<1>6. \A s \in Statuses : Refunded(Released(r, s)).attempts = IF r.attempts > 0 THEN r.attempts - 1 ELSE 0
  BY <1>1, <1>4
<1>7. Aged(r).attempts = r.attempts /\ Aged(r).status = r.status
  BY DEF Aged, Row
<1>8. QED
  BY <1>1, <1>2, <1>3, <1>5, <1>6, <1>7

\* Nothing selects or recovers a row in a step that keeps the attempts, the
\* queued rows and the processes as they are, or takes something away.
LEMMA AttemptsKept ==
  ASSUME AttemptsInv, BasicInv,
         \A i \in Items : /\ row'[i].attempts = row[i].attempts
                          /\ row'[i].status = "queued" => row[i].status = "queued",
         \A r \in Workers, i \in Items : Selects(r, i)' => Selects(r, i),
         \A q \in Workers, i \in Items :
            (pc[q] = "recovering" /\ i \in sel[q] \ spent[q])' => pc[q] = "recovering" /\ i \in sel[q] \ spent[q],
         \A c \in Clients : pc'[c] # "recovering"
  PROVE  AttemptsInv'
<1>1. AttemptsWithinMax'
  BY DEF AttemptsWithinMax, AttemptsInv
<1>2. QED
  BY <1>1 DEF AttemptsInv

LEMMA FirstLabels == \A cmd \in Commands \ {"recover"} : FirstLabel[cmd] \in {"check", "token", "merge"}
  BY SetsAssumption DEF FirstLabel

LEMMA AttemptsNext ==
  ASSUME TwoWorkers, NoReturn, BasicInv, AttemptsInv, [Next]_vars
  PROVE  AttemptsInv'
<1> USE DEF Procs, BasicInv, TypeOK
<1>0. \A i \in Items : /\ row[i] \in Row /\ row[i].attempts \in Nat /\ MaxAttempts[i] \in Nat \ {0}
                       /\ row[i].attempts <= MaxAttempts[i]
  BY BoundsAssumption DEF Row, AttemptsInv, AttemptsWithinMax
\* A step of q to a place where it neither claims nor recovers.
<1>1. ASSUME NEW q \in Procs, NEW l \in Labels \ {"claiming", "recovering"}, Goto(q, l),
             \A s \in Procs \ {q} : sel'[s] = sel[s] /\ spent'[s] = spent[s],
             \A i \in Items : /\ row'[i].attempts = row[i].attempts
                              /\ row'[i].status = "queued" => row[i].status = "queued"
      PROVE  AttemptsInv'
  BY <1>1, AttemptsKept DEF Goto, Selects, AttemptsInv
\* A step that selects nothing and changes one row, or none.
<1>2. ASSUME NEW f \in Items, NEW t, row' = [row EXCEPT ![f] = t], t.attempts = row[f].attempts,
             t.status = "queued" => row[f].status = "queued"
      PROVE  \A i \in Items : /\ row'[i].attempts = row[i].attempts
                              /\ row'[i].status = "queued" => row[i].status = "queued"
  BY <1>2
<1>3. ASSUME UNCHANGED row
      PROVE  \A i \in Items : /\ row'[i].attempts = row[i].attempts
                              /\ row'[i].status = "queued" => row[i].status = "queued"
  BY <1>3
<1>4. ASSUME UNCHANGED vars PROVE AttemptsInv'
  BY <1>4, AttemptsKept DEF vars, local, Selects, AttemptsInv
<1>5. ASSUME NEW e \in Items, Enqueue(e) PROVE AttemptsInv'
  <2>1. \A i \in Items : i # e => row'[i] = row[i]
    BY <1>5 DEF Enqueue
  <2>2. row'[e].attempts = 0
    BY <1>5 DEF Enqueue, Absent
  <2>3. UNCHANGED <<pc, sel, spent>>
    BY <1>5 DEF Enqueue, local
  <2>4. AttemptsWithinMax'
    BY <1>0, <2>1, <2>2 DEF AttemptsWithinMax
  <2>5. \A i \in Items : /\ row[i].attempts < MaxAttempts[i] => row'[i].attempts < MaxAttempts[i]
                         /\ row'[i].status = "queued" =>
                               row[i].status = "queued" \/ row'[i].attempts < MaxAttempts[i]
    BY <1>0, <2>1, <2>2
  <2>6. \A r \in Workers, i \in Items : Selects(r, i)' <=> Selects(r, i)
    BY <2>3 DEF Selects
  <2>7. \A r \in Workers, i \in Items :
           Selects(r, i)' /\ row'[i].status = "queued" => row'[i].attempts < MaxAttempts[i]
    BY <2>5, <2>6 DEF AttemptsInv
  <2>8. \A q, r \in Workers, i \in Items :
           (pc[q] = "recovering" /\ i \in sel[q] \ spent[q])' /\ Selects(r, i)'
              => row'[i].attempts < MaxAttempts[i]
    BY <2>3, <2>5, <2>6 DEF AttemptsInv
  <2>9. QED
    BY <2>3, <2>4, <2>7, <2>8 DEF AttemptsInv
<1>6. ASSUME NEW p \in Workers, BeginClaim(p) PROVE AttemptsInv'
  <2>1. \A r \in Workers, i \in Items : Selects(r, i)' => Selects(r, i)
    BY <1>6 DEF BeginClaim, RecoverRead, Goto, Selects
  <2>2. \A q \in Workers, i \in Items :
           (pc[q] = "recovering" /\ i \in sel[q] \ spent[q])' =>
              \/ pc[q] = "recovering" /\ i \in sel[q] \ spent[q]
              \/ row[i].attempts < MaxAttempts[i]
    <3>1. \A i \in Items : i \in sel'[p] \ spent'[p] => ~Spent(i)
      BY <1>6 DEF BeginClaim, RecoverRead
    <3>2. \A q \in Workers \ {p} : pc'[q] = pc[q] /\ sel'[q] = sel[q] /\ spent'[q] = spent[q]
      BY <1>6 DEF BeginClaim, RecoverRead, Goto
    <3>3. QED
      BY <1>0, <3>1, <3>2 DEF Spent
  <2>3. UNCHANGED row
    BY <1>6 DEF BeginClaim, RecoverRead
  <2>4. \A c \in Clients : pc'[c] = pc[c]
    BY <1>6, SetsAssumption DEF BeginClaim, RecoverRead, Goto
  <2>5. AttemptsWithinMax'
    BY <2>3 DEF AttemptsInv, AttemptsWithinMax
  <2>6. \A r \in Workers, i \in Items :
           Selects(r, i)' /\ row'[i].status = "queued" => row'[i].attempts < MaxAttempts[i]
    BY <2>1, <2>3 DEF AttemptsInv
  <2>7. \A q, r \in Workers, i \in Items :
           (pc[q] = "recovering" /\ i \in sel[q] \ spent[q])' /\ Selects(r, i)'
              => row'[i].attempts < MaxAttempts[i]
    <3>1. \A q, r \in Workers, i \in Items :
             pc[q] = "recovering" /\ i \in sel[q] \ spent[q] /\ Selects(r, i) => row[i].attempts < MaxAttempts[i]
      BY DEF AttemptsInv
    <3>2. QED
      BY <2>1, <2>2, <2>3, <3>1
  <2>8. \A c \in Clients : pc'[c] # "recovering"
    BY <2>4 DEF AttemptsInv
  <2>9. QED
    BY <2>5, <2>6, <2>7, <2>8 DEF AttemptsInv
<1>7. ASSUME NEW q \in Workers, RecoverWrite(q, "selecting") PROVE AttemptsInv'
  <2>1. \A i \in Items : row'[i].attempts = row[i].attempts
    BY <1>0, <1>7, AttemptsOfRows DEF RecoverWrite, Statuses
  <2>2. \A r \in Workers, i \in Items : Selects(r, i)' => Selects(r, i)
    BY <1>7 DEF RecoverWrite, Goto, Selects
  <2>3. \A r \in Workers, i \in Items :
           Selects(r, i) /\ row'[i].status = "queued" => row[i].attempts < MaxAttempts[i]
    <3> SUFFICES ASSUME NEW r \in Workers, NEW i \in Items, Selects(r, i), row'[i].status = "queued"
                 PROVE  row[i].attempts < MaxAttempts[i]
      OBVIOUS
    <3>1. CASE i \in spent[q]
      <4>1. row'[i].status = "failed"
        BY <1>0, <1>7, <3>1, ReleasedType DEF RecoverWrite, Statuses
      <4>2. QED
        BY <4>1
    <3>2. CASE i \in sel[q] \ spent[q]
      BY <1>7, <3>2 DEF RecoverWrite, AttemptsInv
    <3>3. CASE i \notin sel[q] /\ i \notin spent[q]
      BY <1>7, <3>3 DEF RecoverWrite, AttemptsInv
    <3>4. QED
      BY <3>1, <3>2, <3>3
  <2>4. \A s \in Workers, i \in Items :
           (pc[s] = "recovering" /\ i \in sel[s] \ spent[s])' => pc[s] = "recovering" /\ i \in sel[s] \ spent[s]
    BY <1>7 DEF RecoverWrite, Goto
  <2>5. \A c \in Clients : pc'[c] = pc[c]
    BY <1>7, SetsAssumption DEF RecoverWrite, Goto
  <2>6. AttemptsWithinMax'
    BY <2>1 DEF AttemptsInv, AttemptsWithinMax
  <2>7. QED
    BY <2>1, <2>2, <2>3, <2>4, <2>5, <2>6 DEF AttemptsInv
<1>8. ASSUME NEW p \in Workers, ClaimRead(p) PROVE AttemptsInv'
  <2>1. PICK S \in Selections : sel' = [sel EXCEPT ![p] = S] /\ Goto(p, IF S = {} THEN "idle" ELSE "claiming")
    BY <1>8 DEF ClaimRead
  <2>2. \A i \in S : i \in Items /\ row[i].attempts < MaxAttempts[i]
    BY <1>0 DEF Selections, Claimable, Spent
  <2>3. UNCHANGED <<row, spent>>
    BY <1>8 DEF ClaimRead
  <2>4. \A r \in Workers, i \in Items : Selects(r, i)' => Selects(r, i) \/ row[i].attempts < MaxAttempts[i]
    BY <1>8, <2>1, <2>2 DEF Goto, Selects
  <2>5. \A s \in Workers, i \in Items :
           (pc[s] = "recovering" /\ i \in sel[s] \ spent[s])' => pc[s] = "recovering" /\ i \in sel[s] \ spent[s]
    BY <1>8, <2>1, <2>3 DEF Goto
  <2>6. \A c \in Clients : pc'[c] = pc[c]
    BY <2>1, SetsAssumption DEF Goto
  <2>7. AttemptsWithinMax'
    BY <2>3 DEF AttemptsInv, AttemptsWithinMax
  <2>8. QED
    BY <2>3, <2>4, <2>5, <2>6, <2>7 DEF AttemptsInv
<1>9. ASSUME NEW p \in Workers, ClaimWrite(p) PROVE AttemptsInv'
  <2>1. PICK l \in {"idle", "working"} : Goto(p, l)
    BY <1>9 DEF ClaimWrite
  <2>2. \A i \in Items : i \notin Won(p) => row'[i] = row[i]
    BY <1>9 DEF ClaimWrite
  <2>3. \A i \in Won(p) : /\ i \in Items /\ row[i].attempts < MaxAttempts[i]
                          /\ row'[i].attempts = row[i].attempts + 1 /\ row'[i].status = "running"
    <3> SUFFICES ASSUME NEW i \in Won(p)
                 PROVE  /\ i \in Items /\ row[i].attempts < MaxAttempts[i]
                        /\ row'[i].attempts = row[i].attempts + 1 /\ row'[i].status = "running"
      OBVIOUS
    <3>1. i \in Items /\ row[i].status = "queued" /\ Selects(p, i)
      BY <1>9 DEF Won, ClaimWrite, Selects
    <3>2. Owner[p] \in Owners /\ newLease[p] \in Leases
      BY DEF Owners
    <3>3. row'[i] = Leased(row[i], Owner[p], newLease[p])
      BY <1>9, <3>1 DEF ClaimWrite
    <3>4. QED
      BY <1>0, <3>1, <3>2, <3>3, LeasedType, AttemptsOfRows DEF AttemptsInv
  <2>4. AttemptsWithinMax'
    <3>1. \A i \in Items : row'[i].attempts <= MaxAttempts[i]
      BY <1>0, <2>2, <2>3
    <3>2. QED
      BY <3>1 DEF AttemptsWithinMax
  <2>5. /\ pc'[p] \notin {"claiming", "recovering"}
        /\ \A r \in Procs \ {p} : pc'[r] = pc[r] /\ sel'[r] = sel[r] /\ spent'[r] = spent[r]
    BY <1>9, <2>1 DEF ClaimWrite, Goto
  <2>6. \A r \in Workers, i \in Items :
           Selects(r, i)' /\ row'[i].status = "queued" => row'[i].attempts < MaxAttempts[i]
    <3>1. \A r \in Workers, i \in Items : Selects(r, i)' => Selects(r, i)
      BY <2>5 DEF Selects
    <3>2. QED
      BY <2>2, <2>3, <3>1 DEF AttemptsInv
  <2>7. \A q, r \in Workers, i \in Items :
           ~((pc[q] = "recovering")' /\ Selects(r, i)')
    <3> SUFFICES ASSUME NEW q \in Workers, NEW r \in Workers, NEW i \in Items,
                        pc'[q] = "recovering", pc'[r] = "claiming"
                 PROVE  FALSE
      BY DEF Selects
    <3>1. q # p /\ r # p /\ q # r
      BY <2>5
    <3>2. QED
      BY <3>1 DEF TwoWorkers
  <2>8. \A c \in Clients : pc'[c] # "recovering"
    BY <2>5, SetsAssumption DEF AttemptsInv
  <2>9. QED
    BY <2>4, <2>6, <2>7, <2>8 DEF AttemptsInv
<1>10. ASSUME NEW p \in Workers, NEW f, Drop(p, f), UNCHANGED <<sel, spent>>,
              \A i \in Items : /\ row'[i].attempts = row[i].attempts
                               /\ row'[i].status = "queued" => row[i].status = "queued"
       PROVE  AttemptsInv'
  <2>1. PICK l \in {"idle", "working"} : Goto(p, l)
    BY <1>10 DEF Drop
  <2>2. QED
    BY <1>1, <1>10, <2>1 DEF Labels
<1>11. ASSUME NEW p \in Workers, Reread(p) PROVE AttemptsInv'
  <2>1. UNCHANGED <<row, sel, spent>>
    BY <1>11 DEF Reread
  <2>2. PICK i \in Items : Goto(p, "executing") \/ Drop(p, i)
    BY <1>11 DEF Reread
  <2>3. CASE Goto(p, "executing")
    BY <1>1, <1>3, <2>1, <2>3 DEF Labels
  <2>4. CASE Drop(p, i)
    BY <1>3, <1>10, <2>1, <2>4
  <2>5. QED
    BY <2>2, <2>3, <2>4
<1>12. ASSUME NEW p \in Workers, FinishRead(p) PROVE AttemptsInv'
  <2>1. UNCHANGED <<row, sel, spent>>
    BY <1>12 DEF FinishRead
  <2>2. Goto(p, "settling") \/ Drop(p, focus[p])
    BY <1>12 DEF FinishRead
  <2>3. CASE Goto(p, "settling")
    BY <1>1, <1>3, <2>1, <2>3 DEF Labels
  <2>4. CASE Drop(p, focus[p])
    BY <1>3, <1>10, <2>1, <2>4
  <2>5. QED
    BY <2>2, <2>3, <2>4
<1>13. ASSUME NEW p \in Workers, Settle(p) PROVE AttemptsInv'
  <2>1. focus[p] \in Items
    BY <1>13 DEF Settle, ProcInv
  <2>2. Settled(row[focus[p]], intent[p]).status # "queued"
    BY <1>0, <2>1, SettledType
  <2>3. QED
    BY <1>0, <1>2, <1>10, <1>13, <2>1, <2>2, AttemptsOfRows DEF Settle
<1>14. ASSUME NEW p \in Workers, OwnerRead(p) PROVE AttemptsInv'
  BY <1>1, <1>3, <1>14 DEF OwnerRead, Labels
<1>15. ASSUME NEW p \in Workers, OwnerWrite(p) PROVE AttemptsInv'
  <2>1. \A i \in Items :
           /\ row'[i].attempts \in Nat /\ row'[i].attempts <= row[i].attempts
           /\ row'[i].status = "queued" => row[i].status = "queued" \/ row'[i].attempts < MaxAttempts[i]
    <3> SUFFICES ASSUME NEW i \in Items
                 PROVE  /\ row'[i].attempts \in Nat /\ row'[i].attempts <= row[i].attempts
                        /\ row'[i].status = "queued" =>
                              row[i].status = "queued" \/ row'[i].attempts < MaxAttempts[i]
      OBVIOUS
    <3>1. CASE i \in sel[p]
      <4>1. row'[i] = Refunded(Released(row[i], "queued"))
        BY <1>15, <3>1 DEF OwnerWrite
      <4>2. QED
        BY <1>0, <4>1, AttemptsOfRows DEF Statuses
    <3>2. CASE i \notin sel[p]
      BY <1>0, <1>15, <3>2 DEF OwnerWrite
    <3>3. QED
      BY <3>1, <3>2
  <2>2. /\ \A r \in Workers, i \in Items : Selects(r, i)' => Selects(r, i)
        /\ \A q \in Workers, i \in Items :
              (pc[q] = "recovering" /\ i \in sel[q] \ spent[q])' => pc[q] = "recovering" /\ i \in sel[q] \ spent[q]
        /\ \A c \in Clients : pc'[c] = pc[c]
    BY <1>15, SetsAssumption DEF OwnerWrite, Goto, Selects
  <2>3. AttemptsWithinMax'
    BY <1>0, <2>1 DEF AttemptsWithinMax
  <2>4. \A i \in Items : row[i].attempts < MaxAttempts[i] => row'[i].attempts < MaxAttempts[i]
    BY <1>0, <2>1
  <2>5. \A r \in Workers, i \in Items :
           Selects(r, i)' /\ row'[i].status = "queued" => row'[i].attempts < MaxAttempts[i]
    BY <2>1, <2>2, <2>4 DEF AttemptsInv
  <2>6. QED
    BY <2>2, <2>3, <2>4, <2>5 DEF AttemptsInv
<1>16. ASSUME NEW q \in Procs, Forget(q),
              \A i \in Items : /\ row'[i].attempts = row[i].attempts
                               /\ row'[i].status = "queued" => row[i].status = "queued"
       PROVE  AttemptsInv'
  <2>1. Goto(q, "idle") /\ \A s \in Procs \ {q} : sel'[s] = sel[s] /\ spent'[s] = spent[s]
    BY <1>16 DEF Forget
  <2>2. QED
    BY <1>1, <1>16, <2>1 DEF Labels
<1>17. ASSUME NEW p \in Workers, Crash(p) PROVE AttemptsInv'
  BY <1>3, <1>16, <1>17 DEF Crash
<1>18. ASSUME NEW c \in Clients, Abandon(c) PROVE AttemptsInv'
  BY <1>3, <1>16, <1>18 DEF Abandon
<1>19. ASSUME NEW c \in Clients, BeginCall(c) PROVE AttemptsInv'
  <2>1. PICK cmd \in Commands \ {"recover"} : Goto(c, FirstLabel[cmd])
    BY <1>19 DEF BeginCall
  <2>2. FirstLabel[cmd] \in {"check", "token", "merge"}
    BY <2>1, FirstLabels
  <2>3. QED
    BY <1>1, <1>3, <1>19, <2>1, <2>2 DEF BeginCall, Labels
<1>20. ASSUME NEW c \in Clients, Merge(c) PROVE AttemptsInv'
  <2>1. focus[c] \in Items
    BY <1>20 DEF Merge, ProcInv, ControlLabels
  <2>2. \A b \in BOOLEAN : LET t == [row[focus[c]] EXCEPT !.resume = b]
                           IN  t.attempts = row[focus[c]].attempts /\ t.status = row[focus[c]].status
    BY <1>0, <2>1 DEF Row
  <2>3. PICK l \in {"token", "unlink", "check"} : Goto(c, l)
    BY <1>20 DEF Merge
  <2>4. QED
    BY <1>1, <1>2, <1>20, <2>1, <2>2, <2>3 DEF Merge, Labels
<1>21. ASSUME NEW c \in Clients, Unlink(c) \/ WriteToken(c) PROVE AttemptsInv'
  BY <1>1, <1>3, <1>21 DEF Unlink, WriteToken, Labels
<1>22. ASSUME NEW c \in Clients, Check(c) PROVE AttemptsInv'
  <2>1. CASE MayChange(intent[c], row[focus[c]])
    BY <1>1, <1>3, <1>22, <2>1 DEF Check, Labels
  <2>2. CASE ~MayChange(intent[c], row[focus[c]])
    BY <1>3, <1>16, <1>22, <2>2 DEF Check
  <2>3. QED
    BY <2>1, <2>2
<1>23. ASSUME NEW c \in Clients, Write(c) PROVE AttemptsInv'
  <2>1. focus[c] \in Items /\ intent[c] \in Commands \ {"recover"}
    BY <1>23 DEF Write, ProcInv, ControlLabels
  <2>2. CASE intent[c] = "renew"
    <3>1. LET t == [row[focus[c]] EXCEPT !.lease = newLease[c]]
          IN  t.attempts = row[focus[c]].attempts /\ t.status = row[focus[c]].status
      BY <1>0, <2>1 DEF Row
    <3>2. QED
      BY <1>2, <1>16, <1>23, <2>1, <2>2, <3>1 DEF Write
  <2>3. CASE intent[c] # "renew"
    <3>1. intent[c] \in {"pause", "cancel", "reject"}
      BY <2>1, <2>3, SetsAssumption DEF NoReturn
    <3>2. Target[intent[c]] \in {"paused", "cancelled"}
      BY <3>1 DEF Target
    <3>3. \A s \in {"paused", "cancelled"} : /\ Released(row[focus[c]], s).status # "queued"
                                             /\ Released(row[focus[c]], s).attempts = row[focus[c]].attempts
      <4>1. row[focus[c]] \in Row /\ {"paused", "cancelled"} \subseteq Statuses
        BY <1>0, <2>1 DEF Statuses
      <4>2. \A s \in {"paused", "cancelled"} : Released(row[focus[c]], s).status = s
        BY <4>1, ReleasedType
      <4>3. \A s \in {"paused", "cancelled"} : Released(row[focus[c]], s).attempts = row[focus[c]].attempts
        BY <4>1, AttemptsOfRows
      <4>4. QED
        BY <4>2, <4>3
    <3>4. QED
      BY <1>2, <1>16, <1>23, <2>1, <2>3, <3>2, <3>3 DEF Write
  <2>4. QED
    BY <2>2, <2>3
<1>24. ASSUME NEW c \in Clients, RecoverWrite(c, "idle") PROVE AttemptsInv'
  BY <1>24 DEF RecoverWrite, AttemptsInv
<1>25. ASSUME NEW c \in Clients, BeginRecover(c) PROVE AttemptsInv'
  BY <1>25 DEF BeginRecover, NoReturn
<1>26. ASSUME Tick PROVE AttemptsInv'
  <2>1. \A i \in Items : row'[i].attempts = row[i].attempts /\ row'[i].status = row[i].status
    BY <1>0, <1>26, AttemptsOfRows DEF Tick
  <2>2. UNCHANGED <<pc, sel, spent>>
    BY <1>26 DEF Tick
  <2>3. QED
    BY <2>1, <2>2, AttemptsKept DEF Selects, AttemptsInv
<1>27. QED
  BY <1>4, <1>5, <1>6, <1>7, <1>8, <1>9, <1>11, <1>12, <1>13, <1>14, <1>15, <1>17, <1>18, <1>19, <1>20,
     <1>21, <1>22, <1>23, <1>24, <1>25, <1>26
  DEF Next, WorkerStep, ClientStep

\* Where at most two workers claim, and nobody returns a row to the queue by
\* hand, no item is claimed more often than max_attempts allows, over crashes,
\* expired leases and restarts.
THEOREM AttemptsAreBounded ==
  TwoWorkers /\ NoReturn => (Spec => []AttemptsWithinMax)
<1> SUFFICES ASSUME TwoWorkers, NoReturn PROVE Spec => []AttemptsWithinMax
  OBVIOUS
<1>1. Init => BasicInv /\ AttemptsInv
  BY BasicInit, AttemptsInit
<1>2. BasicInv /\ AttemptsInv /\ [Next]_vars => (BasicInv /\ AttemptsInv)'
  BY BasicNext, AttemptsNext
<1>3. AttemptsInv => AttemptsWithinMax
  BY DEF AttemptsInv
<1>4. QED
  BY <1>1, <1>2, <1>3, PTL DEF Spec
=============================================================================
