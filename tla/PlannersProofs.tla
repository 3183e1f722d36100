---------------------------- MODULE PlannersProofs ---------------------------
(***************************************************************************)
(* Proofs about all that plans and records runs (MCPlanners): the          *)
(* experiment index (ExperimentIndex) and the supervisor that works on it  *)
(* (Supervisor), the repair executor (Repair) and the mission agent        *)
(* (MissionAgent), and the four composed, for all state files, any number  *)
(* of processes that rebuild, and all plans, goals, answers and bounds.    *)
(***************************************************************************)
EXTENDS MCPlanners, FiniteSetTheorems, WellFoundedInduction, TLAPS

-----------------------------------------------------------------------------
(***************************************************************************)
(* The index.  One rebuild at a time has rows of its own, and what it has  *)
(* read of a file is not older than the row there is, unless the file was  *)
(* half written, or has been written since.                                *)
(***************************************************************************)
\* Replacing the row of p by what i has read takes no version back.
NotOlder(i, p) ==
    /\ proc[i].view[p] <= disk[p]
    /\ proc[i].view[p] < rows[p] => proc[i].view[p] = 0 /\ (p \in torn \/ disk[p] > rows[p])

IndexInv ==
    /\ IndexTypeOK
    /\ \A i \in Indexers : proc[i].on => writer = i
    /\ \A p \in Paths : rows[p] <= disk[p]
    /\ \A p \in torn : disk[p] < MaxVersion
    /\ \A i \in Indexers, p \in Paths : proc[i].on /\ p \notin proc[i].todo => NotOlder(i, p)

Process == [on: BOOLEAN, todo: SUBSET Paths, view: [Paths -> Versions],
            ret: {"none", "ok", "conflict", "locked"}]

LEMMA IdleType ==
  /\ NoRows \in [Paths -> Versions]
  /\ \A how \in {"none", "ok", "conflict", "locked"} : Idle(how) \in Process /\ ~Idle(how).on /\ Idle(how).ret = how
  BY IndexAssumption DEF NoRows, Versions, Idle, Process

LEMMA IndexInitially == IndexInit => IndexInv
<1> SUFFICES ASSUME IndexInit
             PROVE  IndexInv
  OBVIOUS
<1>1. \A i \in Indexers : proc[i] = Idle("none")
  BY DEF IndexInit
<1>2. IndexTypeOK
  BY <1>1, IdleType, IndexAssumption DEF IndexInit, IndexTypeOK, Process
<1>3. \A p \in Paths : rows[p] <= disk[p]
  BY DEF IndexInit, NoRows
<1>4. torn = {} /\ \A i \in Indexers : ~proc[i].on
  BY <1>1, IdleType DEF IndexInit
<1>5. QED
  BY <1>2, <1>3, <1>4 DEF IndexInv

\* A process that goes on to at, the rest as it was.
LEMMA ProcessGoesOn ==
  ASSUME IndexInv, NEW i \in Indexers, NEW at \in Process, proc' = [proc EXCEPT ![i] = at]
  PROVE  /\ proc' \in [Indexers -> Process] /\ proc'[i] = at
         /\ \A j \in Indexers \ {i} : proc'[j] = proc[j]
  BY DEF IndexInv, IndexTypeOK, Process

\* A process that is idle again and does not hold the lock.
LEMMA ProcessEnds ==
  ASSUME IndexInv, NEW i \in Indexers, NEW how \in {"none", "ok", "conflict", "locked"},
         proc' = [proc EXCEPT ![i] = Idle(how)], UNCHANGED <<disk, torn, rows>>,
         writer' = writer \/ (writer' = Nobody /\ (writer = i \/ proc[i].on)), kills' \in 0 .. MaxKills
  PROVE  IndexInv'
<1>1. /\ proc' \in [Indexers -> Process] /\ ~proc'[i].on
      /\ \A j \in Indexers \ {i} : proc'[j] = proc[j]
  BY IdleType, ProcessGoesOn
<1>2. IndexTypeOK'
  BY <1>1 DEF IndexInv, IndexTypeOK, Process
<1>3. \A j \in Indexers : proc'[j].on => writer' = j
  BY <1>1 DEF IndexInv
<1>4. QED
  BY <1>1, <1>2, <1>3 DEF IndexInv, NotOlder

\* A file is written to the end.
LEMMA WriteKeeps ==
  ASSUME IndexInv, NEW p \in Paths, disk[p] < MaxVersion, disk' = [disk EXCEPT ![p] = @ + 1],
         torn' = torn \ {p}, UNCHANGED <<rows, writer, proc, kills>>
  PROVE  IndexInv'
<1>1. disk \in [Paths -> Nat] /\ rows \in [Paths -> Nat]
  BY DEF IndexInv, IndexTypeOK, Versions
<1>2. disk' \in [Paths -> Versions]
  BY IndexAssumption DEF IndexInv, IndexTypeOK, Versions
<1>3. IndexTypeOK'
  BY <1>2 DEF IndexInv, IndexTypeOK
<1>4. \A q \in Paths : rows'[q] <= disk'[q]
  BY <1>1 DEF IndexInv
<1>5. ASSUME NEW i \in Indexers, NEW q \in Paths, proc[i].on, q \notin proc[i].todo
      PROVE  NotOlder(i, q)'
  <2>1. NotOlder(i, q) /\ rows[q] <= disk[q] /\ proc[i].view[q] \in Nat
    BY <1>5 DEF IndexInv, IndexTypeOK, Versions
  <2>2. CASE q = p
    BY <1>1, <2>1, <2>2 DEF NotOlder
  <2>3. CASE q # p
    BY <1>1, <2>1, <2>3 DEF NotOlder
  <2>4. QED
    BY <2>2, <2>3
<1>6. QED
  BY <1>3, <1>4, <1>5 DEF IndexInv

LEMMA IndexInductive == IndexInv /\ [IndexNext]_ixvars => IndexInv'
<1> SUFFICES ASSUME IndexInv, [IndexNext]_ixvars
             PROVE  IndexInv'
  OBVIOUS
<1>1. ASSUME NEW p \in Paths, Truncate(p)
      PROVE  IndexInv'
  <2>1. IndexTypeOK'
    BY <1>1 DEF Truncate, IndexInv, IndexTypeOK
  <2>2. QED
    BY <1>1, <2>1 DEF Truncate, IndexInv, NotOlder
<1>2. ASSUME NEW p \in Paths, FinishWrite(p)
      PROVE  IndexInv'
  <2>1. disk[p] < MaxVersion /\ p \notin torn \ {p}
    BY <1>2 DEF FinishWrite, IndexInv
  <2>2. QED
    BY <1>2, <2>1, WriteKeeps DEF FinishWrite
<1>3. ASSUME NEW i \in Indexers, Begin(i)
      PROVE  IndexInv'
  <2> DEFINE at == [on |-> TRUE, todo |-> Existing, view |-> NoRows, ret |-> "none"]
  <2>1. at \in Process
    BY IdleType DEF Process, Existing
  <2>2. /\ proc' \in [Indexers -> Process] /\ proc'[i] = at
        /\ \A j \in Indexers \ {i} : proc'[j] = proc[j]
    BY <1>3, <2>1, ProcessGoesOn DEF Begin
  <2>3. IndexTypeOK'
    BY <1>3, <2>2 DEF Begin, IndexInv, IndexTypeOK, Process
  <2>4. \A j \in Indexers \ {i} : ~proc[j].on
    BY <1>3, IndexAssumption DEF Begin, IndexInv
  <2>5. ASSUME NEW p \in Paths, p \notin Existing
        PROVE  NotOlder(i, p)'
    <3>1. disk[p] = 0 /\ rows[p] \in Nat /\ rows[p] <= disk[p]
      BY <2>5 DEF Existing, IndexInv, IndexTypeOK, Versions
    <3>2. QED
      BY <1>3, <2>2, <3>1 DEF NotOlder, Begin, NoRows
  <2>6. QED
    BY <1>3, <2>2, <2>3, <2>4, <2>5 DEF IndexInv, Begin
<1>4. ASSUME NEW i \in Indexers, Locked(i)
      PROVE  IndexInv'
  BY <1>4, ProcessEnds DEF Locked, IndexInv, IndexTypeOK
<1>5. ASSUME NEW i \in Indexers, Read(i)
      PROVE  IndexInv'
  <2>1. PICK p \in proc[i].todo :
          proc' = [proc EXCEPT ![i].todo = @ \ {p}, ![i].view[p] = IF p \in torn THEN 0 ELSE disk[p]]
    BY <1>5 DEF Read
  <2> DEFINE seen == IF p \in torn THEN 0 ELSE disk[p]
             view == [proc[i].view EXCEPT ![p] = seen]
             at == [proc[i] EXCEPT !.todo = @ \ {p}, !.view = view]
  <2>2. proc[i] \in Process /\ p \in Paths /\ seen \in Versions
    BY IndexAssumption DEF IndexInv, IndexTypeOK, Process, Versions
  <2>3. view \in [Paths -> Versions] /\ view[p] = seen /\ \A q \in Paths \ {p} : view[q] = proc[i].view[q]
    BY <2>2 DEF Process
  <2>4. proc' = [proc EXCEPT ![i] = at]
    BY <2>1, <2>2 DEF Process, IndexInv, IndexTypeOK
  <2> HIDE DEF view
  <2>5. at \in Process /\ at.on = proc[i].on /\ at.todo = proc[i].todo \ {p} /\ at.view = view
    BY <2>2, <2>3 DEF Process
  <2> HIDE DEF at
  <2>6. /\ proc' \in [Indexers -> Process] /\ proc'[i] = at
        /\ \A j \in Indexers \ {i} : proc'[j] = proc[j]
    BY <2>4, <2>5, ProcessGoesOn
  <2>7. IndexTypeOK'
    BY <1>5, <2>6 DEF Read, IndexInv, IndexTypeOK, Process
  <2>8. ASSUME NEW q \in Paths, proc[i].on, q \notin at.todo
        PROVE  NotOlder(i, q)'
    <3>1. rows[q] \in Nat /\ disk[q] \in Nat /\ rows[q] <= disk[q]
      BY DEF IndexInv, IndexTypeOK, Versions
    <3>2. CASE q = p /\ p \in torn
      <4>1. proc'[i].view[q] = 0
        BY <2>3, <2>5, <2>6, <3>2
      <4>2. QED
        BY <1>5, <3>1, <3>2, <4>1 DEF NotOlder, Read
    <3>5. CASE q = p /\ p \notin torn
      <4>1. proc'[i].view[q] = disk[q]
        BY <2>3, <2>5, <2>6, <3>5
      <4>2. QED
        BY <1>5, <3>1, <3>5, <4>1 DEF NotOlder, Read
    <3>3. CASE q # p
      <4>1. NotOlder(i, q) /\ view[q] = proc[i].view[q]
        BY <2>3, <2>5, <2>8, <3>3 DEF IndexInv
      <4>2. QED
        BY <1>5, <2>5, <2>6, <4>1 DEF NotOlder, Read
    <3>4. QED
      BY <3>2, <3>3, <3>5
  <2>9. \A j \in Indexers \ {i} : proc[j].on => \A q \in Paths : q \notin proc[j].todo => NotOlder(j, q)'
    BY <1>5, <2>6 DEF NotOlder, Read, IndexInv
  <2>10. QED
    BY <1>5, <2>5, <2>6, <2>7, <2>8, <2>9 DEF IndexInv, Read
<1>6. ASSUME NEW i \in Indexers, Conflict(i)
      PROVE  IndexInv'
  BY <1>6, ProcessEnds DEF Conflict, IndexInv, IndexTypeOK
<1>7. ASSUME NEW i \in Indexers, Commit(i)
      PROVE  IndexInv'
  <2>1. /\ proc' \in [Indexers -> Process] /\ ~proc'[i].on
        /\ \A j \in Indexers \ {i} : proc'[j] = proc[j]
    BY <1>7, IdleType, ProcessGoesOn DEF Commit
  <2>2. proc[i].view \in [Paths -> Versions] /\ \A j \in Indexers \ {i} : ~proc[j].on
    BY <1>7 DEF Commit, IndexInv, IndexTypeOK
  <2>3. IndexTypeOK'
    BY <1>7, <2>1, <2>2 DEF Commit, IndexInv, IndexTypeOK, Process
  <2>4. \A p \in Paths : rows'[p] <= disk'[p]
    BY <1>7 DEF Commit, IndexInv, NotOlder
  <2>5. \A p \in torn' : disk'[p] < MaxVersion
    BY <1>7 DEF Commit, IndexInv
  <2>6. QED
    BY <2>1, <2>2, <2>3, <2>4, <2>5 DEF IndexInv
<1>8. ASSUME NEW i \in Indexers, Killed(i)
      PROVE  IndexInv'
  <2>1. kills' \in 0 .. MaxKills
    BY <1>8, IndexAssumption DEF Killed, IndexInv, IndexTypeOK
  <2>2. UNCHANGED <<disk, torn, rows>> /\ proc' = [proc EXCEPT ![i] = Idle("none")]
    BY <1>8 DEF Killed
  <2>3. writer' = writer \/ (writer' = Nobody /\ (writer = i \/ proc[i].on))
    BY <1>8 DEF Killed
  <2>4. QED
    BY <2>1, <2>2, <2>3, ProcessEnds
<1>9. CASE UNCHANGED ixvars
  BY <1>9 DEF ixvars, IndexInv, IndexTypeOK, NotOlder
<1>10. QED
  BY <1>1, <1>2, <1>3, <1>4, <1>5, <1>6, <1>7, <1>8, <1>9 DEF IndexNext, ToolsWrite, Rebuild

\* Only a commit changes rows, and what it writes is not older.
LEMMA RowsGoOn == IndexInv /\ [IndexNext]_ixvars => NeverOlder
<1> SUFFICES ASSUME IndexInv, [IndexNext]_ixvars
             PROVE  NeverOlder
  OBVIOUS
<1>1. CASE rows' = rows
  <2>1. \A p \in Paths : rows[p] \in Nat
    BY DEF IndexInv, IndexTypeOK, Versions
  <2>2. QED
    BY <1>1, <2>1 DEF NeverOlder
<1>2. ASSUME NEW i \in Indexers, Commit(i)
      PROVE  NeverOlder
  BY <1>2 DEF Commit, IndexInv, NotOlder, NeverOlder
<1>3. QED
  BY <1>1, <1>2
  DEF IndexNext, ToolsWrite, Rebuild, Truncate, FinishWrite, Begin, Locked, Read, Conflict, Killed, ixvars

\* Whatever rebuilds and writes overlap, a row never goes back to an older
\* version of its file.
THEOREM RowsNeverGoBack == IndexSpec => [][NeverOlder]_ixvars
<1>1. IndexInv /\ [IndexNext]_ixvars => NeverOlder
  BY RowsGoOn
<1>2. QED
  BY <1>1, IndexInitially, IndexInductive, PTL DEF IndexSpec

-----------------------------------------------------------------------------
(***************************************************************************)
(* The supervisor.  Its file counts what it records; while it works, what  *)
(* it holds is the file, or the file with the last action settled; and the *)
(* result of a run that is recorded is in every index there will be.       *)
(***************************************************************************)
\* The actions of a state that count as cycles, and its runs of a tool.
Cycles(state) == Cardinality(DoneActions(state, Kinds \ {"ask_user"}))
Runs(state) == Cardinality(DoneActions(state, ToolKinds))

\* The rebuild of i will have a row of the result.
Holds(i) == ResultFile \in proc[i].todo \/ proc[i].view[ResultFile] # 0

\* No rebuild loses a row of the result there is.
KeepsResult ==
    /\ ResultFile \notin torn
    /\ \A i \in Indexers : proc[i].on /\ rows[ResultFile] # 0 => Holds(i)

\* A rebuild that began after the result was written has found it.
Finds(i) ==
    /\ proc[i].on => Holds(i)
    /\ proc[i].ret = "ok" => rows[ResultFile] # 0

\* Where the call is, and what it holds there.
PlaceInv ==
    /\ spc \in {"idle", "choosing", "chosen", "saving"} => ~proc[Me].on
    /\ spc \in {"choosing", "chosen", "rebuilding"} => smem = sfile
    /\ spc \in {"chosen", "rebuilding", "refreshing", "saving"} =>
          smem.actions # << >> /\ smem.cycles < MaxActions
    /\ spc \in {"chosen", "rebuilding"} => LastAction.status = "planned"
    /\ spc = "rebuilding" => LastAction.kind = "rebuild_index"
    /\ spc = "refreshing" => LastAction.status = "completed" /\ LastAction.kind \in ToolKinds
    /\ spc = "refreshing" => disk[ResultFile] # 0 /\ Finds(Me)

\* A run that is recorded is in the index.
RowInv ==
    /\ DoneActions(sfile, ToolKinds) # {} => rows[ResultFile] # 0
    /\ spc = "saving" /\ DoneActions(smem, ToolKinds) # {} => rows[ResultFile] # 0

CountInv ==
    /\ sfile.cycles = Cycles(sfile) /\ sfile.cycles <= MaxActions
    /\ spc \in {"refreshing", "saving"} => Cycles(smem) = smem.cycles + (IF Counted THEN 1 ELSE 0)

RunsInv ==
    crashes = 0 =>
      /\ spc \notin {"refreshing", "saving"} => Runs(sfile) = ran - unsaved
      /\ spc = "refreshing" => Runs(sfile) = ran - (unsaved + 1)
      /\ spc \in {"refreshing", "saving"} => Runs(smem) = ran - unsaved

NoTools(state) == \A n \in DOMAIN state.actions : state.actions[n].kind \notin ToolKinds
RouteInv == ~asksModel /\ "planned_template" \in goal => NoTools(sfile) /\ NoTools(smem)

SupervisorInv ==
    IndexInv /\ SupervisorTypeOK /\ KeepsResult /\ PlaceInv /\ RowInv /\ CountInv /\ RunsInv /\ RouteInv

-----------------------------------------------------------------------------
LEMMA LeastBelow ==
  ASSUME NEW below, IsWellFoundedOn(below, Nat),
         \A i, j \in Nat : j < i => <<j, i>> \in below,
         NEW T \in SUBSET Nat, T # {}
  PROVE  \E i \in T : \A j \in T : i <= j
<1>1. PICK i \in T : \A j \in T : ~(<<j, i>> \in below)
  BY WFMin
<1>2. \A j \in T : i \in Nat /\ j \in Nat /\ ~(j < i)
  BY <1>1, Zenon
<1>3. QED
  BY <1>2

\* First: the least of a set of rows.
LEMMA FirstIsLeast ==
  ASSUME NEW S \in SUBSET Nat, S # {}
  PROVE  First(S) \in S /\ \A m \in S : First(S) <= m
<1>1. \A i, j \in Nat : j < i => <<j, i>> \in OpToRel(<, Nat)
  BY DEF OpToRel
<1>2. \E n \in S : \A m \in S : n <= m
  BY <1>1, NatLessThanWellFounded, LeastBelow, Zenon
<1>3. QED
  BY <1>2 DEF First

\* The routes: a template that is planned is routed before any tool.
LEMMA Routing ==
  /\ ChooseNextAction \in Kinds
  /\ "planned_template" \in goal => ChooseNextAction \notin ToolKinds
<1>1. /\ Reusable \subseteq {1, 2, 3, 4}
      /\ \A n \in {1, 2, 3, 4} : OnExisting[n].do \in FileKinds
  BY DEF Reusable, OnExisting, FileKinds
<1>2. Reusable # {} => First(Reusable) \in Reusable
  <2>1. Reusable \in SUBSET Nat
    BY <1>1
  <2>2. QED
    BY <2>1, FirstIsLeast
<1>3. /\ Routable \subseteq {1, 2, 3, 4, 5, 6, 7, 8, 9}
      /\ \A n \in {1, 2, 3, 4, 5, 6, 7, 8, 9} : Routes[n].do \in Kinds
      /\ Routes[1].do \notin ToolKinds /\ Routes[2].do \notin ToolKinds
      /\ "planned_template" \in goal => 2 \in Routable
  BY DEF Routable, Routes, Kinds, ToolKinds
<1>4. Routable # {} => First(Routable) \in Routable /\ \A m \in Routable : First(Routable) <= m
  <2>1. Routable \in SUBSET Nat
    BY <1>3
  <2>2. QED
    BY <2>1, FirstIsLeast
<1>5. \A k \in FileKinds \cup {"rebuild_index", "ask_user"} : k \in Kinds /\ k \notin ToolKinds
  BY DEF Kinds, FileKinds, ToolKinds
<1>6. "planned_template" \in goal => First(Routable) \in {1, 2}
  <2>1. ASSUME "planned_template" \in goal
        PROVE  First(Routable) \in {1, 2}
    <3>1. 2 \in Routable /\ First(Routable) \in Routable /\ First(Routable) <= 2
      BY <1>3, <1>4, <2>1
    <3>2. \A n \in {1, 2, 3, 4, 5, 6, 7, 8, 9} : n <= 2 => n \in {1, 2}
      OBVIOUS
    <3>3. First(Routable) \in {1, 2, 3, 4, 5, 6, 7, 8, 9}
      BY <1>3, <3>1, Zenon
    <3>4. QED
      BY <3>1, <3>2, <3>3, Zenon
  <2>2. QED
    BY <2>1
<1>7. CASE ~smem.indexed
  BY <1>5, <1>7 DEF ChooseNextAction
<1>8. CASE smem.indexed /\ Reusable # {}
  BY <1>1, <1>2, <1>5, <1>8 DEF ChooseNextAction
<1>9. CASE smem.indexed /\ Reusable = {} /\ Routable # {}
  <2>1. ChooseNextAction = Routes[First(Routable)].do
    BY <1>9 DEF ChooseNextAction
  <2>2. Routes[First(Routable)].do \in Kinds
    BY <1>3, <1>4, <1>9
  <2>3. "planned_template" \in goal => Routes[First(Routable)].do \notin ToolKinds
    BY <1>3, <1>6
  <2>4. QED
    BY <2>1, <2>2, <2>3
<1>10. CASE smem.indexed /\ Reusable = {} /\ Routable = {}
  BY <1>3, <1>5, <1>10 DEF ChooseNextAction
<1>11. QED
  BY <1>7, <1>8, <1>9, <1>10

LEMMA NextKindsAreKinds ==
  ASSUME asksModel \in BOOLEAN
  PROVE  /\ NextKinds \subseteq Kinds
         /\ ~asksModel /\ "planned_template" \in goal => \A k \in NextKinds : k \notin ToolKinds
  BY Routing, SupervisorAssumption DEF NextKinds

-----------------------------------------------------------------------------
\* What counting the actions of a state depends on.
LEMMA DoneIsFinite ==
  ASSUME NEW state \in SupervisorState, NEW kinds
  PROVE  IsFiniteSet(DoneActions(state, kinds)) /\ Cardinality(DoneActions(state, kinds)) \in Nat
<1>1. Len(state.actions) \in Nat /\ DoneActions(state, kinds) \subseteq 1 .. Len(state.actions)
  BY DEF DoneActions, SupervisorState
<1>2. IsFiniteSet(1 .. Len(state.actions))
  BY <1>1, FS_Interval
<1>3. IsFiniteSet(DoneActions(state, kinds))
  BY <1>1, <1>2, FS_Subset
<1>4. QED
  BY <1>3, FS_CardinalityType

LEMMA DoneSame ==
  ASSUME NEW s, NEW t, s.actions = t.actions
  PROVE  /\ \A kinds : DoneActions(s, kinds) = DoneActions(t, kinds)
         /\ Cycles(s) = Cycles(t) /\ Runs(s) = Runs(t) /\ (NoTools(s) <=> NoTools(t))
  BY DEF DoneActions, Cycles, Runs, NoTools

\* An action that is planned does not count.
LEMMA DoneAppended ==
  ASSUME NEW s \in SupervisorState, NEW t \in SupervisorState, NEW k \in Kinds,
         t.actions = Append(s.actions, [kind |-> k, status |-> "planned"])
  PROVE  /\ \A kinds : DoneActions(t, kinds) = DoneActions(s, kinds)
         /\ t.actions # << >> /\ t.actions[Len(t.actions)] = [kind |-> k, status |-> "planned"]
         /\ NoTools(s) /\ k \notin ToolKinds => NoTools(t)
<1>1. /\ s.actions \in Seq(SupervisorAction) /\ t.actions \in Seq(SupervisorAction)
      /\ Len(s.actions) \in Nat
      /\ Len(t.actions) = Len(s.actions) + 1
      /\ \A n \in 1 .. Len(s.actions) : t.actions[n] = s.actions[n]
      /\ t.actions[Len(t.actions)] = [kind |-> k, status |-> "planned"]
      /\ DOMAIN s.actions = 1 .. Len(s.actions) /\ DOMAIN t.actions = 1 .. Len(t.actions)
  BY DEF SupervisorState, SupervisorAction
<1>2. \A n \in DOMAIN t.actions : n \in DOMAIN s.actions \/ n = Len(t.actions)
  BY <1>1
<1>3. DOMAIN s.actions \subseteq DOMAIN t.actions
  BY <1>1
<1>4. t.actions # << >>
  BY <1>1
<1>5. ASSUME NEW kinds
      PROVE  DoneActions(t, kinds) = DoneActions(s, kinds)
  BY <1>1, <1>2, <1>3 DEF DoneActions
<1>6. QED
  BY <1>1, <1>2, <1>4, <1>5 DEF NoTools

\* The actions with the last one settled.
SettledLast(actions, status) == [actions EXCEPT ![Len(actions)] = [@ EXCEPT !.status = status]]

\* What is true of a state t after its last action, planned in s, is settled.
SettledFrom(s, t, status) ==
    /\ t.actions # << >>
    /\ t.actions[Len(t.actions)].status = status
    /\ t.actions[Len(t.actions)].kind = s.actions[Len(s.actions)].kind
    /\ NoTools(s) => NoTools(t)
    /\ \A kinds :
         /\ status = "failed" \/ s.actions[Len(s.actions)].kind \notin kinds =>
              DoneActions(t, kinds) = DoneActions(s, kinds)
         /\ status = "completed" /\ s.actions[Len(s.actions)].kind \in kinds =>
              Cardinality(DoneActions(t, kinds)) = Cardinality(DoneActions(s, kinds)) + 1

\* An action that was planned and completes counts once; one that fails does not.
LEMMA DoneSettled ==
  ASSUME NEW s \in SupervisorState, NEW t \in SupervisorState, NEW status \in {"completed", "failed"},
         s.actions # << >>, s.actions[Len(s.actions)].status = "planned",
         t.actions = SettledLast(s.actions, status)
  PROVE  SettledFrom(s, t, status)
<1> DEFINE last == Len(s.actions)
<1>1. s.actions \in Seq(SupervisorAction) /\ last \in 1 .. Len(s.actions) /\ s.actions[last] \in SupervisorAction
  BY DEF SupervisorState
<1>2. /\ DOMAIN t.actions = DOMAIN s.actions /\ Len(t.actions) = last
      /\ t.actions[last] = [s.actions[last] EXCEPT !.status = status]
      /\ \A n \in DOMAIN s.actions \ {last} : t.actions[n] = s.actions[n]
  BY <1>1 DEF SettledLast
<1>3. t.actions[last].status = status /\ t.actions[last].kind = s.actions[last].kind /\ last \in DOMAIN s.actions
  BY <1>1, <1>2 DEF SupervisorAction
<1>4. t.actions # << >>
  BY <1>1, <1>2
<1> HIDE DEF last
<1>5. NoTools(s) => NoTools(t)
  BY <1>2, <1>3 DEF NoTools
<1>6. ASSUME NEW kinds, status = "failed" \/ s.actions[last].kind \notin kinds
      PROVE  DoneActions(t, kinds) = DoneActions(s, kinds)
  BY <1>2, <1>3, <1>6 DEF DoneActions, last
<1>7. ASSUME NEW kinds, status = "completed", s.actions[last].kind \in kinds
      PROVE  Cardinality(DoneActions(t, kinds)) = Cardinality(DoneActions(s, kinds)) + 1
  <2>1. DoneActions(t, kinds) = DoneActions(s, kinds) \cup {last} /\ last \notin DoneActions(s, kinds)
    BY <1>2, <1>3, <1>7 DEF DoneActions, last
  <2>2. QED
    BY <2>1, DoneIsFinite, FS_AddElement
<1>8. QED
  BY <1>2, <1>3, <1>4, <1>5, <1>6, <1>7 DEF last, SettledFrom

\* write_supervisor_state after an action: nothing else of the state changes.
LEMMA SettleWrites ==
  ASSUME smem \in SupervisorState, smem.actions # << >>, NEW status \in {"completed", "failed"}
  PROVE  /\ Settle(status) \in SupervisorState /\ Settle(status).cycles = smem.cycles
         /\ Settle(status).actions = SettledLast(smem.actions, status)
<1> DEFINE last == [smem.actions[Len(smem.actions)] EXCEPT !.status = status]
           actions == [smem.actions EXCEPT ![Len(smem.actions)] = last]
<1>1. /\ smem.actions \in Seq(SupervisorAction) /\ Len(smem.actions) \in DOMAIN smem.actions
      /\ smem.actions[Len(smem.actions)] \in SupervisorAction
  BY DEF SupervisorState
<1>2. last \in SupervisorAction
  BY <1>1 DEF SupervisorAction
<1>3. actions \in Seq(SupervisorAction)
  BY <1>1, <1>2
<1>4. Settle(status) = [smem EXCEPT !.actions = actions]
  BY DEF Settle
<1> HIDE DEF actions
<1>5. Settle(status) \in SupervisorState /\ Settle(status).cycles = smem.cycles /\ Settle(status).actions = actions
  BY <1>3, <1>4 DEF SupervisorState
<1>6. QED
  BY <1>5 DEF actions, SettledLast

-----------------------------------------------------------------------------
\* What the index does under a supervisor.
LEMMA IndexStays ==
  ASSUME IndexInv, KeepsResult, UNCHANGED ixvars
  PROVE  IndexInv' /\ KeepsResult' /\ \A i \in Indexers : Finds(i) => Finds(i)'
  BY DEF IndexInv, IndexTypeOK, NotOlder, KeepsResult, Holds, Finds, ixvars

\* A step of a rebuild: no row of the result is lost, and who found it finds it.
LEMMA RebuildKeeps ==
  ASSUME IndexInv, KeepsResult, NEW i \in Indexers, Rebuild(i)
  PROVE  /\ IndexInv' /\ KeepsResult' /\ UNCHANGED disk
         /\ \A j \in Indexers \ {i} : proc'[j] = proc[j]
         /\ rows[ResultFile] # 0 => rows'[ResultFile] # 0
         /\ disk[ResultFile] # 0 /\ Finds(i) => Finds(i)'
<1>1. IndexInv'
  BY IndexInductive DEF IndexNext
<1>2. /\ proc \in [Indexers -> Process] /\ proc[i] \in Process /\ ResultFile \in Paths
      /\ rows[ResultFile] \in Nat /\ disk[ResultFile] \in Nat /\ rows[ResultFile] <= disk[ResultFile]
  BY SupervisorAssumption DEF IndexInv, IndexTypeOK, Process, Versions
<1>3. CASE Begin(i)
  <2> DEFINE at == [on |-> TRUE, todo |-> Existing, view |-> NoRows, ret |-> "none"]
  <2>1. at \in Process
    BY IdleType DEF Process, Existing
  <2>2. /\ proc' \in [Indexers -> Process] /\ proc'[i] = at
        /\ \A j \in Indexers \ {i} : proc'[j] = proc[j]
    BY <1>3, <2>1, ProcessGoesOn DEF Begin
  <2>3. disk[ResultFile] # 0 => ResultFile \in proc'[i].todo
    BY <1>2, <2>2 DEF Existing
  <2>4. rows[ResultFile] # 0 => disk[ResultFile] # 0
    BY <1>2
  <2>5. KeepsResult'
    BY <1>3, <2>2, <2>3, <2>4 DEF KeepsResult, Holds, Begin
  <2>6. disk[ResultFile] # 0 => Finds(i)'
    BY <1>3, <2>2, <2>3 DEF Finds, Holds
  <2>7. QED
    BY <1>1, <1>3, <2>2, <2>5, <2>6 DEF Begin
<1>4. ASSUME NEW how \in {"locked", "conflict"}, proc' = [proc EXCEPT ![i] = Idle(how)], UNCHANGED <<disk, torn, rows>>
      PROVE  /\ KeepsResult' /\ \A j \in Indexers \ {i} : proc'[j] = proc[j]
             /\ Finds(i)'
  <2>1. /\ ~proc'[i].on /\ proc'[i].ret # "ok"
        /\ \A j \in Indexers \ {i} : proc'[j] = proc[j]
    BY <1>4, <1>2, IdleType, ProcessGoesOn
  <2>2. QED
    BY <1>4, <2>1 DEF KeepsResult, Holds, Finds
<1>5. CASE Locked(i) \/ Conflict(i)
  BY <1>1, <1>4, <1>5 DEF Locked, Conflict
<1>6. CASE Read(i)
  <2>1. PICK p \in proc[i].todo :
          proc' = [proc EXCEPT ![i].todo = @ \ {p}, ![i].view[p] = IF p \in torn THEN 0 ELSE disk[p]]
    BY <1>6 DEF Read
  <2>2. p \in Paths
    BY <1>2 DEF Process
  <2>3. /\ proc'[i].on = proc[i].on /\ proc'[i].ret = proc[i].ret
        /\ proc'[i].todo = proc[i].todo \ {p}
        /\ proc'[i].view = [proc[i].view EXCEPT ![p] = IF p \in torn THEN 0 ELSE disk[p]]
        /\ \A j \in Indexers \ {i} : proc'[j] = proc[j]
    BY <1>2, <2>1 DEF Process
  <2>4. disk[ResultFile] # 0 /\ Holds(i) => Holds(i)'
    <3>1. CASE p = ResultFile
      BY <1>2, <2>3, <3>1 DEF Holds, Process, KeepsResult
    <3>2. CASE p # ResultFile
      BY <1>2, <2>2, <2>3, <3>2 DEF Holds, Process
    <3>3. QED
      BY <3>1, <3>2
  <2>5. rows[ResultFile] # 0 => disk[ResultFile] # 0
    BY <1>2
  <2>6. KeepsResult'
    <3>1. UNCHANGED <<torn, rows>>
      BY <1>6 DEF Read
    <3>2. proc'[i].on /\ rows'[ResultFile] # 0 => Holds(i)'
      BY <2>3, <2>4, <2>5, <3>1 DEF KeepsResult
    <3>3. \A j \in Indexers \ {i} : proc'[j].on /\ rows'[ResultFile] # 0 => Holds(j)'
      BY <2>3, <3>1 DEF KeepsResult, Holds
    <3>4. QED
      BY <3>1, <3>2, <3>3 DEF KeepsResult
  <2>7. disk[ResultFile] # 0 /\ Finds(i) => Finds(i)'
    BY <1>6, <2>3, <2>4 DEF Finds, Read
  <2>8. QED
    BY <1>1, <1>6, <2>3, <2>6, <2>7 DEF Read
<1>7. CASE Commit(i)
  <2>1. /\ ~proc'[i].on
        /\ \A j \in Indexers \ {i} : proc'[j] = proc[j] /\ ~proc'[j].on
    <3>1. ~proc'[i].on /\ \A j \in Indexers \ {i} : proc'[j] = proc[j]
      BY <1>7, IdleType, ProcessGoesOn DEF Commit
    <3>2. QED
      BY <1>7, <3>1 DEF Commit, IndexInv
  <2>2. Holds(i) => rows'[ResultFile] # 0
    BY <1>7 DEF Commit, Holds
  <2>3. KeepsResult'
    BY <1>7, <2>1 DEF KeepsResult, Commit
  <2>4. QED
    BY <1>1, <1>7, <2>1, <2>2, <2>3 DEF Finds, KeepsResult, Commit
<1>8. QED
  BY <1>3, <1>5, <1>6, <1>7 DEF Rebuild

\* The files of others are written.
LEMMA WritesKeep ==
  ASSUME IndexInv, KeepsResult, NEW p \in Paths \ {ResultFile}, Truncate(p) \/ FinishWrite(p)
  PROVE  /\ IndexInv' /\ KeepsResult' /\ disk'[ResultFile] = disk[ResultFile] /\ UNCHANGED <<rows, proc>>
<1>1. IndexInv'
  BY IndexInductive DEF IndexNext, ToolsWrite
<1>2. disk'[ResultFile] = disk[ResultFile] /\ UNCHANGED <<rows, proc>>
  BY SupervisorAssumption DEF Truncate, FinishWrite, IndexInv, IndexTypeOK
<1>3. ResultFile \notin torn'
  BY DEF Truncate, FinishWrite, KeepsResult
<1>4. QED
  BY <1>1, <1>2, <1>3 DEF KeepsResult, Holds

\* The tool writes the result, and its process is where it starts to refresh.
LEMMA ToolKeeps ==
  ASSUME IndexInv, KeepsResult, ResultFile \notin torn, disk[ResultFile] < MaxVersion,
         disk' = [disk EXCEPT ![ResultFile] = @ + 1], proc' = [proc EXCEPT ![Me] = Idle("none")],
         UNCHANGED <<torn, rows, writer, kills>>
  PROVE  IndexInv' /\ KeepsResult' /\ disk'[ResultFile] # 0 /\ Finds(Me)'
<1>1. /\ disk \in [Paths -> Nat] /\ rows \in [Paths -> Nat] /\ ResultFile \in Paths /\ Me \in Indexers
      /\ MaxVersion \in Nat
  BY SupervisorAssumption, IndexAssumption DEF IndexInv, IndexTypeOK, Versions
<1>2. /\ proc' \in [Indexers -> Process] /\ ~proc'[Me].on /\ proc'[Me].ret = "none"
      /\ \A j \in Indexers \ {Me} : proc'[j] = proc[j]
  BY <1>1, IdleType, ProcessGoesOn
<1>3. /\ disk' \in [Paths -> Versions] /\ disk'[ResultFile] = disk[ResultFile] + 1
      /\ \A p \in Paths \ {ResultFile} : disk'[p] = disk[p]
  BY <1>1 DEF Versions, IndexInv, IndexTypeOK
<1>4. IndexTypeOK'
  BY <1>2, <1>3 DEF IndexInv, IndexTypeOK, Process
<1>5. \A p \in Paths : rows'[p] <= disk'[p] /\ disk[p] <= disk'[p]
  BY <1>1, <1>3 DEF IndexInv
<1>6. \A j \in Indexers : proc'[j].on => proc'[j] = proc[j] /\ j # Me
  BY <1>2
<1>7. ASSUME NEW j \in Indexers, NEW p \in Paths, proc'[j].on, p \notin proc'[j].todo
      PROVE  NotOlder(j, p)'
  <2>1. NotOlder(j, p) /\ proc'[j] = proc[j] /\ proc[j].view[p] \in Nat
    BY <1>6, <1>7 DEF IndexInv, IndexTypeOK, Versions
  <2>2. QED
    BY <1>1, <1>3, <1>5, <2>1 DEF NotOlder
<1>8. IndexInv'
  BY <1>3, <1>4, <1>5, <1>6, <1>7 DEF IndexInv, KeepsResult
<1>9. KeepsResult' /\ Finds(Me)'
  BY <1>2, <1>6 DEF KeepsResult, Holds, Finds
<1>10. QED
  BY <1>1, <1>3, <1>8, <1>9

-----------------------------------------------------------------------------
LEMMA SupervisorInitially == SupervisorInit => SupervisorInv
<1> SUFFICES ASSUME SupervisorInit
             PROVE  SupervisorInv
  OBVIOUS
<1>1. IndexInv /\ KeepsResult /\ \A i \in Indexers : ~proc[i].on
  <2>1. torn = {} /\ \A i \in Indexers : proc[i] = Idle("none")
    BY DEF SupervisorInit, IndexInit
  <2>2. QED
    BY <2>1, IndexInitially, IdleType DEF SupervisorInit, KeepsResult
<1>2. NoState \in SupervisorState /\ NoState.cycles = 0 /\ NoState.actions = << >>
  BY DEF NoState, SupervisorState
<1>3. SupervisorTypeOK
  <2>1. 0 \in 0 .. MaxSupervisions /\ 0 \in 0 .. MaxSupervisorCrashes
    BY SupervisorAssumption
  <2>2. IndexTypeOK
    BY <1>1 DEF IndexInv
  <2>3. QED
    BY <1>2, <2>1, <2>2 DEF SupervisorInit, SupervisorTypeOK
<1>4. /\ \A kinds : DoneActions(NoState, kinds) = {}
      /\ Cycles(NoState) = 0 /\ Runs(NoState) = 0 /\ NoTools(NoState)
  <2>1. \A kinds : DoneActions(NoState, kinds) = {}
    BY <1>2 DEF DoneActions
  <2>2. Cycles(NoState) = 0 /\ Runs(NoState) = 0
    BY <2>1, FS_EmptySet DEF Cycles, Runs
  <2>3. NoTools(NoState)
    BY <1>2 DEF NoTools
  <2>4. QED
    BY <2>1, <2>2, <2>3
<1>5. PlaceInv
  BY <1>1, SupervisorAssumption DEF SupervisorInit, PlaceInv
<1>6. RowInv /\ CountInv /\ RunsInv /\ RouteInv
  BY <1>2, <1>4, SupervisorAssumption DEF SupervisorInit, RowInv, CountInv, RunsInv, RouteInv
<1>7. QED
  BY <1>1, <1>3, <1>5, <1>6 DEF SupervisorInv

\* A state that is saved.
LEMMA SaveKeeps ==
  ASSUME SupervisorInv, UNCHANGED <<ixvars, asksModel, goal, crashes>>, ~proc[Me].on,
         NEW state \in SupervisorState, Save(state),
         state.cycles = Cycles(state), state.cycles <= MaxActions,
         DoneActions(state, ToolKinds) # {} => rows[ResultFile] # 0,
         crashes = 0 => Runs(state) = ran' - unsaved',
         ~asksModel /\ "planned_template" \in goal => NoTools(state),
         spc' \in {"idle", "choosing", "chosen"},
         spc' = "chosen" => /\ state.actions # << >> /\ state.cycles < MaxActions
                            /\ state.actions[Len(state.actions)].status = "planned",
         execute' \in BOOLEAN, ran' \in Nat, unsaved' \in Nat, scalls' \in 0 .. MaxSupervisions,
         sret' \in {"none", "raised"} \cup Stopped \cup {"planned"}
  PROVE  SupervisorInv'
<1>1. IndexInv' /\ KeepsResult'
  BY IndexStays DEF SupervisorInv
<1>2. SupervisorTypeOK'
  BY <1>1 DEF SupervisorInv, SupervisorTypeOK, IndexInv, Save
<1>3. PlaceInv'
  BY DEF PlaceInv, LastAction, Save, ixvars
<1>4. RowInv' /\ CountInv' /\ RunsInv' /\ RouteInv'
  BY DEF RowInv, CountInv, RunsInv, RouteInv, Save, ixvars, Cycles, Runs, NoTools, DoneActions
<1>5. QED
  BY <1>1, <1>2, <1>3, <1>4 DEF SupervisorInv

\* The action at work is settled and is no run of a tool.
LEMMA SettleKeeps ==
  ASSUME SupervisorInv, spc \in {"chosen", "rebuilding"}, ~proc[Me].on,
         NEW status \in {"completed", "failed"}, status = "completed" => LastAction.kind \notin ToolKinds,
         smem' \in SupervisorState, smem'.actions = Settle(status).actions, smem'.cycles = smem.cycles,
         spc' = "saving",
         UNCHANGED <<ixvars, asksModel, goal, sfile, execute, sret, ran, unsaved, scalls, crashes>>
  PROVE  SupervisorInv'
<1>1. IndexInv' /\ KeepsResult'
  BY IndexStays DEF SupervisorInv
<1>2. SupervisorTypeOK'
  BY <1>1 DEF SupervisorInv, SupervisorTypeOK, IndexInv
<1>3. /\ smem \in SupervisorState /\ smem = sfile /\ smem.actions # << >> /\ LastAction.status = "planned"
      /\ smem.cycles < MaxActions
  BY DEF SupervisorInv, SupervisorTypeOK, PlaceInv
<1>4. smem'.actions = SettledLast(smem.actions, status)
  BY <1>3, SettleWrites
<1>5. /\ smem'.actions # << >> /\ LastAction'.status = status /\ LastAction'.kind = LastAction.kind
      /\ NoTools(smem) => NoTools(smem')
      /\ \A kinds :
           /\ status = "failed" \/ LastAction.kind \notin kinds => DoneActions(smem', kinds) = DoneActions(smem, kinds)
           /\ status = "completed" /\ LastAction.kind \in kinds =>
                Cardinality(DoneActions(smem', kinds)) = Cardinality(DoneActions(smem, kinds)) + 1
  <2>1. smem.actions[Len(smem.actions)].status = "planned"
    BY <1>3 DEF LastAction
  <2>2. SettledFrom(smem, smem', status)
    BY <1>3, <1>4, <2>1, DoneSettled, Zenon
  <2>3. QED
    BY <2>2 DEF SettledFrom, LastAction
<1>6. DoneActions(smem', ToolKinds) = DoneActions(smem, ToolKinds)
  BY <1>5
<1>7. PlaceInv'
  BY <1>3, <1>5 DEF PlaceInv, ixvars
<1>8. LastAction.kind \in Kinds
  <2>1. smem.actions \in Seq(SupervisorAction) /\ Len(smem.actions) \in 1 .. Len(smem.actions)
    BY <1>3 DEF SupervisorState
  <2>2. LastAction \in SupervisorAction
    BY <2>1 DEF LastAction
  <2>3. QED
    BY <2>2 DEF SupervisorAction
<1>9. Cycles(smem)' = smem'.cycles + (IF Counted THEN 1 ELSE 0)'
  <2>1. Cycles(smem) = smem.cycles /\ smem.cycles \in Nat
    BY <1>3 DEF SupervisorInv, CountInv, SupervisorState
  <2>2. Counted' <=> status = "completed" /\ LastAction.kind \in Kinds \ {"ask_user"}
    BY <1>5, <1>8 DEF Counted
  <2>3. Cycles(smem)' = Cardinality(DoneActions(smem', Kinds \ {"ask_user"}))
    BY DEF Cycles, DoneActions
  <2>4. QED
    BY <1>5, <2>1, <2>2, <2>3 DEF Cycles
<1>10. Runs(smem)' = Runs(smem)
  BY <1>6 DEF Runs, DoneActions
<1>11. Cycles(sfile)' = Cycles(sfile) /\ Runs(sfile)' = Runs(sfile)
  BY DEF Cycles, Runs, DoneActions
<1>12. CountInv'
  BY <1>9, <1>11 DEF SupervisorInv, CountInv
<1>13. RunsInv'
  BY <1>3, <1>10, <1>11 DEF SupervisorInv, RunsInv
<1>14. RowInv'
  BY <1>3, <1>6 DEF SupervisorInv, RowInv, DoneActions, ixvars
<1>15. RouteInv'
  BY <1>3, <1>5 DEF SupervisorInv, RouteInv, NoTools
<1>16. QED
  BY <1>1, <1>2, <1>7, <1>12, <1>13, <1>14, <1>15 DEF SupervisorInv

\* A step of the index, the supervisor being where it was.
LEMMA IndexStepKeeps ==
  ASSUME SupervisorInv, UNCHANGED svars, IndexInv', KeepsResult',
         rows[ResultFile] # 0 => rows'[ResultFile] # 0,
         spc \in {"idle", "choosing", "chosen", "saving"} => ~proc'[Me].on,
         spc = "refreshing" => disk'[ResultFile] # 0 /\ Finds(Me)'
  PROVE  SupervisorInv'
<1>1. SupervisorTypeOK'
  BY DEF SupervisorInv, SupervisorTypeOK, IndexInv, svars
<1>2. PlaceInv'
  BY DEF SupervisorInv, PlaceInv, LastAction, svars
<1>3. RowInv'
  BY DEF SupervisorInv, RowInv, DoneActions, svars
<1>4. CountInv' /\ RunsInv' /\ RouteInv'
  BY DEF SupervisorInv, CountInv, RunsInv, RouteInv, Cycles, Runs, DoneActions, NoTools, Counted, LastAction, svars
<1>5. QED
  BY <1>1, <1>2, <1>3, <1>4 DEF SupervisorInv

LEMMA CallKeeps ==
  ASSUME SupervisorInv, NEW exec \in BOOLEAN, NEW resume \in BOOLEAN, Call(exec, resume)
  PROVE  SupervisorInv'
<1>1. /\ spc = "idle" /\ ~proc[Me].on /\ sfile \in SupervisorState /\ ran \in Nat /\ unsaved \in Nat
      /\ scalls' \in 0 .. MaxSupervisions
  BY SupervisorAssumption DEF Call, SupervisorInv, PlaceInv, SupervisorTypeOK
<1>2. CASE resume /\ sfile.status = "torn"
  <2>1. UNCHANGED <<ixvars, asksModel, goal, crashes, sfile, smem, ran, unsaved>> /\ spc' = "idle" /\ sret' = "raised" /\ execute' = exec
    BY <1>2 DEF Call, SReturn
  <2>2. IndexInv' /\ KeepsResult'
    BY <2>1, IndexStays DEF SupervisorInv
  <2>3. SupervisorTypeOK'
    BY <1>1, <2>1, <2>2 DEF SupervisorInv, SupervisorTypeOK, IndexInv
  <2>4. PlaceInv' /\ RowInv' /\ CountInv' /\ RunsInv' /\ RouteInv'
    BY <1>1, <2>1
    DEF SupervisorInv, PlaceInv, RowInv, CountInv, RunsInv, RouteInv, Cycles, Runs, DoneActions, NoTools, ixvars
  <2>5. QED
    BY <2>2, <2>3, <2>4 DEF SupervisorInv
<1>3. CASE ~(resume /\ sfile.status = "torn")
  <2> DEFINE from == IF resume THEN sfile ELSE NoState
             state == [from EXCEPT !.status = IF exec THEN "running" ELSE "planned"]
  <2>1. /\ Save(state) /\ ran' = (IF resume THEN ran ELSE 0) /\ unsaved' = (IF resume THEN unsaved ELSE 0) /\ spc' = "choosing" /\ sret' = "none" /\ execute' = exec
        /\ UNCHANGED <<ixvars, asksModel, goal, crashes>>
    BY <1>3 DEF Call
  <2>2. from \in SupervisorState
    BY <1>1 DEF NoState, SupervisorState
  <2>3. state \in SupervisorState /\ state.actions = from.actions /\ state.cycles = from.cycles
    BY <2>2 DEF SupervisorState, Stopped
  <2>4. /\ NoState.cycles = Cycles(NoState) /\ NoState.cycles <= MaxActions /\ Runs(NoState) = 0
        /\ DoneActions(NoState, ToolKinds) = {} /\ NoTools(NoState)
    <3>1. \A kinds : DoneActions(NoState, kinds) = {}
      BY DEF DoneActions, NoState
    <3>2. Cycles(NoState) = 0 /\ Runs(NoState) = 0
      BY <3>1, FS_EmptySet DEF Cycles, Runs
    <3>3. NoState.cycles = 0 /\ NoTools(NoState)
      BY DEF NoState, NoTools
    <3>4. QED
      BY <3>1, <3>2, <3>3, SupervisorAssumption
  <2>5. /\ from.cycles = Cycles(from) /\ from.cycles <= MaxActions
        /\ DoneActions(from, ToolKinds) # {} => rows[ResultFile] # 0
        /\ crashes = 0 => Runs(from) = ran' - unsaved'
        /\ ~asksModel /\ "planned_template" \in goal => NoTools(from)
    <3>1. CASE resume
      BY <1>1, <2>1, <3>1 DEF SupervisorInv, RowInv, CountInv, RunsInv, RouteInv
    <3>2. CASE ~resume
      BY <2>1, <2>4, <3>2
    <3>3. QED
      BY <3>1, <3>2
  <2> HIDE DEF from, state
  <2>6. /\ state.cycles = Cycles(state) /\ state.cycles <= MaxActions
        /\ DoneActions(state, ToolKinds) # {} => rows[ResultFile] # 0
        /\ crashes = 0 => Runs(state) = ran' - unsaved'
        /\ ~asksModel /\ "planned_template" \in goal => NoTools(state)
    BY <2>3, <2>5, DoneSame
  <2>7. ran' \in Nat /\ unsaved' \in Nat /\ execute' \in BOOLEAN /\ spc' \in {"idle", "choosing", "chosen"} /\ spc' # "chosen"
        /\ sret' \in {"none", "raised"} \cup Stopped \cup {"planned"}
    BY <1>1, <2>1
  <2>8. QED
    BY <1>1, <2>1, <2>3, <2>6, <2>7, SaveKeeps
<1>4. QED
  BY <1>2, <1>3

LEMMA ChooseKeeps ==
  ASSUME SupervisorInv, ChooseAction
  PROVE  SupervisorInv'
<1>1. PICK k \in NextKinds : Save([smem EXCEPT !.actions = Append(@, [kind |-> k, status |-> "planned"])])
  BY DEF ChooseAction
<1> DEFINE actions == Append(smem.actions, [kind |-> k, status |-> "planned"])
           state == [smem EXCEPT !.actions = actions]
<1>2. /\ smem \in SupervisorState /\ smem = sfile /\ smem.cycles < MaxActions /\ ~proc[Me].on
      /\ UNCHANGED <<ixvars, asksModel, goal, execute, sret, ran, unsaved, scalls, crashes>> /\ spc' = "chosen"
      /\ spc = "choosing" /\ ran \in Nat /\ unsaved \in Nat /\ execute \in BOOLEAN /\ scalls \in 0 .. MaxSupervisions
      /\ sret \in {"none", "raised"} \cup Stopped \cup {"planned"} /\ asksModel \in BOOLEAN
  BY SupervisorAssumption DEF SupervisorInv, SupervisorTypeOK, PlaceInv, ChooseAction
<1>3. k \in Kinds /\ (~asksModel /\ "planned_template" \in goal => k \notin ToolKinds)
  BY <1>2, NextKindsAreKinds
<1>4. actions \in Seq(SupervisorAction)
  BY <1>2, <1>3 DEF SupervisorState, SupervisorAction
<1> HIDE DEF actions
<1>5. state \in SupervisorState /\ state.actions = actions /\ state.cycles = smem.cycles
  BY <1>2, <1>4 DEF SupervisorState
<1>6. Save(state)
  BY <1>1 DEF actions
<1> HIDE DEF state
<1>7. state.actions = Append(smem.actions, [kind |-> k, status |-> "planned"])
  BY <1>5 DEF actions
<1>8. /\ \A kinds : DoneActions(state, kinds) = DoneActions(smem, kinds)
      /\ state.actions # << >> /\ state.actions[Len(state.actions)] = [kind |-> k, status |-> "planned"]
      /\ NoTools(smem) /\ k \notin ToolKinds => NoTools(state)
  BY <1>2, <1>3, <1>5, <1>7, DoneAppended
<1>9. Cycles(state) = Cycles(smem) /\ Runs(state) = Runs(smem)
  BY <1>8 DEF Cycles, Runs
<1>10. /\ smem.cycles = Cycles(smem) /\ smem.cycles \in Nat
       /\ DoneActions(smem, ToolKinds) # {} => rows[ResultFile] # 0
       /\ crashes = 0 => Runs(smem) = ran - unsaved
       /\ ~asksModel /\ "planned_template" \in goal => NoTools(smem)
  BY <1>2 DEF SupervisorInv, RowInv, CountInv, RunsInv, RouteInv, SupervisorState
<1>11. state.actions[Len(state.actions)].status = "planned"
  BY <1>8
<1>12. /\ state.cycles = Cycles(state) /\ state.cycles < MaxActions /\ state.cycles <= MaxActions
       /\ DoneActions(state, ToolKinds) # {} => rows[ResultFile] # 0
       /\ crashes = 0 => Runs(state) = ran' - unsaved'
       /\ ~asksModel /\ "planned_template" \in goal => NoTools(state)
  BY <1>2, <1>3, <1>5, <1>8, <1>9, <1>10, SupervisorAssumption
<1>13. QED
  BY <1>2, <1>5, <1>6, <1>8, <1>11, <1>12, SaveKeeps

\* The call ends, or goes on, with what it holds saved under another status.
LEMMA StatusKeeps ==
  ASSUME SupervisorInv, UNCHANGED <<ixvars, asksModel, goal, execute, ran, unsaved, scalls, crashes>>,
         spc \in {"choosing", "chosen", "saving"}, spc' \in {"idle", "choosing"},
         NEW state \in SupervisorState, Save(state), state.actions = smem.actions,
         state.cycles = Cycles(smem),
         sret' \in {"none", "raised"} \cup Stopped \cup {"planned"}
  PROVE  SupervisorInv'
<1>1. /\ smem \in SupervisorState /\ ~proc[Me].on /\ (spc # "saving" => smem = sfile)
      /\ ran \in Nat /\ unsaved \in Nat /\ execute \in BOOLEAN /\ scalls \in 0 .. MaxSupervisions
  BY DEF SupervisorInv, SupervisorTypeOK, PlaceInv
<1>2. /\ DoneActions(smem, ToolKinds) # {} => rows[ResultFile] # 0
      /\ crashes = 0 => Runs(smem) = ran - unsaved
      /\ ~asksModel /\ "planned_template" \in goal => NoTools(smem)
  BY <1>1 DEF SupervisorInv, RowInv, RunsInv, RouteInv
<1>3. Cycles(smem) <= MaxActions
  <2>1. CASE spc = "saving"
    BY <1>1, <2>1, SupervisorAssumption DEF SupervisorInv, CountInv, PlaceInv, SupervisorState
  <2>2. CASE spc # "saving"
    BY <1>1, <2>2 DEF SupervisorInv, CountInv
  <2>3. QED
    BY <2>1, <2>2
<1>4. /\ state.cycles = Cycles(state) /\ state.cycles <= MaxActions
      /\ DoneActions(state, ToolKinds) # {} => rows[ResultFile] # 0
      /\ crashes = 0 => Runs(state) = ran' - unsaved'
      /\ ~asksModel /\ "planned_template" \in goal => NoTools(state)
  BY <1>2, <1>3, DoneSame
<1>5. spc' \in {"idle", "choosing", "chosen"} /\ spc' # "chosen" /\ ran' \in Nat /\ unsaved' \in Nat /\ execute' \in BOOLEAN
      /\ scalls' \in 0 .. MaxSupervisions
  BY <1>1
<1>6. QED
  BY <1>1, <1>4, <1>5, SaveKeeps

LEMMA PlanOnlyKeeps ==
  ASSUME SupervisorInv, PlanOnly
  PROVE  SupervisorInv'
<1> DEFINE state == [smem EXCEPT !.status = "planned"]
<1>1. /\ smem \in SupervisorState /\ smem.cycles = Cycles(smem)
  BY DEF PlanOnly, SupervisorInv, SupervisorTypeOK, PlaceInv, CountInv
<1>2. state \in SupervisorState /\ state.actions = smem.actions /\ state.cycles = smem.cycles
  BY <1>1 DEF SupervisorState
<1>3. /\ Save(state) /\ spc = "chosen" /\ spc' = "idle" /\ sret' = "planned"
      /\ UNCHANGED <<ixvars, asksModel, goal, execute, ran, unsaved, scalls, crashes>>
  BY DEF PlanOnly, SReturn
<1> HIDE DEF state
<1>4. QED
  BY <1>1, <1>2, <1>3, StatusKeeps

LEMMA FinishKeeps ==
  ASSUME SupervisorInv, Finish
  PROVE  SupervisorInv'
<1> DEFINE status == IF smem.status \in {"failed", "waiting_for_user"} THEN smem.status ELSE "completed"
           state == [smem EXCEPT !.status = status]
<1>1. /\ smem \in SupervisorState /\ smem.cycles = Cycles(smem) /\ status \in Stopped
  BY DEF Finish, SupervisorInv, SupervisorTypeOK, PlaceInv, CountInv, Stopped
<1>2. /\ Save(state) /\ spc = "choosing" /\ spc' = "idle" /\ sret' = status
      /\ UNCHANGED <<ixvars, asksModel, goal, execute, ran, unsaved, scalls, crashes>>
  BY DEF Finish, SReturn
<1> HIDE DEF status
<1>3. state \in SupervisorState /\ state.actions = smem.actions /\ state.cycles = smem.cycles
  BY <1>1 DEF SupervisorState
<1> HIDE DEF state
<1>4. QED
  BY <1>1, <1>2, <1>3, StatusKeeps

LEMMA RecordKeeps ==
  ASSUME SupervisorInv, Record
  PROVE  SupervisorInv'
<1> DEFINE done == [smem EXCEPT !.cycles = IF Counted THEN @ + 1 ELSE @]
           over == [done EXCEPT !.status = "completed"]
<1>1. /\ smem \in SupervisorState /\ smem.cycles \in Nat /\ spc = "saving"
      /\ Cycles(smem) = smem.cycles + (IF Counted THEN 1 ELSE 0)
      /\ sret \in {"none", "raised"} \cup Stopped \cup {"planned"}
  BY DEF Record, SupervisorInv, SupervisorTypeOK, CountInv, SupervisorState
<1>2. /\ done \in SupervisorState /\ done.actions = smem.actions /\ done.cycles = Cycles(smem)
  BY <1>1 DEF SupervisorState
<1>3. /\ over \in SupervisorState /\ over.actions = smem.actions /\ over.cycles = Cycles(smem)
  BY <1>2 DEF SupervisorState, Stopped
<1>4. /\ \/ Save(over) /\ spc' = "idle" /\ sret' = "completed"
         \/ Save(done) /\ spc' = "choosing" /\ UNCHANGED sret
      /\ UNCHANGED <<ixvars, asksModel, goal, execute, ran, unsaved, scalls, crashes>>
  BY DEF Record, SReturn
<1> HIDE DEF done, over
<1>5. CASE Save(over) /\ spc' = "idle" /\ sret' = "completed"
  BY <1>1, <1>3, <1>4, <1>5, StatusKeeps DEF Stopped
<1>6. CASE Save(done) /\ spc' = "choosing" /\ UNCHANGED sret
  BY <1>1, <1>2, <1>4, <1>6, StatusKeeps
<1>7. QED
  BY <1>4, <1>5, <1>6

LEMMA SettlingKeeps ==
  ASSUME SupervisorInv, EndRebuild \/ Do
  PROVE  SupervisorInv'
<1>1. /\ smem \in SupervisorState /\ smem.actions # << >>
      /\ spc \in {"chosen", "rebuilding"} /\ spc' = "saving" /\ ~proc[Me].on
      /\ spc = "rebuilding" => LastAction.kind = "rebuild_index"
      /\ UNCHANGED <<ixvars, asksModel, goal, sfile, execute, sret, ran, unsaved, scalls, crashes>>
  BY DEF EndRebuild, Do, SupervisorInv, SupervisorTypeOK, PlaceInv
<1>2. /\ Settle("completed") \in SupervisorState /\ Settle("completed").cycles = smem.cycles
      /\ Settle("failed") \in SupervisorState /\ Settle("failed").cycles = smem.cycles
  BY <1>1, SettleWrites
<1>3. ASSUME NEW status \in {"completed", "failed"}, status = "completed" => LastAction.kind \notin ToolKinds,
             NEW ending \in {"waiting_for_user", "failed", smem.status},
             smem' \in {[Settle(status) EXCEPT !.status = ending],
                        [Settle(status) EXCEPT !.indexed = TRUE, !.recent = Seen]}
      PROVE  SupervisorInv'
  <2>1. Settle(status) \in SupervisorState /\ Settle(status).cycles = smem.cycles
    BY <1>2, <1>3
  <2>2. ending \in {"absent", "torn", "planned", "running"} \cup Stopped /\ Seen \in SUBSET Paths
    BY <1>1 DEF SupervisorState, Stopped, Seen
  <2>3. smem' \in SupervisorState /\ smem'.actions = Settle(status).actions /\ smem'.cycles = smem.cycles
    BY <1>3, <2>1, <2>2 DEF SupervisorState
  <2>4. QED
    BY <1>1, <1>3, <2>3, SettleKeeps
<1>4. CASE EndRebuild
  <2>1. "rebuild_index" \notin ToolKinds
    BY DEF ToolKinds
  <2>2. CASE proc[Me].ret = "ok"
    BY <1>1, <1>3, <1>4, <2>1, <2>2 DEF EndRebuild
  <2>3. CASE proc[Me].ret # "ok"
    BY <1>1, <1>3, <1>4, <2>3 DEF EndRebuild
  <2>4. QED
    BY <2>2, <2>3
<1>5. CASE Do
  <2>1. CASE smem' = [Settle("failed") EXCEPT !.status = "failed"]
    BY <1>3, <2>1
  <2>2. CASE LastAction.kind \notin ToolKinds /\ smem' = [Settle("completed") EXCEPT !.status = "waiting_for_user"]
    BY <1>3, <2>2
  <2>3. CASE LastAction.kind \notin ToolKinds /\ smem' = [Settle("completed") EXCEPT !.status = smem.status]
    BY <1>3, <2>3
  <2>4. Settle("completed").status = smem.status
    BY <1>1 DEF Settle, SupervisorState
  <2>5. QED
    BY <1>5, <2>1, <2>2, <2>3, <2>4 DEF Do
<1>6. QED
  BY <1>4, <1>5

LEMMA RebuildStepKeeps ==
  ASSUME SupervisorInv, StartRebuild \/ RebuildStep \/ StartRefresh
  PROVE  SupervisorInv'
<1>1. Rebuild(Me) /\ Me \in Indexers
  BY SupervisorAssumption DEF StartRebuild, RebuildStep, StartRefresh, Rebuild
<1>2. /\ IndexInv' /\ KeepsResult' /\ UNCHANGED disk
      /\ rows[ResultFile] # 0 => rows'[ResultFile] # 0
      /\ disk[ResultFile] # 0 /\ Finds(Me) => Finds(Me)'
  BY <1>1, RebuildKeeps DEF SupervisorInv
<1>3. CASE RebuildStep \/ StartRefresh
  BY <1>2, <1>3, IndexStepKeeps DEF RebuildStep, StartRefresh, SupervisorInv, PlaceInv
<1>4. CASE StartRebuild
  <2>1. /\ UNCHANGED <<asksModel, goal, sfile, smem, execute, sret, ran, unsaved, scalls, crashes>>
        /\ spc = "chosen" /\ spc' = "rebuilding" /\ LastAction.kind = "rebuild_index"
    BY <1>4 DEF StartRebuild
  <2>2. SupervisorTypeOK'
    BY <1>2, <2>1 DEF SupervisorInv, SupervisorTypeOK, IndexInv
  <2>3. PlaceInv'
    BY <2>1 DEF SupervisorInv, PlaceInv, LastAction
  <2>4. RowInv'
    BY <1>2, <2>1 DEF SupervisorInv, RowInv, DoneActions
  <2>5. CountInv' /\ RunsInv' /\ RouteInv'
    BY <2>1 DEF SupervisorInv, CountInv, RunsInv, RouteInv, Cycles, Runs, DoneActions, NoTools
  <2>6. QED
    BY <1>2, <2>2, <2>3, <2>4, <2>5 DEF SupervisorInv
<1>5. QED
  BY <1>3, <1>4

\* A run of a tool is settled in memory only: the file has it when the index does.
LEMMA RunToolKeeps ==
  ASSUME SupervisorInv, RunTool
  PROVE  SupervisorInv'
<1>1. /\ smem \in SupervisorState /\ smem.actions # << >> /\ smem = sfile /\ spc = "chosen" /\ spc' = "refreshing"
      /\ LastAction.status = "planned" /\ LastAction.kind \in ToolKinds /\ smem.cycles < MaxActions
      /\ smem' = Settle("completed")
      /\ ran' = ran + 1 /\ ran \in Nat /\ unsaved \in Nat
      /\ UNCHANGED <<rows, asksModel, goal, sfile, execute, sret, unsaved, scalls, crashes>>
  BY DEF RunTool, SupervisorInv, SupervisorTypeOK, PlaceInv
<1>2. IndexInv' /\ KeepsResult' /\ disk'[ResultFile] # 0 /\ Finds(Me)'
  BY ToolKeeps DEF RunTool, SupervisorInv
<1>3. smem' \in SupervisorState /\ smem'.cycles = smem.cycles /\ smem'.actions = SettledLast(smem.actions, "completed")
  BY <1>1, SettleWrites
<1>4. SettledFrom(smem, smem', "completed")
  <2>1. smem.actions[Len(smem.actions)].status = "planned"
    BY <1>1 DEF LastAction
  <2>2. QED
    BY <1>1, <1>3, <2>1, DoneSettled, Zenon
<1>5. /\ smem'.actions # << >> /\ LastAction'.status = "completed" /\ LastAction'.kind = LastAction.kind
      /\ NoTools(smem) => NoTools(smem')
      /\ \A kinds : LastAction.kind \in kinds =>
           Cardinality(DoneActions(smem', kinds)) = Cardinality(DoneActions(smem, kinds)) + 1
  BY <1>4 DEF SettledFrom, LastAction
<1>6. SupervisorTypeOK'
  BY <1>1, <1>2, <1>3 DEF SupervisorInv, SupervisorTypeOK, IndexInv
<1>7. PlaceInv'
  BY <1>1, <1>2, <1>3, <1>5 DEF PlaceInv
<1>8. LastAction.kind \in Kinds \ {"ask_user"}
  BY <1>1 DEF Kinds, ToolKinds
<1>9. /\ Cycles(smem)' = Cycles(smem) + 1 /\ Runs(smem)' = Runs(smem) + 1
      /\ Cycles(sfile)' = Cycles(sfile) /\ Runs(sfile)' = Runs(sfile)
  BY <1>1, <1>5, <1>8 DEF Cycles, Runs, DoneActions
<1>10. CountInv'
  BY <1>1, <1>3, <1>5, <1>8, <1>9 DEF SupervisorInv, CountInv, Counted
<1>11. RunsInv'
  BY <1>1, <1>9 DEF SupervisorInv, RunsInv
<1>12. RowInv'
  BY <1>1 DEF SupervisorInv, RowInv, DoneActions
<1>13. RouteInv'
  <2>1. ~NoTools(smem')
    BY <1>1, <1>3, <1>5 DEF NoTools, LastAction, SupervisorState
  <2>2. ~(~asksModel /\ "planned_template" \in goal)
    <3>1. ~NoTools(smem)
      <4>1. Len(smem.actions) \in DOMAIN smem.actions
        BY <1>1 DEF SupervisorState
      <4>2. QED
        BY <1>1, <4>1 DEF NoTools, LastAction
    <3>2. QED
      BY <3>1 DEF SupervisorInv, RouteInv
  <2>3. QED
    BY <1>1, <2>2 DEF RouteInv
<1>14. QED
  BY <1>2, <1>6, <1>7, <1>10, <1>11, <1>12, <1>13 DEF SupervisorInv

LEMMA EndRefreshKeeps ==
  ASSUME SupervisorInv, EndRefresh
  PROVE  SupervisorInv'
<1>1. /\ smem \in SupervisorState /\ smem.actions # << >> /\ smem.cycles < MaxActions
      /\ spc = "refreshing" /\ ~proc[Me].on /\ ran \in Nat /\ unsaved \in Nat
      /\ proc[Me].ret = "ok" => rows[ResultFile] # 0
      /\ UNCHANGED <<ixvars, asksModel, goal, sfile, execute, ran, scalls, crashes>>
  BY DEF EndRefresh, SupervisorInv, SupervisorTypeOK, PlaceInv, Finds
<1>2. IndexInv' /\ KeepsResult'
  BY <1>1, IndexStays DEF SupervisorInv
<1>3. Cycles(sfile)' = Cycles(sfile) /\ Runs(sfile)' = Runs(sfile) /\ DoneActions(sfile, ToolKinds)' = DoneActions(sfile, ToolKinds)
  BY <1>1 DEF Cycles, Runs, DoneActions
<1>4. CASE proc[Me].ret = "ok"
  <2> DEFINE state == [smem EXCEPT !.recent = Seen]
  <2>1. smem' = state /\ spc' = "saving" /\ UNCHANGED <<sret, unsaved>>
    BY <1>4 DEF EndRefresh
  <2>2. Seen \in SUBSET Paths
    BY DEF Seen
  <2>3. state \in SupervisorState /\ state.actions = smem.actions /\ state.cycles = smem.cycles
    BY <1>1, <2>2 DEF SupervisorState
  <2> HIDE DEF state
  <2>4. SupervisorTypeOK'
    BY <1>1, <1>2, <2>1, <2>3 DEF SupervisorInv, SupervisorTypeOK, IndexInv
  <2>5. PlaceInv'
    BY <1>1, <2>1, <2>3 DEF PlaceInv, ixvars
  <2>6. Cycles(smem)' = Cycles(smem) /\ Runs(smem)' = Runs(smem) /\ (Counted' <=> Counted) /\ (NoTools(smem)' <=> NoTools(smem))
    BY <2>1, <2>3 DEF Cycles, Runs, DoneActions, NoTools, Counted, LastAction
  <2>7. CountInv' /\ RunsInv' /\ RouteInv'
    BY <1>1, <1>3, <2>1, <2>3, <2>6 DEF SupervisorInv, CountInv, RunsInv, RouteInv, NoTools
  <2>8. RowInv'
    BY <1>1, <1>3, <1>4 DEF SupervisorInv, RowInv, ixvars
  <2>9. QED
    BY <1>2, <2>4, <2>5, <2>7, <2>8 DEF SupervisorInv
<1>5. CASE proc[Me].ret # "ok"
  <2>1. smem' = smem /\ spc' = "idle" /\ sret' = "raised" /\ unsaved' = unsaved + 1
    BY <1>5 DEF EndRefresh, SReturn
  <2>2. SupervisorTypeOK'
    BY <1>1, <1>2, <2>1 DEF SupervisorInv, SupervisorTypeOK, IndexInv
  <2>3. PlaceInv'
    BY <1>1, <2>1 DEF PlaceInv, ixvars
  <2>4. CountInv' /\ RunsInv' /\ RowInv'
    BY <1>1, <1>3, <2>1 DEF SupervisorInv, CountInv, RunsInv, RowInv, ixvars
  <2>5. RouteInv'
    BY <1>1, <2>1 DEF SupervisorInv, RouteInv, NoTools
  <2>6. QED
    BY <1>2, <2>2, <2>3, <2>4, <2>5 DEF SupervisorInv
<1>6. QED
  BY <1>4, <1>5

LEMMA CrashKeeps ==
  ASSUME SupervisorInv, Crash
  PROVE  SupervisorInv'
<1>1. /\ spc' = "idle" /\ sret' = "none" /\ crashes' = crashes + 1 /\ crashes' \in 1 .. MaxSupervisorCrashes
      /\ UNCHANGED <<disk, torn, rows, kills, asksModel, goal, smem, execute, ran, unsaved, scalls>>
      /\ proc' = [proc EXCEPT ![Me] = Idle("none")] /\ Me \in Indexers
      /\ writer' = writer \/ (writer' = Nobody /\ writer = Me)
  BY SupervisorAssumption DEF Crash, SupervisorInv, SupervisorTypeOK
<1>2. IndexInv'
  <2>1. kills' \in 0 .. MaxKills
    BY <1>1 DEF SupervisorInv, IndexInv, IndexTypeOK
  <2>2. QED
    BY <1>1, <2>1, ProcessEnds DEF SupervisorInv
<1>3. ~proc'[Me].on /\ \A j \in Indexers \ {Me} : proc'[j] = proc[j]
  BY <1>1, IdleType, ProcessGoesOn DEF SupervisorInv
<1>4. KeepsResult'
  BY <1>1, <1>3 DEF SupervisorInv, KeepsResult, Holds
<1> DEFINE cut == [NoState EXCEPT !.status = "torn"]
<1>5. /\ cut \in SupervisorState /\ cut.cycles = 0 /\ NoTools(cut) /\ Cycles(cut) = 0
      /\ DoneActions(cut, ToolKinds) = {}
  <2>1. cut \in SupervisorState /\ cut.cycles = 0 /\ cut.actions = << >>
    <3>1. NoState \in SupervisorState /\ NoState.cycles = 0 /\ NoState.actions = << >>
      BY DEF NoState, SupervisorState
    <3>2. QED
      BY <3>1 DEF SupervisorState
  <2> HIDE DEF cut
  <2>2. \A kinds : DoneActions(cut, kinds) = {}
    BY <2>1 DEF DoneActions
  <2>3. Cycles(cut) = 0
    BY <2>2, FS_EmptySet DEF Cycles
  <2>4. NoTools(cut)
    BY <2>1 DEF NoTools
  <2>5. QED
    BY <2>1, <2>2, <2>3, <2>4
<1>6. sfile' = sfile \/ sfile' = cut
  BY DEF Crash
<1> HIDE DEF cut
<1>7. sfile \in SupervisorState /\ sfile' \in SupervisorState
  BY <1>5, <1>6 DEF SupervisorInv, SupervisorTypeOK
<1>8. SupervisorTypeOK'
  BY <1>1, <1>2, <1>7 DEF SupervisorInv, SupervisorTypeOK, IndexInv
<1>9. PlaceInv'
  BY <1>1, <1>3 DEF PlaceInv
<1>10. /\ sfile'.cycles = Cycles(sfile') /\ sfile'.cycles <= MaxActions
       /\ DoneActions(sfile', ToolKinds) # {} => rows[ResultFile] # 0
       /\ ~asksModel /\ "planned_template" \in goal => NoTools(sfile') /\ NoTools(smem)
  <2>1. CASE sfile' = sfile
    BY <2>1 DEF SupervisorInv, CountInv, RowInv, RouteInv
  <2>2. CASE sfile' = cut
    BY <1>5, <2>2, SupervisorAssumption DEF SupervisorInv, RouteInv
  <2>3. QED
    BY <1>6, <2>1, <2>2
<1>11. CountInv' /\ RowInv' /\ RouteInv'
  BY <1>1, <1>10 DEF CountInv, RowInv, RouteInv, Cycles, DoneActions, NoTools
<1>12. RunsInv'
  BY <1>1 DEF RunsInv
<1>13. QED
  BY <1>2, <1>4, <1>8, <1>9, <1>11, <1>12 DEF SupervisorInv

LEMMA OthersKeep ==
  ASSUME SupervisorInv, Others
  PROVE  SupervisorInv'
<1>1. CASE \E p \in Paths \ {ResultFile} : Truncate(p) \/ FinishWrite(p)
  <2>1. IndexInv' /\ KeepsResult' /\ disk'[ResultFile] = disk[ResultFile] /\ UNCHANGED <<rows, proc>>
    BY <1>1, WritesKeep DEF SupervisorInv
  <2>2. QED
    BY <2>1, IndexStepKeeps DEF Others, SupervisorInv, PlaceInv, Finds, Holds
<1>2. CASE \E i \in Indexers \ {Me} : Rebuild(i)
  <2>1. PICK i \in Indexers \ {Me} : Rebuild(i)
    BY <1>2
  <2>2. /\ IndexInv' /\ KeepsResult' /\ UNCHANGED disk /\ proc'[Me] = proc[Me]
        /\ rows[ResultFile] # 0 => rows'[ResultFile] # 0
    BY <2>1, RebuildKeeps, SupervisorAssumption DEF SupervisorInv
  <2>3. Finds(Me) => Finds(Me)'
    BY <2>2 DEF Finds, Holds
  <2>4. QED
    BY <2>2, <2>3, IndexStepKeeps DEF Others, SupervisorInv, PlaceInv
<1>3. QED
  BY <1>1, <1>2 DEF Others

LEMMA SupervisorInductive == SupervisorInv /\ [SupervisorNext]_<<ixvars, svars>> => SupervisorInv'
<1> SUFFICES ASSUME SupervisorInv, [SupervisorNext]_<<ixvars, svars>>
             PROVE  SupervisorInv'
  OBVIOUS
<1>1. CASE Work
  BY <1>1, ChooseKeeps, PlanOnlyKeeps, RebuildStepKeeps, SettlingKeeps, RunToolKeeps, EndRefreshKeeps,
     RecordKeeps, FinishKeeps DEF Work
<1>2. CASE UNCHANGED <<ixvars, svars>>
  <2>1. IndexInv' /\ KeepsResult' /\ \A i \in Indexers : Finds(i) => Finds(i)'
    BY <1>2, IndexStays DEF SupervisorInv
  <2>2. QED
    BY <1>2, <2>1, IndexStepKeeps, SupervisorAssumption DEF SupervisorInv, PlaceInv, ixvars
<1>3. QED
  BY <1>1, <1>2, CallKeeps, CrashKeeps, OthersKeep DEF SupervisorNext

LEMMA SupervisorImplied == SupervisorInv => SupervisorInvariant
  BY DEF SupervisorInv, SupervisorInvariant, CyclesAreActions, SearchableAfterRun, NoSurrogate, ResultCheckpointed,
         CountInv, RowInv, RunsInv, RouteInv, Cycles, Runs, NoTools, DoneActions

\* The state of a supervisor counts what it did, within its budget and over its
\* deaths; the runs it records are in the index whatever rebuilds go on around
\* it; and a goal for a device that is only planned runs no tool.
THEOREM SupervisorKeepsItsRecord == SupervisorSpec => []SupervisorInvariant
  BY SupervisorInitially, SupervisorInductive, SupervisorImplied, PTL DEF SupervisorSpec

\* Nor does a step of the supervisor, of its tools or of a process around it
\* take a row back.
LEMMA SupervisorRowsGoOn == SupervisorInv /\ [SupervisorNext]_<<ixvars, svars>> => NeverOlder
<1> SUFFICES ASSUME SupervisorInv, [SupervisorNext]_<<ixvars, svars>>
             PROVE  NeverOlder
  OBVIOUS
<1>1. CASE rows' = rows
  <2>1. \A p \in Paths : rows[p] \in Nat
    BY DEF SupervisorInv, IndexInv, IndexTypeOK, Versions
  <2>2. QED
    BY <1>1, <2>1 DEF NeverOlder
<1>2. ASSUME NEW i \in Indexers, Rebuild(i)
      PROVE  NeverOlder
  BY <1>2, RowsGoOn DEF IndexNext, SupervisorInv
<1>3. CASE StartRebuild \/ RebuildStep \/ StartRefresh
  BY <1>2, <1>3, SupervisorAssumption DEF StartRebuild, RebuildStep, StartRefresh, Rebuild
<1>4. CASE Others
  BY <1>1, <1>2, <1>4 DEF Others, Truncate, FinishWrite
<1>5. CASE Crash \/ RunTool \/ UNCHANGED ixvars
  BY <1>1, <1>5 DEF Crash, RunTool, ixvars
<1>6. QED
  BY <1>3, <1>4, <1>5
  DEF SupervisorNext, Work, Call, ChooseAction, PlanOnly, EndRebuild, EndRefresh, Do, Record, Finish

-----------------------------------------------------------------------------
(***************************************************************************)
(* The repair executor.  The file and the call at work have the same       *)
(* number of attempts.  As long as no call starts over, a directory belongs *)
(* to an attempt there is, and the one an attempt is about to make is not  *)
(* there, since every attempt is saved before it starts.                   *)
(***************************************************************************)
\* A result without a benchmark is the source or of an attempt that failed.
Covered(attempts, result) ==
    result.bench = "none" /\ result.of # 0 =>
        result.of \in DOMAIN attempts /\ attempts[result.of].status = "failed"

\* A state completes with a result that passed.
SoundRepair(state) ==
    /\ state.status = "completed" =>
         state.final.good /\ state.final.bench # "failed" /\ Covered(state.attempts, state.final)
    /\ Covered(state.attempts, state.current)

RepairInv ==
    /\ RepairTypeOK /\ SensitiveIsAllowed /\ RunsAreFresh
    /\ Len(xmem.attempts) = Len(xfile.attempts) /\ Len(xfile.attempts) <= MaxRounds
    /\ SoundRepair(xfile) /\ SoundRepair(xmem)
    /\ xfile.status = "absent" => xpc = "idle" /\ xmade = {} /\ xfile.attempts = << >>
    /\ xpc # "idle" => xmem.status # "absent"
    /\ xpc \in {"starting", "running"} =>
         xmem.attempts # << >> /\ xmem.attempts[Len(xmem.attempts)].status = "running"
    /\ ~xover => \A r \in xmade : r[2] <= Len(xfile.attempts)
    /\ ~xover /\ xpc = "starting" => \A r \in xmade : r[2] < Len(xfile.attempts)

LEMMA FreshIsSound ==
  ASSUME NEW exec \in BOOLEAN, NEW source \in RepairResult, source.of = 0
  PROVE  /\ FreshRepair(exec, source) \in RepairState /\ SoundRepair(FreshRepair(exec, source))
         /\ Len(FreshRepair(exec, source).attempts) = 0 /\ FreshRepair(exec, source).status \in {"running", "planned"}
<1>1. NoResult \in RepairResult
  BY RepairAssumption DEF NoResult, RepairResult, Benches
<1>2. QED
  BY <1>1 DEF FreshRepair, RepairState, SoundRepair, Covered

LEMMA RepairInitially == RepairInit => RepairInv
<1> SUFFICES ASSUME RepairInit
             PROVE  RepairInv
  OBVIOUS
<1>1. NoResult \in RepairResult /\ NoResult.of = 0
  BY RepairAssumption DEF NoResult, RepairResult, Benches
<1> DEFINE fresh == FreshRepair(TRUE, NoResult)
<1>2. fresh \in RepairState /\ SoundRepair(fresh) /\ Len(fresh.attempts) = 0
  BY <1>1, FreshIsSound
<1>3. xfile = [fresh EXCEPT !.status = "absent"] /\ xmem = xfile /\ xmade = {} /\ xpc = "idle"
      /\ xover = FALSE /\ xmet = FALSE
  BY DEF RepairInit
<1> HIDE DEF fresh
<1>4. /\ xfile \in RepairState /\ xfile.status = "absent" /\ xfile.attempts = fresh.attempts
      /\ xfile.current = fresh.current
  BY <1>2, <1>3 DEF RepairState
<1>5. SoundRepair(xfile)
  BY <1>2, <1>4 DEF SoundRepair
<1>6. RepairTypeOK
  <2>1. 0 \in 0 .. MaxRepairs /\ 0 \in 0 .. MaxRepairCrashes
    BY RepairAssumption
  <2>2. xexec \in BOOLEAN /\ xallow \in BOOLEAN /\ xmet \in BOOLEAN /\ xover \in BOOLEAN
    BY Zenon DEF RepairInit
  <2>3. xplan \in Seq(RepairAction) /\ xran = {}
    BY DEF RepairInit
  <2>4. QED
    BY <1>3, <1>4, <2>1, <2>2, <2>3 DEF RepairInit, RepairTypeOK
<1>7. fresh.attempts = << >> /\ Len(xfile.attempts) = 0 /\ 0 <= MaxRounds
  BY <1>2, <1>4, RepairAssumption DEF fresh, FreshRepair
<1>8. SensitiveIsAllowed /\ RunsAreFresh
  BY DEF RepairInit, SensitiveIsAllowed, RunsAreFresh
<1>9. QED
  BY <1>3, <1>4, <1>5, <1>6, <1>7, <1>8 DEF RepairInv

\* What is saved under another status, not completed.
LEMMA StatusSaves ==
  ASSUME NEW state \in RepairState, SoundRepair(state),
         NEW status \in {"planned", "running", "waiting_for_user", "failed"}
  PROVE  /\ [state EXCEPT !.status = status] \in RepairState
         /\ SoundRepair([state EXCEPT !.status = status])
         /\ [state EXCEPT !.status = status].attempts = state.attempts
         /\ [state EXCEPT !.status = status].status = status
  BY DEF RepairState, SoundRepair

\* A save that keeps the attempts.
LEMMA RepairSaves ==
  ASSUME RepairInv, NEW state \in RepairState, SoundRepair(state), XSave(state),
         Len(state.attempts) <= MaxRounds, ~xover' => Len(state.attempts) = Len(xfile.attempts),
         state.status # "absent", xover' \in BOOLEAN, xover => xover',
         xpc' \in {"idle", "looping"}, xexec' \in BOOLEAN, xallow' \in BOOLEAN,
         xplan' \in Seq(RepairAction), xcalls' \in 0 .. MaxRepairs, xcrashes' \in 0 .. MaxRepairCrashes,
         xran' \subseteq xran, UNCHANGED <<xmade, xmet>>
  PROVE  RepairInv'
<1>1. RepairTypeOK'
  BY DEF RepairInv, RepairTypeOK, XSave
<1>2. QED
  BY <1>1 DEF RepairInv, SensitiveIsAllowed, RunsAreFresh, XSave

LEMMA CallRepairs ==
  ASSUME RepairInv, NEW exec \in BOOLEAN, NEW allow \in BOOLEAN, NEW resume \in BOOLEAN, XCall(exec, allow, resume)
  PROVE  RepairInv' /\ Len(xmem'.attempts) # Len(xmem.attempts) + 1
<1>1. /\ xfile \in RepairState /\ xmem \in RepairState /\ xpc' = "looping" /\ xexec' = exec /\ xallow' = allow
      /\ xcalls' \in 0 .. MaxRepairs /\ xcrashes' \in 0 .. MaxRepairCrashes /\ xplan' \in Seq(RepairAction)
      /\ xran' \subseteq xran /\ UNCHANGED <<xmade, xmet>>
  BY RepairAssumption DEF RepairInv, RepairTypeOK, XCall
<1>2. Len(xmem.attempts) \in Nat /\ Len(xfile.attempts) \in Nat /\ xover \in BOOLEAN
  BY <1>1 DEF RepairInv, RepairTypeOK, RepairState
<1>3. CASE resume /\ xfile.status # "absent"
  <2> DEFINE status == IF exec THEN "running" ELSE "planned"
             state == [xfile EXCEPT !.status = status]
  <2>1. XSave(state) /\ xover' = xover
    BY <1>3 DEF XCall
  <2>2. status \in {"planned", "running", "waiting_for_user", "failed"} /\ status # "absent"
    OBVIOUS
  <2> HIDE DEF status
  <2>3. state \in RepairState /\ SoundRepair(state) /\ state.attempts = xfile.attempts /\ state.status # "absent"
    BY <1>1, <2>2, StatusSaves DEF RepairInv
  <2> HIDE DEF state
  <2>4. Len(state.attempts) = Len(xfile.attempts) /\ Len(state.attempts) <= MaxRounds
    BY <2>3 DEF RepairInv
  <2>5. RepairInv'
    BY <1>1, <1>2, <2>1, <2>3, <2>4, RepairSaves
  <2>6. QED
    BY <1>2, <2>1, <2>3, <2>5 DEF RepairInv, XSave
<1>4. CASE ~(resume /\ xfile.status # "absent")
  <2>1. PICK ok \in BOOLEAN, b \in {"none", "failed"} :
          XSave(FreshRepair(exec, [of |-> 0, good |-> ok, bench |-> b]))
    BY <1>4 DEF XCall
  <2> DEFINE source == [of |-> 0, good |-> ok, bench |-> b]
             state == FreshRepair(exec, source)
  <2>2. source \in RepairResult /\ source.of = 0
    BY RepairAssumption DEF RepairResult, Benches
  <2>3. state \in RepairState /\ SoundRepair(state) /\ Len(state.attempts) = 0 /\ state.status # "absent"
    BY <2>2, FreshIsSound
  <2>4. XSave(state) /\ xover' \in BOOLEAN /\ (xover => xover')
    <3>1. xover' = (xover \/ xfile.status # "absent")
      BY <1>4 DEF XCall
    <3>2. QED
      BY <1>2, <2>1, <3>1
  <2>5. ~xover' => Len(xfile.attempts) = 0
    <3>1. xover' = (xover \/ xfile.status # "absent")
      BY <1>4 DEF XCall
    <3>2. ~xover' => xfile.status = "absent"
      BY <3>1, Zenon
    <3>3. QED
      BY <3>2 DEF RepairInv
  <2>6. Len(state.attempts) <= MaxRounds /\ (~xover' => Len(state.attempts) = Len(xfile.attempts))
    BY <2>3, <2>5, RepairAssumption
  <2> HIDE DEF state, source
  <2>7. RepairInv'
    BY <1>1, <2>3, <2>4, <2>6, RepairSaves
  <2>8. QED
    BY <1>2, <2>3, <2>4, <2>7 DEF XSave
<1>5. QED
  BY <1>3, <1>4

\* What choose_action and the round pick: an action of the plan or the answer,
\* that can be executed; one that was tried only when the plan has no other.
LEMMA MinIsIn ==
  ASSUME NEW S \in SUBSET Nat, S # {}
  PROVE  Min(S) \in S
<1>1. \A i, j \in Nat : j < i => <<j, i>> \in OpToRel(<, Nat)
  BY DEF OpToRel
<1>2. \E n \in S : \A m \in S : n <= m
  BY <1>1, NatLessThanWellFounded, LeastBelow, Zenon
<1>3. QED
  BY <1>2 DEF Min

LEMMA Choosing ==
  ASSUME NEW plan \in Seq(RepairAction)
  PROVE  \/ Chosen(plan) = << >>
         \/ \E i \in DOMAIN plan :
              /\ Chosen(plan) = <<plan[i]>> /\ Executable(plan[i])
              /\ plan[i].name \in Tried => \A k \in DOMAIN plan : Executable(plan[k]) => plan[k].name \in Tried
<1> DEFINE can == {i \in DOMAIN plan : Executable(plan[i])}
           new == {i \in can : plan[i].name \notin Tried}
<1>1. can \in SUBSET Nat /\ new \in SUBSET Nat
  OBVIOUS
<1>2. CASE new # {}
  <2>1. Min(new) \in new
    BY <1>1, <1>2, MinIsIn
  <2>2. Chosen(plan) = <<plan[Min(new)]>>
    BY <1>2 DEF Chosen
  <2>3. QED
    BY <2>1, <2>2
<1>3. CASE new = {} /\ can # {}
  <2>1. Min(can) \in can
    BY <1>1, <1>3, MinIsIn
  <2>2. Chosen(plan) = <<plan[Min(can)]>>
    BY <1>3 DEF Chosen
  <2>3. QED
    BY <1>3, <2>1, <2>2
<1>4. CASE new = {} /\ can = {}
  BY <1>4 DEF Chosen
<1>5. QED
  BY <1>2, <1>3, <1>4

LEMMA Picking ==
  ASSUME NEW plan \in Plans, NEW answer \in Decisions(plan), xallow \in BOOLEAN
  PROVE  \/ Pick(plan, answer) = << >> \/ Pick(plan, answer) = <<Wait>>
         \/ \E a \in RepairAction :
              /\ Pick(plan, answer) = <<a>> /\ Executable(a)
              /\ a.name \in Tried => \A k \in DOMAIN plan : Executable(plan[k]) => plan[k].name \in Tried
<1>1. plan \in Seq(RepairAction)
  BY RepairAssumption
<1>2. answer = << >> \/ \E a \in RepairAction : answer = <<a>>
  <2>1. CASE plan = << >>
    BY <2>1, RepairAssumption DEF Decisions
  <2>2. CASE plan # << >>
    <3>1. Head(plan) \in RepairAction
      BY <1>1, <2>2
    <3>2. QED
      BY <2>2, <3>1, RepairAssumption DEF Decisions
  <2>3. QED
    BY <2>1, <2>2
<1>3. CASE Pick(plan, answer) = Chosen(plan)
  BY <1>1, <1>3, Choosing
<1>4. CASE Pick(plan, answer) # Chosen(plan)
  BY <1>2, <1>4 DEF Pick
<1>5. QED
  BY <1>3, <1>4

\* An attempt that is appended: it is the next one, and has no directory yet.
LEMMA AttemptBegins ==
  ASSUME RepairInv, xpc = "looping", RoundLeft, NEW a \in RepairAction, BeginAttempt(a), xplan' \in Seq(RepairAction),
         xexec => Executable(a), xran' = IF xexec THEN xran \cup {<<a, xallow>>} ELSE xran,
         UNCHANGED <<xexec, xallow, xmade, xmet, xover, xcalls, xcrashes>>
  PROVE  RepairInv' /\ Len(xmem'.attempts) = Len(xmem.attempts) + 1 /\ Last(xmem'.attempts).name = a.name
<1> DEFINE how == IF xexec THEN "running" ELSE "planned"
           attempt == [name |-> a.name, status |-> how]
           attempts == Append(xmem.attempts, attempt)
           state == [xmem EXCEPT !.attempts = attempts]
<1>1. /\ xmem \in RepairState /\ xexec \in BOOLEAN /\ xallow \in BOOLEAN
      /\ xran \subseteq RepairAction \X BOOLEAN
      /\ xmem.attempts \in Seq(Attempt) /\ Len(xmem.attempts) \in Nat
  BY DEF RepairInv, RepairTypeOK, RepairState
<1>2. attempt \in Attempt /\ attempt.name = a.name
  BY <1>1 DEF Attempt, RepairAction
<1>3. XSave(state) /\ xpc' \in {"idle", "starting"} /\ (xpc' = "starting" => xexec)
  <2>1. CASE xexec
    BY <2>1 DEF BeginAttempt
  <2>2. CASE ~xexec
    BY <2>2 DEF BeginAttempt
  <2>3. QED
    BY <2>1, <2>2
<1> HIDE DEF attempt
<1>4. /\ attempts \in Seq(Attempt) /\ Len(attempts) = Len(xmem.attempts) + 1 /\ attempts # << >>
      /\ attempts[Len(attempts)] = attempt
      /\ \A i \in DOMAIN xmem.attempts : i \in DOMAIN attempts /\ attempts[i] = xmem.attempts[i]
  <2>1. DOMAIN xmem.attempts = 1 .. Len(xmem.attempts) /\ DOMAIN attempts = 1 .. Len(xmem.attempts) + 1
    BY <1>1, <1>2
  <2>2. \A i \in DOMAIN xmem.attempts : attempts[i] = xmem.attempts[i]
    BY <1>1, <1>2
  <2>3. QED
    BY <1>1, <1>2, <2>1, <2>2
<1> HIDE DEF attempts
<1>5. /\ state \in RepairState /\ state.attempts = attempts /\ state.status = xmem.status
      /\ state.final = xmem.final /\ state.current = xmem.current
  BY <1>1, <1>4 DEF RepairState
<1> HIDE DEF state
<1>6. SoundRepair(state) /\ state.status # "absent" /\ Len(state.attempts) <= MaxRounds
  <2>1. SoundRepair(state)
    BY <1>1, <1>4, <1>5 DEF RepairInv, SoundRepair, Covered
  <2>2. QED
    BY <1>1, <1>4, <1>5, <2>1, RepairAssumption DEF RepairInv, RoundLeft
<1>7. /\ xran' \subseteq RepairAction \X BOOLEAN
      /\ \A p \in xran' : p[1].confirm => p[2]
  BY <1>1 DEF RepairInv, SensitiveIsAllowed, Executable
<1>8. RepairTypeOK'
  BY <1>3, <1>5, <1>7 DEF RepairInv, RepairTypeOK, XSave
<1>9. ~xover' => \A r \in xmade' : r[2] < Len(state.attempts)
  BY <1>1, <1>4, <1>5, RepairAssumption DEF RepairInv, RepairTypeOK
<1>10. RepairInv'
  <2>1. \A r \in xmade' : r[2] \in Nat
    BY DEF RepairInv, RepairTypeOK
  <2>2. xpc' = "starting" => attempt.status = "running"
    BY <1>3 DEF attempt
  <2>3. QED
    BY <1>1, <1>3, <1>4, <1>5, <1>6, <1>7, <1>8, <1>9, <2>1, <2>2 DEF RepairInv, SensitiveIsAllowed, RunsAreFresh, XSave
<1>11. Len(xmem'.attempts) = Len(xmem.attempts) + 1 /\ Last(xmem'.attempts).name = a.name
  BY <1>2, <1>3, <1>4, <1>5 DEF XSave, Last
<1>12. QED
  BY <1>10, <1>11

\* What a stop saves.
LEMMA StopSaves ==
  ASSUME RepairInv, xpc = "looping", NEW status \in {"waiting_for_user", "failed"}, Stop(status),
         xplan' \in Seq(RepairAction), UNCHANGED <<xran, xexec, xallow, xmade, xmet, xover, xcalls, xcrashes>>
  PROVE  RepairInv' /\ Len(xmem'.attempts) = Len(xmem.attempts)
<1> DEFINE how == IF xexec THEN status ELSE "planned"
           state == [xmem EXCEPT !.status = how]
<1>1. xmem \in RepairState /\ SoundRepair(xmem) /\ how \in {"planned", "running", "waiting_for_user", "failed"}
  BY DEF RepairInv, RepairTypeOK
<1>2. XSave(state) /\ xpc' = "idle"
  BY DEF Stop
<1>3. how # "absent"
  OBVIOUS
<1> HIDE DEF how
<1>4. state \in RepairState /\ SoundRepair(state) /\ state.attempts = xmem.attempts /\ state.status # "absent"
  BY <1>1, <1>3, StatusSaves
<1> HIDE DEF state
<1>5. /\ xexec' \in BOOLEAN /\ xallow' \in BOOLEAN /\ xcalls' \in 0 .. MaxRepairs /\ xcrashes' \in 0 .. MaxRepairCrashes
      /\ Len(state.attempts) = Len(xfile.attempts) /\ Len(state.attempts) <= MaxRounds
      /\ xover' \in BOOLEAN /\ xover' = xover /\ xran' \subseteq xran
  BY <1>4 DEF RepairInv, RepairTypeOK
<1>6. RepairInv'
  BY <1>2, <1>4, <1>5, RepairSaves
<1>7. QED
  BY <1>2, <1>4, <1>6 DEF XSave

LEMMA PlanRoundRepairs ==
  ASSUME RepairInv, PlanRound
  PROVE  RepairInv' /\ NoRepeatWhileUntried
<1>1. PICK plan \in Plans : \E answer \in Decisions(plan) :
        /\ xplan' = plan
        /\ LET pick == Pick(plan, answer)
           IN  IF pick = <<Wait>> THEN Stop("waiting_for_user") /\ UNCHANGED xran
               ELSE IF pick # << >>
               THEN BeginAttempt(pick[1]) /\ xran' = IF xexec THEN xran \cup {<<pick[1], xallow>>} ELSE xran
               ELSE /\ Stop(IF \E i \in DOMAIN plan : plan[i].confirm THEN "waiting_for_user" ELSE "failed")
                    /\ UNCHANGED xran
  BY DEF PlanRound
<1>2. PICK answer \in Decisions(plan) :
        /\ xplan' = plan
        /\ LET pick == Pick(plan, answer)
           IN  IF pick = <<Wait>> THEN Stop("waiting_for_user") /\ UNCHANGED xran
               ELSE IF pick # << >>
               THEN BeginAttempt(pick[1]) /\ xran' = IF xexec THEN xran \cup {<<pick[1], xallow>>} ELSE xran
               ELSE /\ Stop(IF \E i \in DOMAIN plan : plan[i].confirm THEN "waiting_for_user" ELSE "failed")
                    /\ UNCHANGED xran
  BY <1>1
<1> DEFINE pick == Pick(plan, answer)
<1>3. /\ xpc = "looping" /\ RoundLeft /\ UNCHANGED <<xexec, xallow, xmade, xmet, xover, xcalls, xcrashes>>
      /\ xallow \in BOOLEAN /\ xplan' \in Seq(RepairAction) /\ Len(xmem.attempts) \in Nat
  BY <1>2, RepairAssumption DEF PlanRound, Looping, RepairInv, RepairTypeOK, RepairState
<1>4. \/ pick = << >> \/ pick = <<Wait>>
      \/ \E a \in RepairAction :
           /\ pick = <<a>> /\ Executable(a)
           /\ a.name \in Tried => \A k \in DOMAIN plan : Executable(plan[k]) => plan[k].name \in Tried
  BY <1>3, Picking
<1>5. ASSUME NEW status \in {"waiting_for_user", "failed"}, Stop(status), UNCHANGED xran
      PROVE  RepairInv' /\ NoRepeatWhileUntried
  BY <1>3, <1>5, StopSaves DEF NoRepeatWhileUntried
<1>6. CASE pick = <<Wait>>
  <2>1. Stop("waiting_for_user") /\ UNCHANGED xran
    BY <1>2, <1>6
  <2>2. QED
    BY <1>5, <2>1
<1>7. CASE pick = << >>
  <2>1. pick # <<Wait>>
    BY <1>7
  <2>2. Stop(IF \E i \in DOMAIN plan : plan[i].confirm THEN "waiting_for_user" ELSE "failed") /\ UNCHANGED xran
    BY <1>2, <1>7, <2>1
  <2>3. QED
    BY <1>5, <2>2
<1>8. ASSUME NEW a \in RepairAction, pick = <<a>>, Executable(a),
             a.name \in Tried => \A k \in DOMAIN plan : Executable(plan[k]) => plan[k].name \in Tried
      PROVE  RepairInv' /\ NoRepeatWhileUntried
  <2>1. pick # <<Wait>> /\ pick # << >> /\ pick[1] = a
    <3>1. a # Wait
      BY <1>8 DEF Executable, Wait
    <3>2. QED
      BY <1>8, <3>1
  <2>2. BeginAttempt(a) /\ xran' = IF xexec THEN xran \cup {<<a, xallow>>} ELSE xran
    BY <1>2, <2>1
  <2>3. RepairInv' /\ Len(xmem'.attempts) = Len(xmem.attempts) + 1 /\ Last(xmem'.attempts).name = a.name
    BY <1>3, <1>8, <2>2, AttemptBegins
  <2>4. NoRepeatWhileUntried
    BY <1>2, <1>8, <2>3 DEF NoRepeatWhileUntried
  <2>5. QED
    BY <2>3, <2>4
<1>9. QED
  BY <1>4, <1>6, <1>7, <1>8

\* The last attempt ends: its status is the only thing of the attempts that
\* changes, and it is not the attempt of a result without a benchmark.
LEMMA AttemptEnds ==
  ASSUME xmem \in RepairState, xmem.attempts # << >>, xmem.attempts[Len(xmem.attempts)].status = "running",
         SoundRepair(xmem), NEW status \in {"completed", "failed"}
  PROVE  /\ Ends(status) \in RepairState /\ Len(Ends(status).attempts) = Len(xmem.attempts)
         /\ Ends(status).attempts # << >> /\ Ends(status).current = xmem.current
         /\ Ends(status).attempts[Len(xmem.attempts)].status = status
         /\ Covered(Ends(status).attempts, xmem.current)
<1> DEFINE last == [xmem.attempts[Len(xmem.attempts)] EXCEPT !.status = status]
           attempts == [xmem.attempts EXCEPT ![Len(xmem.attempts)] = last]
<1>1. /\ xmem.attempts \in Seq(Attempt) /\ Len(xmem.attempts) \in DOMAIN xmem.attempts
      /\ xmem.attempts[Len(xmem.attempts)] \in Attempt
  BY DEF RepairState
<1>2. last \in Attempt /\ last.status = status
  BY <1>1 DEF Attempt
<1>3. /\ attempts \in Seq(Attempt) /\ Len(attempts) = Len(xmem.attempts) /\ attempts # << >>
      /\ DOMAIN attempts = DOMAIN xmem.attempts /\ attempts[Len(xmem.attempts)] = last
      /\ \A i \in DOMAIN attempts : i # Len(xmem.attempts) => attempts[i] = xmem.attempts[i]
  BY <1>1, <1>2
<1>4. Ends(status) = [xmem EXCEPT !.attempts = attempts]
  BY DEF Ends
<1> HIDE DEF attempts, last
<1>5. Ends(status) \in RepairState /\ Ends(status).attempts = attempts /\ Ends(status).current = xmem.current
  BY <1>3, <1>4 DEF RepairState
<1>6. Covered(attempts, xmem.current)
  BY <1>3 DEF SoundRepair, Covered
<1>7. QED
  BY <1>2, <1>3, <1>5, <1>6

\* A round goes on in memory, the attempts the same in number.
LEMMA RoundGoesOn ==
  ASSUME RepairInv, xmem' \in RepairState, SoundRepair(xmem'), Len(xmem'.attempts) = Len(xmem.attempts),
         xmem'.attempts # << >>, xmem'.status # "absent", xpc # "idle",
         xpc' = "saving" \/ (xpc' = "running" /\ xpc = "starting" /\ xmem' = xmem),
         xmet' \in BOOLEAN, RunsAreFresh', \A r \in xmade' : r[2] \in 1 .. MaxRounds,
         ~xover => \A r \in xmade' : r[2] <= Len(xfile.attempts),
         UNCHANGED <<xfile, xexec, xallow, xplan, xran, xover, xcalls, xcrashes>>
  PROVE  RepairInv'
<1>1. RepairTypeOK'
  BY DEF RepairInv, RepairTypeOK
<1>2. QED
  BY <1>1 DEF RepairInv, SensitiveIsAllowed, RunsAreFresh

\* The directory of an attempt that starts is not there, unless a call started
\* over: it is named after the round, and the rounds of the directories there are
\* come before it.
LEMMA StartRepairs ==
  ASSUME RepairInv, StartAttempt
  PROVE  RepairInv' /\ Len(xmem'.attempts) = Len(xmem.attempts)
<1>1. /\ xmem \in RepairState /\ SoundRepair(xmem) /\ xmem.attempts # << >> /\ xpc = "starting"
      /\ xmem.attempts[Len(xmem.attempts)].status = "running"
      /\ xmem.status # "absent" /\ xmet \in BOOLEAN /\ RunsAreFresh
      /\ \A r \in xmade : r[2] \in 1 .. MaxRounds
      /\ ~xover => \A r \in xmade : r[2] < Len(xfile.attempts)
      /\ Len(xmem.attempts) = Len(xfile.attempts) /\ Len(xmem.attempts) \in 1 .. MaxRounds
      /\ UNCHANGED <<xfile, xexec, xallow, xplan, xran, xover, xcalls, xcrashes>>
  BY RepairAssumption DEF StartAttempt, RepairInv, RepairTypeOK, RepairState
<1>2. LastRun[2] = Len(xmem.attempts) /\ (LastRun \in xmade => xover)
  BY <1>1 DEF LastRun, Running
<1>3. /\ Ends("failed") \in RepairState /\ Len(Ends("failed").attempts) = Len(xmem.attempts)
      /\ Ends("failed").attempts # << >> /\ Ends("failed").current = xmem.current
      /\ Covered(Ends("failed").attempts, xmem.current)
  BY <1>1, AttemptEnds
<1>4. ASSUME NEW status \in {"failed", "running"}, xmem' = [Ends("failed") EXCEPT !.status = status],
             xpc' = "saving", UNCHANGED xmade, xmet' \in BOOLEAN, RunsAreFresh'
      PROVE  RepairInv' /\ Len(xmem'.attempts) = Len(xmem.attempts)
  <2>1. /\ xmem' \in RepairState /\ xmem'.status = status /\ xmem'.attempts = Ends("failed").attempts
        /\ xmem'.current = xmem.current
    BY <1>3, <1>4 DEF RepairState
  <2>2. SoundRepair(xmem') /\ xmem'.status # "absent"
    BY <1>3, <2>1 DEF SoundRepair
  <2>3. /\ \A r \in xmade' : r[2] \in 1 .. MaxRounds
        /\ ~xover => \A r \in xmade' : r[2] <= Len(xfile.attempts)
    BY <1>1, <1>4
  <2>4. Len(xmem'.attempts) = Len(xmem.attempts) /\ xmem'.attempts # << >>
    BY <1>3, <2>1
  <2>5. xpc # "idle" /\ xpc' = "saving"
    BY <1>1, <1>4
  <2>6. /\ xmet' \in BOOLEAN /\ RunsAreFresh'
        /\ UNCHANGED <<xfile, xexec, xallow, xplan, xran, xover, xcalls, xcrashes>>
    BY <1>1, <1>4, Zenon
  <2>7. RepairInv'
    BY <2>1, <2>2, <2>3, <2>4, <2>5, <2>6, RoundGoesOn, Zenon
  <2>8. QED
    BY <2>4, <2>7
<1>5. CASE xmade' = xmade \cup {LastRun} /\ xpc' = "running" /\ UNCHANGED <<xmem, xmet>>
  <2>1. /\ \A r \in xmade' : r[2] \in 1 .. MaxRounds
        /\ ~xover => \A r \in xmade' : r[2] <= Len(xfile.attempts)
    BY <1>1, <1>2, <1>5
  <2>2. xmet' \in BOOLEAN /\ RunsAreFresh'
    BY <1>1, <1>5 DEF RunsAreFresh
  <2>3. RepairInv'
    BY <1>1, <1>5, <2>1, <2>2, RoundGoesOn
  <2>4. QED
    BY <1>5, <2>3
<1>6. \/ xmem' = [Ends("failed") EXCEPT !.status = "failed"] /\ xpc' = "saving" /\ UNCHANGED <<xmade, xmet>>
      \/ /\ xmem' = [Ends("failed") EXCEPT !.status = "running"] /\ xpc' = "saving"
         /\ LastRun \in xmade /\ xmet' = TRUE /\ UNCHANGED xmade
      \/ xmade' = xmade \cup {LastRun} /\ xpc' = "running" /\ UNCHANGED <<xmem, xmet>>
  BY DEF StartAttempt
<1>7. CASE xmem' = [Ends("failed") EXCEPT !.status = "failed"] /\ xpc' = "saving" /\ UNCHANGED <<xmade, xmet>>
  <2>1. xmet' \in BOOLEAN /\ RunsAreFresh'
    BY <1>1, <1>7 DEF RunsAreFresh
  <2>2. QED
    BY <1>4, <1>7, <2>1
<1>8. CASE /\ xmem' = [Ends("failed") EXCEPT !.status = "running"] /\ xpc' = "saving"
           /\ LastRun \in xmade /\ xmet' = TRUE /\ UNCHANGED xmade
  <2>1. xmet' \in BOOLEAN
    BY <1>8, Zenon
  <2>2. RunsAreFresh'
    BY <1>1, <1>2, <1>8, Zenon DEF RunsAreFresh
  <2>3. QED
    BY <1>4, <1>8, <2>1, <2>2
<1>9. QED
  BY <1>5, <1>6, <1>7, <1>8

LEMMA EndRepairs ==
  ASSUME RepairInv, EndAttempt
  PROVE  RepairInv' /\ Len(xmem'.attempts) = Len(xmem.attempts)
<1>1. /\ xmem \in RepairState /\ SoundRepair(xmem) /\ xmem.attempts # << >> /\ xpc = "running" /\ xpc' = "saving"
      /\ xmem.attempts[Len(xmem.attempts)].status = "running"
      /\ xmet' \in BOOLEAN /\ RunsAreFresh'
      /\ \A r \in xmade' : r[2] \in 1 .. MaxRounds
      /\ ~xover => \A r \in xmade' : r[2] <= Len(xfile.attempts)
      /\ Len(xmem.attempts) \in 1 .. MaxRounds
      /\ UNCHANGED <<xfile, xexec, xallow, xplan, xran, xover, xcalls, xcrashes>>
  <2>1. /\ xpc = "running" /\ xpc' = "saving"
        /\ UNCHANGED <<xfile, xexec, xallow, xplan, xmade, xran, xmet, xover, xcalls, xcrashes>>
    BY DEF EndAttempt
  <2>2. /\ xmem \in RepairState /\ SoundRepair(xmem) /\ xmem.attempts # << >>
        /\ xmem.attempts[Len(xmem.attempts)].status = "running"
        /\ xmet \in BOOLEAN /\ RunsAreFresh
        /\ \A r \in xmade : r[2] \in 1 .. MaxRounds
        /\ ~xover => \A r \in xmade : r[2] <= Len(xfile.attempts)
        /\ Len(xmem.attempts) <= MaxRounds
    BY <2>1 DEF RepairInv, RepairTypeOK
  <2>3. Len(xmem.attempts) \in 1 .. MaxRounds
    BY <2>2, RepairAssumption DEF RepairState
  <2>4. RunsAreFresh'
    BY <2>1, <2>2, Zenon DEF RunsAreFresh
  <2>5. QED
    BY <2>1, <2>2, <2>3, <2>4
<1>2. ASSUME NEW status \in {"completed", "failed"}
      PROVE  /\ Ends(status) \in RepairState /\ Len(Ends(status).attempts) = Len(xmem.attempts)
             /\ Ends(status).attempts # << >> /\ Ends(status).current = xmem.current
             /\ Ends(status).attempts[Len(xmem.attempts)].status = status
             /\ Covered(Ends(status).attempts, xmem.current)
  BY <1>1, <1>2, AttemptEnds
<1>3. ASSUME NEW state \in RepairState, xmem' = state, SoundRepair(state), NEW status \in {"completed", "failed"},
             state.attempts = Ends(status).attempts, state.status # "absent"
      PROVE  RepairInv' /\ Len(xmem'.attempts) = Len(xmem.attempts)
  <2>1. Len(xmem'.attempts) = Len(xmem.attempts) /\ xmem'.attempts # << >>
    BY <1>2, <1>3
  <2>2. xmem' \in RepairState /\ SoundRepair(xmem') /\ xmem'.status # "absent"
    BY <1>3
  <2>3. xpc # "idle" /\ xpc' = "saving"
    BY <1>1
  <2>4. QED
    BY <1>1, <2>1, <2>2, <2>3, RoundGoesOn, Zenon
<1>4. ASSUME NEW ok \in BOOLEAN, NEW b \in Benches
      PROVE  /\ Result(ok, b) \in RepairResult /\ Result(ok, b).of = Len(xmem.attempts)
             /\ Result(ok, b).good = ok /\ Result(ok, b).bench = b
  BY <1>1, <1>4 DEF Result, RepairResult, Running
<1>5. ASSUME NEW status \in {"completed", "failed"}, NEW after \in {"running", "failed"},
             xmem' = [Ends(status) EXCEPT !.status = after]
      PROVE  RepairInv' /\ Len(xmem'.attempts) = Len(xmem.attempts)
  <2> DEFINE state == [Ends(status) EXCEPT !.status = after]
  <2>1. /\ state \in RepairState /\ state.status = after /\ state.attempts = Ends(status).attempts
        /\ state.current = xmem.current
    BY <1>2 DEF RepairState
  <2>2. xmem' = state
    BY <1>5
  <2> HIDE DEF state
  <2>3. SoundRepair(state) /\ state.status # "absent"
    BY <1>2, <2>1 DEF SoundRepair
  <2>4. QED
    BY <1>3, <2>1, <2>2, <2>3
<1>6. ASSUME NEW ok \in BOOLEAN, xmem' = [Ends("failed") EXCEPT !.status = "running", !.current = Result(ok, "none")]
      PROVE  RepairInv' /\ Len(xmem'.attempts) = Len(xmem.attempts)
  <2> DEFINE state == [Ends("failed") EXCEPT !.status = "running", !.current = Result(ok, "none")]
  <2>1. Result(ok, "none") \in RepairResult /\ Result(ok, "none").of = Len(xmem.attempts)
    BY <1>4 DEF Benches
  <2>2. /\ state \in RepairState /\ state.status = "running" /\ state.attempts = Ends("failed").attempts
        /\ state.current = Result(ok, "none")
    BY <1>2, <2>1 DEF RepairState
  <2>3. xmem' = state
    BY <1>6
  <2> HIDE DEF state
  <2>4. Len(xmem.attempts) \in DOMAIN state.attempts /\ state.attempts[Len(xmem.attempts)].status = "failed"
    <3>1. state.attempts \in Seq(Attempt) /\ Len(state.attempts) = Len(xmem.attempts)
      BY <1>2, <2>2 DEF RepairState
    <3>2. QED
      BY <1>1, <1>2, <2>2, <3>1
  <2>5. SoundRepair(state) /\ state.status # "absent"
    BY <2>1, <2>2, <2>4 DEF SoundRepair, Covered
  <2>6. QED
    BY <1>3, <2>2, <2>3, <2>5
<1>7. ASSUME NEW ok \in BOOLEAN, NEW b \in Benches \ {"none"}, ok /\ b = "passed",
             xmem' = [Ends("completed") EXCEPT !.status = "completed",
                                               !.current = Result(ok, b), !.final = Result(ok, b)]
      PROVE  RepairInv' /\ Len(xmem'.attempts) = Len(xmem.attempts)
  <2> DEFINE state == [Ends("completed") EXCEPT !.status = "completed",
                                                !.current = Result(ok, b), !.final = Result(ok, b)]
  <2>1. /\ state \in RepairState /\ state.status = "completed" /\ state.attempts = Ends("completed").attempts
        /\ state.current = Result(ok, b) /\ state.final = Result(ok, b)
    BY <1>2, <1>4 DEF RepairState
  <2>2. xmem' = state
    BY <1>7
  <2> HIDE DEF state
  <2>3. SoundRepair(state) /\ state.status # "absent"
    BY <1>4, <1>7, <2>1 DEF SoundRepair, Covered
  <2>4. QED
    BY <1>3, <2>1, <2>2, <2>3
<1>8. ASSUME NEW ok \in BOOLEAN, NEW b \in Benches \ {"none"},
             xmem' = [Ends("completed") EXCEPT !.status = "running", !.current = Result(ok, b)]
      PROVE  RepairInv' /\ Len(xmem'.attempts) = Len(xmem.attempts)
  <2> DEFINE state == [Ends("completed") EXCEPT !.status = "running", !.current = Result(ok, b)]
  <2>1. /\ state \in RepairState /\ state.status = "running" /\ state.attempts = Ends("completed").attempts
        /\ state.current = Result(ok, b)
    BY <1>2, <1>4 DEF RepairState
  <2>2. xmem' = state
    BY <1>8
  <2> HIDE DEF state
  <2>3. SoundRepair(state) /\ state.status # "absent"
    BY <1>4, <1>8, <2>1 DEF SoundRepair, Covered
  <2>4. QED
    BY <1>3, <2>1, <2>2, <2>3
<1>9. QED
  BY <1>5, <1>6, <1>7, <1>8 DEF EndAttempt

LEMMA AcceptRepairs ==
  ASSUME RepairInv, Accept
  PROVE  RepairInv' /\ Len(xmem'.attempts) = Len(xmem.attempts)
<1> DEFINE how == IF xexec THEN "completed" ELSE "planned"
           state == [xmem EXCEPT !.status = how, !.final = xmem.current]
<1>1. /\ xmem \in RepairState /\ SoundRepair(xmem) /\ Accepted(xmem.current) /\ XSave(state) /\ xpc' = "idle"
      /\ how \in {"completed", "planned"}
      /\ Len(xmem.attempts) = Len(xfile.attempts)
      /\ xexec' \in BOOLEAN /\ xallow' \in BOOLEAN /\ xplan' \in Seq(RepairAction)
      /\ xcalls' \in 0 .. MaxRepairs /\ xcrashes' \in 0 .. MaxRepairCrashes /\ xran' \subseteq xran
      /\ Len(xfile.attempts) <= MaxRounds /\ xover' \in BOOLEAN /\ xover' = xover /\ UNCHANGED <<xmade, xmet>>
  BY DEF Accept, RepairInv, RepairTypeOK
<1>2. how # "absent"
  OBVIOUS
<1> HIDE DEF how
<1>3. xmem.current \in RepairResult
  BY <1>1 DEF RepairState
<1>4. /\ state \in RepairState /\ state.attempts = xmem.attempts /\ state.status = how
      /\ state.final = xmem.current /\ state.current = xmem.current
  BY <1>1, <1>3 DEF RepairState
<1> HIDE DEF state
<1>5. SoundRepair(state)
  BY <1>1, <1>3, <1>4 DEF SoundRepair, Accepted
<1>6. RepairInv'
  BY <1>1, <1>2, <1>4, <1>5, RepairSaves
<1>7. QED
  BY <1>1, <1>4, <1>6 DEF XSave

LEMMA OutOfRoundsRepairs ==
  ASSUME RepairInv, OutOfRounds
  PROVE  RepairInv' /\ Len(xmem'.attempts) = Len(xmem.attempts)
<1> DEFINE over == [xmem EXCEPT !.status = "failed", !.limit = TRUE]
           state == IF xmem.status = "running" THEN over ELSE xmem
<1>1. /\ xmem \in RepairState /\ SoundRepair(xmem) /\ XSave(state) /\ xpc' = "idle" /\ xmem.status # "absent"
      /\ Len(xmem.attempts) = Len(xfile.attempts)
      /\ xexec' \in BOOLEAN /\ xallow' \in BOOLEAN /\ xplan' \in Seq(RepairAction)
      /\ xcalls' \in 0 .. MaxRepairs /\ xcrashes' \in 0 .. MaxRepairCrashes /\ xran' \subseteq xran
      /\ Len(xfile.attempts) <= MaxRounds /\ xover' \in BOOLEAN /\ xover' = xover /\ UNCHANGED <<xmade, xmet>>
  BY DEF OutOfRounds, RepairInv, RepairTypeOK
<1>2. TRUE \in BOOLEAN
  BY Zenon
<1>3. over \in RepairState /\ over.attempts = xmem.attempts /\ over.status = "failed" /\ over.current = xmem.current
  BY <1>1, <1>2 DEF RepairState
<1> HIDE DEF over
<1>4. state \in RepairState /\ SoundRepair(state) /\ state.attempts = xmem.attempts /\ state.status # "absent"
  BY <1>1, <1>3 DEF SoundRepair
<1> HIDE DEF state
<1>5. RepairInv'
  BY <1>1, <1>4, RepairSaves
<1>6. QED
  BY <1>1, <1>4, <1>5 DEF XSave

LEMMA SaveOrDieRepairs ==
  ASSUME RepairInv, SaveRound \/ XCrash \/ UNCHANGED xvars
  PROVE  RepairInv' /\ Len(xmem'.attempts) = Len(xmem.attempts)
<1>1. CASE SaveRound
  <2>1. RepairTypeOK'
    BY <1>1 DEF SaveRound, RepairInv, RepairTypeOK
  <2>2. QED
    BY <1>1, <2>1 DEF SaveRound, RepairInv, SensitiveIsAllowed, RunsAreFresh
<1>2. CASE XCrash
  <2>1. RepairTypeOK'
    BY <1>2, RepairAssumption DEF XCrash, RepairInv, RepairTypeOK
  <2>2. QED
    BY <1>2, <2>1 DEF XCrash, RepairInv, SensitiveIsAllowed, RunsAreFresh
<1>3. CASE UNCHANGED xvars
  <2>1. RepairTypeOK'
    BY <1>3 DEF xvars, RepairInv, RepairTypeOK
  <2>2. QED
    BY <1>3, <2>1 DEF xvars, RepairInv, SensitiveIsAllowed, RunsAreFresh
<1>4. QED
  BY <1>1, <1>2, <1>3

LEMMA RepairInductive == RepairInv /\ [RepairNext]_xvars => RepairInv' /\ NoRepeatWhileUntried
<1> SUFFICES ASSUME RepairInv, [RepairNext]_xvars
             PROVE  RepairInv' /\ NoRepeatWhileUntried
  OBVIOUS
<1>1. Len(xmem.attempts) \in Nat
  BY DEF RepairInv, RepairTypeOK, RepairState
<1>2. RepairInv' /\ Len(xmem'.attempts) = Len(xmem.attempts) => RepairInv' /\ NoRepeatWhileUntried
  BY <1>1 DEF NoRepeatWhileUntried
<1>3. CASE PlanRound
  BY <1>3, PlanRoundRepairs
<1>4. CASE Accept \/ StartAttempt \/ EndAttempt \/ OutOfRounds
  BY <1>2, <1>4, AcceptRepairs, StartRepairs, EndRepairs, OutOfRoundsRepairs
<1>5. CASE SaveRound \/ XCrash \/ UNCHANGED xvars
  BY <1>2, <1>5, SaveOrDieRepairs
<1>6. CASE \E e \in RepairModes, a \in Allows, r \in BOOLEAN : XCall(e, a, r)
  BY <1>6, CallRepairs, RepairAssumption DEF NoRepeatWhileUntried
<1>7. QED
  BY <1>3, <1>4, <1>5, <1>6 DEF RepairNext, XWork

LEMMA RepairImplied == RepairInv => RepairInvariant
  BY DEF RepairInv, RepairInvariant, RoundsWithinMax, AcceptedPassed, SoundRepair, Covered

\* Over its calls, resumed or started over, and deaths a repair keeps to its rounds
\* and its permissions and completes only over a result whose quality passed and
\* whose benchmark, if it has one, does not say otherwise; its attempts run in
\* directories of their own unless a call started over.
THEOREM RepairKeepsItsRounds == RepairSpec => []RepairInvariant
  BY RepairInitially, RepairInductive, RepairImplied, PTL DEF RepairSpec

\* An action is tried again only when the plan has no other that can be.
THEOREM RepairTriesOthersFirst == RepairSpec => [][NoRepeatWhileUntried]_xvars
  BY RepairInitially, RepairInductive, PTL DEF RepairSpec

-----------------------------------------------------------------------------
(***************************************************************************)
(* The mission agent.  The state at work keeps what the file says is       *)
(* finished; a step is for a goal step of the plan that is not finished,   *)
(* within the budgets there were when it was chosen.                       *)
(***************************************************************************)
KeepsFinished(old, new) == \A i \in 1 .. MaxIndex : old.goals[i] \in Finished => new.goals[i] \in Finished

StepInv ==
    /\ mstep.goal # 0 => /\ \E n \in DOMAIN mmem.plan : mmem.plan[n].index = mstep.goal
                         /\ mmem.goals[mstep.goal] \notin Finished
    /\ mstep.goal = 0 => mstep.kind \in {"rebuild_index", "agent_replan", "ask_user", "noop"}
    /\ mstep.kind = "agent_replan" => mmem.replans < MaxReplans

MissionInv ==
    /\ MissionTypeOK /\ NoBorrowedEvidence /\ RepairIsConfirmed
    /\ mmem.replans <= MaxReplans /\ mfile.replans <= MaxReplans
    /\ mmem.cycles <= MaxCycles /\ mfile.cycles <= MaxCycles
    /\ mpc \in {"executing", "saving"} => mmem.cycles < MaxCycles
    /\ mfile.status = "absent" => mpc = "idle"
    /\ mpc # "idle" => mmem.status # "absent" /\ KeepsFinished(mfile, mmem)
    /\ mpc = "executing" => StepInv

LEMMA FreshMission ==
  ASSUME NEW exec \in BOOLEAN
  PROVE  /\ Fresh(exec) \in State /\ Fresh(exec).replans = 0 /\ Fresh(exec).cycles = 0
         /\ Fresh(exec).status \in {"running", "planned"}
         /\ \A i \in 1 .. MaxIndex : Fresh(exec).goals[i] = "none"
<1>1. NoSignature \in Signature
  BY DEF NoSignature, Signature
<1>2. [i \in 1 .. MaxIndex |-> "none"] \in [1 .. MaxIndex -> GoalStatus]
  BY DEF GoalStatus
<1>3. FALSE \in BOOLEAN
  BY Zenon
<1>4. QED
  BY <1>1, <1>2, <1>3 DEF Fresh, State, Records

LEMMA MissionInitially == MissionInit => MissionInv
<1> SUFFICES ASSUME MissionInit
             PROVE  MissionInv
  OBVIOUS
<1> DEFINE fresh == Fresh(FALSE)
<1>1. fresh \in State /\ fresh.replans = 0 /\ fresh.cycles = 0 /\ \A i \in 1 .. MaxIndex : fresh.goals[i] = "none"
  <2>1. FALSE \in BOOLEAN
    BY Zenon
  <2>2. QED
    BY <2>1, FreshMission
<1>2. mfile = [fresh EXCEPT !.status = "absent"] /\ mmem = mfile /\ mpc = "idle"
  BY DEF MissionInit
<1> HIDE DEF fresh
<1>3. /\ mfile \in State /\ mfile.replans = 0 /\ mfile.cycles = 0
      /\ \A i \in 1 .. MaxIndex : mfile.goals[i] = "none"
  BY <1>1, <1>2 DEF State
<1>4. MissionTypeOK
  <2>1. 0 \in 0 .. MaxCalls /\ 0 \in 0 .. MaxCrashes /\ 0 \in 0 .. MaxIndex
    BY MissionAssumption
  <2>2. mexec \in BOOLEAN
    BY Zenon DEF MissionInit
  <2>3. mstep \in [kind: StepKinds, goal: 0 .. MaxIndex, target: Targets]
    BY <2>1 DEF MissionInit, NoStep, StepKinds, Targets
  <2>4. QED
    BY <1>2, <1>3, <2>1, <2>2, <2>3 DEF MissionInit, MissionTypeOK
<1>5. QED
  BY <1>2, <1>3, <1>4, MissionAssumption DEF MissionInv, NoBorrowedEvidence, RepairIsConfirmed

LEMMA JoinedShort ==
  ASSUME NEW S, NEW s \in Seq(S), NEW t \in Seq(S), NEW m \in Nat, NEW n \in Nat, Len(s) <= m, Len(t) <= n
  PROVE  s \o t \in Seq(S) /\ Len(s \o t) \in Nat /\ Len(s \o t) <= m + n
<1>1. s \o t \in Seq(S) /\ Len(s \o t) = Len(s) + Len(t)
  OBVIOUS
<1>2. Len(s) \in Nat /\ Len(t) \in Nat
  OBVIOUS
<1>3. \A a, b \in Nat : a <= m /\ b <= n => a + b \in Nat /\ a + b <= m + n
  OBVIOUS
<1>4. QED
  BY <1>1, <1>2, <1>3

\* deterministic_decompose_goal builds a plan of goal steps.
LEMMA BaselineIsPlan ==
  ASSUME NEW wish \in Goals
  PROVE  Baseline(wish) \in Seq(GoalStep)
<1> DEFINE before == IF wish.history THEN <<"query_history">> ELSE << >>
           supervise == <<"run_supervisor">>
           head == before \o supervise
           sweeps == [n \in 1 .. wish.sweeps |-> "run_tool_convergence"]
           middle == head \o sweeps
           reference == IF wish.reference THEN <<"run_golden_comparison">> ELSE << >>
           compared == middle \o reference
           last == <<"run_physical_benchmark", "run_repair_executor", "generate_conclusion">>
           kinds == compared \o last
           primary == IF wish.history THEN 2 ELSE 1
<1>1. wish.sweeps \in Nat /\ wish.sweeps + 6 <= MaxIndex /\ MaxIndex \in Nat
  BY MissionAssumption
<1>12. \A k \in {"query_history", "run_supervisor", "run_golden_comparison"} : <<k>> \in Seq(GoalKinds) /\ Len(<<k>>) = 1
  BY DEF GoalKinds
<1>13. << >> \in Seq(GoalKinds) /\ Len(<< >>) = 0
  OBVIOUS
<1>14. before \in Seq(GoalKinds) /\ Len(before) <= 1
  BY <1>12, <1>13
<1>15. supervise \in Seq(GoalKinds) /\ Len(supervise) <= 1
  BY <1>12
<1>16. reference \in Seq(GoalKinds) /\ Len(reference) <= 1
  BY <1>12, <1>13
<1>3. sweeps \in Seq(GoalKinds) /\ Len(sweeps) <= wish.sweeps
  BY <1>1 DEF GoalKinds
<1>6. last \in Seq(GoalKinds) /\ Len(last) <= 3
  BY DEF GoalKinds
<1> HIDE DEF before, supervise, sweeps, reference, last
<1>2. head \in Seq(GoalKinds) /\ Len(head) <= 1 + 1
  BY <1>14, <1>15, JoinedShort
<1> HIDE DEF head
<1>4. middle \in Seq(GoalKinds) /\ Len(middle) <= (1 + 1) + wish.sweeps
  BY <1>1, <1>2, <1>3, JoinedShort
<1> HIDE DEF middle
<1>5. compared \in Seq(GoalKinds) /\ Len(compared) <= ((1 + 1) + wish.sweeps) + 1
  BY <1>1, <1>4, <1>16, JoinedShort
<1> HIDE DEF compared
<1>17. kinds \in Seq(GoalKinds) /\ Len(kinds) \in Nat /\ Len(kinds) <= (((1 + 1) + wish.sweeps) + 1) + 3
  BY <1>1, <1>5, <1>6, JoinedShort
<1>7. kinds \in Seq(GoalKinds) /\ Len(kinds) \in Nat /\ Len(kinds) <= MaxIndex
  <2> HIDE DEF kinds
  <2>1. QED
    BY <1>1, <1>17
<1>8. kinds = before \o <<"run_supervisor">> \o sweeps
              \o (IF wish.reference THEN <<"run_golden_comparison">> ELSE << >>)
              \o <<"run_physical_benchmark", "run_repair_executor", "generate_conclusion">>
  BY DEF compared, middle, head, before, supervise, reference, last
<1>9. CASE ~wish.clear
  <2>1. 1 \in 1 .. MaxIndex /\ {} \in SUBSET (0 .. MaxIndex) /\ "ask_user" \in GoalKinds
    BY <1>1 DEF GoalKinds
  <2>2. TRUE \in BOOLEAN /\ FALSE \in BOOLEAN
    BY Zenon
  <2>3. [index |-> 1, kind |-> "ask_user", deps |-> {}, stop |-> TRUE, named |-> FALSE] \in GoalStep
    BY <2>1, <2>2 DEF GoalStep
  <2>4. QED
    BY <1>9, <2>3 DEF Baseline
<1>10. CASE wish.clear
  <2> HIDE DEF kinds
  <2> DEFINE step(n) == [index |-> n, kind |-> kinds[n], stop |-> FALSE, named |-> kinds[n] = "run_golden_comparison",
                         deps |-> IF n <= primary THEN {}
                                  ELSE IF kinds[n] = "run_tool_convergence" THEN {primary} ELSE {n - 1}]
  <2>1. Baseline(wish) = [n \in DOMAIN kinds |-> step(n)]
    BY <1>8, <1>10 DEF Baseline, sweeps, before
  <2>2. FALSE \in BOOLEAN
    BY Zenon
  <2>3. ASSUME NEW n \in 1 .. Len(kinds)
        PROVE  step(n) \in GoalStep
    <3>1. /\ n \in 1 .. MaxIndex /\ kinds[n] \in GoalKinds /\ primary \in 0 .. MaxIndex /\ n - 1 \in 0 .. MaxIndex
      BY <1>1, <1>7
    <3>2. (kinds[n] = "run_golden_comparison") \in BOOLEAN
      BY Zenon
    <3>3. QED
      BY <2>2, <3>1, <3>2 DEF GoalStep
  <2>4. DOMAIN kinds = 1 .. Len(kinds)
    BY <1>7
  <2> HIDE DEF step
  <2>5. QED
    BY <1>7, <2>1, <2>3, <2>4
<1>11. QED
  BY <1>9, <1>10

\* A state the step at work may lead to: it counts no cycle, keeps the budget of
\* replans and takes back nothing that is finished.
Follows(state) ==
    /\ state \in State /\ state.cycles = mmem.cycles /\ state.replans <= MaxReplans /\ state.status # "absent"
    /\ KeepsFinished(mmem, state)

LEMMA GoalOfStep ==
  ASSUME MissionInv, mpc = "executing", mstep.goal # 0
  PROVE  mstep.goal \in 1 .. MaxIndex /\ mmem.goals[mstep.goal] \notin Finished /\ Goal.kind \in GoalKinds
<1> DEFINE S == {n \in DOMAIN mmem.plan : mmem.plan[n].index = mstep.goal}
<1>1. mstep.goal \in 0 .. MaxIndex /\ mmem.plan \in Seq(GoalStep) /\ MaxIndex \in Nat
  BY MissionAssumption DEF MissionInv, MissionTypeOK, State
<1>2. S \in SUBSET Nat /\ S # {} /\ mmem.goals[mstep.goal] \notin Finished
  BY <1>1 DEF MissionInv, StepInv
<1>3. \A i, j \in Nat : j < i => <<j, i>> \in OpToRel(<, Nat)
  BY DEF OpToRel
<1>4. PICK n \in S : \A m \in S : n <= m
  BY <1>2, <1>3, NatLessThanWellFounded, LeastBelow, Zenon
<1>5. n \in DOMAIN mmem.plan /\ mmem.plan[n].index = mstep.goal
  BY <1>4
<1>6. \A k \in DOMAIN mmem.plan : k < n => mmem.plan[k].index # mstep.goal
  <2> SUFFICES ASSUME NEW k \in DOMAIN mmem.plan, k < n, mmem.plan[k].index = mstep.goal
               PROVE  FALSE
    OBVIOUS
  <2>1. k \in S /\ k \in Nat /\ n \in Nat
    BY <1>1, <1>5
  <2>2. QED
    BY <1>4, <2>1
<1> DEFINE IsFirst(m) == mmem.plan[m].index = mstep.goal /\ \A k \in DOMAIN mmem.plan : k < m => mmem.plan[k].index # mstep.goal
           first == CHOOSE m \in DOMAIN mmem.plan : IsFirst(m)
<1>7. IsFirst(n)
  BY <1>5, <1>6
<1>8. first \in DOMAIN mmem.plan
  <2> HIDE DEF IsFirst
  <2>1. QED
    BY <1>5, <1>7
<1>9. Goal = mmem.plan[first]
  BY DEF Goal
<1> HIDE DEF first
<1>10. Goal \in GoalStep
  BY <1>1, <1>8, <1>9
<1>11. QED
  BY <1>1, <1>2, <1>10 DEF GoalStep

LEMMA MarkFollows ==
  ASSUME MissionInv, mpc = "executing", NEW state, Follows(state), NEW status \in GoalStatus
  PROVE  Follows(Mark(state, status))
<1>1. CASE mstep.goal = 0
  BY <1>1 DEF Mark
<1>2. CASE mstep.goal # 0
  <2>1. mstep.goal \in 1 .. MaxIndex /\ mmem.goals[mstep.goal] \notin Finished
    BY <1>2, GoalOfStep
  <2> DEFINE goals == [state.goals EXCEPT ![mstep.goal] = status]
             marked == [state EXCEPT !.goals = goals]
  <2>2. state.goals \in [1 .. MaxIndex -> GoalStatus]
    BY DEF Follows, State
  <2>3. goals \in [1 .. MaxIndex -> GoalStatus] /\ \A i \in 1 .. MaxIndex : i # mstep.goal => goals[i] = state.goals[i]
    BY <2>1, <2>2
  <2>4. Mark(state, status) = marked
    BY <1>2 DEF Mark
  <2> HIDE DEF goals
  <2>5. marked \in State
    BY <2>3 DEF Follows, State
  <2>6. marked.goals = goals /\ marked.cycles = state.cycles /\ marked.replans = state.replans /\ marked.status = state.status
    BY DEF Follows, State
  <2> HIDE DEF marked
  <2>7. QED
    BY <2>1, <2>3, <2>4, <2>5, <2>6 DEF Follows, KeepsFinished
<1>3. QED
  BY <1>1, <1>2

\* A goal step fails: softly, or for good.
LEMMA SoftFollows ==
  ASSUME MissionInv, mpc = "executing", mstep.goal # 0, NEW state, Follows(state)
  PROVE  Follows(Mark([state EXCEPT !.soft = Append(@, Goal.kind)], "soft_failed"))
<1> DEFINE soft == Append(state.soft, Goal.kind)
           softer == [state EXCEPT !.soft = soft]
<1>1. soft \in Seq(GoalKinds)
  BY GoalOfStep DEF Follows, State
<1> HIDE DEF soft
<1>2. softer \in State
  BY <1>1 DEF Follows, State
<1>3. /\ softer.goals = state.goals /\ softer.cycles = state.cycles /\ softer.replans = state.replans
      /\ softer.status = state.status
  BY DEF Follows, State
<1>4. softer = [state EXCEPT !.soft = Append(@, Goal.kind)]
  BY DEF soft
<1> HIDE DEF softer
<1>5. Follows(softer)
  BY <1>2, <1>3 DEF Follows, KeepsFinished
<1>6. "soft_failed" \in GoalStatus
  BY DEF GoalStatus, Finished
<1>7. QED
  BY <1>4, <1>5, <1>6, MarkFollows

LEMMA FailFollows ==
  ASSUME MissionInv, mpc = "executing", NEW state, Follows(state)
  PROVE  Follows(FailGoal(state))
<1>1. "failed" \in GoalStatus
  BY DEF GoalStatus, Blocked
<1>2. CASE Stops
  BY <1>1, <1>2, MarkFollows DEF FailGoal
<1>3. CASE ~Stops
  BY <1>3, SoftFollows DEF FailGoal, Stops
<1>4. QED
  BY <1>2, <1>3

\* A step that ends in such a state leaves it to be saved.
LEMMA StepEnds ==
  ASSUME MissionInv, mpc = "executing", ExecFrame, mpc' = "saving", Follows(mmem')
  PROVE  MissionInv' /\ FinishedStays
<1>1. MissionTypeOK'
  BY DEF MissionInv, MissionTypeOK, ExecFrame, Follows
<1>2. KeepsFinished(mfile, mmem)' /\ mmem'.cycles < MaxCycles /\ mmem'.cycles <= MaxCycles /\ mfile.status # "absent"
  BY MissionAssumption DEF MissionInv, ExecFrame, Follows, KeepsFinished, MissionTypeOK, State
<1>3. QED
  BY <1>1, <1>2 DEF MissionInv, ExecFrame, Follows, NoBorrowedEvidence, RepairIsConfirmed, FinishedStays

LEMMA DoneEnds ==
  ASSUME MissionInv, mpc = "executing", ExecFrame, NEW state, Follows(state), Done(state)
  PROVE  MissionInv' /\ FinishedStays
<1> DEFINE done == [state EXCEPT !.error = "none"]
<1>1. done \in State
  BY DEF Follows, State
<1>2. /\ done.goals = state.goals /\ done.cycles = state.cycles /\ done.replans = state.replans
      /\ done.status = state.status
  BY DEF Follows, State
<1>3. mmem' = done /\ mpc' = "saving"
  BY DEF Done
<1> HIDE DEF done
<1>4. Follows(mmem')
  BY <1>1, <1>2, <1>3 DEF Follows, KeepsFinished
<1>5. QED
  BY <1>3, <1>4, StepEnds

LEMMA SameFollows ==
  ASSUME MissionInv, mpc = "executing", NEW state \in State, state.goals = mmem.goals, state.cycles = mmem.cycles,
         state.replans = mmem.replans, state.status = mmem.status
  PROVE  Follows(state)
BY DEF MissionInv, Follows, KeepsFinished

LEMMA MemFollows == MissionInv /\ mpc = "executing" => Follows(mmem)
BY SameFollows DEF MissionInv, MissionTypeOK

\* The ends of a step for a goal step: it is completed, or it fails.
LEMMA ResultEnds ==
  ASSUME MissionInv, mpc = "executing", ExecFrame, NEW state, Follows(state), NEW good \in GoalStatus,
         NEW failed, NEW r, Follows(failed), Done(IF r = "bad" THEN failed ELSE Mark(state, good))
  PROVE  MissionInv' /\ FinishedStays
<1>1. CASE r = "bad"
  BY <1>1, DoneEnds
<1>2. CASE r # "bad"
  <2>1. Follows(Mark(state, good)) /\ Done(Mark(state, good))
    BY <1>2, MarkFollows
  <2>2. QED
    BY <2>1, DoneEnds
<1>3. QED
  BY <1>1, <1>2

LEMMA RebuildEnds ==
  ASSUME MissionInv, RebuildIndex
  PROVE  MissionInv' /\ FinishedStays
<1> DEFINE first == IF "tool" \in mmem.due \ mmem.fresh THEN {"tool"}
                    ELSE IF "golden" \in mmem.due \ mmem.fresh THEN {"golden"}
                    ELSE mmem.due \cap {"primary"}
           fresh == mmem.fresh \cup first
<1>1. mmem \in State /\ mpc = "executing" /\ ExecFrame
  BY DEF MissionInv, MissionTypeOK, RebuildIndex, Executing
<1>2. fresh \in SUBSET {"primary", "tool", "golden"}
  BY <1>1 DEF State
<1>3. PICK h \in Outcomes : Done([mmem EXCEPT !.indexed = TRUE, !.history = h, !.fresh = fresh])
  BY DEF RebuildIndex
<1>4. h \in Records
  BY MissionAssumption DEF Records
<1> HIDE DEF fresh, first
<1> DEFINE state == [mmem EXCEPT !.indexed = TRUE, !.history = h, !.fresh = fresh]
<1>5. TRUE \in BOOLEAN
  BY Zenon
<1>6. state \in State
  BY <1>1, <1>2, <1>4, <1>5 DEF State
<1>7. /\ state.goals = mmem.goals /\ state.cycles = mmem.cycles /\ state.replans = mmem.replans
      /\ state.status = mmem.status
  BY <1>1 DEF State
<1>8. Done(state)
  BY <1>3
<1> HIDE DEF state
<1>9. QED
  BY <1>1, <1>6, <1>7, <1>8, SameFollows, DoneEnds

LEMMA QueryEnds ==
  ASSUME MissionInv, QueryHistory \/ SkipOrNoop
  PROVE  MissionInv' /\ FinishedStays
<1>1. mpc = "executing" /\ ExecFrame
  BY DEF MissionInv, MissionTypeOK, QueryHistory, SkipOrNoop, Executing
<1>2. \A status \in {"completed", "skipped"} : Follows(Mark(mmem, status))
  BY <1>1, MarkFollows, MemFollows DEF GoalStatus, Finished
<1>3. \E status \in {"completed", "skipped"} : Done(Mark(mmem, status))
  BY DEF QueryHistory, SkipOrNoop
<1>4. QED
  BY <1>1, <1>2, <1>3, DoneEnds

LEMMA SupervisorEnds ==
  ASSUME MissionInv, RunSupervisor
  PROVE  MissionInv' /\ FinishedStays
<1>1. mmem \in State /\ mpc = "executing" /\ ExecFrame
  BY DEF MissionInv, MissionTypeOK, RunSupervisor, Executing
<1> DEFINE due == mmem.due \cup {"primary"}
<1>2. PICK r \in Outcomes :
        LET state == [mmem EXCEPT !.due = due, !.primary = IF r = "none" THEN @ ELSE r]
        IN  Done(IF r = "bad" THEN FailGoal(state) ELSE Mark(state, "completed"))
  BY DEF RunSupervisor
<1> DEFINE primary == IF r = "none" THEN mmem.primary ELSE r
           state == [mmem EXCEPT !.due = due, !.primary = primary]
<1>3. primary \in Records /\ due \in SUBSET {"primary", "tool", "golden"}
  BY <1>1, MissionAssumption DEF State, Records
<1>4. Done(IF r = "bad" THEN FailGoal(state) ELSE Mark(state, "completed"))
  BY <1>2
<1> HIDE DEF primary, due
<1>5. state \in State
  BY <1>1, <1>3 DEF State
<1>6. /\ state.goals = mmem.goals /\ state.cycles = mmem.cycles /\ state.replans = mmem.replans
      /\ state.status = mmem.status
  BY <1>1 DEF State
<1> HIDE DEF state
<1>7. Follows(state) /\ Follows(FailGoal(state))
  BY <1>1, <1>5, <1>6, SameFollows, FailFollows
<1>8. "completed" \in GoalStatus
  BY DEF GoalStatus, Finished
<1>9. QED
  BY <1>1, <1>4, <1>7, <1>8, ResultEnds

LEMMA ConvergenceEnds ==
  ASSUME MissionInv, RunToolConvergence
  PROVE  MissionInv' /\ FinishedStays
<1>1. mmem \in State /\ mpc = "executing" /\ ExecFrame
  BY DEF MissionInv, MissionTypeOK, RunToolConvergence, Executing
<1> DEFINE due == mmem.due \cup {"tool"}
<1>2. PICK r \in ({"suspicious"} \cup Outcomes) \ {"none"} :
        LET state == [mmem EXCEPT !.due = due, !.tool = r]
        IN  Done(IF r = "bad" THEN FailGoal(state) ELSE Mark(state, "completed"))
  BY DEF RunToolConvergence
<1> DEFINE state == [mmem EXCEPT !.due = due, !.tool = r]
<1>3. r \in Records /\ due \in SUBSET {"primary", "tool", "golden"}
  BY <1>1, MissionAssumption DEF State, Records
<1>4. Done(IF r = "bad" THEN FailGoal(state) ELSE Mark(state, "completed"))
  BY <1>2
<1> HIDE DEF due
<1>5. state \in State
  BY <1>1, <1>3 DEF State
<1>6. /\ state.goals = mmem.goals /\ state.cycles = mmem.cycles /\ state.replans = mmem.replans
      /\ state.status = mmem.status
  BY <1>1 DEF State
<1> HIDE DEF state
<1>7. Follows(state) /\ Follows(FailGoal(state))
  BY <1>1, <1>5, <1>6, SameFollows, FailFollows
<1>8. "completed" \in GoalStatus
  BY DEF GoalStatus, Finished
<1>9. QED
  BY <1>1, <1>4, <1>7, <1>8, ResultEnds

LEMMA GoldenEnds ==
  ASSUME MissionInv, RunGoldenComparison
  PROVE  MissionInv' /\ FinishedStays
<1>1. mmem \in State /\ mpc = "executing" /\ ExecFrame /\ mstep.goal # 0
  BY DEF MissionInv, MissionTypeOK, RunGoldenComparison, Executing, StepInv
<1> DEFINE due == mmem.due \cup {"golden"}
           Softly(s) == Mark([s EXCEPT !.soft = Append(@, Goal.kind)], "soft_failed")
<1>2. PICK r \in Outcomes \ {"none"} :
        LET state == [mmem EXCEPT !.due = due, !.golden = r]
        IN  Done(IF r = "bad" THEN Softly(state) ELSE Mark(state, "completed"))
  BY DEF RunGoldenComparison
<1> DEFINE state == [mmem EXCEPT !.due = due, !.golden = r]
<1>3. r \in Records /\ due \in SUBSET {"primary", "tool", "golden"}
  BY <1>1, MissionAssumption DEF State, Records
<1>4. Done(IF r = "bad" THEN Softly(state) ELSE Mark(state, "completed"))
  BY <1>2
<1> HIDE DEF due
<1>5. state \in State
  BY <1>1, <1>3 DEF State
<1>6. /\ state.goals = mmem.goals /\ state.cycles = mmem.cycles /\ state.replans = mmem.replans
      /\ state.status = mmem.status
  BY <1>1 DEF State
<1> HIDE DEF state
<1>7. Follows(state) /\ Follows(Softly(state))
  BY <1>1, <1>5, <1>6, SameFollows, SoftFollows
<1>8. "completed" \in GoalStatus
  BY DEF GoalStatus, Finished
<1> HIDE DEF Softly
<1>9. QED
  BY <1>1, <1>4, <1>7, <1>8, ResultEnds

LEMMA BenchmarkEnds ==
  ASSUME MissionInv, RunPhysicalBenchmark
  PROVE  MissionInv' /\ FinishedStays
<1>1. mmem \in State /\ mpc = "executing" /\ ExecFrame
  BY DEF MissionInv, MissionTypeOK, RunPhysicalBenchmark, Executing
<1>2. PICK b \in {"unsupported", "passed", "bad"} :
        LET state == [mmem EXCEPT !.bench = b]
        IN  Done(IF b = "bad" THEN FailGoal(state) ELSE Mark(state, "completed"))
  BY DEF RunPhysicalBenchmark
<1> DEFINE state == [mmem EXCEPT !.bench = b]
<1>3. b \in {"none", "unsupported", "passed", "bad"}
  OBVIOUS
<1>4. Done(IF b = "bad" THEN FailGoal(state) ELSE Mark(state, "completed"))
  BY <1>2
<1>5. state \in State
  BY <1>1, <1>3 DEF State
<1>6. /\ state.goals = mmem.goals /\ state.cycles = mmem.cycles /\ state.replans = mmem.replans
      /\ state.status = mmem.status
  BY <1>1 DEF State
<1> HIDE DEF state
<1>7. Follows(state) /\ Follows(FailGoal(state))
  BY <1>1, <1>5, <1>6, SameFollows, FailFollows
<1>8. "completed" \in GoalStatus
  BY DEF GoalStatus, Finished
<1>9. QED
  BY <1>1, <1>4, <1>7, <1>8, ResultEnds

LEMMA RepairPlanEnds ==
  ASSUME MissionInv, GenerateRepairPlan
  PROVE  MissionInv' /\ FinishedStays
<1>1. mmem \in State /\ mpc = "executing" /\ ExecFrame
  BY DEF MissionInv, MissionTypeOK, GenerateRepairPlan, Executing
<1>2. PICK c \in BOOLEAN : Done(Mark([mmem EXCEPT !.planned = TRUE, !.confirm = c], "running"))
  BY DEF GenerateRepairPlan
<1> DEFINE state == [mmem EXCEPT !.planned = TRUE, !.confirm = c]
<1>3. TRUE \in BOOLEAN /\ c \in BOOLEAN
  BY Zenon
<1>5. state \in State
  BY <1>1, <1>3 DEF State
<1>6. /\ state.goals = mmem.goals /\ state.cycles = mmem.cycles /\ state.replans = mmem.replans
      /\ state.status = mmem.status
  BY <1>1 DEF State
<1>7. Done(Mark(state, "running"))
  BY <1>2
<1> HIDE DEF state
<1>8. "running" \in GoalStatus
  BY DEF GoalStatus
<1>9. Follows(Mark(state, "running"))
  BY <1>1, <1>5, <1>6, <1>8, SameFollows, MarkFollows
<1>10. QED
  BY <1>1, <1>7, <1>9, DoneEnds

LEMMA ExecutorEnds ==
  ASSUME MissionInv, ExecuteRepair
  PROVE  MissionInv' /\ FinishedStays
<1>1. mmem \in State /\ mpc = "executing" /\ ExecFrame
  BY DEF MissionInv, MissionTypeOK, ExecuteRepair, Executing
<1>2. PICK how \in {"completed", "failed", "waiting_for_user"} :
         LET state == [mmem EXCEPT !.repair = how, !.repaired = TRUE, !.confirm = @ \/ how = "waiting_for_user"]
         IN  Done(IF how = "failed" THEN FailGoal(state) ELSE Mark(state, how))
  BY DEF ExecuteRepair
<1> DEFINE confirm == mmem.confirm \/ how = "waiting_for_user"
           state == [mmem EXCEPT !.repair = how, !.repaired = TRUE, !.confirm = confirm]
<1>3. TRUE \in BOOLEAN /\ confirm \in BOOLEAN
  BY Zenon
<1>4. Done(IF how = "failed" THEN FailGoal(state) ELSE Mark(state, how))
  BY <1>2
<1> HIDE DEF confirm
<1>5. state \in State
  BY <1>1, <1>3 DEF State
<1>6. /\ state.goals = mmem.goals /\ state.cycles = mmem.cycles /\ state.replans = mmem.replans
      /\ state.status = mmem.status
  BY <1>1 DEF State
<1> HIDE DEF state
<1>7. Follows(state) /\ Follows(FailGoal(state))
  BY <1>1, <1>5, <1>6, SameFollows, FailFollows
<1>8. how \in GoalStatus
  BY <1>1, <1>4 DEF GoalStatus, Finished, Blocked
<1>9. CASE how = "failed"
  BY <1>1, <1>4, <1>7, <1>8, <1>9, DoneEnds
<1>10. CASE how # "failed"
  <2>1. Follows(Mark(state, how))
    BY <1>1, <1>7, <1>8, MarkFollows
  <2>2. QED
    BY <1>1, <1>4, <1>8, <1>10, <2>1, DoneEnds
<1>11. QED
  BY <1>9, <1>10

LEMMA ConclusionEnds ==
  ASSUME MissionInv, GenerateConclusion
  PROVE  MissionInv' /\ FinishedStays
<1>1. mmem \in State /\ mpc = "executing" /\ ExecFrame
  BY DEF MissionInv, MissionTypeOK, GenerateConclusion, Executing
<1>2. PICK written \in BOOLEAN : Done(Mark([mmem EXCEPT !.conclusion = written], "completed"))
  BY DEF GenerateConclusion
<1> DEFINE state == [mmem EXCEPT !.conclusion = written]
<1>3. written \in BOOLEAN
  BY Zenon
<1>5. state \in State
  BY <1>1, <1>3 DEF State
<1>6. /\ state.goals = mmem.goals /\ state.cycles = mmem.cycles /\ state.replans = mmem.replans
      /\ state.status = mmem.status
  BY <1>1 DEF State
<1>7. Done(Mark(state, "completed"))
  BY <1>2
<1> HIDE DEF state
<1>8. "completed" \in GoalStatus
  BY DEF GoalStatus, Finished
<1>9. Follows(Mark(state, "completed"))
  BY <1>1, <1>5, <1>6, <1>8, SameFollows, MarkFollows
<1>10. QED
  BY <1>1, <1>7, <1>9, DoneEnds

LEMMA StatusFollows ==
  ASSUME MissionInv, mpc = "executing", NEW state, Follows(state),
         NEW status \in {"running", "waiting_for_user", "failed"}
  PROVE  Follows([state EXCEPT !.status = status])
<1> DEFINE new == [state EXCEPT !.status = status]
<1>1. new \in State
  BY DEF Follows, State
<1>2. new.goals = state.goals /\ new.cycles = state.cycles /\ new.replans = state.replans /\ new.status = status
  BY DEF Follows, State
<1> HIDE DEF new
<1>3. Follows(new)
  BY <1>1, <1>2 DEF Follows, KeepsFinished
<1>4. QED
  BY <1>3 DEF new

LEMMA AskEnds ==
  ASSUME MissionInv, AskUser
  PROVE  MissionInv' /\ FinishedStays
<1>1. mmem \in State /\ mpc = "executing" /\ ExecFrame
  BY DEF MissionInv, MissionTypeOK, AskUser, Executing
<1> DEFINE state == [mmem EXCEPT !.status = "waiting_for_user"]
<1>2. Follows(state)
  BY <1>1, MemFollows, StatusFollows
<1>3. Done(Mark(state, "waiting_for_user"))
  BY DEF AskUser
<1> HIDE DEF state
<1>4. "waiting_for_user" \in GoalStatus
  BY DEF GoalStatus, Blocked
<1>5. Follows(Mark(state, "waiting_for_user"))
  BY <1>1, <1>2, <1>4, MarkFollows
<1>6. QED
  BY <1>1, <1>3, <1>5, DoneEnds

LEMMA RaiseEnds ==
  ASSUME MissionInv, Raise
  PROVE  MissionInv' /\ FinishedStays
<1>1. mmem \in State /\ mpc = "executing" /\ ExecFrame /\ mpc' = "saving" /\ mstep.kind \in StepKinds
  BY DEF MissionInv, MissionTypeOK, Raise
<1> DEFINE state == [mmem EXCEPT !.error = mstep.kind]
<1>2. mmem' = FailGoal(IF Stops /\ mmem.replans >= MaxReplans THEN [state EXCEPT !.status = "failed"]
                       ELSE IF Stops THEN [state EXCEPT !.status = "running"] ELSE state)
  BY DEF Raise
<1>3. state \in State
  BY <1>1 DEF State
<1>4. /\ state.goals = mmem.goals /\ state.cycles = mmem.cycles /\ state.replans = mmem.replans
      /\ state.status = mmem.status
  BY <1>1 DEF State
<1> HIDE DEF state
<1>5. Follows(state)
  BY <1>1, <1>3, <1>4, SameFollows
<1>6. Follows([state EXCEPT !.status = "failed"]) /\ Follows([state EXCEPT !.status = "running"])
  BY <1>1, <1>5, StatusFollows
<1>7. Follows(mmem')
  BY <1>1, <1>2, <1>5, <1>6, FailFollows
<1>8. QED
  BY <1>1, <1>7, StepEnds

LEMMA SignatureIsTyped ==
  ASSUME NEW state \in State
  PROVE  IssueSignature(state) \in Signature
<1>1. Len(state.soft) \in Nat /\ state.error \in StepKinds \cup {"none"}
  BY DEF State
<1>2. NoSignature \in Signature
  BY DEF NoSignature, Signature
<1>3. QED
  BY <1>1, <1>2 DEF IssueSignature, Signature

LEMMA ReplanEnds ==
  ASSUME MissionInv, Replan
  PROVE  MissionInv' /\ FinishedStays
<1>1. /\ mmem \in State /\ mpc = "executing" /\ ExecFrame /\ mmem.replans < MaxReplans
      /\ mmem.status # "absent"
  BY DEF MissionInv, MissionTypeOK, Replan, Executing, StepInv
<1>2. PICK patch : LET state == Patched(patch)
                       sig == IssueSignature(state)
                   IN  /\ state.plan \in Seq(GoalStep)
                       /\ Done([state EXCEPT !.replans = @ + 1, !.signature = IF sig = NoSignature THEN @ ELSE sig])
  BY DEF Replan
<1> DEFINE goals == [i \in 1 .. MaxIndex |->
                       IF i \in patch.skip THEN "skipped" ELSE IF i \in patch.soft THEN "soft_failed" ELSE mmem.goals[i]]
           marked == [mmem EXCEPT !.goals = goals]
           plan == mmem.plan \o Appended(marked, patch.append)
           patched == [marked EXCEPT !.plan = plan]
<1>3. goals \in [1 .. MaxIndex -> GoalStatus] /\ \A i \in 1 .. MaxIndex : mmem.goals[i] \in Finished => goals[i] \in Finished
  BY <1>1 DEF State, GoalStatus, Finished
<1> HIDE DEF goals
<1>4. marked \in State
  BY <1>1, <1>3 DEF State
<1>5. /\ marked.goals = goals /\ marked.plan = mmem.plan /\ marked.cycles = mmem.cycles
      /\ marked.replans = mmem.replans /\ marked.status = mmem.status
  BY <1>1 DEF State
<1>6. Patched(patch) = patched
  BY <1>5 DEF Patched, goals
<1> HIDE DEF marked, plan
<1>7. patched.plan = plan
  BY <1>4 DEF State
<1>8. plan \in Seq(GoalStep)
  BY <1>2, <1>6, <1>7
<1>9. patched \in State
  BY <1>4, <1>8 DEF State
<1>10. /\ patched.goals = marked.goals /\ patched.cycles = marked.cycles /\ patched.replans = marked.replans
       /\ patched.status = marked.status
  BY <1>4 DEF State
<1> HIDE DEF patched
<1> DEFINE sig == IssueSignature(patched)
           signature == IF sig = NoSignature THEN patched.signature ELSE sig
           replans == patched.replans + 1
           state == [patched EXCEPT !.replans = replans, !.signature = signature]
<1>11. signature \in Signature
  <2>1. sig \in Signature
    BY <1>9, SignatureIsTyped
  <2> HIDE DEF sig
  <2>2. QED
    BY <1>9, <2>1 DEF State
<1>12. replans \in Nat /\ replans <= MaxReplans
  BY <1>1, <1>5, <1>10, MissionAssumption DEF State
<1>13. Done(state)
  BY <1>2, <1>6
<1> HIDE DEF replans, signature
<1>14. state \in State
  BY <1>9, <1>11, <1>12 DEF State
<1>15. state.goals = patched.goals /\ state.cycles = patched.cycles /\ state.replans = replans /\ state.status = patched.status
  BY <1>9 DEF State
<1> HIDE DEF state
<1>16. Follows(state)
  BY <1>1, <1>3, <1>5, <1>10, <1>12, <1>14, <1>15 DEF Follows, KeepsFinished
<1>17. QED
  BY <1>1, <1>13, <1>16, DoneEnds

\* Whatever a step comes to, it takes back nothing that is finished.
LEMMA ExecuteKeeps == MissionInv /\ Execute => MissionInv' /\ FinishedStays
BY RebuildEnds, QueryEnds, SupervisorEnds, ConvergenceEnds, GoldenEnds, BenchmarkEnds, ReplanEnds, RepairPlanEnds,
   ExecutorEnds, ConclusionEnds, AskEnds, RaiseEnds DEF Execute

\* choose_next_step: a step for a ready goal step has evidence of its own, and
\* runs a repair only when its plan waits for nobody.
SoundStep(step) ==
    /\ step \in [kind: StepKinds, goal: 0 .. MaxIndex, target: Targets]
    /\ "primary" \in mmem.due => step.target # "history"
    /\ step.target = "named" => \E n \in DOMAIN mmem.plan : mmem.plan[n].index = step.goal /\ mmem.plan[n].named
    /\ step.kind = "run_repair_executor" => ~mmem.confirm
    /\ step.goal # 0 => /\ \E n \in DOMAIN mmem.plan : mmem.plan[n].index = step.goal
                        /\ mmem.goals[step.goal] \notin Finished
    /\ step.goal = 0 => step.kind \in {"rebuild_index", "agent_replan", "ask_user", "noop"}
    /\ step.kind = "agent_replan" => mmem.replans < MaxReplans

LEMMA EvidenceIsOwn ==
  /\ Evidence \in Targets /\ RepairTarget \in Targets /\ Target \in Targets
  /\ "primary" \in mmem.due => Evidence # "history" /\ RepairTarget # "history" /\ Target # "history"
  /\ Evidence # "named" /\ RepairTarget # "named" /\ Target # "named"
BY DEF Evidence, RepairTarget, Target, Targets

LEMMA StepForIsSound ==
  ASSUME MissionInv, NEW n \in DOMAIN mmem.plan, mmem.goals[mmem.plan[n].index] \notin Finished
  PROVE  SoundStep(StepFor(mmem.plan[n]))
<1> DEFINE step == mmem.plan[n]
<1>1. step \in GoalStep
  BY DEF MissionInv, MissionTypeOK, State
<1>2. step.index \in 1 .. MaxIndex /\ step.kind \in GoalKinds
  BY <1>1 DEF GoalStep
<1>3. step.index \in 0 .. MaxIndex /\ step.index # 0
  BY <1>2, MissionAssumption
<1>4. \A kind \in StepKinds, target \in Targets :
        /\ "primary" \in mmem.due => target # "history"
        /\ target = "named" => step.named
        /\ kind = "run_repair_executor" => ~mmem.confirm
        /\ kind # "agent_replan"
        => SoundStep(For(step, kind, target))
  BY <1>3 DEF SoundStep, For
<1>5. \E i \in DOMAIN mmem.plan : mmem.plan[i].index = step.index
  OBVIOUS
<1> HIDE DEF step
<1>6. /\ {"ask_user", "skip_goal_step", "generate_repair_plan", "run_repair_executor"} \subseteq StepKinds
      /\ step.kind \in StepKinds /\ step.kind # "agent_replan" /\ {"none", "primary", "named"} \subseteq Targets
  BY <1>2 DEF StepKinds, GoalKinds, Targets
<1>7. SoundStep(AskFor(step)) /\ SoundStep(For(step, "skip_goal_step", "none"))
  BY <1>4, <1>6 DEF AskFor
<1>8. step.kind # "run_repair_executor" => SoundStep(For(step, step.kind, "none")) /\ SoundStep(For(step, step.kind, "primary"))
  BY <1>4, <1>6
<1>9. step.kind # "run_repair_executor" =>
        SoundStep(For(step, step.kind, IF step.named THEN "named" ELSE Target))
  BY <1>4, <1>6, EvidenceIsOwn
<1>10. SoundStep(For(step, "generate_repair_plan", RepairTarget))
  BY <1>4, <1>6, EvidenceIsOwn
<1>11. ~mmem.confirm => SoundStep(For(step, "run_repair_executor", RepairTarget))
  BY <1>4, <1>6, EvidenceIsOwn
<1>12. SoundStep(RepairStep(step))
  BY <1>7, <1>10, <1>11 DEF RepairStep
<1>13. step.kind = "run_tool_convergence" => SoundStep(ConvergenceStep(step))
  BY <1>7, <1>8 DEF ConvergenceStep
<1>14. SoundStep(StepFor(step))
  BY <1>7, <1>8, <1>9, <1>12, <1>13 DEF StepFor
<1>15. QED
  BY <1>14 DEF step

LEMMA NextStepIsSound == MissionInv => SoundStep(NextStep)
<1> SUFFICES ASSUME MissionInv
             PROVE  SoundStep(NextStep)
  OBVIOUS
<1>1. 0 \in 0 .. MaxIndex /\ "none" \in Targets
  BY MissionAssumption DEF Targets
<1>2. \A kind \in {"rebuild_index", "ask_user", "noop"} : SoundStep(Infrastructure(kind))
  BY <1>1 DEF SoundStep, Infrastructure, StepKinds, GoalKinds
<1>3. ShouldReplan(mmem) => SoundStep(Infrastructure("agent_replan"))
  BY <1>1 DEF SoundStep, Infrastructure, StepKinds, ShouldReplan
<1>4. Ready # {} => SoundStep(StepFor(mmem.plan[Min(Ready)]))
  <2> SUFFICES ASSUME Ready # {}
               PROVE  SoundStep(StepFor(mmem.plan[Min(Ready)]))
    OBVIOUS
  <2>1. mmem.plan \in Seq(GoalStep)
    BY DEF MissionInv, MissionTypeOK, State
  <2>2. Ready \in SUBSET Nat
    BY <2>1 DEF Ready
  <2>3. Min(Ready) \in Ready
    BY <2>2, MinIsIn
  <2>4. QED
    BY <2>3, StepForIsSound DEF Ready
<1>5. QED
  BY <1>2, <1>3, <1>4 DEF NextStep

\* A call that begins: with the state that the last one left, or a fresh one.
LEMMA MCallKeeps ==
  ASSUME MissionInv, NEW exec \in BOOLEAN, NEW resume, MCall(exec, resume)
  PROVE  MissionInv' /\ FinishedStays
<1>1. /\ mfile \in State /\ mfile.replans <= MaxReplans /\ mfile.cycles <= MaxCycles
      /\ mcalls' \in 0 .. MaxCalls /\ mexec' \in BOOLEAN
  <2>1. mexec' \in BOOLEAN
    BY Zenon DEF MCall
  <2>2. QED
    BY <2>1, MissionAssumption DEF MissionInv, MissionTypeOK, MCall
<1> DEFINE status == IF exec THEN "running" ELSE "planned"
           resumed == [mfile EXCEPT !.status = status]
<1>2. status \in {"running", "planned"}
  OBVIOUS
<1>3. Resumed(exec) = resumed
  BY DEF Resumed
<1> HIDE DEF status
<1>4. resumed \in State
  BY <1>1, <1>2 DEF State
<1>5. /\ resumed.goals = mfile.goals /\ resumed.cycles = mfile.cycles /\ resumed.replans = mfile.replans
      /\ resumed.status = status
  BY <1>1 DEF State
<1> HIDE DEF resumed
<1>6. /\ mmem' = mfile' /\ mfile' \in State /\ mfile'.replans <= MaxReplans /\ mfile'.cycles <= MaxCycles
      /\ mfile'.status # "absent" /\ mpc' \in {"decomposing", "choosing"}
      /\ mpc' # "decomposing" =>
           \A i \in 1 .. MaxIndex : mfile.goals[i] \in Finished => mfile'.goals[i] \in Finished
  <2>1. CASE ~(resume /\ mfile.status # "absent")
    <3>1. mmem' = Fresh(exec) /\ mfile' = Fresh(exec) /\ mpc' = "decomposing"
      BY <2>1 DEF MCall, MSave
    <3>2. QED
      BY <3>1, FreshMission, MissionAssumption
  <2>2. CASE resume /\ mfile.status # "absent"
    <3>1. mmem' = resumed /\ mfile' = resumed /\ mpc' = "choosing"
      BY <1>3, <2>2 DEF MCall, MSave
    <3>2. QED
      BY <1>1, <1>2, <1>4, <1>5, <3>1
  <2>3. QED
    BY <2>1, <2>2
<1>9. mstep' \in [kind: StepKinds, goal: 0 .. MaxIndex, target: Targets]
  BY MissionAssumption DEF MCall, NoStep, StepKinds, Targets
<1>7. MissionTypeOK'
  BY <1>1, <1>6, <1>9 DEF MCall, MissionInv, MissionTypeOK
<1>8. QED
  BY <1>6, <1>7 DEF MissionInv, NoBorrowedEvidence, RepairIsConfirmed, FinishedStays, KeepsFinished

\* A step that saves its state, outside the execution of a step.
LEMMA SaveKeepsMission ==
  ASSUME MissionInv, mpc # "idle", NEW state \in State, MSave(state), KeepsFinished(mmem, state), state.status # "absent",
         state.replans <= MaxReplans, state.cycles <= MaxCycles, mpc' \in {"idle", "choosing"},
         UNCHANGED <<mexec, mcalls, mcrashes>>, mstep' \in [kind: StepKinds, goal: 0 .. MaxIndex, target: Targets]
  PROVE  MissionInv' /\ FinishedStays
<1>1. mmem' = state /\ mfile' = state
  BY DEF MSave
<1>2. MissionTypeOK'
  BY <1>1 DEF MissionInv, MissionTypeOK
<1>3. \A i \in 1 .. MaxIndex : mfile.goals[i] \in Finished => state.goals[i] \in Finished
  BY DEF MissionInv, KeepsFinished
<1>4. QED
  BY <1>1, <1>2, <1>3 DEF MissionInv, NoBorrowedEvidence, RepairIsConfirmed, FinishedStays, KeepsFinished

LEMMA DecomposeKeeps ==
  ASSUME MissionInv, Decompose
  PROVE  MissionInv' /\ FinishedStays
<1>1. /\ mmem \in State /\ mmem.status # "absent" /\ mmem.replans <= MaxReplans /\ mmem.cycles <= MaxCycles
      /\ mpc # "idle" /\ mpc' = "choosing" /\ UNCHANGED <<mexec, mstep, mcalls, mcrashes>>
      /\ mstep \in [kind: StepKinds, goal: 0 .. MaxIndex, target: Targets]
  BY DEF MissionInv, MissionTypeOK, Decompose
<1>2. ASSUME NEW plan \in ModelPlans \cup {Baseline(g) : g \in Goals},
             MSave([mmem EXCEPT !.decomposed = "completed", !.plan = plan])
      PROVE  MissionInv' /\ FinishedStays
  <2> DEFINE state == [mmem EXCEPT !.decomposed = "completed", !.plan = plan]
  <2>1. plan \in Seq(GoalStep)
    BY BaselineIsPlan, MissionAssumption
  <2>2. state \in State
    BY <1>1, <2>1 DEF State
  <2>3. /\ state.goals = mmem.goals /\ state.cycles = mmem.cycles /\ state.replans = mmem.replans
        /\ state.status = mmem.status
    BY <1>1 DEF State
  <2>4. MSave(state)
    BY <1>2
  <2> HIDE DEF state
  <2>5. KeepsFinished(mmem, state)
    BY <2>3 DEF KeepsFinished
  <2>6. QED
    BY <1>1, <2>2, <2>3, <2>4, <2>5, SaveKeepsMission
<1>3. CASE MSave([mmem EXCEPT !.decomposed = "failed", !.status = "failed"])
  <2> DEFINE state == [mmem EXCEPT !.decomposed = "failed", !.status = "failed"]
  <2>2. state \in State
    BY <1>1 DEF State
  <2>3. /\ state.goals = mmem.goals /\ state.cycles = mmem.cycles /\ state.replans = mmem.replans
        /\ state.status = "failed"
    BY <1>1 DEF State
  <2>4. MSave(state)
    BY <1>3
  <2> HIDE DEF state
  <2>5. KeepsFinished(mmem, state)
    BY <2>3 DEF KeepsFinished
  <2>6. QED
    BY <1>1, <2>2, <2>3, <2>4, <2>5, SaveKeepsMission
<1>4. QED
  BY <1>2, <1>3 DEF Decompose

LEMMA ChooseKeepsMission ==
  ASSUME MissionInv, Choose
  PROVE  MissionInv' /\ FinishedStays
<1>1. /\ mmem \in State /\ mmem.status # "absent" /\ mmem.replans <= MaxReplans /\ mmem.cycles < MaxCycles
      /\ mmem.cycles <= MaxCycles /\ mpc # "idle" /\ UNCHANGED <<mexec, mcalls, mcrashes>> /\ mstep' = NextStep
  BY DEF MissionInv, MissionTypeOK, Choose, CycleLeft
<1>2. SoundStep(mstep')
  BY <1>1, NextStepIsSound
<1>3. mstep' \in [kind: StepKinds, goal: 0 .. MaxIndex, target: Targets]
  BY <1>2 DEF SoundStep
<1>4. CASE mexec
  <2>1. mmem' = mmem /\ mfile' = mmem /\ mpc' = "executing"
    BY <1>4 DEF Choose, MSave
  <2>2. MissionTypeOK'
    BY <1>1, <1>3, <2>1 DEF MissionInv, MissionTypeOK
  <2>3. NoBorrowedEvidence' /\ RepairIsConfirmed' /\ StepInv'
    BY <1>2, <2>1 DEF SoundStep, StepInv, NoBorrowedEvidence, RepairIsConfirmed
  <2>4. KeepsFinished(mfile, mmem)' /\ FinishedStays
    BY <2>1 DEF MissionInv, KeepsFinished, FinishedStays, Choose
  <2>5. QED
    BY <1>1, <2>1, <2>2, <2>3, <2>4 DEF MissionInv
<1>5. CASE ~mexec
  <2> DEFINE state == [mmem EXCEPT !.status = "planned"]
  <2>1. MSave(state) /\ mpc' = "idle"
    BY <1>5 DEF Choose
  <2>2. state \in State
    BY <1>1 DEF State
  <2>3. /\ state.goals = mmem.goals /\ state.cycles = mmem.cycles /\ state.replans = mmem.replans
        /\ state.status = "planned"
    BY <1>1 DEF State
  <2> HIDE DEF state
  <2>4. KeepsFinished(mmem, state)
    BY <2>3 DEF KeepsFinished
  <2>5. QED
    BY <1>1, <1>3, <2>1, <2>2, <2>3, <2>4, SaveKeepsMission
<1>6. QED
  BY <1>4, <1>5

LEMMA DecisionIsTyped == Decision \in {"none", "ask_user", "finish", "replan", "continue", "continue_with_risk", "repair_or_verify"}
BY DEF Decision, Policy

LEMMA SaveCycleKeeps ==
  ASSUME MissionInv, SaveCycle
  PROVE  MissionInv' /\ FinishedStays
<1>1. /\ mmem \in State /\ mmem.status # "absent" /\ mmem.replans <= MaxReplans /\ mmem.cycles < MaxCycles
      /\ mpc # "idle" /\ UNCHANGED <<mexec, mstep, mcalls, mcrashes>>
      /\ mstep \in [kind: StepKinds, goal: 0 .. MaxIndex, target: Targets]
  BY DEF MissionInv, MissionTypeOK, SaveCycle
<1> DEFINE cycles == IF mstep.kind = "ask_user" THEN mmem.cycles ELSE mmem.cycles + 1
           state == [mmem EXCEPT !.cycles = cycles, !.decision = Decision]
           over == [state EXCEPT !.status = "completed"]
<1>2. cycles \in Nat /\ cycles <= MaxCycles
  BY <1>1, MissionAssumption DEF State
<1>3. (MSave(over) /\ mpc' = "idle") \/ (MSave(state) /\ mpc' = "choosing")
  BY DEF SaveCycle
<1> HIDE DEF cycles
<1>4. state \in State
  BY <1>1, <1>2, DecisionIsTyped DEF State
<1>5. state.goals = mmem.goals /\ state.cycles = cycles /\ state.replans = mmem.replans /\ state.status = mmem.status
  BY <1>1 DEF State
<1> HIDE DEF state
<1>6. over \in State
  BY <1>4 DEF State
<1>7. over.goals = state.goals /\ over.cycles = cycles /\ over.replans = state.replans /\ over.status = "completed"
  BY <1>4, <1>5 DEF State
<1> HIDE DEF over
<1>8. KeepsFinished(mmem, state) /\ KeepsFinished(mmem, over)
  BY <1>5, <1>7 DEF KeepsFinished
<1>9. CASE MSave(over) /\ mpc' = "idle"
  BY <1>1, <1>2, <1>5, <1>6, <1>7, <1>8, <1>9, SaveKeepsMission
<1>10. CASE MSave(state) /\ mpc' = "choosing"
  BY <1>1, <1>2, <1>4, <1>5, <1>8, <1>10, SaveKeepsMission
<1>11. QED
  BY <1>3, <1>9, <1>10

LEMMA LeaveKeeps ==
  ASSUME MissionInv, Leave
  PROVE  MissionInv' /\ FinishedStays
<1>1. /\ mmem \in State /\ mmem.status # "absent" /\ mmem.replans <= MaxReplans /\ mmem.cycles <= MaxCycles
      /\ mpc # "idle" /\ mpc' = "idle" /\ UNCHANGED <<mexec, mstep, mcalls, mcrashes>>
      /\ mstep \in [kind: StepKinds, goal: 0 .. MaxIndex, target: Targets]
  BY DEF MissionInv, MissionTypeOK, Leave
<1> DEFINE over == [mmem EXCEPT !.status = "completed"]
<1>2. MSave(over) \/ MSave(mmem)
  BY DEF Leave
<1>3. over \in State
  BY <1>1 DEF State
<1>4. over.goals = mmem.goals /\ over.cycles = mmem.cycles /\ over.replans = mmem.replans /\ over.status = "completed"
  BY <1>1 DEF State
<1> HIDE DEF over
<1>5. KeepsFinished(mmem, mmem) /\ KeepsFinished(mmem, over)
  BY <1>4 DEF KeepsFinished
<1>6. CASE MSave(over)
  BY <1>1, <1>3, <1>4, <1>5, <1>6, SaveKeepsMission
<1>7. CASE MSave(mmem)
  BY <1>1, <1>5, <1>7, SaveKeepsMission
<1>8. QED
  BY <1>2, <1>6, <1>7

LEMMA MissionInductive == MissionInv /\ [MissionNext]_mvars => MissionInv' /\ FinishedStays
<1> SUFFICES ASSUME MissionInv, [MissionNext]_mvars
             PROVE  MissionInv' /\ FinishedStays
  OBVIOUS
<1>1. CASE MWork
  BY <1>1, ExecuteKeeps, DecomposeKeeps, ChooseKeepsMission, SaveCycleKeeps, LeaveKeeps DEF MWork
<1>2. CASE \E e \in Modes, resume \in BOOLEAN : MCall(e, resume)
  BY <1>2, MCallKeeps, MissionAssumption
<1>3. CASE MCrash
  <2>1. MissionTypeOK'
    BY <1>3, MissionAssumption DEF MCrash, MissionInv, MissionTypeOK
  <2>2. QED
    BY <1>3, <2>1 DEF MCrash, MissionInv, NoBorrowedEvidence, RepairIsConfirmed, FinishedStays
<1>4. CASE UNCHANGED mvars
  <2>1. MissionTypeOK' /\ NoBorrowedEvidence' /\ RepairIsConfirmed'
    BY <1>4 DEF mvars, MissionInv, MissionTypeOK, NoBorrowedEvidence, RepairIsConfirmed
  <2>2. StepInv' <=> StepInv
    BY <1>4 DEF mvars, StepInv
  <2>3. QED
    BY <1>4, <2>1, <2>2 DEF mvars, MissionInv, FinishedStays, KeepsFinished
<1>5. QED
  BY <1>1, <1>2, <1>3, <1>4 DEF MissionNext

LEMMA MissionImplied == MissionInv => MissionInvariant
BY DEF MissionInv, MissionInvariant, ReplansWithinBudget, CyclesWithinMax

\* Over all its calls and deaths a mission keeps to its budgets of cycles and of
\* replans, takes no result of another one from the index once its own supervisor has
\* run, works on a file it did not choose itself only where its plan names one, and
\* executes no repair whose plan waits for the user.
THEOREM MissionKeepsToItself == MissionSpec => []MissionInvariant
  BY MissionInitially, MissionInductive, MissionImplied, PTL DEF MissionSpec

\* What a mission has recorded as finished stays so, through replans that skip
\* and append steps, resumed calls and deaths, until a call starts it over.
THEOREM FinishedIsKept == MissionSpec => [][FinishedStays]_mvars
  BY MissionInitially, MissionInductive, PTL DEF MissionSpec

-----------------------------------------------------------------------------
(***************************************************************************)
(* All that plans and records runs together: the subject of a behaviour    *)
(* moves and keeps its own invariant, and what the others keep stays.      *)
(* Around the index alone the supervisor is never called.                  *)
(***************************************************************************)
NeverCalled ==
    /\ asksModel \in Models /\ goal \in SupervisorGoals /\ sfile = NoState /\ smem = NoState /\ spc = "idle"
    /\ execute = FALSE /\ sret = "none" /\ ran = 0 /\ unsaved = 0 /\ scalls = 0 /\ crashes = 0

PlannersInv ==
    /\ MissionInv /\ RepairInv
    /\ IF subject = "index" THEN IndexInv /\ NeverCalled ELSE SupervisorInv

LEMMA PlannersInitially == PlannersInit => PlannersInv
BY MissionInitially, RepairInitially, SupervisorInitially, IndexInitially
DEF PlannersInit, SupervisorInit, PlannersInv, NeverCalled

\* A step of the subject is a step or a stutter of every component.
LEMMA StepOfAll ==
  ASSUME [PlannersNext]_everything
  PROVE  /\ [MissionNext]_mvars /\ [RepairNext]_xvars /\ subject' = subject
         /\ subject = "index" => [IndexNext]_ixvars /\ UNCHANGED svars
         /\ subject # "index" => [SupervisorNext]_<<ixvars, svars>>
BY DEF PlannersNext, Is, everything

LEMMA IndexStutters == IndexInv /\ UNCHANGED ixvars => NeverOlder
<1> SUFFICES ASSUME IndexInv, UNCHANGED ixvars
             PROVE  NeverOlder
  OBVIOUS
<1>1. \A p \in Paths : rows[p] \in Nat
  BY DEF IndexInv, IndexTypeOK, Versions
<1>2. QED
  BY <1>1 DEF NeverOlder, ixvars

LEMMA PlannersInductive ==
  ASSUME PlannersInv, [PlannersNext]_everything
  PROVE  PlannersInv' /\ NeverOlder /\ FinishedStays /\ NoRepeatWhileUntried
<1>1. MissionInv' /\ FinishedStays /\ RepairInv' /\ NoRepeatWhileUntried
  BY StepOfAll, MissionInductive, RepairInductive DEF PlannersInv
<1>2. CASE subject = "index"
  <2>1. IndexInv /\ NeverCalled /\ [IndexNext]_ixvars /\ UNCHANGED svars /\ subject' = "index"
    BY <1>2, StepOfAll DEF PlannersInv
  <2>2. IndexInv' /\ NeverOlder
    BY <2>1, IndexInductive, RowsGoOn
  <2>3. NeverCalled'
    BY <2>1 DEF NeverCalled, svars
  <2>4. QED
    BY <1>1, <2>1, <2>2, <2>3 DEF PlannersInv
<1>3. CASE subject # "index"
  <2>1. SupervisorInv /\ [SupervisorNext]_<<ixvars, svars>> /\ subject' # "index"
    BY <1>3, StepOfAll DEF PlannersInv
  <2>2. SupervisorInv' /\ NeverOlder
    BY <2>1, SupervisorInductive, SupervisorRowsGoOn
  <2>3. QED
    BY <1>1, <2>1, <2>2 DEF PlannersInv
<1>4. QED
  BY <1>2, <1>3

LEMMA PlannersImplied == PlannersInv => SupervisorInvariant /\ RepairInvariant /\ MissionInvariant
<1> SUFFICES ASSUME PlannersInv
             PROVE  SupervisorInvariant
  BY RepairImplied, MissionImplied DEF PlannersInv
<1>1. CASE subject # "index"
  BY <1>1, SupervisorImplied DEF PlannersInv
<1>2. CASE subject = "index"
  <2>1. IndexInv /\ NeverCalled
    BY <1>2 DEF PlannersInv
  <2>2. sfile.actions = << >> /\ sfile.cycles = 0 /\ NoState \in SupervisorState
    BY <2>1 DEF NeverCalled, NoState, SupervisorState
  <2>3. \A kinds : DoneActions(sfile, kinds) = {}
    BY <2>2 DEF DoneActions
  <2>4. 0 \in 0 .. MaxSupervisions /\ 0 \in 0 .. MaxSupervisorCrashes /\ 0 <= MaxActions
    BY SupervisorAssumption
  <2>5. execute \in BOOLEAN
    BY <2>1, Zenon DEF NeverCalled
  <2>6. SupervisorTypeOK
    BY <2>1, <2>2, <2>4, <2>5 DEF NeverCalled, SupervisorTypeOK, IndexInv
  <2>7. CyclesAreActions /\ ResultCheckpointed
    BY <2>1, <2>2, <2>3, <2>4, FS_EmptySet DEF CyclesAreActions, ResultCheckpointed, NeverCalled
  <2>8. SearchableAfterRun /\ NoSurrogate
    BY <2>3 DEF SearchableAfterRun, NoSurrogate
  <2>9. QED
    BY <2>6, <2>7, <2>8 DEF SupervisorInvariant
<1>3. QED
  BY <1>1, <1>2

\* Whoever plans or records runs, the states of the supervisor, the repairs and
\* the missions keep their invariants.
THEOREM PlannersKeepTheirStates == PlannersSpec => [](SupervisorInvariant /\ RepairInvariant /\ MissionInvariant)
<1>1. PlannersSpec => PlannersInit /\ [][PlannersNext]_everything
  BY PTL DEF PlannersSpec
<1>2. QED
  BY <1>1, PlannersInitially, PlannersInductive, PlannersImplied, PTL

\* No step of any of them takes back an index row, a finished goal step, or tries
\* a repair again while another is untried.
THEOREM NothingIsTakenBack == PlannersSpec => RecordsAreKept
<1>1. PlannersSpec => PlannersInit /\ [][PlannersNext]_everything
  BY PTL DEF PlannersSpec
<1>2. PlannersInv /\ [PlannersNext]_everything => [NeverOlder /\ FinishedStays /\ NoRepeatWhileUntried]_everything
  BY PlannersInductive
<1>3. PlannersInv /\ [PlannersNext]_everything => PlannersInv'
  BY PlannersInductive
<1>4. QED
  BY <1>1, <1>2, <1>3, PlannersInitially, PTL DEF RecordsAreKept
=============================================================================
