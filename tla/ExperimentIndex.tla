--------------------------- MODULE ExperimentIndex ---------------------------
(***************************************************************************)
(* src/tcad_agent/experiment_index.py: the sqlite table of experiments,    *)
(* which any process rebuilds from the state files of the runs directory   *)
(* while the tools go on writing them.  A rebuild is one transaction: it   *)
(* deletes every row, reads the files one by one and commits; its first    *)
(* write takes sqlite's write lock.  A row is keyed twice: by the path of  *)
(* its file and by (experiment_id, kind).                                  *)
(***************************************************************************)
EXTENDS Naturals, FiniteSets

CONSTANTS
    Paths,      \* the state files under the root
    Key,        \* Key[p]: (experiment_id, kind) of the record made from p
    Indexers,   \* the processes that rebuild
    Nobody,     \* no process
    MaxVersion, \* bound: how often one file is written
    MaxKills    \* bound: how many rebuilds are killed

ASSUME IndexAssumption == Nobody \notin Indexers /\ {MaxVersion, MaxKills} \subseteq Nat

VARIABLES
    disk,   \* disk[p]: the version of the file, 0 when there is none
    torn,   \* the files being written: truncated, not yet whole
    rows,   \* rows[p]: the version the committed row of p was made from, 0 for none
    writer, \* who holds the write lock
    proc,   \* the rebuild each process is at
    kills   \* rebuilds killed

ixvars == <<disk, torn, rows, writer, proc, kills>>

Versions == 0 .. MaxVersion
NoRows == [p \in Paths |-> 0]

\* What a rebuild has read, what it has still to read, and how the last one of
\* the process ended.
Idle(how) == [on |-> FALSE, todo |-> {}, view |-> NoRows, ret |-> how]

IndexTypeOK ==
    /\ disk \in [Paths -> Versions] /\ rows \in [Paths -> Versions]
    /\ torn \subseteq Paths /\ writer \in Indexers \cup {Nobody}
    /\ proc \in [Indexers -> [on: BOOLEAN, todo: SUBSET Paths, view: [Paths -> Versions],
                              ret: {"none", "ok", "conflict", "locked"}]]
    /\ kills \in 0 .. MaxKills

IndexInit ==
    /\ disk = NoRows /\ torn = {} /\ rows = NoRows /\ writer = Nobody
    /\ proc = [i \in Indexers |-> Idle("none")] /\ kills = 0

-----------------------------------------------------------------------------
\* write_json of a tool: open(path, "w") truncates, and the text follows.
Truncate(p) ==
    /\ p \notin torn /\ disk[p] < MaxVersion
    /\ torn' = torn \cup {p}
    /\ UNCHANGED <<disk, rows, writer, proc, kills>>

FinishWrite(p) ==
    /\ p \in torn
    /\ torn' = torn \ {p} /\ disk' = [disk EXCEPT ![p] = @ + 1]
    /\ UNCHANGED <<rows, writer, proc, kills>>

Existing == {p \in Paths : disk[p] # 0 \/ p \in torn}

\* Mutant: the rows are deleted after the files are read.
BeginUnlocked(i) ==
    /\ ~proc[i].on
    /\ proc' = [proc EXCEPT ![i] = [on |-> TRUE, todo |-> Existing, view |-> NoRows, ret |-> "none"]]
    /\ UNCHANGED <<disk, torn, rows, writer, kills>>

\* DELETE FROM experiments, then discover_state_paths.
Begin(i) ==
    /\ ~proc[i].on /\ writer = Nobody
    /\ writer' = i
    /\ proc' = [proc EXCEPT ![i] = [on |-> TRUE, todo |-> Existing, view |-> NoRows, ret |-> "none"]]
    /\ UNCHANGED <<disk, torn, rows, kills>>

\* sqlite waits five seconds for the lock, then raises.
Locked(i) ==
    /\ ~proc[i].on /\ writer # Nobody
    /\ proc' = [proc EXCEPT ![i] = Idle("locked")]
    /\ UNCHANGED <<disk, torn, rows, writer, kills>>

Conflicts(i, p) == \E q \in Paths \ {p} : proc[i].view[q] # 0 /\ Key[q] = Key[p]

\* Mutant: INSERT OR IGNORE.
ReadOrIgnore(i) ==
    /\ proc[i].on
    /\ \E p \in proc[i].todo :
         /\ p \in torn \/ ~Conflicts(i, p)
         /\ proc' = [proc EXCEPT ![i].todo = @ \ {p},
                                 ![i].view[p] = IF p \in torn THEN 0 ELSE
                                                IF rows[p] # 0 THEN rows[p] ELSE disk[p]]
    /\ UNCHANGED <<disk, torn, rows, writer, kills>>

\* record_from_state skips a file that is not JSON; otherwise upsert_record.
Read(i) ==
    /\ proc[i].on
    /\ \E p \in proc[i].todo :
         /\ p \in torn \/ ~Conflicts(i, p)
         /\ proc' = [proc EXCEPT ![i].todo = @ \ {p},
                                 ![i].view[p] = IF p \in torn THEN 0 ELSE disk[p]]
    /\ UNCHANGED <<disk, torn, rows, writer, kills>>

\* ON CONFLICT names state_path only: the primary key makes the INSERT raise,
\* and the transaction is rolled back.
Conflict(i) ==
    /\ proc[i].on
    /\ \E p \in proc[i].todo : p \notin torn /\ Conflicts(i, p)
    /\ proc' = [proc EXCEPT ![i] = Idle("conflict")] /\ writer' = Nobody
    /\ UNCHANGED <<disk, torn, rows, kills>>

Commit(i) ==
    /\ proc[i].on /\ proc[i].todo = {}
    /\ rows' = proc[i].view /\ writer' = Nobody
    /\ proc' = [proc EXCEPT ![i] = Idle("ok")]
    /\ UNCHANGED <<disk, torn, kills>>

\* The process dies; sqlite rolls back.
Killed(i) ==
    /\ proc[i].on /\ kills < MaxKills /\ kills' = kills + 1
    /\ proc' = [proc EXCEPT ![i] = Idle("none")]
    /\ writer' = IF writer = i THEN Nobody ELSE writer
    /\ UNCHANGED <<disk, torn, rows>>

Rebuild(i) == Begin(i) \/ Locked(i) \/ Read(i) \/ Conflict(i) \/ Commit(i)

ToolsWrite == \E p \in Paths : Truncate(p) \/ FinishWrite(p)

IndexNext == ToolsWrite \/ \E i \in Indexers : Rebuild(i) \/ Killed(i)

\* A write that began ends, and somebody keeps rebuilding: the supervisors at
\* every action, the web page at every visit.
IndexSpec ==
    /\ IndexInit /\ [][IndexNext]_ixvars
    /\ \A p \in Paths : WF_ixvars(FinishWrite(p))
    /\ WF_ixvars(\E i \in Indexers : Begin(i) \/ Read(i) \/ Conflict(i) \/ Commit(i))

-----------------------------------------------------------------------------
\* Whatever rebuilds and writes overlap, a row never goes back to an older
\* version of its file, and it is lost only to a rebuild that met the file half
\* written, on its way to a newer version.
NeverOlder ==
    \A p \in Paths : rows'[p] < rows[p] =>
        rows'[p] = 0 /\ (p \in torn \/ disk[p] > rows[p])

\* "It scans task_run_state.json, sweep_state.json, ..., agent tool state.json"
\* (docs/experiment_index.md:5): a file that exists and is written no more gets
\* into the index, unless two files share a key: then every rebuild raises, and
\* no file does.
SharedKey == \E p, q \in Paths : p # q /\ Key[p] = Key[q] /\ disk[p] # 0 /\ disk[q] # 0
AllIndexed == \A p \in Paths : (disk[p] = MaxVersion) ~> (rows[p] = MaxVersion \/ SharedKey)
=============================================================================
