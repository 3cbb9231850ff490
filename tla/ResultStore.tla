---------------------------- MODULE ResultStore ----------------------------
(***************************************************************************)
(* compliance_runtime_runs and the callers of src/compliance/pipeline that *)
(* share it for one repository at one commit: run_one (clone mode),        *)
(* run_with_prepared_checkout (a worker of the corpus runner) and          *)
(* run_path_mode with persist.  The first two look a stored record up and  *)
(* skip the probe when there is one; all three probe, insert under the     *)
(* unique index, and adopt the stored record when the insert collides.     *)
(* A worker of the corpus runner then looks up the row id of its record.   *)
(*                                                                         *)
(* Abstracted: what a probe does (any verdict may come out of it; a clone  *)
(* may raise), the other repositories and commits, whose rows no query of  *)
(* these callers returns, and the columns that are the same for all of     *)
(* them (requirement, scenario, commit).  The database is the default one. *)
(***************************************************************************)
EXTENDS Integers, Sequences

CONSTANTS
  Callers,    \* processes or threads that evaluate this repository
  Mode,       \* "clone", "prepared" or "path"
  Version,    \* version of the adapter in the code each of them runs
  Versions,   \* adapter versions
  Verdicts,   \* values of RunStatus a probe may end with
  MaxCrashes, \* bound: callers killed
  MaxBusy     \* bound: inserts that fail with "database is locked"

Modes == {"clone", "prepared", "path"}

ASSUME StoreAssumption ==
  /\ Mode \in [Callers -> Modes]
  /\ Version \in [Callers -> Versions]
  /\ MaxCrashes \in Nat
  /\ MaxBusy \in Nat

VARIABLES
  table,       \* the rows of compliance_runtime_runs, by id
  registered,  \* is the repository in agent_repositories?
  pc,          \* where each caller is
  repoId,      \* the repository_id it found: "row", or "none" for -1
  record,      \* the RunRecord it made, was given or will return
  runId,       \* compliance_runtime_run_id a corpus worker found, or 0
  crashes,     \* crashes left
  busy         \* failing inserts left

vars == <<table, registered, pc, repoId, record, runId, crashes, busy>>

\* A dedup key, as far as it differs between these callers.
RepoIds == {"row", "none"}
Keys    == RepoIds \X Versions
Key(c)  == <<repoId[c], Version[c]>>

\* Who made a record, and what it says: no two probes make the same record.
Records  == [by : Callers, status : Verdicts]
NoRecord == [by |-> "nobody", status |-> "none"]
\* Only path mode stores rows of a repository that is not in the database.
Rows     == {row \in [key : Keys, record : Records] :
               row.key[1] = "row" \/ Mode[row.record.by] = "path"}

Ended == {"returned", "raised", "crashed"}
PCs   == {"start", "lookup", "probe", "insert", "adopt", "link"} \cup Ended

TypeOK ==
  /\ table \in Seq(Rows)
  /\ registered \in BOOLEAN
  /\ pc \in [Callers -> PCs]
  /\ repoId \in [Callers -> RepoIds]
  /\ record \in [Callers -> Records \cup {NoRecord}]
  /\ runId \in [Callers -> Nat]
  /\ crashes \in 0..MaxCrashes
  /\ busy \in 0..MaxBusy

Init ==
  /\ table = <<>>
  /\ registered \in BOOLEAN
  /\ pc = [c \in Callers |-> "start"]
  /\ repoId = [c \in Callers |-> "none"]
  /\ record = [c \in Callers |-> NoRecord]
  /\ runId = [c \in Callers |-> 0]
  /\ crashes = MaxCrashes
  /\ busy = MaxBusy

-----------------------------------------------------------------------------
Goto(c, from, to) ==
  /\ pc[c] = from
  /\ pc' = [pc EXCEPT ![c] = to]

Stored(k) == \E i \in 1..Len(table) : table[i].key = k

\* load_run_by_dedup_key, of a key that is stored: its newest row.
IsNewest(i, k) ==
  /\ table[i].key = k
  /\ \A j \in 1..Len(table) : table[j].key = k => j <= i
StoredRecord(k) == table[CHOOSE i \in 1..Len(table) : IsNewest(i, k)].record

\* A worker of the corpus runner goes on to look its row up.
Return(c, from) == Goto(c, from, IF Mode[c] = "prepared" THEN "link" ELSE "returned")

\* _lookup_repo.  A repository that is not in the database is an error, except
\* in path mode, where it gets the id -1.
Start(c) ==
  /\ \/ /\ registered \/ Mode[c] = "path"
        /\ Goto(c, "start", IF Mode[c] = "path" THEN "probe" ELSE "lookup")
     \/ /\ ~registered /\ Mode[c] # "path"
        /\ Goto(c, "start", "raised")
  /\ repoId' = [repoId EXCEPT ![c] = IF registered THEN "row" ELSE "none"]
  /\ UNCHANGED <<table, registered, record, runId, crashes, busy>>

NoLookUp(c) ==                              \* defect: a rerun probes again
  /\ Goto(c, "lookup", "probe")
  /\ UNCHANGED <<table, registered, repoId, record, runId, crashes, busy>>
LookUp(c) ==
  /\ IF Stored(Key(c))
     THEN /\ Return(c, "lookup")
          /\ record' = [record EXCEPT ![c] = StoredRecord(Key(c))]
     ELSE /\ Goto(c, "lookup", "probe")
          /\ UNCHANGED record
  /\ UNCHANGED <<table, registered, repoId, runId, crashes, busy>>

\* The probe, the evidence and the verdict.  Only a clone may raise: whatever
\* the probe raises becomes evidence.
Probe(c) ==
  /\ \/ /\ Goto(c, "probe", "insert")
        /\ \E v \in Verdicts :
             record' = [record EXCEPT ![c] = [by |-> c, status |-> v]]
     \/ /\ Mode[c] = "clone"
        /\ Goto(c, "probe", "raised")
        /\ UNCHANGED record
  /\ UNCHANGED <<table, registered, repoId, runId, crashes, busy>>

NoUniqueIndex(k) == FALSE                   \* defect: index dropped
Collides(k) == Stored(k)

\* insert_run, under the unique index idx_crr_dedup.
Insert(c) ==
  /\ IF Collides(Key(c))
     THEN /\ Goto(c, "insert", "adopt")
          /\ UNCHANGED table
     ELSE /\ Return(c, "insert")
          /\ table' = Append(table, [key |-> Key(c), record |-> record[c]])
  /\ UNCHANGED <<registered, repoId, record, runId, crashes, busy>>

KeepOwn(c) ==                               \* defect: returns what it made
  /\ Return(c, "adopt")
  /\ UNCHANGED <<table, registered, repoId, record, runId, crashes, busy>>
\* The record that won the race replaces the caller's own.
Adopt(c) ==
  /\ Return(c, "adopt")
  /\ record' = [record EXCEPT ![c] =
                  IF Stored(Key(c)) THEN StoredRecord(Key(c)) ELSE @]
  /\ UNCHANGED <<table, registered, repoId, runId, crashes, busy>>

\* _find_compliance_runtime_run_id: the newest row of this repository, commit,
\* requirement and scenario, whatever its repository_id and adapter.
Link(c) ==
  /\ Goto(c, "link", "returned")
  /\ runId' = [runId EXCEPT ![c] = Len(table)]
  /\ UNCHANGED <<table, registered, repoId, record, crashes, busy>>

-----------------------------------------------------------------------------
\* A discovery inserts the repository into agent_repositories.
Register ==
  /\ ~registered
  /\ registered' = TRUE
  /\ UNCHANGED <<table, pc, repoId, record, runId, crashes, busy>>

\* OperationalError: only IntegrityError is caught around the insert.
InsertFails(c) ==
  /\ busy > 0
  /\ busy' = busy - 1
  /\ Goto(c, "insert", "raised")
  /\ UNCHANGED <<table, registered, repoId, record, runId, crashes>>

Crash(c) ==
  /\ crashes > 0
  /\ crashes' = crashes - 1
  /\ pc[c] \notin Ended
  /\ pc' = [pc EXCEPT ![c] = "crashed"]
  /\ UNCHANGED <<table, registered, repoId, record, runId, busy>>

AllEnded ==
  /\ \A c \in Callers : pc[c] \in Ended
  /\ UNCHANGED vars

CallerStep(c) ==
  Start(c) \/ LookUp(c) \/ Probe(c) \/ Insert(c) \/ Adopt(c) \/ Link(c)

Next ==
  \/ \E c \in Callers : CallerStep(c)
  \/ \E c \in Callers : InsertFails(c)
  \/ \E c \in Callers : Crash(c)
  \/ Register
  \/ AllEnded

Spec == Init /\ [][Next]_vars

-----------------------------------------------------------------------------
(***************************************************************************)
(* Properties.                                                             *)
(***************************************************************************)

\* A record is written once per dedup key and never changes: the table
\* implements the same write-once register as the verdicts of a corpus run.
Stores == INSTANCE VerdictRegister WITH
  Jobs      <- Keys,
  Verdicts  <- Records,
  Undecided <- NoRecord,
  verdict   <- [k \in Keys |-> IF Stored(k) THEN StoredRecord(k) ELSE NoRecord]
RecordStoredOnce == Stores!Spec

\* Whoever returns a record returns the stored one of its key, so any two
\* callers of a key report the same verdict, even the one that lost the race
\* with a verdict of its own.
ReturnsStoredRecord ==
  \A c \in Callers : pc[c] \in {"link", "returned"} =>
    Stored(Key(c)) /\ record[c] = StoredRecord(Key(c))

\* A caller that starts when its record is stored never probes: a rerun of a
\* pinned commit costs nothing ("CI reruns ... skip the expensive probe work").
RerunsDoNotProbe ==
  \A c \in Callers :
    Mode[c] # "path" =>
      [](pc[c] = "start" /\ Stored(<<"row", Version[c]>>)
           => [](pc[c] \notin {"probe", "insert"}))

\* The row a corpus worker links its job to is that of its record or a newer one
\* of another dedup key, never another record of its own key and never a row
\* older than its record.  (The query leaves repository_id and the adapter out.)
LinkedRowIsOwnOrNewer ==
  \A c \in Callers : Mode[c] = "prepared" /\ pc[c] = "returned" =>
    /\ runId[c] \in 1..Len(table)
    /\ table[runId[c]].key = Key(c) => table[runId[c]].record = record[c]
    /\ \E i \in 1..runId[c] : table[i] = [key |-> Key(c), record |-> record[c]]

\* Callers return the stored record, and the worker of a job links it to that row
\* or to a newer one of another key.
StoredRecordServes == ReturnsStoredRecord /\ LinkedRowIsOwnOrNewer
=============================================================================
