------------------------- MODULE ResultStore_proofs -------------------------
(***************************************************************************)
(* Proofs about ResultStore, for any callers, modes, adapter versions and  *)
(* faults: type correctness, that a caller returns the stored record, and  *)
(* that the table implements the write-once VerdictRegister.               *)
(***************************************************************************)
EXTENDS ResultStore, SequenceTheorems, TLAPS

-----------------------------------------------------------------------------
(***************************************************************************)
(* A table as a value: what is stored in it, and under which key.          *)
(***************************************************************************)
Distinct(t)     == \A i, j \in 1..Len(t) : t[i].key = t[j].key => i = j
HasKey(t, k)    == \E i \in 1..Len(t) : t[i].key = k
NewestIn(t, k)  ==
  t[CHOOSE i \in 1..Len(t) :
      /\ t[i].key = k
      /\ \A j \in 1..Len(t) : t[j].key = k => j <= i].record

\* With distinct keys the newest row of a key is its only row: what a look-up
\* (load_run_by_dedup_key) returns does not depend on its ORDER BY.
LEMMA NewestOfDistinct ==
  ASSUME NEW t \in Seq(Rows), Distinct(t), NEW i \in 1..Len(t)
  PROVE  NewestIn(t, t[i].key) = t[i].record
<1> DEFINE k == t[i].key
           P(n) == t[n].key = k /\ \A j \in 1..Len(t) : t[j].key = k => j <= n
<1>1. P(i)
  BY DEF Distinct
<1>2. PICK n \in 1..Len(t) : n = CHOOSE m \in 1..Len(t) : P(m)
  BY <1>1
<1>3. P(n)
  BY <1>1, <1>2
<1>4. n = i
  BY <1>3 DEF Distinct
<1>5. QED
  BY <1>2, <1>4 DEF NewestIn

\* What an insert under a new key does to the table: the new key is stored,
\* and every other key is stored, or not, as before.
LEMMA AppendRow ==
  ASSUME NEW t \in Seq(Rows), Distinct(t), NEW row \in Rows, ~HasKey(t, row.key)
  PROVE  /\ Append(t, row) \in Seq(Rows)
         /\ Distinct(Append(t, row))
         /\ HasKey(Append(t, row), row.key)
         /\ NewestIn(Append(t, row), row.key) = row.record
         /\ \A k \in Keys \ {row.key} :
              /\ HasKey(Append(t, row), k) <=> HasKey(t, k)
              /\ HasKey(t, k) => NewestIn(Append(t, row), k) = NewestIn(t, k)
<1> DEFINE u == Append(t, row)
<1>1. /\ u \in Seq(Rows) /\ Len(u) = Len(t) + 1 /\ u[Len(u)] = row
      /\ \A i \in 1..Len(t) : u[i] = t[i]
      /\ Len(t) \in Nat /\ Len(u) \in 1..Len(u)
      /\ 1..Len(u) = 1..Len(t) \cup {Len(u)}
  BY AppendProperties, LenProperties
<1> HIDE DEF u
<1>2. Distinct(u)
  BY <1>1 DEF Distinct, HasKey
<1>3. HasKey(u, row.key) /\ NewestIn(u, row.key) = row.record
  BY <1>1, <1>2, NewestOfDistinct DEF HasKey
<1>4. ASSUME NEW k \in Keys \ {row.key}
      PROVE  /\ HasKey(u, k) <=> HasKey(t, k)
             /\ HasKey(t, k) => NewestIn(u, k) = NewestIn(t, k)
  <2>1. HasKey(u, k) <=> HasKey(t, k)
    BY <1>1 DEF HasKey
  <2>2. ASSUME HasKey(t, k)
        PROVE  NewestIn(u, k) = NewestIn(t, k)
    <3>1. PICK i \in 1..Len(t) : t[i].key = k
      BY <2>2 DEF HasKey
    <3>2. i \in 1..Len(u) /\ u[i] = t[i]
      BY <1>1
    <3>3. NewestIn(u, k) = u[i].record
      BY <1>1, <1>2, <3>1, <3>2, NewestOfDistinct
    <3>4. NewestIn(t, k) = t[i].record
      BY <3>1, NewestOfDistinct
    <3>5. QED
      BY <3>2, <3>3, <3>4
  <2>3. QED
    BY <2>1, <2>2
<1>5. QED
  BY <1>1, <1>2, <1>3, <1>4 DEF u

\* The operators of ResultStore on the table are those on its value, now ...
LEMMA TableIsValue ==
  ASSUME NEW k
  PROVE  /\ Stored(k) <=> HasKey(table, k)
         /\ StoredRecord(k) = NewestIn(table, k)
BY DEF Stored, HasKey, StoredRecord, IsNewest, NewestIn

\* ... and after a step.
LEMMA TableIsValuePrime ==
  ASSUME NEW k
  PROVE  /\ Stored(k)' <=> HasKey(table', k)
         /\ StoredRecord(k)' = NewestIn(table', k)
BY DEF Stored, HasKey, StoredRecord, IsNewest, NewestIn

-----------------------------------------------------------------------------
(***************************************************************************)
(* The inductive invariant.  A caller that returns has its key stored; to  *)
(* keep that, one that adopts must too, keys must be distinct, and what is *)
(* inserted must be the caller's own record under an id it may use.        *)
(***************************************************************************)
Past == {"lookup", "probe", "insert", "adopt", "link", "returned"}
Registered == \A c \in Callers : Mode[c] # "path" /\ pc[c] \in Past => repoId[c] = "row"
OwnRecord  == \A c \in Callers : pc[c] = "insert" => record[c] \in Records /\ record[c].by = c
Adopting   == \A c \in Callers : pc[c] = "adopt" => HasKey(table, Key(c))
Returning  == \A c \in Callers : pc[c] \in {"link", "returned"} =>
                HasKey(table, Key(c)) /\ record[c] = NewestIn(table, Key(c))

IInv == TypeOK /\ Distinct(table) /\ Registered /\ OwnRecord /\ Adopting /\ Returning

\* Every record read from the table is a record.
LEMMA NewestIsRecord ==
  ASSUME TypeOK, Distinct(table), NEW k, HasKey(table, k)
  PROVE  NewestIn(table, k) \in Records
<1>1. PICK i \in 1..Len(table) : table[i].key = k
  BY DEF HasKey
<1>2. table[i] \in Rows
  BY ElementOfSeq DEF TypeOK
<1>3. NewestIn(table, k) = table[i].record
  BY <1>1, NewestOfDistinct DEF TypeOK
<1>4. QED
  BY <1>2, <1>3 DEF Rows

\* An empty table satisfies the invariant.
LEMMA InitInvariant == Init => IInv
<1> SUFFICES ASSUME Init PROVE IInv
  OBVIOUS
<1>1. table \in Seq(Rows) /\ Len(table) = 0
  BY EmptySeq DEF Init
<1>2. TypeOK
  BY <1>1, StoreAssumption DEF Init, TypeOK, PCs, RepoIds
<1>3. QED
  BY <1>1, <1>2 DEF Init, IInv, Distinct, Registered, OwnRecord, Adopting, Returning, Past

\* The callers that do not move in a step of c.
Others(c) ==
  \A b \in Callers \ {c} :
    pc'[b] = pc[b] /\ repoId'[b] = repoId[b] /\ record'[b] = record[b]

\* Every action keeps the invariant.
LEMMA StepInvariant == IInv /\ [Next]_vars => IInv'
<1> SUFFICES ASSUME IInv, [Next]_vars PROVE IInv'
  OBVIOUS
<1>0. /\ TypeOK /\ Distinct(table) /\ Registered /\ OwnRecord /\ Adopting /\ Returning
      /\ Mode \in [Callers -> Modes] /\ Version \in [Callers -> Versions]
      /\ MaxCrashes \in Nat /\ MaxBusy \in Nat
  BY StoreAssumption DEF IInv
<1>1. ASSUME NEW c \in Callers, Start(c) PROVE IInv'
  <2> USE <1>1 DEF Start, Goto
  <2>1. TypeOK'
    BY <1>0 DEF TypeOK, PCs, Ended, RepoIds
  <2>2. Others(c) /\ pc'[c] \in {"probe", "lookup", "raised"}
        /\ (Mode[c] # "path" /\ pc'[c] \in Past => repoId'[c] = "row")
    BY <1>0 DEF TypeOK, Others, Past, Ended
  <2>3. \A b \in Callers \ {c} : Key(b)' = Key(b)
    BY <2>2 DEF Others, Key
  <2>4. QED
    BY ONLY <1>0, <1>1, <2>1, <2>2, <2>3
       DEF IInv, Registered, OwnRecord, Adopting, Returning, Others, Start
<1>2. ASSUME NEW c \in Callers, LookUp(c) PROVE IInv'
  <2> USE <1>2 DEF LookUp, Goto, Return
  <2>1. /\ Stored(Key(c)) <=> HasKey(table, Key(c))
        /\ StoredRecord(Key(c)) = NewestIn(table, Key(c))
    BY TableIsValue
  <2>2. /\ Others(c) /\ repoId' = repoId /\ table' = table
        /\ pc'[c] \in {"link", "returned", "probe"}
        /\ pc'[c] \in {"link", "returned"} =>
             HasKey(table, Key(c)) /\ record'[c] = NewestIn(table, Key(c))
    BY <1>0, <2>1 DEF TypeOK, Others
  <2>3. TypeOK'
    <3>1. HasKey(table, Key(c)) => NewestIn(table, Key(c)) \in Records
      BY <1>0, NewestIsRecord
    <3>2. record' \in [Callers -> Records \cup {NoRecord}]
      BY <1>0, <2>1, <3>1 DEF TypeOK
    <3>3. pc' \in [Callers -> PCs]
      BY <1>0 DEF TypeOK, PCs, Ended
    <3>4. QED
      BY <1>0, <3>2, <3>3 DEF TypeOK
  <2>4. \A b \in Callers : Key(b)' = Key(b)
    BY <2>2 DEF Key
  <2>5. pc[c] = "lookup"
    OBVIOUS
  <2>6. QED
    BY ONLY <1>0, <2>2, <2>3, <2>4, <2>5
       DEF IInv, Registered, OwnRecord, Adopting, Returning, Others, Past
<1>3. ASSUME NEW c \in Callers, Probe(c) PROVE IInv'
  <2> USE <1>3 DEF Probe, Goto
  <2>1. TypeOK'
    <3>1. record' \in [Callers -> Records \cup {NoRecord}]
      BY <1>0 DEF TypeOK, Records
    <3>2. pc' \in [Callers -> PCs]
      BY <1>0 DEF TypeOK, PCs, Ended
    <3>3. QED
      BY <1>0, <3>1, <3>2 DEF TypeOK
  <2>2. /\ Others(c) /\ repoId' = repoId /\ table' = table /\ pc[c] = "probe"
        /\ pc'[c] \in {"insert", "raised"}
        /\ pc'[c] = "insert" => record'[c] \in Records /\ record'[c].by = c
    BY <1>0 DEF TypeOK, Others, Records
  <2>3. \A b \in Callers : Key(b)' = Key(b)
    BY <2>2 DEF Key
  <2>4. QED
    BY ONLY <1>0, <2>1, <2>2, <2>3
       DEF IInv, Registered, OwnRecord, Adopting, Returning, Others, Past
<1>4. ASSUME NEW c \in Callers, Insert(c) PROVE IInv'
  <2> USE <1>4 DEF Insert, Goto, Return, Collides
  <2>1. Stored(Key(c)) <=> HasKey(table, Key(c))
    BY TableIsValue
  <2>2. /\ Others(c) /\ repoId' = repoId /\ record' = record /\ pc[c] = "insert"
        /\ pc'[c] \in {"adopt", "link", "returned"}
    BY <1>0 DEF TypeOK, Others
  <2>3. \A b \in Callers : Key(b)' = Key(b) /\ Key(b) \in Keys
    BY <1>0, <2>2 DEF Key, Keys, TypeOK
  <2>4. CASE HasKey(table, Key(c))
    <3>1. TypeOK' /\ table' = table /\ pc'[c] = "adopt"
      BY <1>0, <2>1, <2>4 DEF TypeOK, PCs
    <3>2. QED
      BY ONLY <1>0, <2>2, <2>3, <2>4, <3>1
         DEF IInv, Registered, OwnRecord, Adopting, Returning, Others, Past
  <2>5. CASE ~HasKey(table, Key(c))
    <3> DEFINE row == [key |-> Key(c), record |-> record[c]]
    <3>1. row \in Rows
      BY <1>0, <2>2, <2>3 DEF Registered, OwnRecord, Past, Rows, Key
    <3>2. table' = Append(table, row) /\ pc'[c] \in {"link", "returned"}
      BY <1>0, <2>1, <2>5 DEF TypeOK
    <3>3. row.key = Key(c) /\ row.record = record[c]
      OBVIOUS
    <3> HIDE DEF row
    <3>4. /\ table' \in Seq(Rows) /\ Distinct(table')
          /\ HasKey(table', Key(c)) /\ NewestIn(table', Key(c)) = record[c]
          /\ \A k \in Keys : HasKey(table, k) =>
               HasKey(table', k) /\ NewestIn(table', k) = NewestIn(table, k)
      <4>1. table \in Seq(Rows)
        BY <1>0 DEF TypeOK
      <4>2. QED
        BY ONLY <1>0, <2>5, <3>1, <3>2, <3>3, <4>1, AppendRow
    <3>5. TypeOK'
      BY <1>0, <3>2, <3>4 DEF TypeOK, PCs, Ended
    <3>6. QED
      BY ONLY SMTT(30), <1>0, <2>2, <2>3, <3>2, <3>4, <3>5
         DEF IInv, Registered, OwnRecord, Adopting, Returning, Others, Past
  <2>6. QED
    BY <2>4, <2>5
<1>5. ASSUME NEW c \in Callers, Adopt(c) PROVE IInv'
  <2> USE <1>5 DEF Adopt, Goto, Return
  <2>1. /\ Stored(Key(c)) <=> HasKey(table, Key(c))
        /\ StoredRecord(Key(c)) = NewestIn(table, Key(c))
    BY TableIsValue
  <2>2. /\ Others(c) /\ repoId' = repoId /\ table' = table /\ pc[c] = "adopt"
        /\ pc'[c] \in {"link", "returned"}
        /\ HasKey(table, Key(c)) /\ record'[c] = NewestIn(table, Key(c))
    BY <1>0, <2>1 DEF TypeOK, Others, Adopting
  <2>3. TypeOK'
    <3>1. NewestIn(table, Key(c)) \in Records
      BY <1>0, <2>2, NewestIsRecord
    <3>2. record' \in [Callers -> Records \cup {NoRecord}]
      BY <1>0, <2>1, <2>2, <3>1 DEF TypeOK
    <3>3. QED
      BY <1>0, <3>2 DEF TypeOK, PCs, Ended
  <2>4. \A b \in Callers : Key(b)' = Key(b)
    BY <2>2 DEF Key
  <2>5. QED
    BY ONLY <1>0, <2>2, <2>3, <2>4
       DEF IInv, Registered, OwnRecord, Adopting, Returning, Others, Past
<1>6. ASSUME NEW c \in Callers, Link(c) PROVE IInv'
  <2> USE <1>6 DEF Link, Goto
  <2>1. TypeOK'
    BY <1>0, LenProperties DEF TypeOK, PCs, Ended
  <2>2. /\ Others(c) /\ repoId' = repoId /\ table' = table /\ record' = record
        /\ pc[c] = "link" /\ pc'[c] = "returned"
    BY <1>0 DEF TypeOK, Others
  <2>3. \A b \in Callers : Key(b)' = Key(b)
    BY <2>2 DEF Key
  <2>4. QED
    BY ONLY <1>0, <2>1, <2>2, <2>3
       DEF IInv, Registered, OwnRecord, Adopting, Returning, Others, Past
<1>7. ASSUME NEW c \in Callers, InsertFails(c) \/ Crash(c) PROVE IInv'
  <2> USE <1>7 DEF InsertFails, Crash, Goto
  <2>1. TypeOK'
    <3>1. pc' \in [Callers -> PCs]
      BY <1>0 DEF TypeOK, PCs, Ended
    <3>2. crashes' \in 0..MaxCrashes /\ busy' \in 0..MaxBusy
      BY <1>0 DEF TypeOK
    <3>3. QED
      BY <1>0, <3>1, <3>2 DEF TypeOK
  <2>2. /\ Others(c) /\ repoId' = repoId /\ table' = table /\ record' = record
        /\ pc'[c] \in {"raised", "crashed"}
    BY <1>0 DEF TypeOK, Others
  <2>3. \A b \in Callers : Key(b)' = Key(b)
    BY <2>2 DEF Key
  <2>4. QED
    BY ONLY <1>0, <2>1, <2>2, <2>3
       DEF IInv, Registered, OwnRecord, Adopting, Returning, Others, Past
<1>8. CASE Register
  <2>1. TypeOK'
    BY <1>0, <1>8 DEF Register, TypeOK
  <2>2. pc' = pc /\ repoId' = repoId /\ table' = table /\ record' = record
    BY <1>8 DEF Register
  <2>3. \A b \in Callers : Key(b)' = Key(b)
    BY <2>2 DEF Key
  <2>4. QED
    BY ONLY <1>0, <2>1, <2>2, <2>3 DEF IInv, Registered, OwnRecord, Adopting, Returning
<1>9. CASE UNCHANGED vars
  <2>1. TypeOK'
    BY <1>0, <1>9 DEF vars, TypeOK
  <2>2. pc' = pc /\ repoId' = repoId /\ table' = table /\ record' = record
    BY <1>9 DEF vars
  <2>3. \A b \in Callers : Key(b)' = Key(b)
    BY <2>2 DEF Key
  <2>4. QED
    BY ONLY <1>0, <2>1, <2>2, <2>3 DEF IInv, Registered, OwnRecord, Adopting, Returning
<1>10. QED
  BY <1>1, <1>2, <1>3, <1>4, <1>5, <1>6, <1>7, <1>8, <1>9
     DEF Next, CallerStep, AllEnded

\* The inductive invariant holds for any number of callers and versions.
THEOREM StoreInvariance == Spec => []IInv
BY InitInvariant, StepInvariant, PTL DEF Spec

\* Type correctness, which says that only path mode stores a row under the
\* repository id -1.
THEOREM StoreTypeCorrect == Spec => []TypeOK
<1>1. IInv => TypeOK
  BY DEF IInv
<1>2. QED
  BY <1>1, StoreInvariance, PTL

\* Whoever returns a record returns the stored one (the IntegrityError branch
\* of _run_pipeline adopts the winner's).
THEOREM StoredReturned == Spec => []ReturnsStoredRecord
<1>1. IInv => ReturnsStoredRecord
  BY TableIsValue DEF IInv, Returning, ReturnsStoredRecord
<1>2. QED
  BY <1>1, StoreInvariance, PTL

-----------------------------------------------------------------------------
(***************************************************************************)
(* The row a worker links its job to.                                      *)
(***************************************************************************)
\* No row is rewritten or deleted, and the only new one is the last.
Grows(t, u) == Len(t) <= Len(u) /\ \A i \in 1..Len(t) : u[i] = t[i]

\* No step rewrites or removes a row of the table.
LEMMA TableGrows == ASSUME IInv, [Next]_vars PROVE Grows(table, table')
<1>1. table \in Seq(Rows) /\ Len(table) \in Nat
  BY LenProperties DEF IInv, TypeOK
<1>2. CASE table' = table
  BY <1>1, <1>2 DEF Grows
<1>3. CASE table' # table
  <2>1. PICK c \in Callers : Insert(c)
    BY <1>3 DEF Next, CallerStep, Start, LookUp, Probe, Adopt, Link, InsertFails,
                Crash, Register, AllEnded, vars
  <2> DEFINE row == [key |-> Key(c), record |-> record[c]]
  <2>2. table' = Append(table, row)
    BY <1>3, <2>1 DEF Insert
  <2> HIDE DEF row
  <2>3. Len(table') = Len(table) + 1 /\ \A i \in 1..Len(table) : table'[i] = table[i]
    BY <1>1, <2>2 DEF Rows
  <2> QED BY <1>1, <2>3 DEF Grows
<1> QED BY <1>2, <1>3

\* A worker that has linked its job has its own row at or before the linked one.
OwnRow(c, i) == table[i].key = Key(c) /\ table[i].record = record[c]
Linked ==
  \A c \in Callers : Mode[c] = "prepared" /\ pc[c] = "returned" =>
    runId[c] \in 1..Len(table) /\ \E i \in 1..runId[c] : OwnRow(c, i)

\* The look-up finds the newest row of the table, which is no older than the
\* caller's: linking makes it true, and no later row can make it false.
LEMMA LinkedNext == ASSUME IInv, Linked, [Next]_vars PROVE Linked'
<1> SUFFICES ASSUME NEW c \in Callers, Mode[c] = "prepared", pc'[c] = "returned"
             PROVE  /\ runId'[c] \in 1..Len(table')
                    /\ \E i \in 1..runId'[c] : OwnRow(c, i)'
  BY DEF Linked
<1>1. Grows(table, table') /\ Len(table) \in Nat /\ Len(table') \in Nat
  <2>1. table' \in Seq(Rows)
    BY StepInvariant DEF IInv, TypeOK
  <2> QED BY <2>1, TableGrows, LenProperties DEF IInv, TypeOK
<1>2. CASE Link(c)
  <2>1. /\ table' = table /\ Key(c)' = Key(c) /\ record'[c] = record[c]
        /\ runId'[c] = Len(table) /\ pc[c] = "link"
    BY <1>2 DEF Link, Goto, Key, IInv, TypeOK
  <2>2. HasKey(table, Key(c)) /\ record[c] = NewestIn(table, Key(c))
    BY <2>1 DEF IInv, Returning
  <2>3. PICK i \in 1..Len(table) : table[i].key = Key(c)
    BY <2>2 DEF HasKey
  <2>4. table[i].record = record[c]
    BY <2>2, <2>3, NewestOfDistinct DEF IInv, TypeOK
  <2> QED BY <1>1, <2>1, <2>3, <2>4 DEF OwnRow
<1>3. CASE ~Link(c)
  <2>1. pc[c] = "returned" /\ runId'[c] = runId[c] /\ record'[c] = record[c]
        /\ repoId'[c] = repoId[c]
    <3>1. CASE UNCHANGED vars \/ Register \/ AllEnded
      BY <3>1 DEF vars, Register, AllEnded
    <3>2. ASSUME NEW b \in Callers, b # c, CallerStep(b) \/ InsertFails(b) \/ Crash(b)
          PROVE  pc'[c] = pc[c] /\ runId'[c] = runId[c] /\ record'[c] = record[c]
                 /\ repoId'[c] = repoId[c]
      BY <3>2 DEF CallerStep, Start, LookUp, Probe, Insert, Adopt, Link, Return, Goto,
         InsertFails, Crash, IInv, TypeOK
    <3>3. CASE CallerStep(c) \/ InsertFails(c) \/ Crash(c)
      BY <1>3, <3>3 DEF CallerStep, Start, LookUp, Probe, Insert, Adopt, Return, Goto,
         InsertFails, Crash, IInv, TypeOK
    <3> QED BY <3>1, <3>2, <3>3 DEF Next
  <2>2. runId[c] \in 1..Len(table)
    BY <2>1 DEF Linked
  <2>3. PICK i \in 1..runId[c] : OwnRow(c, i)
    BY <2>1 DEF Linked
  <2>4. i \in 1..Len(table) /\ table'[i] = table[i]
    BY <1>1, <2>2 DEF Grows
  <2>5. Key(c)' = Key(c)
    BY <2>1 DEF Key
  <2>6. OwnRow(c, i)'
    BY <2>1, <2>3, <2>4, <2>5 DEF OwnRow
  <2> QED BY <1>1, <2>1, <2>2, <2>6 DEF Grows
<1> QED BY <1>2, <1>3

\* What a caller returns is the stored record, and the row a worker links its job
\* to is that of its record or a newer one of another key, though the query that
\* finds it names neither repository_id nor adapter.
THEOREM StoredServes == Spec => []StoredRecordServes
<1>1. Init => Linked
  BY DEF Init, Linked
<1>2. ASSUME IInv, Linked PROVE StoredRecordServes
  <2>1. ReturnsStoredRecord
    BY <1>2, TableIsValue DEF IInv, Returning, ReturnsStoredRecord
  <2>2. ASSUME NEW c \in Callers, Mode[c] = "prepared", pc[c] = "returned"
        PROVE  /\ runId[c] \in 1..Len(table)
               /\ table[runId[c]].key = Key(c) => table[runId[c]].record = record[c]
               /\ \E i \in 1..runId[c] : table[i] = [key |-> Key(c), record |-> record[c]]
    <3>1. runId[c] \in 1..Len(table) /\ Len(table) \in Nat
      BY <1>2, <2>2, LenProperties DEF Linked, IInv, TypeOK
    <3>2. PICK i \in 1..runId[c] : OwnRow(c, i)
      BY <1>2, <2>2 DEF Linked
    <3>3. i \in 1..Len(table)
      BY <3>1
    <3>4. table[i] \in Rows
      BY <1>2, <3>3, ElementOfSeq DEF IInv, TypeOK
    <3>5. table[i] = [key |-> Key(c), record |-> record[c]]
      BY <3>2, <3>4 DEF OwnRow, Rows
    <3>6. table[runId[c]].key = Key(c) => runId[c] = i
      BY <1>2, <3>1, <3>2, <3>3 DEF OwnRow, IInv, Distinct
    <3> QED BY <3>1, <3>2, <3>5, <3>6 DEF OwnRow
  <2> QED BY <2>1, <2>2 DEF StoredRecordServes, LinkedRowIsOwnOrNewer
<1> QED BY <1>1, <1>2, LinkedNext, StoreInvariance, PTL DEF Spec

-----------------------------------------------------------------------------
(***************************************************************************)
(* Refinement: the table is a write-once register per dedup key.           *)
(***************************************************************************)
\* The register that the table stands for.
reg == [k \in Keys |-> IF Stored(k) THEN StoredRecord(k) ELSE NoRecord]

\* An empty table is an undecided register.
LEMMA RegisterInit == Init => Stores!Init
<1> SUFFICES ASSUME Init PROVE Stores!Init
  OBVIOUS
<1>1. \A k : ~Stored(k)
  BY DEF Init, Stored
<1>2. QED
  BY <1>1 DEF Stores!Init

\* An insert decides one key; every other step leaves the register alone.
LEMMA RegisterStep == IInv /\ IInv' /\ [Next]_vars => [Stores!Next]_reg
<1> SUFFICES ASSUME IInv, IInv', [Next]_vars PROVE [Stores!Next]_reg
  OBVIOUS
<1>1. CASE table' = table
  <2>1. \A k \in Keys : (Stored(k)' <=> Stored(k)) /\ StoredRecord(k)' = StoredRecord(k)
    BY <1>1, TableIsValue, TableIsValuePrime
  <2>2. reg' = reg
    BY <2>1 DEF reg
  <2>3. QED
    BY <2>2
<1>2. ASSUME table' # table PROVE Stores!Next
  <2>1. PICK c \in Callers : Insert(c)
    BY <1>2 DEF Next, CallerStep, Start, LookUp, Probe, Adopt, Link, InsertFails,
                Crash, Register, AllEnded, vars
  <2> DEFINE row == [key |-> Key(c), record |-> record[c]]
  <2>2. /\ ~Stored(Key(c)) /\ table' = Append(table, row) /\ pc[c] = "insert"
    BY <1>2, <2>1 DEF Insert, Return, Goto, Collides
  <2>3. Key(c) \in Keys /\ record[c] \in Records
    BY <2>2, StoreAssumption DEF IInv, TypeOK, OwnRecord, Key, Keys
  <2>4. row.key = Key(c) /\ row.record = record[c] /\ row \in Rows
    BY <2>2, <2>3, StoreAssumption DEF IInv, Registered, OwnRecord, Past, Rows, Key
  <2> HIDE DEF row
  <2>5. /\ HasKey(table', Key(c)) /\ NewestIn(table', Key(c)) = record[c]
        /\ \A k \in Keys \ {Key(c)} :
             /\ HasKey(table', k) <=> HasKey(table, k)
             /\ HasKey(table, k) => NewestIn(table', k) = NewestIn(table, k)
    <3>1. table \in Seq(Rows) /\ Distinct(table)
      BY DEF IInv, TypeOK
    <3>2. ~HasKey(table, row.key)
      BY <2>2, <2>4, TableIsValue
    <3>3. QED
      BY ONLY <2>2, <2>4, <3>1, <3>2, AppendRow
  <2>6. reg[Key(c)] = NoRecord
    BY <2>2, <2>3 DEF reg
  <2>7. \A k \in Keys : reg'[k] = IF k = Key(c) THEN record[c] ELSE reg[k]
    BY <2>5, TableIsValue, TableIsValuePrime DEF reg
  <2>8. reg' = [reg EXCEPT ![Key(c)] = record[c]]
    BY <2>3, <2>7 DEF reg
  <2>9. Stores!Decide(Key(c), record[c])
    BY <2>6, <2>8 DEF Stores!Decide, reg
  <2>10. QED
    BY <2>3, <2>9 DEF Stores!Next
<1>3. QED
  BY <1>1, <1>2

\* compliance_runtime_runs implements the write-once register: the record of a
\* dedup key never changes once it is there.
THEOREM StoredOnce == Spec => RecordStoredOnce
<1>1. IInv /\ IInv' /\ [Next]_vars => [Stores!Next]_reg
  BY RegisterStep
<1>2. QED
  BY RegisterInit, <1>1, StoreInvariance, PTL DEF Spec, RecordStoredOnce, Stores!Spec, reg

-----------------------------------------------------------------------------
(***************************************************************************)
(* Reruns.                                                                 *)
(***************************************************************************)
RowKey(c) == <<"row", Version[c]>>

\* The record is there, and c has no more to do than to look it up.
Served(c) == HasKey(table, RowKey(c))
             /\ pc[c] \in {"start", "lookup", "link", "returned", "raised", "crashed"}

\* Once the record is there, a caller has no more to do than to look it up, after any step.
LEMMA ServedNext ==
  ASSUME IInv, IInv', [Next]_vars, NEW c \in Callers, Mode[c] # "path", Served(c)
  PROVE  Served(c)'
<1>1. HasKey(table', RowKey(c))
  <2>1. Grows(table, table') /\ Len(table) \in Nat /\ Len(table') \in Nat
    BY TableGrows, LenProperties DEF IInv, TypeOK
  <2>2. PICK i \in 1..Len(table) : table[i].key = RowKey(c)
    BY DEF Served, HasKey
  <2>3. i \in 1..Len(table') /\ table'[i].key = RowKey(c)
    BY <2>1, <2>2 DEF Grows
  <2>4. QED  BY <2>3 DEF HasKey
<1>2. pc'[c] \in {"start", "lookup", "link", "returned", "raised", "crashed"}
  <2>1. CASE LookUp(c)
    <3>1. pc[c] = "lookup" /\ Key(c) = RowKey(c)
      BY <2>1 DEF LookUp, Return, Goto, IInv, Registered, Past, Key, RowKey
    <3>2. Stored(Key(c))
      BY <3>1, TableIsValue DEF Served
    <3>3. QED  BY <2>1, <3>2 DEF LookUp, Return, Goto, IInv, TypeOK
  <2>2. CASE Start(c) \/ Link(c) \/ InsertFails(c) \/ Crash(c)
    BY <2>2 DEF Start, Link, Goto, InsertFails, Crash, IInv, TypeOK
  <2>3. CASE Probe(c) \/ Insert(c) \/ Adopt(c)
    BY <2>3 DEF Probe, Insert, Adopt, Return, Goto, Served
  <2>4. ASSUME NEW b \in Callers, b # c, CallerStep(b) \/ InsertFails(b) \/ Crash(b)
        PROVE  pc'[c] = pc[c]
    BY <2>4 DEF CallerStep, Start, LookUp, Probe, Insert, Adopt, Link, Return, Goto,
       InsertFails, Crash, IInv, TypeOK
  <2>5. CASE UNCHANGED vars \/ Register \/ AllEnded
    BY <2>5 DEF vars, Register, AllEnded, Served
  <2>6. QED  BY <2>1, <2>2, <2>3, <2>4, <2>5 DEF Next, CallerStep, Served
<1>3. QED  BY <1>1, <1>2 DEF Served, RowKey

\* A caller that starts when its record is stored never comes to a probe, whatever
\* the others do meanwhile.
THEOREM RerunsServed == Spec => RerunsDoNotProbe
<1>1. ASSUME NEW c \in Callers, Mode[c] # "path"
      PROVE  Spec => [](pc[c] = "start" /\ Stored(RowKey(c))
                          => [](pc[c] \notin {"probe", "insert"}))
  <2>1. pc[c] = "start" /\ Stored(RowKey(c)) => Served(c)
    BY TableIsValue DEF Served
  <2>2. Served(c) => pc[c] \notin {"probe", "insert"}
    BY DEF Served
  <2>3. IInv /\ IInv' /\ [Next]_vars /\ Served(c) => Served(c)'
    BY <1>1, ServedNext
  <2>4. QED  BY <2>1, <2>2, <2>3, StoreInvariance, PTL DEF Spec
<1>2. QED  BY <1>1 DEF RerunsDoNotProbe, RowKey

=============================================================================
