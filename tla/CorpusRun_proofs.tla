-------------------------- MODULE CorpusRun_proofs --------------------------
(***************************************************************************)
(* Theorems about CorpusRun, for any number of drivers, manifest rows,     *)
(* workers, slots and attempts, sequential or concurrent, with any number  *)
(* of crashes and failing writes.                                          *)
(*                                                                         *)
(* The argument: the row (job, 1) of evaluation_attempts is a token.  The  *)
(* unique index lets one thread insert it, ever; that thread is the only   *)
(* one that gets past its first insert, so it alone executes the job,      *)
(* extends its attempt history and decides its verdict.                    *)
(***************************************************************************)
EXTENDS CorpusRun, FiniteSetTheorems, TLAPS

\* The thread holds the token of job r: it has inserted (r, 1) itself.
Claimed(d, r) ==
  \/ pc[d][r] \in {"execute", "close_refused", "terminalize", "done"}
  \/ pc[d][r] = "admit" /\ tries[d][r] >= 1
  \/ pc[d][r] \in {"mark", "refuse", "insert"} /\ tries[d][r] >= 2

\* Attempt rows the holder of the token has inserted so far.
Inserted(d, r) ==
  IF pc[d][r] \in {"mark", "refuse", "insert"} THEN tries[d][r] - 1
                                               ELSE tries[d][r]

\* A building driver is inside the manifest; threads exist only in the pool.
MainInv ==
  \A d \in Drivers :
    /\ phase[d] \in {"insert", "skip", "count"} => cursor[d] \in Repos
    /\ phase[d] # "pool" =>
         \A r \in Repos : pc[d][r] = "none" /\ tries[d][r] = 0

\* What a thread's position says of its attempt counter and its outcome.
ThreadOK(d, r) ==
  /\ pc[d][r] \in {"none", "queued"} => tries[d][r] = 0
  /\ pc[d][r] = "admit" => tries[d][r] < MaxAttempts
  /\ pc[d][r] \in {"refuse", "close_refused", "mark", "insert", "execute",
                   "terminalize", "done"} => tries[d][r] >= 1
  /\ pc[d][r] = "terminalize" => outcome[d][r].verdict \in Verdicts

\* Attempt rows of a job are numbered from 1 without a gap.
AttemptsOK(r) ==
  \A n \in 1..MaxAttempts : Exists(r, n) => \A m \in 1..n : Exists(r, m)

\* The holder of the token knows exactly which rows exist, and its present row
\* is open; a decided job is one its holder is done with.
HolderOK(d, r) ==
  Claimed(d, r) =>
    /\ \A n \in 1..MaxAttempts : Exists(r, n) <=> n <= Inserted(d, r)
    /\ pc[d][r] \in {"execute", "close_refused"} =>
         attempts[r][tries[d][r]] = "open"
    /\ jobs[r].verdict # Null => pc[d][r] = "done"

\* A job has one holder, and no verdict before it has a row and had a holder.
OwnerOK(r) ==
  /\ \A d, e \in Drivers : Claimed(d, r) /\ Claimed(e, r) => d = e
  /\ jobs[r].verdict # Null => Exists(r, 1) /\ JobExists(r)

ThreadInv == \A d \in Drivers, r \in Repos : ThreadOK(d, r) /\ HolderOK(d, r)
JobInv    == \A r \in Repos : AttemptsOK(r) /\ OwnerOK(r)

Inv == TypeOK /\ MainInv /\ ThreadInv /\ JobInv

\* The step leaves the verdict of job r alone, and does not delete its row.
SameVerdict(r) ==
  /\ jobs'[r].verdict = jobs[r].verdict
  /\ JobExists(r) => JobExists(r)'

-----------------------------------------------------------------------------
(***************************************************************************)
(* Type correctness.                                                       *)
(***************************************************************************)

\* The manifest is finite, so rows can be counted.
LEMMA ReposFinite == IsFiniteSet(Repos)
BY RunAssumption, FS_Interval DEF Repos

\* A recount yields numbers.
LEMMA TallyType == Tally \in [Buckets -> Nat]
<1>1. SUFFICES ASSUME NEW b \in Buckets
               PROVE  Cardinality({r \in Repos : InBucket(jobs[r], b)}) \in Nat
  BY DEF Tally
<1>2. {r \in Repos : InBucket(jobs[r], b)} \subseteq Repos
  OBVIOUS
<1> QED BY <1>2, ReposFinite, FS_Subset, FS_CardinalityType

\* NULL is not a verdict.
LEMMA NullIsNoVerdict == Null \notin Verdicts
BY DEF Null, Verdicts

\* The initial state satisfies the invariant.
LEMMA InitInv == Init => Inv
<1> SUFFICES ASSUME Init PROVE Inv OBVIOUS
<1>1. TypeOK
  <2>1. /\ 1 \in 1..RepoCount + 1
        /\ 0 \in 0..MaxAttempts
        /\ MaxActive \in Int
        /\ MaxCrashes \in 0..MaxCrashes
        /\ MaxBusy \in 0..MaxBusy
    BY RunAssumption
  <2>2. jobs \in [Repos -> JobRow]
    BY DEF Init, JobRow, JobStatuses, AllErrorClasses
  <2>3. attempts \in [Repos -> [1..MaxAttempts -> AttemptStates]]
    BY DEF Init, AttemptStates
  <2>4. phase \in [Drivers -> Phases]
    BY DEF Init, Phases
  <2>5. pc \in [Drivers -> [Repos -> PCs]]
    BY DEF Init, PCs
  <2>6. outcome \in [Drivers -> [Repos -> Outcomes]]
    BY DEF Init, Outcomes, NoOutcome, AllErrorClasses
  <2>7. /\ cursor \in [Drivers -> 1..RepoCount + 1]
        /\ tries \in [Drivers -> [Repos -> 0..MaxAttempts]]
        /\ slots \in [Drivers -> Int]
    BY <2>1 DEF Init
  <2>8. counters \in [Buckets -> Nat]
    BY DEF Init
  <2>9. evaluation \in [Repos -> Verdicts \cup {Null}]
    BY DEF Init
  <2> QED
    BY <2>1, <2>2, <2>3, <2>4, <2>5, <2>6, <2>7, <2>8, <2>9 DEF TypeOK, Init
<1>2. MainInv
  BY DEF MainInv, Init
<1>3. ThreadInv
  BY RunAssumption DEF ThreadInv, ThreadOK, HolderOK, Claimed, Init
<1>4. JobInv
  BY DEF JobInv, AttemptsOK, OwnerOK, Exists, Claimed, Init
<1> QED BY <1>1, <1>2, <1>3, <1>4 DEF Inv

\* The row after a manifest row is a position of the cursor again.
LEMMA NextRow ==
  ASSUME NEW r \in Repos PROVE r + 1 \in 1..RepoCount + 1
BY RunAssumption DEF Repos

\* Type correctness over every step of a main thread.
LEMMA MainTypeOK ==
  ASSUME TypeOK, MainInv, NEW d \in Drivers, Resume(d) \/ MainStep(d)
  PROVE  TypeOK'
<1> USE RunAssumption DEF TypeOK, MoveTo, StopIn
<1>1. CASE Resume(d)
  BY <1>1 DEF Resume, dbVars, threadVars, faultVars, Phases, Stopped
<1>2. CASE FindJob(d)
  <2>1. cursor' \in [Drivers -> 1..RepoCount + 1]
    <3>1. cursor[d] + 1 \in 1..RepoCount + 1
      BY <1>2, NextRow DEF FindJob
    <3>2. cursor' \in {cursor, [cursor EXCEPT ![d] = cursor[d] + 1]}
      BY <1>2 DEF FindJob
    <3> QED BY <3>1, <3>2
  <2>2. phase' \in [Drivers -> Phases]
    BY <1>2 DEF FindJob, Phases
  <2> QED BY <1>2, <2>1, <2>2 DEF FindJob, dbVars, threadVars, faultVars
<1>3. CASE InsertJob(d)
  <2>1. cursor[d] \in Repos
    BY <1>3 DEF InsertJob, MainInv
  <2>2. NewJob(Kind[cursor[d]]) \in JobRow
    BY DEF NewJob, JobRow, JobStatuses, AllErrorClasses
  <2>3. cursor' \in [Drivers -> 1..RepoCount + 1]
    <3>1. cursor' \in {cursor, [cursor EXCEPT ![d] = cursor[d] + 1]}
      BY <1>3 DEF InsertJob
    <3> QED BY <2>1, <3>1, NextRow
  <2>4. phase' \in [Drivers -> Phases]
    BY ZenonT(40), <1>3 DEF InsertJob, Phases, Stopped
  <2>5. jobs' \in [Repos -> JobRow]
    BY <1>3, <2>1, <2>2 DEF InsertJob
  <2> QED
    BY <1>3, <2>3, <2>4, <2>5 DEF InsertJob, threadVars, faultVars
<1>4. CASE SkipJob(d)
  <2>1. cursor[d] \in Repos /\ jobs[cursor[d]] \in JobRow
    BY <1>4 DEF SkipJob, MainInv
  <2>2. [jobs[cursor[d]] EXCEPT
           !.status = "skipped_unsupported_scenario",
           !.errorClass = "SKIPPED_UNSUPPORTED_SCENARIO"] \in JobRow
    BY <2>1 DEF JobRow, JobStatuses, AllErrorClasses
  <2>3. jobs' \in [Repos -> JobRow]
    BY <1>4, <2>1, <2>2 DEF SkipJob
  <2> QED BY <1>4, <2>3 DEF SkipJob, threadVars, faultVars, Phases
<1>5. CASE CountJob(d)
  <2>1. cursor[d] \in Repos
    BY <1>5 DEF CountJob, MainInv
  <2>2. cursor' \in [Drivers -> 1..RepoCount + 1]
    BY <1>5, <2>1 DEF CountJob, Repos
  <2>3. counters' \in [Buckets -> Nat]
    <3>1. counters["COMPLETED"] + 1 \in Nat
      BY DEF Buckets
    <3>2. \A b \in Buckets : counters[b] + 1 \in Nat
      OBVIOUS
    <3> QED BY <1>5, <3>1, <3>2 DEF CountJob
  <2> QED
    BY <1>5, <2>2, <2>3 DEF CountJob, threadVars, faultVars, Phases
<1>6. CASE SealJobs(d)
  BY <1>6 DEF SealJobs, threadVars, faultVars, Phases
<1>7. CASE Launch(d)
  BY <1>7 DEF Launch, threadVars, faultVars, Phases
<1>8. CASE ListPending(d)
  BY <1>8 DEF ListPending, dbVars, faultVars, Phases, PCs
<1>9. CASE JoinPool(d)
  <2>1. PICK last \in {"failed", "recount"} : StopIn(d, last)
    BY <1>9 DEF JoinPool
  <2>2. NoOutcome \in Outcomes
    BY DEF NoOutcome, Outcomes, AllErrorClasses
  <2> QED
    BY <1>9, <2>1, <2>2 DEF JoinPool, dbVars, faultVars, Phases, Stopped, PCs
<1>10. CASE Recount(d)
  BY <1>10, TallyType DEF Recount, threadVars, faultVars, Phases
<1>11. CASE CompleteRun(d)
  BY <1>11 DEF CompleteRun, threadVars, faultVars, Phases, Stopped
<1> QED
  BY <1>1, <1>2, <1>3, <1>4, <1>5, <1>6, <1>7, <1>8, <1>9, <1>10, <1>11
  DEF MainStep

\* A step that neither touches an attempt row nor a verdict, and either leaves
\* a thread alone or takes it out of work, preserves all but the types.
LEMMA QuietStep ==
  ASSUME Inv, TypeOK', MainInv', attempts' = attempts,
         \A r \in Repos : SameVerdict(r),
         \A d \in Drivers, r \in Repos :
           \/ /\ pc'[d][r] = pc[d][r]
              /\ tries'[d][r] = tries[d][r]
              /\ outcome'[d][r] = outcome[d][r]
           \/ pc'[d][r] \in {"none", "queued"} /\ tries'[d][r] = 0
           \/ pc'[d][r] = "dead"
  PROVE  Inv'
<1>1. ASSUME NEW d \in Drivers, NEW r \in Repos, Claimed(d, r)'
      PROVE  /\ Claimed(d, r)
             /\ pc'[d][r] = pc[d][r] /\ tries'[d][r] = tries[d][r]
  BY <1>1 DEF Claimed
<1>2. ThreadInv'
  <2> SUFFICES ASSUME NEW d \in Drivers, NEW r \in Repos
               PROVE  ThreadOK(d, r)' /\ HolderOK(d, r)'
    BY DEF ThreadInv
  <2>1. ThreadOK(d, r) /\ HolderOK(d, r)
    BY DEF Inv, ThreadInv
  <2>2. ThreadOK(d, r)'
    BY <2>1 DEF ThreadOK
  <2>3. HolderOK(d, r)'
    BY <2>1, <1>1 DEF HolderOK, Inserted, Exists, SameVerdict
  <2> QED BY <2>2, <2>3
<1>3. JobInv'
  BY <1>1 DEF Inv, JobInv, AttemptsOK, OwnerOK, Exists, SameVerdict
<1> QED BY <1>2, <1>3 DEF Inv

\* A step of thread (d, r) that leaves every other thread and job alone needs
\* to be checked at (d, r) only.
LEMMA LocalStep ==
  ASSUME Inv, NEW d \in Drivers, NEW r \in Repos,
         TypeOK', phase[d] = "pool", phase' = phase, cursor' = cursor,
         \A e \in Drivers, q \in Repos : e # d \/ q # r =>
           /\ pc'[e][q] = pc[e][q]
           /\ tries'[e][q] = tries[e][q]
           /\ outcome'[e][q] = outcome[e][q],
         \A q \in Repos : q # r =>
           attempts'[q] = attempts[q] /\ SameVerdict(q),
         ThreadOK(d, r)', AttemptsOK(r)', OwnerOK(r)',
         \A e \in Drivers : HolderOK(e, r)'
  PROVE  Inv'
<1>1. MainInv'
  BY DEF Inv, MainInv
<1>2. ThreadInv'
  <2> SUFFICES ASSUME NEW e \in Drivers, NEW q \in Repos, e # d \/ q # r
               PROVE  ThreadOK(e, q)' /\ HolderOK(e, q)'
    BY DEF ThreadInv
  <2>1. ThreadOK(e, q) /\ HolderOK(e, q)
    BY DEF Inv, ThreadInv
  <2>2. ThreadOK(e, q)'
    BY <2>1 DEF ThreadOK
  <2>3. CASE q # r
    BY <2>1, <2>2, <2>3 DEF HolderOK, Claimed, Inserted, Exists, SameVerdict
  <2> QED BY <2>2, <2>3
<1>3. JobInv'
  <2> SUFFICES ASSUME NEW q \in Repos, q # r
               PROVE  AttemptsOK(q)' /\ OwnerOK(q)'
    BY DEF JobInv
  <2> QED BY DEF Inv, JobInv, AttemptsOK, OwnerOK, Exists, Claimed, SameVerdict
<1> QED BY <1>1, <1>2, <1>3 DEF Inv

-----------------------------------------------------------------------------
(***************************************************************************)
(* The main thread.                                                        *)
(***************************************************************************)

\* No step of a main thread touches an attempt row or a verdict.
LEMMA MainStepQuiet ==
  ASSUME Inv, NEW d \in Drivers, Resume(d) \/ MainStep(d)
  PROVE  attempts' = attempts /\ \A r \in Repos : SameVerdict(r)
<1> USE DEF Inv
<1>1. attempts' = attempts
  BY DEF Resume, MainStep, FindJob, InsertJob, SkipJob, CountJob, SealJobs,
         Launch, ListPending, JoinPool, Recount, CompleteRun, dbVars
<1>2. CASE InsertJob(d)
  <2> DEFINE c == cursor[d]
  <2>1. \/ jobs' = jobs
        \/ /\ jobs[c].status = "absent"
           /\ jobs' = [jobs EXCEPT ![c] = NewJob(Kind[c])]
    BY <1>2 DEF InsertJob
  <2>2. c \in Repos
    BY <1>2 DEF InsertJob, MainInv
  <2>3. jobs[c].status = "absent" => jobs[c].verdict = Null
    BY <2>2 DEF JobInv, OwnerOK, JobExists
  <2>4. NewJob(Kind[c]).verdict = Null /\ NewJob(Kind[c]).status # "absent"
    BY DEF NewJob
  <2> HIDE DEF c
  <2> QED BY <1>1, <2>1, <2>2, <2>3, <2>4 DEF SameVerdict, JobExists, TypeOK
<1>3. CASE SkipJob(d)
  BY <1>1, <1>3 DEF SkipJob, TypeOK, JobRow, SameVerdict, JobExists
<1>4. CASE ~InsertJob(d) /\ ~SkipJob(d)
  <2>1. jobs' = jobs
    BY <1>4 DEF Resume, MainStep, FindJob, CountJob, SealJobs, Launch,
                ListPending, JoinPool, Recount, CompleteRun, dbVars
  <2> QED BY <1>1, <2>1 DEF SameVerdict, JobExists
<1> QED BY <1>2, <1>3, <1>4

\* A main thread keeps the invariant: it decides no verdict and opens no
\* attempt.
LEMMA MainStepInv ==
  ASSUME Inv, NEW d \in Drivers, Resume(d) \/ MainStep(d)
  PROVE  Inv'
<1> USE DEF Inv
<1>1. TypeOK'
  BY MainTypeOK
<1>2. attempts' = attempts /\ \A r \in Repos : SameVerdict(r)
  BY MainStepQuiet
<1>3. ASSUME UNCHANGED <<pc, tries, outcome>>, MainInv' PROVE Inv'
  BY <1>1, <1>2, <1>3, QuietStep
<1>4. CASE Resume(d)
  BY <1>3, <1>4 DEF Resume, MainInv, TypeOK, threadVars
<1>5. CASE FindJob(d)
  BY <1>3, <1>5 DEF FindJob, MainInv, TypeOK, threadVars
<1>6. CASE InsertJob(d)
  <2>1. MainInv'
    BY <1>6 DEF InsertJob, MainInv, TypeOK, threadVars
  <2> QED BY <1>3, <1>6, <2>1 DEF InsertJob, threadVars
<1>7. CASE SkipJob(d)
  <2>1. MainInv'
    BY <1>7 DEF SkipJob, MoveTo, MainInv, TypeOK, threadVars
  <2> QED BY <1>3, <1>7, <2>1 DEF SkipJob, threadVars
<1>8. CASE CountJob(d)
  BY <1>3, <1>8 DEF CountJob, MoveTo, MainInv, TypeOK, threadVars
<1>9. CASE SealJobs(d)
  BY <1>3, <1>9 DEF SealJobs, MoveTo, MainInv, TypeOK, threadVars
<1>10. CASE Launch(d)
  BY <1>3, <1>10 DEF Launch, MoveTo, MainInv, TypeOK, threadVars
<1>11. CASE ListPending(d)
  <2>1. MainInv'
    BY <1>11 DEF ListPending, MoveTo, MainInv, TypeOK
  <2>2. \A e \in Drivers, r \in Repos :
          /\ tries'[e][r] = tries[e][r] /\ outcome'[e][r] = outcome[e][r]
          /\ \/ pc'[e][r] = pc[e][r]
             \/ pc'[e][r] \in {"none", "queued"} /\ tries'[e][r] = 0
    BY <1>11 DEF ListPending, MoveTo, MainInv, TypeOK
  <2> QED BY <1>1, <1>2, <2>1, <2>2, QuietStep
<1>12. CASE JoinPool(d)
  <2>1. PICK last \in {"failed", "recount"} : StopIn(d, last)
    BY <1>12 DEF JoinPool
  <2>2. MainInv'
    BY <1>12, <2>1 DEF JoinPool, StopIn, MainInv, TypeOK
  <2>3. \A e \in Drivers, r \in Repos :
          \/ /\ pc'[e][r] = pc[e][r]
             /\ tries'[e][r] = tries[e][r]
             /\ outcome'[e][r] = outcome[e][r]
          \/ pc'[e][r] = "none" /\ tries'[e][r] = 0
    BY <2>1 DEF StopIn, TypeOK
  <2> QED BY <1>1, <1>2, <2>2, <2>3, QuietStep
<1>13. CASE Recount(d)
  BY <1>3, <1>13 DEF Recount, MoveTo, MainInv, TypeOK, threadVars
<1>14. CASE CompleteRun(d)
  BY <1>3, <1>14 DEF CompleteRun, MoveTo, MainInv, TypeOK, threadVars
<1> QED
  BY <1>4, <1>5, <1>6, <1>7, <1>8, <1>9, <1>10, <1>11, <1>12, <1>13, <1>14
  DEF MainStep

\* A crash frees nothing but threads: the rows keep what was claimed.
LEMMA CrashInv ==
  ASSUME Inv, NEW d \in Drivers, Crash(d)
  PROVE  Inv'
<1> USE DEF Inv
<1>1. StopIn(d, "crashed") /\ UNCHANGED <<dbVars, cursor, busy>>
  BY DEF Crash
<1>2. crashes' \in 0..MaxCrashes
  BY RunAssumption DEF Crash, TypeOK
<1>3. NoOutcome \in Outcomes
  BY DEF NoOutcome, Outcomes, AllErrorClasses
<1>4. TypeOK'
  BY <1>1, <1>2, <1>3, RunAssumption
  DEF StopIn, TypeOK, Phases, Stopped, PCs, dbVars
<1>5. MainInv'
  BY <1>1 DEF StopIn, MainInv, TypeOK
<1>6. \A e \in Drivers, r \in Repos :
        \/ /\ pc'[e][r] = pc[e][r]
           /\ tries'[e][r] = tries[e][r]
           /\ outcome'[e][r] = outcome[e][r]
        \/ pc'[e][r] = "none" /\ tries'[e][r] = 0
  BY <1>1 DEF StopIn, TypeOK
<1>7. \A r \in Repos : SameVerdict(r)
  BY <1>1 DEF dbVars, SameVerdict, JobExists
<1> QED BY <1>1, <1>4, <1>5, <1>6, <1>7, QuietStep DEF dbVars

-----------------------------------------------------------------------------
(***************************************************************************)
(* The worker threads.                                                     *)
(***************************************************************************)

\* What every worker step has in common: the thread is at work in the pool.
LEMMA InPool ==
  ASSUME Inv, NEW d \in Drivers, NEW r \in Repos, pc[d][r] # "none"
  PROVE  phase[d] = "pool"
BY DEF Inv, MainInv

\* A thread that dies on a failing write claims nothing new.
LEMMA WriteFailsInv ==
  ASSUME Inv, NEW d \in Drivers, NEW r \in Repos, WriteFails(d, r)
  PROVE  Inv'
<1> USE DEF Inv
<1>1. phase[d] = "pool"
  BY InPool DEF WriteFails
<1>2. busy' \in 0..MaxBusy
  BY RunAssumption DEF WriteFails, TypeOK
<1>3. slots' \in [Drivers -> Int]
  BY DEF WriteFails, ReleaseSlot, TypeOK
<1>4. pc' \in [Drivers -> [Repos -> PCs]]
  BY DEF WriteFails, TypeOK, PCs
<1>5. UNCHANGED <<dbVars, phase, cursor, tries, outcome, crashes>>
  BY DEF WriteFails
<1>6. TypeOK'
  BY <1>2, <1>3, <1>4, <1>5 DEF TypeOK, dbVars
<1>7. MainInv'
  BY <1>1, <1>5 DEF WriteFails, MainInv, TypeOK
<1>8. \A e \in Drivers, q \in Repos :
        pc'[e][q] = pc[e][q] \/ pc'[e][q] = "dead"
  BY DEF WriteFails, TypeOK
<1>9. \A q \in Repos : SameVerdict(q)
  BY <1>5 DEF dbVars, SameVerdict, JobExists
<1> QED BY <1>5, <1>6, <1>7, <1>8, <1>9, QuietStep DEF dbVars

\* Only thread (d, r) moves.
OnlyThread(d, r) ==
  \A e \in Drivers, q \in Repos : e # d \/ q # r =>
    /\ pc'[e][q] = pc[e][q]
    /\ tries'[e][q] = tries[e][q]
    /\ outcome'[e][q] = outcome[e][q]

\* A worker step that adds no attempt row, decides nothing, and neither gives
\* thread (d, r) the token nor changes what it has inserted.
LEMMA HolderSteady ==
  ASSUME Inv, NEW d \in Drivers, NEW r \in Repos, TypeOK',
         phase[d] = "pool", phase' = phase, cursor' = cursor,
         OnlyThread(d, r), \A q \in Repos : SameVerdict(q),
         attempts' = attempts, ThreadOK(d, r)',
         Claimed(d, r)' => Claimed(d, r) /\ Inserted(d, r)' = Inserted(d, r),
         jobs[r].verdict # Null /\ pc[d][r] = "done" => pc'[d][r] = "done",
         pc'[d][r] \notin {"execute", "close_refused"}
  PROVE  Inv'
<1> USE DEF Inv
<1>1. AttemptsOK(r)'
  BY DEF JobInv, AttemptsOK, Exists
<1>2. \A e \in Drivers : Claimed(e, r)' => Claimed(e, r)
  BY DEF OnlyThread, Claimed
<1>3. OwnerOK(r)'
  BY <1>2 DEF JobInv, OwnerOK, Exists, SameVerdict
<1>4. ASSUME NEW e \in Drivers PROVE HolderOK(e, r)'
  <2>1. HolderOK(e, r)
    BY DEF ThreadInv
  <2>2. CASE e = d
    BY <2>1, <2>2 DEF HolderOK, Exists, SameVerdict
  <2>3. CASE e # d
    BY <2>1, <2>3 DEF HolderOK, Exists, SameVerdict, OnlyThread, Claimed,
                      Inserted
  <2> QED BY <2>2, <2>3
<1> QED BY <1>1, <1>3, <1>4, LocalStep DEF OnlyThread

\* Starting a thread keeps the invariant.
LEMMA StartThreadInv ==
  ASSUME Inv, NEW d \in Drivers, NEW r \in Repos, StartThread(d, r)
  PROVE  Inv'
<1> USE DEF Inv
<1>1. /\ phase[d] = "pool"
      /\ pc[d][r] = "queued"
      /\ pc' = [pc EXCEPT ![d][r] = "admit"]
      /\ UNCHANGED <<dbVars, phase, cursor, slots, tries, outcome, faultVars>>
  BY DEF StartThread, Step
<1>2. tries[d][r] = 0
  BY <1>1 DEF ThreadInv, ThreadOK
<1>3. TypeOK'
  BY <1>1 DEF TypeOK, dbVars, faultVars, PCs, Working
<1>4. pc'[d][r] = "admit" /\ OnlyThread(d, r)
  BY <1>1 DEF TypeOK, OnlyThread
<1>5. ThreadOK(d, r)'
  BY <1>1, <1>2, <1>4, RunAssumption DEF ThreadOK
<1>6. ~Claimed(d, r)'
  BY <1>1, <1>2, <1>4 DEF Claimed
<1>7. \A q \in Repos : SameVerdict(q)
  BY <1>1 DEF dbVars, SameVerdict, JobExists
<1> QED
  BY <1>1, <1>3, <1>4, <1>5, <1>6, <1>7, HolderSteady DEF dbVars

\* Taking or being refused a slot keeps the invariant.
LEMMA AdmitInv ==
  ASSUME Inv, NEW d \in Drivers, NEW r \in Repos, Admit(d, r)
  PROVE  Inv'
<1> USE DEF Inv
<1> DEFINE next == IF slots[d] > 0 THEN "mark" ELSE "refuse"
<1>1. /\ pc[d][r] = "admit"
      /\ pc' = [pc EXCEPT ![d][r] = next]
      /\ tries' = [tries EXCEPT ![d][r] = @ + 1]
      /\ UNCHANGED <<dbVars, phase, cursor, outcome, faultVars>>
  BY DEF Admit, Step
<1>2. phase[d] = "pool"
  BY <1>1, InPool
<1>3. tries[d][r] + 1 \in 0..MaxAttempts
  BY <1>1, RunAssumption DEF ThreadInv, ThreadOK, TypeOK
<1>4. next \in {"mark", "refuse"}
  OBVIOUS
<1>5. slots' \in [Drivers -> Int]
  BY DEF Admit, TakeSlot, TypeOK
<1> HIDE DEF next
<1>6. TypeOK'
  <2>1. pc' \in [Drivers -> [Repos -> PCs]]
    BY <1>1, <1>4 DEF TypeOK, PCs, Working
  <2>2. tries' \in [Drivers -> [Repos -> 0..MaxAttempts]]
    BY <1>1, <1>3 DEF TypeOK
  <2> QED BY <1>1, <1>5, <2>1, <2>2 DEF TypeOK, dbVars, faultVars
<1>7. /\ pc'[d][r] = next
      /\ tries'[d][r] = tries[d][r] + 1
      /\ OnlyThread(d, r)
  BY <1>1 DEF TypeOK, OnlyThread
<1>8. tries[d][r] \in Nat
  BY RunAssumption DEF TypeOK
<1>9. ThreadOK(d, r)'
  BY <1>4, <1>7, <1>8 DEF ThreadOK
<1>10. Claimed(d, r)' => Claimed(d, r) /\ Inserted(d, r)' = Inserted(d, r)
  BY <1>1, <1>4, <1>7, <1>8 DEF Claimed, Inserted
<1>11. \A q \in Repos : SameVerdict(q)
  BY <1>1 DEF dbVars, SameVerdict, JobExists
<1> QED
  BY <1>1, <1>2, <1>4, <1>6, <1>7, <1>9, <1>10, <1>11, HolderSteady DEF dbVars

\* Marking a job running keeps its verdict.
LEMMA MarkRunningInv ==
  ASSUME Inv, NEW d \in Drivers, NEW r \in Repos, MarkRunning(d, r)
  PROVE  Inv'
<1> USE DEF Inv
<1>1. /\ pc[d][r] = "mark"
      /\ pc' = [pc EXCEPT ![d][r] = "insert"]
      /\ jobs' = [jobs EXCEPT ![r].status = "running", ![r].attemptCount = @ + 1]
      /\ UNCHANGED <<runStatus, totalJobs, counters, evaluation, attempts, phase,
                     cursor, slots, tries, outcome, faultVars>>
  BY DEF MarkRunning, Step
<1>2. phase[d] = "pool"
  BY <1>1, InPool
<1>3. jobs' \in [Repos -> JobRow]
  <2>1. jobs[r].attemptCount + 1 \in Nat
    BY DEF TypeOK, JobRow
  <2>2. [jobs[r] EXCEPT !.status = "running", !.attemptCount = @ + 1] \in JobRow
    <3>1. jobs[r] \in JobRow
      BY DEF TypeOK
    <3> QED BY <2>1, <3>1 DEF JobRow, JobStatuses
  <2>3. jobs' = [jobs EXCEPT ![r] =
                   [jobs[r] EXCEPT !.status = "running", !.attemptCount = @ + 1]]
    BY <1>1 DEF TypeOK, JobRow
  <2> QED BY <2>2, <2>3 DEF TypeOK
<1>4. TypeOK'
  BY <1>1, <1>3 DEF TypeOK, faultVars, PCs, Working
<1>5. /\ pc'[d][r] = "insert"
      /\ tries'[d][r] = tries[d][r]
      /\ OnlyThread(d, r)
  BY <1>1 DEF TypeOK, OnlyThread
<1>6. ThreadOK(d, r)'
  BY <1>1, <1>5 DEF ThreadInv, ThreadOK
<1>7. Claimed(d, r)' => Claimed(d, r) /\ Inserted(d, r)' = Inserted(d, r)
  BY <1>1, <1>5 DEF Claimed, Inserted
<1>8. \A q \in Repos : SameVerdict(q)
  BY <1>1 DEF TypeOK, JobRow, SameVerdict, JobExists
<1> QED
  BY <1>1, <1>2, <1>4, <1>5, <1>6, <1>7, <1>8, HolderSteady

\* A worker that inserts the next row of its job: it either starts the history
\* of a job nobody holds, or extends the history it holds.
LEMMA NewRow ==
  ASSUME Inv, NEW d \in Drivers, NEW r \in Repos, TypeOK',
         phase[d] = "pool", phase' = phase, cursor' = cursor,
         OnlyThread(d, r), UNCHANGED <<jobs, tries, outcome>>,
         pc[d][r] \in {"refuse", "insert"},
         pc'[d][r] \in {"close_refused", "execute"},
         ~Exists(r, tries[d][r]),
         attempts' = [attempts EXCEPT ![r][tries[d][r]] = "open"]
  PROVE  Inv' /\ AppendOnly
<1> USE DEF Inv
<1> DEFINE n == tries[d][r]
<1>1. n \in 1..MaxAttempts
  BY RunAssumption DEF TypeOK, ThreadInv, ThreadOK
<1>2. /\ \A q \in Repos : q # r => attempts'[q] = attempts[q]
      /\ attempts'[r][n] = "open"
      /\ \A m \in 1..MaxAttempts : m # n => attempts'[r][m] = attempts[r][m]
  BY <1>1 DEF TypeOK
<1>3. \A m \in 1..MaxAttempts : Exists(r, m)' <=> Exists(r, m) \/ m = n
  BY <1>2 DEF Exists
<1>4. ASSUME NEW e \in Drivers, Claimed(e, r) PROVE e = d
  <2>1. CASE n = 1
    <3>1. Exists(r, 1) <=> 1 <= Inserted(e, r)
      BY <1>1, <1>4, RunAssumption DEF ThreadInv, HolderOK
    <3>2. 1 <= Inserted(e, r)
      BY <1>4 DEF Claimed, Inserted, ThreadInv, ThreadOK, TypeOK
    <3> QED BY <2>1, <3>1, <3>2
  <2>2. CASE n # 1
    <3>1. Claimed(d, r)
      BY <1>1, <2>2 DEF Claimed
    <3> QED BY <1>4, <3>1 DEF JobInv, OwnerOK
  <2> QED BY <2>1, <2>2
<1>5. \A m \in 1..MaxAttempts : Exists(r, m) <=> m < n
  <2>1. CASE n = 1
    BY <1>1, <2>1 DEF JobInv, AttemptsOK
  <2>2. CASE n # 1
    <3>1. Claimed(d, r) /\ Inserted(d, r) = n - 1
      BY <1>1, <2>2 DEF Claimed, Inserted
    <3> QED BY <1>1, <3>1 DEF ThreadInv, HolderOK
  <2> QED BY <2>1, <2>2
<1>6. \A m \in 1..MaxAttempts : Exists(r, m)' <=> m <= n
  BY <1>1, <1>3, <1>5
<1>7. jobs[r].verdict = Null
  <2>1. CASE n = 1
    BY <2>1 DEF JobInv, OwnerOK
  <2>2. CASE n # 1
    <3>1. Claimed(d, r)
      BY <1>1, <2>2 DEF Claimed
    <3> QED BY <3>1 DEF ThreadInv, HolderOK
  <2> QED BY <2>1, <2>2
<1>8. ThreadOK(d, r)'
  BY <1>1 DEF ThreadOK
<1>9. AttemptsOK(r)'
  <2> SUFFICES ASSUME NEW k \in 1..MaxAttempts, Exists(r, k)', NEW m \in 1..k
               PROVE  Exists(r, m)'
    BY DEF AttemptsOK
  <2>1. m \in 1..MaxAttempts /\ m <= k
    BY RunAssumption
  <2>2. k <= n
    BY <1>6
  <2> QED BY <1>1, <1>6, <2>1, <2>2
<1>10. \A e \in Drivers : Claimed(e, r)' => e = d
  BY <1>4 DEF OnlyThread, Claimed
<1>11. OwnerOK(r)'
  BY <1>7, <1>10 DEF OwnerOK
<1>12. HolderOK(d, r)'
  BY <1>2, <1>6, <1>7 DEF HolderOK, Inserted
<1>13. \A e \in Drivers : HolderOK(e, r)'
  BY <1>10, <1>12 DEF HolderOK
<1>14. \A q \in Repos : SameVerdict(q)
  BY DEF SameVerdict, JobExists
<1>15. Inv'
  BY <1>2, <1>8, <1>9, <1>11, <1>13, <1>14, LocalStep DEF OnlyThread
<1>16. AppendOnly
  <2> SUFFICES ASSUME NEW q \in Repos, NEW k \in 1..MaxAttempts,
                      attempts'[q][k] # attempts[q][k]
               PROVE  /\ attempts'[q][k] # "absent"
                      /\ attempts'[q][k] = "open" <=> attempts[q][k] = "absent"
                      /\ attempts[q][k] \in {"absent", "open"}
                      /\ k > 1 => Exists(q, k - 1)
                      /\ \A m \in 1..MaxAttempts : m > k => ~Exists(q, m)
    BY DEF AppendOnly
  <2>1. q = r /\ k = n
    BY <1>2
  <2>2. attempts[r][n] = "absent"
    BY DEF Exists
  <2>3. ASSUME k > 1 PROVE Exists(r, k - 1)
    <3>1. k - 1 \in 1..MaxAttempts /\ k - 1 < n
      BY <2>1, <2>3, RunAssumption
    <3> QED BY <1>5, <3>1
  <2>4. \A m \in 1..MaxAttempts : m > n => ~Exists(r, m)
    BY <1>1, <1>5
  <2> QED BY <1>2, <2>1, <2>2, <2>3, <2>4
<1> QED BY <1>15, <1>16

\* A worker that dies on the unique index.
LEMMA Collision ==
  ASSUME Inv, NEW d \in Drivers, NEW r \in Repos, TypeOK',
         phase[d] = "pool", phase' = phase, cursor' = cursor,
         UNCHANGED <<jobs, attempts, tries, outcome>>,
         pc' = [pc EXCEPT ![d][r] = "dead"]
  PROVE  Inv'
<1>1. MainInv'
  BY DEF Inv, MainInv, TypeOK
<1>2. \A e \in Drivers, q \in Repos : pc'[e][q] = pc[e][q] \/ pc'[e][q] = "dead"
  BY DEF Inv, TypeOK
<1>3. \A q \in Repos : SameVerdict(q)
  BY DEF SameVerdict, JobExists
<1> QED BY <1>1, <1>2, <1>3, QuietStep

\* The row of a refused attempt claims the job, and is appended.
LEMMA RefuseSlotInv ==
  ASSUME Inv, NEW d \in Drivers, NEW r \in Repos, RefuseSlot(d, r)
  PROVE  Inv' /\ AppendOnly
<1> USE DEF Inv
<1>1. /\ pc[d][r] = "refuse"
      /\ UNCHANGED <<runStatus, totalJobs, counters, jobs, evaluation, phase,
                     cursor, slots, tries, outcome, faultVars>>
  BY DEF RefuseSlot
<1>2. phase[d] = "pool"
  BY <1>1, InPool
<1>3. CASE Exists(r, tries[d][r])
  <2>1. pc' = [pc EXCEPT ![d][r] = "dead"] /\ attempts' = attempts
    BY <1>3 DEF RefuseSlot, Step
  <2>2. TypeOK'
    BY <1>1, <2>1 DEF TypeOK, faultVars, PCs
  <2> QED BY <1>1, <1>2, <2>1, <2>2, Collision DEF AppendOnly
<1>4. CASE ~Exists(r, tries[d][r])
  <2>1. /\ pc' = [pc EXCEPT ![d][r] = "close_refused"]
        /\ attempts' = [attempts EXCEPT ![r][tries[d][r]] = "open"]
    BY <1>4 DEF RefuseSlot, Step
  <2>2. TypeOK'
    BY <1>1, <2>1 DEF TypeOK, faultVars, PCs, Working, AttemptStates
  <2>3. pc'[d][r] = "close_refused" /\ OnlyThread(d, r)
    BY <1>1, <2>1 DEF TypeOK, OnlyThread
  <2> QED BY <1>1, <1>2, <1>4, <2>1, <2>2, <2>3, NewRow
<1> QED BY <1>3, <1>4

\* The first insert of an attempt claims the job: a second one collides.
LEMMA InsertAttemptInv ==
  ASSUME Inv, NEW d \in Drivers, NEW r \in Repos, InsertAttempt(d, r)
  PROVE  Inv' /\ AppendOnly
<1> USE DEF Inv
<1>1. /\ pc[d][r] = "insert"
      /\ UNCHANGED <<runStatus, totalJobs, counters, jobs, evaluation, phase,
                     cursor, tries, outcome, faultVars>>
  BY DEF InsertAttempt
<1>2. phase[d] = "pool"
  BY <1>1, InPool
<1>3. slots' \in [Drivers -> Int]
  BY DEF InsertAttempt, ReleaseSlot, TypeOK
<1>4. CASE Exists(r, tries[d][r])
  <2>1. pc' = [pc EXCEPT ![d][r] = "dead"] /\ attempts' = attempts
    BY <1>4 DEF InsertAttempt, Step
  <2>2. TypeOK'
    BY <1>1, <1>3, <2>1 DEF TypeOK, faultVars, PCs
  <2> QED BY <1>1, <1>2, <2>1, <2>2, Collision DEF AppendOnly
<1>5. CASE ~Exists(r, tries[d][r])
  <2>1. /\ pc' = [pc EXCEPT ![d][r] = "execute"]
        /\ attempts' = [attempts EXCEPT ![r][tries[d][r]] = "open"]
    BY <1>5 DEF InsertAttempt, Step
  <2>2. TypeOK'
    BY <1>1, <1>3, <2>1 DEF TypeOK, faultVars, PCs, Working, AttemptStates
  <2>3. pc'[d][r] = "execute" /\ OnlyThread(d, r)
    BY <1>1, <2>1 DEF TypeOK, OnlyThread
  <2> QED BY <1>1, <1>2, <1>5, <2>1, <2>2, <2>3, NewRow
<1> QED BY <1>4, <1>5

\* The holder of the token leaves execution, or closes its present row: no row
\* appears or disappears, and the job stays undecided.
LEMMA HolderMoves ==
  ASSUME Inv, NEW d \in Drivers, NEW r \in Repos, TypeOK',
         phase[d] = "pool", phase' = phase, cursor' = cursor,
         OnlyThread(d, r), UNCHANGED <<jobs, tries>>,
         pc[d][r] \in {"close_refused", "execute"},
         pc'[d][r] \in {"admit", "terminalize"},
         ThreadOK(d, r)',
         \A q \in Repos : q # r => attempts'[q] = attempts[q],
         \A m \in 1..MaxAttempts : Exists(r, m)' <=> Exists(r, m),
         \A m \in 1..MaxAttempts : m # tries[d][r] =>
           attempts'[r][m] = attempts[r][m]
  PROVE  Inv' /\ AppendOnly
<1> USE DEF Inv
<1>1. Claimed(d, r)
  BY DEF Claimed
<1>2. \A e \in Drivers : Claimed(e, r) => e = d
  BY <1>1 DEF JobInv, OwnerOK
<1>3. \A e \in Drivers : Claimed(e, r)' => e = d
  BY <1>2 DEF OnlyThread, Claimed
<1>4. HolderOK(d, r) /\ ThreadOK(d, r)
  BY DEF ThreadInv
<1>5. jobs[r].verdict = Null
  BY <1>1, <1>4 DEF HolderOK
<1>6. AttemptsOK(r)'
  <2> SUFFICES ASSUME NEW n \in 1..MaxAttempts, Exists(r, n)', NEW m \in 1..n
               PROVE  Exists(r, m)'
    BY DEF AttemptsOK
  <2>1. m \in 1..MaxAttempts
    BY RunAssumption
  <2> QED BY <2>1 DEF JobInv, AttemptsOK
<1>7. OwnerOK(r)'
  BY <1>3, <1>5 DEF OwnerOK
<1>8. Inserted(d, r)' = Inserted(d, r)
  BY DEF Inserted
<1>9. HolderOK(d, r)'
  BY <1>1, <1>4, <1>5, <1>8 DEF HolderOK
<1>10. \A e \in Drivers : HolderOK(e, r)'
  BY <1>3, <1>9 DEF HolderOK
<1>11. \A q \in Repos : SameVerdict(q)
  BY DEF SameVerdict, JobExists
<1>12. Inv'
  BY <1>6, <1>7, <1>10, <1>11, LocalStep DEF OnlyThread
<1>13. AppendOnly
  <2> SUFFICES ASSUME NEW q \in Repos, NEW k \in 1..MaxAttempts,
                      attempts'[q][k] # attempts[q][k]
               PROVE  /\ attempts'[q][k] # "absent"
                      /\ attempts'[q][k] = "open" <=> attempts[q][k] = "absent"
                      /\ attempts[q][k] \in {"absent", "open"}
                      /\ k > 1 => Exists(q, k - 1)
                      /\ \A m \in 1..MaxAttempts : m > k => ~Exists(q, m)
    BY DEF AppendOnly
  <2>1. q = r /\ k = tries[d][r]
    OBVIOUS
  <2>2. attempts[r][k] = "open"
    BY <1>1, <1>4, <2>1 DEF HolderOK
  <2>3. \A m \in 1..MaxAttempts : Exists(r, m) <=> m <= k
    BY <1>1, <1>4, <2>1 DEF HolderOK, Inserted
  <2>4. k > 1 => Exists(r, k - 1)
    BY <2>3, RunAssumption
  <2>5. attempts'[r][k] # "absent"
    BY <2>2 DEF Exists
  <2> QED BY <2>1, <2>2, <2>3, <2>4, <2>5
<1> QED BY <1>12, <1>13

\* Closing the latest attempt closes the refused one.
LEMMA CloseRefusedInv ==
  ASSUME Inv, NEW d \in Drivers, NEW r \in Repos, CloseRefused(d, r)
  PROVE  Inv' /\ AppendOnly
<1> USE DEF Inv
<1> DEFINE refusal == [verdict |-> "ERROR", errorClass |-> "CONTAINER_START_ERROR"]
           closed  == [n \in 1..MaxAttempts |->
                         IF IsLatest(r, n) THEN "ERROR" ELSE attempts[r][n]]
<1>1. /\ pc[d][r] = "close_refused"
      /\ pc' = [pc EXCEPT ![d][r] = "terminalize"]
      /\ attempts' = [attempts EXCEPT ![r] = closed]
      /\ outcome' = [outcome EXCEPT ![d][r] = refusal]
      /\ UNCHANGED <<runStatus, totalJobs, counters, jobs, evaluation, phase,
                     cursor, tries, faultVars>>
  BY DEF CloseRefused, Step
<1>2. phase[d] = "pool"
  BY <1>1, InPool
<1>3. slots' \in [Drivers -> Int]
  BY DEF CloseRefused, ReleaseSlot, TypeOK
<1>4. refusal \in Outcomes /\ refusal.verdict \in Verdicts
  BY DEF Outcomes, AllErrorClasses, Verdicts
<1>5. closed \in [1..MaxAttempts -> AttemptStates]
  <2>1. attempts[r] \in [1..MaxAttempts -> AttemptStates]
    BY DEF TypeOK
  <2>2. "ERROR" \in AttemptStates
    BY DEF AttemptStates, Verdicts
  <2> QED BY <2>1, <2>2
<1>6. \A n \in 1..MaxAttempts : closed[n] # "absent" <=> Exists(r, n)
  BY DEF Exists, IsLatest
<1> HIDE DEF refusal, closed
<1>7. TypeOK'
  BY <1>1, <1>3, <1>4, <1>5 DEF TypeOK, faultVars, PCs, Working
<1>8. /\ pc'[d][r] = "terminalize"
      /\ outcome'[d][r] = refusal
      /\ OnlyThread(d, r)
      /\ attempts'[r] = closed
      /\ \A q \in Repos : q # r => attempts'[q] = attempts[q]
  BY <1>1 DEF TypeOK, OnlyThread
<1>9. ThreadOK(d, r)'
  BY <1>1, <1>4, <1>8 DEF ThreadInv, ThreadOK
<1>10. \A m \in 1..MaxAttempts : Exists(r, m)' <=> Exists(r, m)
  BY <1>6, <1>8 DEF Exists
<1>11. \A m \in 1..MaxAttempts : m # tries[d][r] =>
         attempts'[r][m] = attempts[r][m]
  <2>1. \A m \in 1..MaxAttempts : Exists(r, m) <=> m <= tries[d][r]
    BY <1>1 DEF ThreadInv, HolderOK, Claimed, Inserted
  <2>2. tries[d][r] \in 1..MaxAttempts
    BY <1>1, RunAssumption DEF TypeOK, ThreadInv, ThreadOK
  <2>3. \A m \in 1..MaxAttempts : IsLatest(r, m) => m = tries[d][r]
    BY <2>1, <2>2 DEF IsLatest
  <2> QED BY <1>8, <2>3 DEF closed
<1> QED BY <1>1, <1>2, <1>7, <1>8, <1>9, <1>10, <1>11, HolderMoves

\* What an attempt returns is a verdict and a known error class.
LEMMA ResultType ==
  ASSUME NEW k, NEW res \in AttemptResults(k)
  PROVE  res.verdict \in Verdicts /\ res.errorClass \in AllErrorClasses
<1>1. ASSUME NEW v, NEW c
      PROVE  /\ Returned(v, c).verdict = v /\ Returned(v, c).errorClass = c
             /\ Closed(v, c).verdict = v /\ Closed(v, c).errorClass = c
  BY DEF Returned, Closed
<1>2. \/ res = Closed("ERROR", "INTERNAL_SCHEDULER_ERROR")
      \/ res = Closed("UNSUPPORTED", "")
      \/ \E v \in {"PASS", "FAIL", "UNKNOWN"} : res = Returned(v, "")
      \/ \E c \in ErrorClasses : res = Returned("ERROR", c)
  BY DEF AttemptResults
<1>3. CASE res = Closed("ERROR", "INTERNAL_SCHEDULER_ERROR")
  <2>1. res.verdict = "ERROR" /\ res.errorClass = "INTERNAL_SCHEDULER_ERROR"
    BY <1>1, <1>3
  <2> QED BY <2>1 DEF Verdicts, AllErrorClasses
<1>4. CASE res = Closed("UNSUPPORTED", "")
  <2>1. res.verdict = "UNSUPPORTED" /\ res.errorClass = ""
    BY <1>1, <1>4
  <2> QED BY <2>1 DEF Verdicts, AllErrorClasses
<1>5. ASSUME NEW v \in {"PASS", "FAIL", "UNKNOWN"}, res = Returned(v, "")
      PROVE  res.verdict \in Verdicts /\ res.errorClass \in AllErrorClasses
  <2>1. res.verdict = v /\ res.errorClass = ""
    BY <1>1, <1>5
  <2> QED BY <2>1 DEF Verdicts, AllErrorClasses
<1>6. ASSUME NEW c \in ErrorClasses, res = Returned("ERROR", c)
      PROVE  res.verdict \in Verdicts /\ res.errorClass \in AllErrorClasses
  <2>1. res.verdict = "ERROR" /\ res.errorClass = c
    BY <1>1, <1>6
  <2> QED BY <2>1 DEF Verdicts, AllErrorClasses
<1> QED BY <1>2, <1>3, <1>4, <1>5, <1>6

\* An attempt's end keeps the claim, and closes at most its own row.
LEMMA ExecuteInv ==
  ASSUME Inv, NEW d \in Drivers, NEW r \in Repos, Execute(d, r)
  PROVE  Inv' /\ AppendOnly
<1> USE DEF Inv
<1>1. PICK res \in AttemptResults(Kind[r]) :
        /\ Step(d, r, "execute",
                IF MayRetry(res, tries[d][r]) THEN "admit" ELSE "terminalize")
        /\ outcome' = [outcome EXCEPT ![d][r] =
                         [verdict |-> res.verdict, errorClass |-> res.errorClass]]
        /\ attempts' = IF res.closes
                       THEN [attempts EXCEPT ![r][tries[d][r]] = res.verdict]
                       ELSE attempts
        /\ ReleaseSlot(d)
        /\ UNCHANGED <<runStatus, totalJobs, counters, jobs, evaluation, phase,
                       cursor, tries, faultVars>>
  BY DEF Execute
<1> DEFINE next == IF MayRetry(res, tries[d][r]) THEN "admit" ELSE "terminalize"
           mine == [verdict |-> res.verdict, errorClass |-> res.errorClass]
<1>2. res.verdict \in Verdicts /\ res.errorClass \in AllErrorClasses
  BY ResultType
<1>3. pc[d][r] = "execute" /\ phase[d] = "pool"
  BY <1>1, InPool DEF Step
<1>4. tries[d][r] \in 1..MaxAttempts
  BY <1>3, RunAssumption DEF TypeOK, ThreadInv, ThreadOK
<1>5. next \in {"admit", "terminalize"} /\ (next = "admit" => tries[d][r] < MaxAttempts)
  BY DEF MayRetry
<1>6. mine \in Outcomes /\ mine.verdict \in Verdicts
  BY <1>2 DEF Outcomes
<1> HIDE DEF next, mine
<1>7. slots' \in [Drivers -> Int]
  BY <1>1 DEF ReleaseSlot, TypeOK
<1>8. attempts' \in [Repos -> [1..MaxAttempts -> AttemptStates]]
  BY <1>1, <1>2 DEF TypeOK, AttemptStates
<1>9. pc' = [pc EXCEPT ![d][r] = next] /\ outcome' = [outcome EXCEPT ![d][r] = mine]
  BY <1>1 DEF Step, next, mine
<1>10. TypeOK'
  <2>1. pc' \in [Drivers -> [Repos -> PCs]]
    BY <1>5, <1>9 DEF TypeOK, PCs, Working
  <2>2. outcome' \in [Drivers -> [Repos -> Outcomes]]
    BY <1>6, <1>9 DEF TypeOK
  <2> QED BY <1>1, <1>7, <1>8, <2>1, <2>2 DEF TypeOK, faultVars
<1>11. /\ pc'[d][r] = next
       /\ outcome'[d][r] = mine
       /\ OnlyThread(d, r)
  BY <1>1, <1>9 DEF TypeOK, OnlyThread
<1>12. ThreadOK(d, r)'
  BY <1>1, <1>3, <1>4, <1>5, <1>6, <1>11 DEF ThreadOK
<1>13. Exists(r, tries[d][r])
  BY <1>3 DEF ThreadInv, HolderOK, Claimed, Exists
<1>14. /\ \A q \in Repos : q # r => attempts'[q] = attempts[q]
       /\ \A m \in 1..MaxAttempts : Exists(r, m)' <=> Exists(r, m)
       /\ \A m \in 1..MaxAttempts : m # tries[d][r] =>
            attempts'[r][m] = attempts[r][m]
  <2>1. CASE ~res.closes
    BY <1>1, <2>1 DEF Exists
  <2>2. CASE res.closes
    <3>1. attempts' = [attempts EXCEPT ![r][tries[d][r]] = res.verdict]
      BY <1>1, <2>2
    <3>2. res.verdict # "absent"
      BY <1>2 DEF Verdicts
    <3> QED BY <1>4, <1>13, <3>1, <3>2 DEF Exists, TypeOK
  <2> QED BY <2>1, <2>2
<1> QED BY <1>1, <1>3, <1>5, <1>10, <1>11, <1>12, <1>14, HolderMoves

\* Whoever terminalizes a job finds it undecided.
LEMMA TerminalizeInv ==
  ASSUME Inv, NEW d \in Drivers, NEW r \in Repos, Terminalize(d, r)
  PROVE  /\ Inv'
         /\ jobs[r].verdict = Null
         /\ jobs'[r].verdict = outcome[d][r].verdict
         /\ outcome[d][r].verdict \in Verdicts
         /\ \A q \in Repos : q # r => jobs'[q] = jobs[q]
<1> USE DEF Inv
<1> DEFINE mine == outcome[d][r]
           row  == [jobs[r] EXCEPT
                      !.status     = "completed",
                      !.verdict    = mine.verdict,
                      !.errorClass = mine.errorClass,
                      !.missing    = IF mine.verdict = "UNSUPPORTED"
                                     THEN "compatible_execution_recipe" ELSE Null]
<1>1. pc[d][r] = "terminalize" /\ phase[d] = "pool"
  BY InPool DEF Terminalize
<1>2. Claimed(d, r) /\ HolderOK(d, r) /\ ThreadOK(d, r)
  BY <1>1 DEF Claimed, ThreadInv
<1>3. jobs[r].verdict = Null /\ mine.verdict \in Verdicts
  BY <1>1, <1>2 DEF HolderOK, ThreadOK
<1>4. MayDecide(r, mine.verdict)
  BY <1>3 DEF MayDecide
<1>5. /\ pc' = [pc EXCEPT ![d][r] = "done"]
      /\ jobs' = [jobs EXCEPT
           ![r].status     = "completed",
           ![r].verdict    = mine.verdict,
           ![r].errorClass = mine.errorClass,
           ![r].missing    = IF mine.verdict = "UNSUPPORTED"
                             THEN "compatible_execution_recipe" ELSE Null]
      /\ evaluation' = [evaluation EXCEPT ![r] = mine.verdict]
      /\ UNCHANGED <<runStatus, totalJobs, counters, attempts, phase, cursor,
                     slots, tries, outcome, faultVars>>
  BY <1>4 DEF Terminalize, Step
<1>6. row \in JobRow
  <2>1. jobs[r] \in JobRow /\ mine \in Outcomes
    BY DEF TypeOK
  <2> QED BY <1>3, <2>1 DEF JobRow, JobStatuses, Outcomes
<1>7. jobs' = [jobs EXCEPT ![r] = row]
  BY <1>5 DEF TypeOK
<1>8. row.verdict = mine.verdict /\ row.status = "completed"
  <2>1. jobs[r] \in JobRow
    BY DEF TypeOK
  <2> QED BY <2>1 DEF JobRow
<1> HIDE DEF row
<1>9. TypeOK'
  <2>1. jobs' \in [Repos -> JobRow]
    BY <1>6, <1>7 DEF TypeOK
  <2>2. evaluation' \in [Repos -> Verdicts \cup {Null}]
    BY <1>3, <1>5 DEF TypeOK
  <2>3. pc' \in [Drivers -> [Repos -> PCs]]
    BY <1>5 DEF TypeOK, PCs
  <2> QED BY <1>5, <2>1, <2>2, <2>3 DEF TypeOK, faultVars
<1>10. /\ jobs'[r] = row
       /\ \A q \in Repos : q # r => jobs'[q] = jobs[q]
  BY <1>7 DEF TypeOK
<1>11. pc'[d][r] = "done" /\ OnlyThread(d, r)
  BY <1>5 DEF TypeOK, OnlyThread
<1>12. ThreadOK(d, r)'
  BY <1>1, <1>2, <1>5, <1>11 DEF ThreadOK
<1>13. \A e \in Drivers : Claimed(e, r)' => e = d
  BY <1>2, <1>5 DEF JobInv, OwnerOK, OnlyThread, Claimed
<1>14. Inserted(d, r)' = Inserted(d, r) /\ Claimed(d, r)'
  BY <1>1, <1>5, <1>11 DEF Inserted, Claimed
<1>15. Exists(r, 1)
  <2>1. 1 <= Inserted(d, r)
    BY <1>1, <1>2, RunAssumption DEF ThreadOK, Inserted, TypeOK
  <2> QED BY <1>2, <2>1, RunAssumption DEF HolderOK
<1>16. AttemptsOK(r)'
  BY <1>5 DEF JobInv, AttemptsOK, Exists
<1>17. OwnerOK(r)'
  BY <1>5, <1>8, <1>10, <1>13, <1>15 DEF OwnerOK, Exists, JobExists
<1>18. \A e \in Drivers : HolderOK(e, r)'
  BY <1>2, <1>5, <1>11, <1>13, <1>14 DEF HolderOK, Exists
<1>19. \A q \in Repos : q # r => SameVerdict(q)
  BY <1>10 DEF SameVerdict, JobExists
<1>20. Inv'
  BY <1>1, <1>5, <1>9, <1>11, <1>12, <1>16, <1>17, <1>18, <1>19, LocalStep
  DEF OnlyThread
<1> QED BY <1>3, <1>8, <1>10, <1>20

-----------------------------------------------------------------------------
(***************************************************************************)
(* The theorems.                                                           *)
(***************************************************************************)

\* Stuttering keeps the invariant.
LEMMA StutterInv == ASSUME Inv, UNCHANGED vars PROVE Inv'
BY DEF Inv, vars, dbVars, threadVars, faultVars, TypeOK, MainInv, ThreadInv,
       ThreadOK, HolderOK, JobInv, AttemptsOK, OwnerOK, Claimed, Inserted,
       Exists, JobExists

\* Inv is inductive.
LEMMA NextInv == ASSUME Inv, [Next]_vars PROVE Inv'
<1>1. ASSUME NEW d \in Drivers, Resume(d) \/ MainStep(d) PROVE Inv'
  BY <1>1, MainStepInv
<1>2. ASSUME NEW d \in Drivers, NEW r \in Repos, ThreadStep(d, r) PROVE Inv'
  BY <1>2, StartThreadInv, AdmitInv, RefuseSlotInv, CloseRefusedInv,
     MarkRunningInv, InsertAttemptInv, ExecuteInv, TerminalizeInv
  DEF ThreadStep
<1>3. ASSUME NEW d \in Drivers, NEW r \in Repos, WriteFails(d, r) PROVE Inv'
  BY <1>3, WriteFailsInv
<1>4. ASSUME NEW d \in Drivers, Crash(d) PROVE Inv'
  BY <1>4, CrashInv
<1>5. CASE AllStopped \/ UNCHANGED vars
  BY <1>5, StutterInv DEF AllStopped
<1> QED BY <1>1, <1>2, <1>3, <1>4, <1>5 DEF Next

\* The inductive invariant holds for any drivers, rows, workers, slots,
\* attempts and faults.
THEOREM Invariance == Spec => []Inv
<1>1. Inv /\ [Next]_vars => Inv'
  BY NextInv
<1> QED BY <1>1, InitInv, PTL DEF Spec

\* Every row, counter and thread variable keeps its type; in particular no
\* thread ever tries a job more than max_attempts times.
THEOREM TypeCorrect == Spec => []TypeOK
<1>1. Inv => TypeOK
  BY DEF Inv
<1> QED BY <1>1, Invariance, PTL

\* However many drivers work on a run, and however they crash, a job is executed
\* and terminalized by at most one thread.
THEOREM OneExecutor == Spec => []OneExecutorPerJob
<1>1. Inv => OneExecutorPerJob
  BY DEF Inv, JobInv, OwnerOK, Claimed, OneExecutorPerJob
<1> QED BY <1>1, Invariance, PTL

\* terminalize_job never finds the job decided by somebody else.
THEOREM NoConflict == Spec => []NoTerminalizationConflict
<1>1. Inv => NoTerminalizationConflict
  BY DEF Inv, ThreadInv, HolderOK, Claimed, NoTerminalizationConflict, MayDecide
<1> QED BY <1>1, Invariance, PTL

\* No step rewrites or deletes an attempt row.
LEMMA HistoryStep == ASSUME Inv, [Next]_vars PROVE [AppendOnly]_attempts
<1>1. ASSUME NEW d \in Drivers, Resume(d) \/ MainStep(d)
      PROVE  attempts' = attempts
  BY <1>1, MainStepQuiet
<1>2. ASSUME NEW d \in Drivers, NEW r \in Repos, ThreadStep(d, r)
      PROVE  [AppendOnly]_attempts
  BY <1>2, RefuseSlotInv, InsertAttemptInv, CloseRefusedInv, ExecuteInv
  DEF ThreadStep, StartThread, Admit, MarkRunning, Terminalize, dbVars
<1>3. CASE \/ \E d \in Drivers, r \in Repos : WriteFails(d, r)
           \/ \E d \in Drivers : Crash(d)
           \/ AllStopped \/ UNCHANGED vars
  BY <1>3 DEF WriteFails, Crash, AllStopped, vars, dbVars
<1> QED BY <1>1, <1>2, <1>3 DEF Next

\* The attempt history of a job is append-only and gapless, and a closed row is
\* final: retries, refusals and second drivers never overwrite an attempt.
THEOREM HistoryAppendOnly == Spec => AttemptHistory
<1>1. Inv /\ [Next]_vars => [AppendOnly]_attempts
  BY HistoryStep
<1> QED BY <1>1, Invariance, PTL DEF Spec, AttemptHistory

\* A run implements the write-once register: the only step that changes a
\* verdict decides an undecided job.
THEOREM DecidedOnce == Spec => VerdictDecidedOnce
<1> DEFINE verdicts == [r \in Repos |-> jobs[r].verdict]
<1>1. Init => Register!Init
  <2> SUFFICES ASSUME Init PROVE verdicts = [r \in Repos |-> Null]
    BY DEF Register!Init
  <2>1. \A r \in Repos : jobs[r].verdict = Null
    BY DEF Init
  <2> QED BY <2>1
<1>2. ASSUME Inv, [Next]_vars PROVE [Register!Next]_verdicts
  <2>1. ASSUME \A r \in Repos : jobs'[r].verdict = jobs[r].verdict
        PROVE  [Register!Next]_verdicts
    BY <2>1
  <2>2. jobs' = jobs => [Register!Next]_verdicts
    BY <2>1
  <2>3. ASSUME NEW d \in Drivers, Resume(d) \/ MainStep(d)
        PROVE  [Register!Next]_verdicts
    BY <1>2, <2>1, <2>3, MainStepQuiet DEF SameVerdict
  <2>4. ASSUME NEW d \in Drivers, NEW r \in Repos, ThreadStep(d, r)
        PROVE  [Register!Next]_verdicts
    <3>1. CASE Terminalize(d, r)
      <4>1. /\ verdicts[r] = Null
            /\ outcome[d][r].verdict \in Verdicts
            /\ verdicts' = [verdicts EXCEPT ![r] = outcome[d][r].verdict]
        BY <1>2, <3>1, TerminalizeInv
      <4> QED BY <4>1 DEF Register!Next, Register!Decide
    <3>2. CASE MarkRunning(d, r)
      BY <1>2, <2>1, <3>2 DEF MarkRunning, Inv, TypeOK, JobRow
    <3>3. CASE ~Terminalize(d, r) /\ ~MarkRunning(d, r)
      BY <2>2, <2>4, <3>3
      DEF ThreadStep, StartThread, Admit, RefuseSlot, CloseRefused,
          InsertAttempt, Execute, dbVars
    <3> QED BY <3>1, <3>2, <3>3
  <2>5. CASE \/ \E d \in Drivers, r \in Repos : WriteFails(d, r)
             \/ \E d \in Drivers : Crash(d)
             \/ AllStopped \/ UNCHANGED vars
    BY <2>2, <2>5 DEF WriteFails, Crash, AllStopped, vars, dbVars
  <2> QED BY <1>2, <2>3, <2>4, <2>5 DEF Next
<1> QED BY <1>1, <1>2, Invariance, PTL DEF Spec, VerdictDecidedOnce, Register!Spec

\* A job has one executor, and nobody else decides it: both halves of what the
\* unique index over attempts is there for.
THEOREM ExecutorIsSole == Spec => []SoleExecutor
<1>1. OneExecutorPerJob /\ NoTerminalizationConflict => SoleExecutor
  BY DEF SoleExecutor
<1>2. QED
  BY <1>1, OneExecutor, NoConflict, PTL

-----------------------------------------------------------------------------
(***************************************************************************)
(* What a verdict rests on.                                                *)
(***************************************************************************)

Deciding == {"terminalize", "done"}

\* The rows of the holder of the token are open or failed, but for the one it
\* decides by.
RowsOK(d, r) ==
  Claimed(d, r) => \A n \in 1..Inserted(d, r) :
    \/ pc[d][r] \in Deciding /\ n = tries[d][r]
    \/ attempts[r][n] \in {"open", "ERROR"}

\* What it decides is what its present row says, or will never say; and it gives
\* up on a retryable error only after its last attempt.
ReadyOK(d, r) ==
  pc[d][r] = "terminalize" =>
    /\ attempts[r][tries[d][r]] \in {"open", outcome[d][r].verdict}
    /\ outcome[d][r].errorClass \in RetryableErrorClasses \ {"CONTAINER_START_ERROR"}
         => tries[d][r] = MaxAttempts

Earning == \A d \in Drivers, r \in Repos : RowsOK(d, r) /\ ReadyOK(d, r)

\* A step that touches no row, and moves no thread but out of its claim.
LEMMA EarningQuiet ==
  ASSUME Inv, Earning, attempts' = attempts,
         \A d \in Drivers, r \in Repos :
           /\ Claimed(d, r)' =>
                /\ Claimed(d, r) /\ Inserted(d, r)' = Inserted(d, r)
                /\ pc[d][r] \in Deciding =>
                     pc'[d][r] \in Deciding /\ tries'[d][r] = tries[d][r]
           /\ pc'[d][r] = "terminalize" =>
                /\ pc[d][r] = "terminalize" /\ tries'[d][r] = tries[d][r]
                /\ outcome'[d][r] = outcome[d][r]
  PROVE  Earning'
<1> SUFFICES ASSUME NEW d \in Drivers, NEW r \in Repos
             PROVE  RowsOK(d, r)' /\ ReadyOK(d, r)'
  BY DEF Earning
<1>1. RowsOK(d, r) /\ ReadyOK(d, r)
  BY DEF Earning
<1>2. RowsOK(d, r)'
  BY <1>1 DEF RowsOK
<1>3. ReadyOK(d, r)'
  BY <1>1 DEF ReadyOK
<1> QED BY <1>2, <1>3

\* A step of the holder of job r needs to be checked at the holder only.
LEMMA EarningLocal ==
  ASSUME Inv', Earning, NEW d \in Drivers, NEW r \in Repos, OnlyThread(d, r),
         Claimed(d, r)', \A q \in Repos : q # r => attempts'[q] = attempts[q],
         RowsOK(d, r)', ReadyOK(d, r)'
  PROVE  Earning'
<1> SUFFICES ASSUME NEW e \in Drivers, NEW q \in Repos, e # d \/ q # r
             PROVE  RowsOK(e, q)' /\ ReadyOK(e, q)'
  BY DEF Earning
<1>1. CASE q = r
  <2>1. ~Claimed(e, r)'
    BY <1>1 DEF Inv, JobInv, OwnerOK
  <2> QED BY <1>1, <2>1 DEF RowsOK, ReadyOK, Claimed
<1>2. CASE q # r
  <2>1. RowsOK(e, q) /\ ReadyOK(e, q)
    BY DEF Earning
  <2>2. UNCHANGED <<pc[e][q], tries[e][q], outcome[e][q], attempts[q]>>
    BY <1>2 DEF OnlyThread
  <2> QED BY <2>1, <2>2 DEF RowsOK, ReadyOK, Claimed, Inserted
<1> QED BY <1>1, <1>2

\* A worker that opens a row has failed or open ones before it.
LEMMA OpensRow ==
  ASSUME Inv, Inv', Earning, NEW d \in Drivers, NEW r \in Repos,
         RefuseSlot(d, r) \/ InsertAttempt(d, r)
  PROVE  Earning'
<1> DEFINE n == tries[d][r]
<1>1. pc[d][r] \in {"refuse", "insert"} /\ UNCHANGED <<tries, outcome>>
  BY DEF RefuseSlot, InsertAttempt
<1>2. n \in 1..MaxAttempts
  BY <1>1, RunAssumption DEF Inv, TypeOK, ThreadInv, ThreadOK
<1>3. CASE Exists(r, n)
  <2>1. pc' = [pc EXCEPT ![d][r] = "dead"] /\ attempts' = attempts
    BY <1>3 DEF RefuseSlot, InsertAttempt, Step
  <2>2. \A e \in Drivers, q \in Repos : pc'[e][q] = pc[e][q] \/ pc'[e][q] = "dead"
    BY <2>1 DEF Inv, TypeOK
  <2> QED BY <1>1, <2>1, <2>2, EarningQuiet DEF Claimed, Inserted, Deciding
<1>4. CASE ~Exists(r, n)
  <2>1. /\ attempts' = [attempts EXCEPT ![r][n] = "open"]
        /\ \/ pc' = [pc EXCEPT ![d][r] = "close_refused"]
           \/ pc' = [pc EXCEPT ![d][r] = "execute"]
    BY <1>4 DEF RefuseSlot, InsertAttempt, Step
  <2>2. /\ pc'[d][r] \in {"close_refused", "execute"} /\ OnlyThread(d, r)
        /\ \A q \in Repos : q # r => attempts'[q] = attempts[q]
        /\ attempts'[r][n] = "open"
        /\ \A m \in 1..MaxAttempts : m # n => attempts'[r][m] = attempts[r][m]
    BY SMTT(30), <1>1, <1>2, <2>1 DEF Inv, TypeOK, OnlyThread
  <2>3. Claimed(d, r)' /\ Inserted(d, r)' = n
    BY <1>1, <2>2 DEF Claimed, Inserted
  <2>4. ASSUME NEW m \in 1..n PROVE attempts'[r][m] \in {"open", "ERROR"}
    <3>1. CASE m = n
      BY <2>2, <3>1
    <3>2. CASE m # n
      <4>1. m \in 1..(n - 1) /\ m \in 1..MaxAttempts /\ n >= 2
        BY <1>2, <3>2, RunAssumption
      <4>2. Claimed(d, r) /\ Inserted(d, r) = n - 1 /\ pc[d][r] \notin Deciding
        BY <1>1, <4>1 DEF Claimed, Inserted, Deciding
      <4>3. attempts[r][m] \in {"open", "ERROR"}
        BY <4>1, <4>2 DEF Earning, RowsOK
      <4> QED BY <2>2, <3>2, <4>1, <4>3
    <3> QED BY <3>1, <3>2
  <2>5. RowsOK(d, r)' /\ ReadyOK(d, r)'
    BY <2>2, <2>3, <2>4 DEF RowsOK, ReadyOK
  <2> QED BY <2>2, <2>3, <2>5, EarningLocal
<1> QED BY <1>3, <1>4

\* What the holder knows of its rows while it holds one open.
LEMMA HoldsRow ==
  ASSUME Inv, Earning, NEW d \in Drivers, NEW r \in Repos,
         pc[d][r] \in {"execute", "close_refused"}
  PROVE  /\ tries[d][r] \in 1..MaxAttempts
         /\ Claimed(d, r)
         /\ attempts[r][tries[d][r]] = "open"
         /\ \A m \in 1..MaxAttempts : Exists(r, m) <=> m <= tries[d][r]
         /\ \A m \in 1..tries[d][r] : attempts[r][m] \in {"open", "ERROR"}
<1>1. Claimed(d, r) /\ Inserted(d, r) = tries[d][r] /\ pc[d][r] \notin Deciding
  BY DEF Claimed, Inserted, Deciding
<1>2. tries[d][r] \in 1..MaxAttempts
  BY RunAssumption DEF Inv, TypeOK, ThreadInv, ThreadOK
<1>3. HolderOK(d, r)
  BY DEF Inv, ThreadInv
<1>4. \A m \in 1..tries[d][r] : attempts[r][m] \in {"open", "ERROR"}
  BY <1>1 DEF Earning, RowsOK
<1> QED BY <1>1, <1>2, <1>3, <1>4 DEF HolderOK

\* A refused attempt closes its own row as an error, and is one.
LEMMA ClosesRefused ==
  ASSUME Inv, Inv', Earning, NEW d \in Drivers, NEW r \in Repos, CloseRefused(d, r)
  PROVE  Earning'
<1> DEFINE n == tries[d][r]
           refusal == [verdict |-> "ERROR", errorClass |-> "CONTAINER_START_ERROR"]
           closed  == [m \in 1..MaxAttempts |->
                         IF IsLatest(r, m) THEN "ERROR" ELSE attempts[r][m]]
<1>1. /\ pc[d][r] = "close_refused"
      /\ pc' = [pc EXCEPT ![d][r] = "terminalize"]
      /\ attempts' = [attempts EXCEPT ![r] = closed]
      /\ outcome' = [outcome EXCEPT ![d][r] = refusal]
      /\ tries' = tries
  BY DEF CloseRefused, Step
<1>2. /\ n \in 1..MaxAttempts
      /\ \A m \in 1..MaxAttempts : Exists(r, m) <=> m <= n
      /\ \A m \in 1..n : attempts[r][m] \in {"open", "ERROR"}
  BY <1>1, HoldsRow
<1>3. IsLatest(r, n)
  BY <1>2, RunAssumption DEF IsLatest
<1>4. closed[n] = "ERROR"
  BY <1>2, <1>3
<1>5. \A m \in 1..n : closed[m] \in {"open", "ERROR"}
  BY <1>2, RunAssumption
<1> HIDE DEF closed
<1>6. /\ pc'[d][r] = "terminalize" /\ OnlyThread(d, r) /\ outcome'[d][r] = refusal
      /\ attempts'[r] = closed
      /\ \A q \in Repos : q # r => attempts'[q] = attempts[q]
  BY SMTT(30), <1>1 DEF Inv, TypeOK, OnlyThread
<1>7. Claimed(d, r)' /\ Inserted(d, r)' = n
  BY <1>1, <1>6 DEF Claimed, Inserted
<1>8. RowsOK(d, r)'
  BY <1>5, <1>6, <1>7 DEF RowsOK
<1>9. ReadyOK(d, r)'
  BY <1>1, <1>4, <1>6 DEF ReadyOK
<1> QED BY <1>6, <1>7, <1>8, <1>9, EarningLocal

\* Only errors have a retryable class.
LEMMA RetryableIsError ==
  ASSUME NEW k, NEW res \in AttemptResults(k), res.errorClass \in RetryableErrorClasses
  PROVE  res.verdict = "ERROR"
<1>1. ASSUME NEW v, NEW c
      PROVE  /\ Returned(v, c).verdict = v /\ Returned(v, c).errorClass = c
             /\ Closed(v, c).verdict = v /\ Closed(v, c).errorClass = c
  BY DEF Returned, Closed
<1>2. \/ res = Closed("ERROR", "INTERNAL_SCHEDULER_ERROR")
      \/ res = Closed("UNSUPPORTED", "")
      \/ \E v \in {"PASS", "FAIL", "UNKNOWN"} : res = Returned(v, "")
      \/ \E c \in ErrorClasses : res = Returned("ERROR", c)
  BY DEF AttemptResults
<1>3. res.errorClass # ""
  BY DEF RetryableErrorClasses
<1>4. CASE res = Closed("ERROR", "INTERNAL_SCHEDULER_ERROR")
  BY <1>1, <1>4
<1>5. CASE res = Closed("UNSUPPORTED", "")
  BY <1>1, <1>3, <1>5
<1>6. ASSUME NEW v \in {"PASS", "FAIL", "UNKNOWN"}, res = Returned(v, "")
      PROVE  res.verdict = "ERROR"
  <2>1. Returned(v, "").errorClass = ""
    BY <1>1
  <2> QED BY <1>3, <1>6, <2>1
<1>7. ASSUME NEW c \in ErrorClasses, res = Returned("ERROR", c)
      PROVE  res.verdict = "ERROR"
  BY <1>1, <1>7
<1> QED BY <1>2, <1>4, <1>5, <1>6, <1>7

\* An attempt goes round again with its row open or failed, and ends with its row
\* open or of its verdict.
LEMMA AttemptEnds ==
  ASSUME Inv, Inv', Earning, NEW d \in Drivers, NEW r \in Repos, Execute(d, r)
  PROVE  Earning'
<1> DEFINE n == tries[d][r]
<1>1. PICK res \in AttemptResults(Kind[r]) :
        /\ Step(d, r, "execute", IF MayRetry(res, n) THEN "admit" ELSE "terminalize")
        /\ outcome' = [outcome EXCEPT ![d][r] =
                         [verdict |-> res.verdict, errorClass |-> res.errorClass]]
        /\ attempts' = IF res.closes
                       THEN [attempts EXCEPT ![r][n] = res.verdict] ELSE attempts
        /\ tries' = tries
  BY DEF Execute
<1> DEFINE next == IF MayRetry(res, n) THEN "admit" ELSE "terminalize"
           mine == [verdict |-> res.verdict, errorClass |-> res.errorClass]
<1>2. pc[d][r] = "execute" /\ pc' = [pc EXCEPT ![d][r] = next]
  BY <1>1 DEF Step
<1>3. /\ n \in 1..MaxAttempts
      /\ attempts[r][n] = "open"
      /\ \A m \in 1..n : attempts[r][m] \in {"open", "ERROR"}
  BY <1>2, HoldsRow
<1>4. /\ next \in {"admit", "terminalize"}
      /\ next = "admit" => res.verdict = "ERROR"
      /\ next = "terminalize" /\ res.errorClass \in RetryableErrorClasses => n = MaxAttempts
  BY <1>3, RetryableIsError, RunAssumption DEF MayRetry
<1>5. mine.verdict = res.verdict /\ mine.errorClass = res.errorClass
  OBVIOUS
<1> HIDE DEF next, mine
<1>6. outcome' = [outcome EXCEPT ![d][r] = mine]
  BY <1>1 DEF mine
<1>7. pc'[d][r] = next /\ OnlyThread(d, r) /\ outcome'[d][r] = mine
  BY SMTT(30), <1>1, <1>2, <1>6 DEF Inv, TypeOK, OnlyThread
<1>8. /\ \A q \in Repos : q # r => attempts'[q] = attempts[q]
      /\ attempts'[r][n] \in {"open", res.verdict}
      /\ \A m \in 1..n : m # n => attempts'[r][m] = attempts[r][m]
  BY <1>1, <1>3 DEF Inv, TypeOK
<1>9. Claimed(d, r)' /\ Inserted(d, r)' = n
  BY <1>1, <1>3, <1>4, <1>7 DEF Claimed, Inserted
<1>10. RowsOK(d, r)'
  <2> SUFFICES ASSUME NEW m \in 1..n
               PROVE  \/ pc'[d][r] \in Deciding /\ m = tries'[d][r]
                      \/ attempts'[r][m] \in {"open", "ERROR"}
    BY <1>9 DEF RowsOK
  <2>1. CASE m # n
    BY <1>3, <1>8, <2>1
  <2>2. CASE m = n
    BY <1>1, <1>4, <1>7, <1>8, <2>2 DEF Deciding
  <2> QED BY <2>1, <2>2
<1>11. ReadyOK(d, r)'
  BY <1>1, <1>4, <1>5, <1>7, <1>8 DEF ReadyOK
<1> QED BY <1>7, <1>8, <1>9, <1>10, <1>11, EarningLocal

\* Every step keeps what verdicts rest on.
LEMMA EarningNext == ASSUME Inv, Inv', Earning, [Next]_vars PROVE Earning'
<1>1. ASSUME UNCHANGED <<attempts, pc, tries, outcome>> PROVE Earning'
  BY <1>1 DEF Earning, RowsOK, ReadyOK, Claimed, Inserted
<1>2. ASSUME NEW d \in Drivers, Resume(d) \/ MainStep(d) PROVE Earning'
  <2>1. CASE ListPending(d)
    <3>1. /\ UNCHANGED <<attempts, tries, outcome>>
          /\ \A r \in Repos : pc[d][r] = "none" /\ tries[d][r] = 0
          /\ pc' = [pc EXCEPT ![d] = [r \in Repos |->
                                 IF Drivable(r) THEN "queued" ELSE "none"]]
      BY <2>1 DEF ListPending, MoveTo, Inv, MainInv, dbVars
    <3>2. \A e \in Drivers, r \in Repos :
            pc'[e][r] = pc[e][r] \/ pc'[e][r] \in {"queued", "none"}
      BY <3>1 DEF Inv, TypeOK
    <3> QED BY <3>1, <3>2, EarningQuiet DEF Claimed, Inserted, Deciding
  <2>2. CASE JoinPool(d)
    <3>1. PICK last \in {"failed", "recount"} : StopIn(d, last)
      BY <2>2 DEF JoinPool
    <3>2. attempts' = attempts
      BY <2>2 DEF JoinPool, dbVars
    <3>3. \A e \in Drivers, r \in Repos :
            \/ /\ pc'[e][r] = pc[e][r] /\ tries'[e][r] = tries[e][r]
               /\ outcome'[e][r] = outcome[e][r]
            \/ pc'[e][r] = "none"
      BY <3>1 DEF StopIn, Inv, TypeOK
    <3> QED BY <3>2, <3>3, EarningQuiet DEF Claimed, Inserted, Deciding
  <2>3. CASE ~ListPending(d) /\ ~JoinPool(d)
    BY <1>1, <1>2, <2>3 DEF Resume, MainStep, FindJob, InsertJob, SkipJob, CountJob,
       SealJobs, Launch, Recount, CompleteRun, dbVars, threadVars
  <2> QED BY <2>1, <2>2, <2>3
<1>3. ASSUME NEW d \in Drivers, NEW r \in Repos,
             StartThread(d, r) \/ Admit(d, r) \/ MarkRunning(d, r) \/ Terminalize(d, r)
      PROVE  Earning'
  <2>1. attempts' = attempts /\ outcome' = outcome
    BY <1>3 DEF StartThread, Admit, MarkRunning, Terminalize, dbVars
  <2>2. \A e \in Drivers, q \in Repos : e # d \/ q # r =>
          pc'[e][q] = pc[e][q] /\ tries'[e][q] = tries[e][q]
    <3> SUFFICES ASSUME NEW e \in Drivers, NEW q \in Repos, e # d \/ q # r
                 PROVE  pc'[e][q] = pc[e][q] /\ tries'[e][q] = tries[e][q]
      OBVIOUS
    <3>1. PICK from, to : Step(d, r, from, to)
      BY <1>3 DEF StartThread, Admit, MarkRunning, Terminalize
    <3>2. \/ tries' = tries
          \/ tries' = [tries EXCEPT ![d][r] = @ + 1]
      BY <1>3 DEF StartThread, Admit, MarkRunning, Terminalize
    <3>3. pc'[e][q] = pc[e][q]
      BY <3>1 DEF Step, Inv, TypeOK
    <3>4. tries'[e][q] = tries[e][q]
      <4>1. tries[d] \in [Repos -> 0..MaxAttempts] /\ DOMAIN tries = Drivers
        BY DEF Inv, TypeOK
      <4>2. CASE tries' = tries
        BY <4>2
      <4>3. CASE tries' = [tries EXCEPT ![d][r] = @ + 1]
        BY <4>1, <4>3
      <4> QED BY <3>2, <4>2, <4>3
    <3> QED BY <3>3, <3>4
  <2>3. CASE StartThread(d, r)
    <3>1. pc'[d][r] = "admit" /\ tries' = tries /\ pc[d][r] = "queued"
      BY <2>3 DEF StartThread, Step, Inv, TypeOK
    <3>2. tries[d][r] = 0
      BY <3>1 DEF Inv, ThreadInv, ThreadOK
    <3> QED BY <2>1, <2>2, <3>1, <3>2, EarningQuiet DEF Claimed, Inserted
  <2>4. CASE Admit(d, r)
    <3>1. /\ pc[d][r] = "admit" /\ pc'[d][r] \in {"mark", "refuse"}
          /\ tries'[d][r] = tries[d][r] + 1 /\ tries[d][r] \in Nat
      BY <2>4, RunAssumption DEF Admit, Step, Inv, TypeOK
    <3> QED BY <2>1, <2>2, <3>1, EarningQuiet DEF Claimed, Inserted, Deciding
  <2>5. CASE MarkRunning(d, r)
    <3>1. pc[d][r] = "mark" /\ pc'[d][r] = "insert" /\ tries' = tries
      BY <2>5 DEF MarkRunning, Step, Inv, TypeOK
    <3> QED BY <2>1, <2>2, <3>1, EarningQuiet DEF Claimed, Inserted, Deciding
  <2>6. CASE Terminalize(d, r)
    <3>1. pc[d][r] = "terminalize" /\ pc'[d][r] \in {"done", "dead"} /\ tries' = tries
      BY <2>6 DEF Terminalize, Step, Inv, TypeOK
    <3> QED BY <2>1, <2>2, <3>1, EarningQuiet DEF Claimed, Inserted, Deciding
  <2> QED BY <1>3, <2>3, <2>4, <2>5, <2>6
<1>4. ASSUME NEW d \in Drivers, NEW r \in Repos, ThreadStep(d, r) PROVE Earning'
  BY <1>3, <1>4, OpensRow, ClosesRefused, AttemptEnds DEF ThreadStep
<1>5. ASSUME NEW d \in Drivers, NEW r \in Repos, WriteFails(d, r) PROVE Earning'
  <2>1. UNCHANGED <<attempts, tries, outcome>>
    BY <1>5 DEF WriteFails, dbVars
  <2>2. \A e \in Drivers, q \in Repos : pc'[e][q] = pc[e][q] \/ pc'[e][q] = "dead"
    BY <1>5 DEF WriteFails, Inv, TypeOK
  <2> QED BY <2>1, <2>2, EarningQuiet DEF Claimed, Inserted, Deciding
<1>6. ASSUME NEW d \in Drivers, Crash(d) PROVE Earning'
  <2>1. StopIn(d, "crashed") /\ attempts' = attempts
    BY <1>6 DEF Crash, dbVars
  <2>2. \A e \in Drivers, r \in Repos :
          \/ /\ pc'[e][r] = pc[e][r] /\ tries'[e][r] = tries[e][r]
             /\ outcome'[e][r] = outcome[e][r]
          \/ pc'[e][r] = "none"
    BY <2>1 DEF StopIn, Inv, TypeOK
  <2> QED BY <2>1, <2>2, EarningQuiet DEF Claimed, Inserted, Deciding
<1>7. CASE AllStopped \/ UNCHANGED vars
  BY <1>1, <1>7 DEF AllStopped, vars, dbVars, threadVars
<1> QED BY <1>2, <1>4, <1>5, <1>6, <1>7 DEF Next

\* No row of a decided job is written.
LEMMA DecidedRows ==
  ASSUME Inv, [Next]_vars, NEW q \in Repos, jobs[q].verdict # Null
  PROVE  attempts'[q] = attempts[q]
<1>1. ASSUME NEW d \in Drivers, NEW r \in Repos,
             RefuseSlot(d, r) \/ InsertAttempt(d, r)
      PROVE  attempts'[q] = attempts[q]
  <2>1. pc[d][r] \in {"refuse", "insert"} /\ tries[d][r] \in 1..MaxAttempts
    BY <1>1, RunAssumption DEF RefuseSlot, InsertAttempt, Inv, TypeOK, ThreadInv, ThreadOK
  <2>2. r = q => Exists(r, tries[d][r])
    <3>1. ~Claimed(d, q) \/ r # q
      BY <2>1 DEF Inv, ThreadInv, HolderOK
    <3>2. r = q => tries[d][r] = 1
      BY <2>1, <3>1 DEF Claimed
    <3> QED BY <3>2 DEF Inv, JobInv, OwnerOK
  <2>3. attempts' \in {attempts, [attempts EXCEPT ![r][tries[d][r]] = "open"]}
    BY <1>1 DEF RefuseSlot, InsertAttempt
  <2>4. r = q => attempts' = attempts
    BY <1>1, <2>2 DEF RefuseSlot, InsertAttempt
  <2> QED BY <2>3, <2>4 DEF Inv, TypeOK
<1>2. ASSUME NEW d \in Drivers, NEW r \in Repos, CloseRefused(d, r) \/ Execute(d, r)
      PROVE  attempts'[q] = attempts[q]
  <2>1. pc[d][r] \in {"execute", "close_refused"}
    BY <1>2 DEF CloseRefused, Execute, Step
  <2>2. r # q
    BY <2>1 DEF Inv, ThreadInv, HolderOK, Claimed
  <2>3. \A s \in Repos : s # r => attempts'[s] = attempts[s]
    <3>1. CASE CloseRefused(d, r)
      BY <3>1 DEF CloseRefused, Inv, TypeOK
    <3>2. CASE Execute(d, r)
      <4>1. PICK res \in AttemptResults(Kind[r]) :
              attempts' = IF res.closes
                          THEN [attempts EXCEPT ![r][tries[d][r]] = res.verdict]
                          ELSE attempts
        BY <3>2 DEF Execute
      <4> QED BY <4>1 DEF Inv, TypeOK
    <3> QED BY <1>2, <3>1, <3>2
  <2> QED BY <2>2, <2>3
<1>3. ASSUME NEW d \in Drivers, NEW r \in Repos, ThreadStep(d, r)
      PROVE  attempts'[q] = attempts[q]
  BY <1>1, <1>2, <1>3
  DEF ThreadStep, StartThread, Admit, MarkRunning, Terminalize, dbVars
<1>4. ASSUME NEW d \in Drivers, Resume(d) \/ MainStep(d)
      PROVE  attempts' = attempts
  BY <1>4, MainStepQuiet
<1>5. CASE \/ \E d \in Drivers, r \in Repos : WriteFails(d, r)
           \/ \E d \in Drivers : Crash(d)
           \/ AllStopped \/ UNCHANGED vars
  BY <1>5 DEF WriteFails, Crash, AllStopped, vars, dbVars
<1> QED BY <1>3, <1>4, <1>5 DEF Next

\* A job row is decided by its thread, and otherwise keeps its verdict and gets
\* no retryable class.
PlainClasses == {"", "SHA_RESOLUTION_ERROR", "SKIPPED_UNSUPPORTED_SCENARIO"}
KeepsDecision(q) ==
  /\ jobs'[q].verdict = jobs[q].verdict /\ evaluation'[q] = evaluation[q]
  /\ jobs[q].verdict # Null => jobs'[q].missing = jobs[q].missing
  /\ jobs'[q].errorClass \in {jobs[q].errorClass} \cup PlainClasses

\* A step keeps the decision of a job, or is its terminalization.
LEMMA JobRowChange ==
  ASSUME Inv, [Next]_vars, NEW q \in Repos
  PROVE  KeepsDecision(q) \/ \E d \in Drivers : Terminalize(d, q)
<1>1. ASSUME UNCHANGED <<jobs, evaluation>> PROVE KeepsDecision(q)
  BY <1>1 DEF KeepsDecision
<1>2. ASSUME NEW d \in Drivers, Resume(d) \/ MainStep(d) PROVE KeepsDecision(q)
  <2>1. jobs'[q].verdict = jobs[q].verdict
    BY <1>2, MainStepQuiet DEF SameVerdict
  <2>2. evaluation' = evaluation
    BY <1>2 DEF Resume, MainStep, FindJob, InsertJob, SkipJob, CountJob, SealJobs,
       Launch, ListPending, JoinPool, Recount, CompleteRun, dbVars
  <2>3. CASE InsertJob(d)
    <3> DEFINE c == cursor[d]
    <3>1. c \in Repos
      BY <2>3 DEF InsertJob, Inv, MainInv
    <3>2. \/ jobs' = jobs
          \/ /\ jobs[c].status = "absent"
             /\ jobs' = [jobs EXCEPT ![c] = NewJob(Kind[c])]
      BY <2>3 DEF InsertJob
    <3>3. jobs[c].status = "absent" => jobs[c].verdict = Null
      BY <3>1 DEF Inv, JobInv, OwnerOK, JobExists
    <3>4. NewJob(Kind[c]).errorClass \in PlainClasses
      BY DEF NewJob, PlainClasses
    <3> HIDE DEF c
    <3> QED BY <2>1, <2>2, <3>1, <3>2, <3>3, <3>4 DEF KeepsDecision, Inv, TypeOK
  <2>4. CASE SkipJob(d)
    <3>1. cursor[d] \in Repos /\ jobs[cursor[d]] \in JobRow /\ jobs[q] \in JobRow
      BY <2>4 DEF SkipJob, MoveTo, Inv, MainInv, TypeOK
    <3>2. /\ jobs'[q].missing = jobs[q].missing
          /\ jobs'[q].errorClass \in {jobs[q].errorClass, "SKIPPED_UNSUPPORTED_SCENARIO"}
      BY <2>4, <3>1 DEF SkipJob, JobRow, Inv, TypeOK
    <3> QED BY <2>1, <2>2, <3>2 DEF KeepsDecision, PlainClasses
  <2>5. CASE ~InsertJob(d) /\ ~SkipJob(d)
    <3>1. jobs' = jobs
      BY <1>2, <2>5 DEF Resume, MainStep, FindJob, CountJob, SealJobs, Launch,
         ListPending, JoinPool, Recount, CompleteRun, dbVars
    <3> QED BY <1>1, <2>2, <3>1
  <2> QED BY <2>3, <2>4, <2>5
<1>3. ASSUME NEW d \in Drivers, NEW r \in Repos, ThreadStep(d, r), ~Terminalize(d, q)
      PROVE  KeepsDecision(q)
  <2>1. CASE MarkRunning(d, r)
    <3>1. evaluation' = evaluation
      BY <2>1 DEF MarkRunning
    <3>2. jobs[q] \in JobRow /\ jobs[r] \in JobRow
      BY DEF Inv, TypeOK
    <3>3. /\ jobs'[q].verdict = jobs[q].verdict /\ jobs'[q].missing = jobs[q].missing
          /\ jobs'[q].errorClass = jobs[q].errorClass
      BY <2>1, <3>2 DEF MarkRunning, JobRow, Inv, TypeOK
    <3> QED BY <3>1, <3>3 DEF KeepsDecision
  <2>2. CASE Terminalize(d, r)
    <3>1. r # q
      BY <1>3, <2>2
    <3>2. jobs'[q] = jobs[q]
      BY <2>2, <3>1, TerminalizeInv
    <3>3. evaluation'[q] = evaluation[q]
      BY <2>2, <3>1 DEF Terminalize, Inv, TypeOK
    <3> QED BY <3>2, <3>3 DEF KeepsDecision
  <2>3. CASE ~MarkRunning(d, r) /\ ~Terminalize(d, r)
    <3>1. UNCHANGED <<jobs, evaluation>>
      BY <1>3, <2>3 DEF ThreadStep, StartThread, Admit, RefuseSlot, CloseRefused,
         InsertAttempt, Execute, dbVars
    <3> QED BY <1>1, <3>1
  <2> QED BY <2>1, <2>2, <2>3
<1>4. CASE \/ \E d \in Drivers, r \in Repos : WriteFails(d, r)
           \/ \E d \in Drivers : Crash(d)
           \/ AllStopped \/ UNCHANGED vars
  BY <1>1, <1>4 DEF WriteFails, Crash, AllStopped, vars, dbVars
<1> QED BY <1>2, <1>3, <1>4 DEF Next

\* What Terminalize writes.
LEMMA DecisionIs ==
  ASSUME Inv, NEW d \in Drivers, NEW r \in Repos, Terminalize(d, r)
  PROVE  /\ pc[d][r] = "terminalize" /\ attempts' = attempts
         /\ jobs'[r].verdict = outcome[d][r].verdict
         /\ jobs'[r].errorClass = outcome[d][r].errorClass
         /\ jobs'[r].missing = IF outcome[d][r].verdict = "UNSUPPORTED"
                               THEN "compatible_execution_recipe" ELSE Null
         /\ evaluation'[r] = outcome[d][r].verdict
<1> DEFINE mine == outcome[d][r]
<1>1. pc[d][r] = "terminalize" /\ attempts' = attempts
  BY DEF Terminalize
<1>2. MayDecide(r, mine.verdict)
  BY TerminalizeInv DEF MayDecide
<1>3. /\ jobs' = [jobs EXCEPT
           ![r].status     = "completed",
           ![r].verdict    = mine.verdict,
           ![r].errorClass = mine.errorClass,
           ![r].missing    = IF mine.verdict = "UNSUPPORTED"
                             THEN "compatible_execution_recipe" ELSE Null]
      /\ evaluation' = [evaluation EXCEPT ![r] = mine.verdict]
  BY <1>2 DEF Terminalize
<1>4. jobs[r] \in JobRow
  BY DEF Inv, TypeOK
<1> HIDE DEF mine
<1>5. /\ jobs'[r].verdict = mine.verdict /\ jobs'[r].errorClass = mine.errorClass
      /\ jobs'[r].missing = IF mine.verdict = "UNSUPPORTED"
                            THEN "compatible_execution_recipe" ELSE Null
      /\ evaluation'[r] = mine.verdict
  BY <1>3, <1>4 DEF JobRow, Inv, TypeOK
<1> QED BY <1>1, <1>5 DEF mine

\* A decided row stays backed by its attempts, since these are only appended to,
\* and a row is decided when they are all there.
LEMMA BackedNext ==
  ASSUME Inv, Earning, VerdictsAreEarned, [Next]_vars, Inv', [AppendOnly]_attempts
  PROVE  VerdictsAreEarned'
<1>1. ASSUME NEW q \in Repos, jobs'[q].verdict # Null
      PROVE  /\ evaluation'[q] = jobs'[q].verdict
             /\ jobs'[q].missing # Null <=> jobs'[q].verdict = "UNSUPPORTED"
             /\ \E n \in 1..MaxAttempts :
                  /\ attempts'[q][n] \in {"open", jobs'[q].verdict}
                  /\ \A m \in 1..MaxAttempts : m > n => attempts'[q][m] = "absent"
                  /\ \A m \in 1..n-1 : attempts'[q][m] \in {"open", "ERROR"}
  <2>1. CASE KeepsDecision(q)
    <3>1. attempts'[q] = attempts[q]
      BY <1>1, <2>1, DecidedRows DEF KeepsDecision
    <3> QED BY <1>1, <2>1, <3>1 DEF KeepsDecision, VerdictsAreEarned, VerdictBackedByAttempt
  <2>2. ASSUME NEW d \in Drivers, Terminalize(d, q)
        PROVE  /\ evaluation'[q] = jobs'[q].verdict
               /\ jobs'[q].missing # Null <=> jobs'[q].verdict = "UNSUPPORTED"
               /\ \E n \in 1..MaxAttempts :
                    /\ attempts'[q][n] \in {"open", jobs'[q].verdict}
                    /\ \A m \in 1..MaxAttempts : m > n => attempts'[q][m] = "absent"
                    /\ \A m \in 1..n-1 : attempts'[q][m] \in {"open", "ERROR"}
    <3> DEFINE n == tries[d][q]
    <3>1. /\ pc[d][q] = "terminalize" /\ attempts' = attempts
          /\ evaluation'[q] = jobs'[q].verdict
          /\ jobs'[q].verdict = outcome[d][q].verdict
          /\ jobs'[q].missing # Null <=> jobs'[q].verdict = "UNSUPPORTED"
      BY <2>2, DecisionIs DEF Null
    <3>2. n \in 1..MaxAttempts /\ Claimed(d, q) /\ Inserted(d, q) = n
      BY <3>1, RunAssumption DEF Claimed, Inserted, Inv, TypeOK, ThreadInv, ThreadOK
    <3>3. \A m \in 1..MaxAttempts : Exists(q, m) <=> m <= n
      BY <3>2 DEF Inv, ThreadInv, HolderOK
    <3>4. attempts[q][n] \in {"open", outcome[d][q].verdict}
      BY <3>1 DEF Earning, ReadyOK
    <3>5. \A m \in 1..n-1 : attempts[q][m] \in {"open", "ERROR"}
      BY <3>2, RunAssumption DEF Earning, RowsOK
    <3>6. \A m \in 1..MaxAttempts : m > n => attempts[q][m] = "absent"
      BY <3>2, <3>3 DEF Exists
    <3> QED BY <3>1, <3>2, <3>4, <3>5, <3>6
  <2> QED BY <2>1, <2>2, JobRowChange
<1>2. ASSUME NEW q \in Repos,
             jobs'[q].errorClass \in RetryableErrorClasses \ {"CONTAINER_START_ERROR"},
             NEW n \in 1..MaxAttempts
      PROVE  Exists(q, n)'
  <2>1. CASE KeepsDecision(q)
    <3>1. jobs[q].errorClass \in RetryableErrorClasses \ {"CONTAINER_START_ERROR"}
      BY <1>2, <2>1 DEF KeepsDecision, PlainClasses, RetryableErrorClasses
    <3>2. Exists(q, n)
      BY <3>1 DEF VerdictsAreEarned, RetriesAreUsedUp
    <3> QED BY <3>2 DEF AppendOnly, Exists
  <2>2. ASSUME NEW d \in Drivers, Terminalize(d, q) PROVE Exists(q, n)'
    <3>1. /\ pc[d][q] = "terminalize" /\ attempts' = attempts
          /\ jobs'[q].errorClass = outcome[d][q].errorClass
      BY <2>2, DecisionIs
    <3>2. tries[d][q] = MaxAttempts
      BY <1>2, <3>1 DEF Earning, ReadyOK
    <3>3. Claimed(d, q) /\ Inserted(d, q) = MaxAttempts
      BY <3>1, <3>2 DEF Claimed, Inserted
    <3>4. Exists(q, n)
      BY <3>3, RunAssumption DEF Inv, ThreadInv, HolderOK
    <3> QED BY <3>1, <3>4 DEF Exists
  <2> QED BY <2>1, <2>2, JobRowChange
<1> QED BY <1>1, <1>2 DEF VerdictsAreEarned, VerdictBackedByAttempt, RetriesAreUsedUp

\* Every verdict is backed by the newest of its attempts, and given after all of
\* them, however many drivers interleave, crash and lose writes.
THEOREM VerdictsEarned == Spec => []VerdictsAreEarned
<1>1. ASSUME Init PROVE Earning /\ VerdictsAreEarned
  <2>1. \A d \in Drivers, r \in Repos : pc[d][r] = "none"
    BY <1>1 DEF Init
  <2>2. \A r \in Repos : jobs[r].verdict = Null /\ jobs[r].errorClass = ""
    BY <1>1 DEF Init
  <2>3. Earning
    BY <2>1 DEF Earning, RowsOK, ReadyOK, Claimed
  <2>4. VerdictBackedByAttempt
    BY <2>2 DEF VerdictBackedByAttempt
  <2>5. RetriesAreUsedUp
    BY <2>2 DEF RetriesAreUsedUp, RetryableErrorClasses
  <2> QED BY <2>3, <2>4, <2>5 DEF VerdictsAreEarned
<1>2. Inv /\ [Next]_vars => [AppendOnly]_attempts
  BY HistoryStep
<1>3. QED
  BY <1>1, <1>2, EarningNext, BackedNext, Invariance, PTL DEF Spec

-----------------------------------------------------------------------------
(***************************************************************************)
(* One driver at a time.  Where a resume waits for the driver before it to *)
(* end, the row a driver inserted is its own until it has skipped it, and  *)
(* the threads of its pool are the only writers of the jobs it listed.     *)
(***************************************************************************)
Active(d) == phase[d] \notin Stopped \cup {"idle"}
Alone     == \A d, e \in Drivers : Active(d) /\ Active(e) => d = e

\* The driver that skips a row inserted it, and nothing has touched it since.
Skipping == \A d \in Drivers : phase[d] = "skip" => jobs[cursor[d]].status = "pending"

\* A thread that is still at work has a job that nobody has ended.
AtWork == \A d \in Drivers, r \in Repos : pc[d][r] \notin Finished => ~Terminal(r)

CutOff(r) == \E d \in Drivers : phase[d] = "crashed" /\ cursor[d] = r
Skips(r)  == \E d \in Drivers : phase[d] = "skip" /\ cursor[d] = r

\* An unsupported row is skipped, or about to be, unless its driver was cut off;
\* only then has it a thread or an attempt.
Unskipped ==
  \A r \in Repos : Kind[r] = "unsupported_scenario" =>
    /\ \/ jobs[r].status \in {"absent", "skipped_unsupported_scenario"}
       \/ Skips(r) \/ CutOff(r)
    /\ Exists(r, 1) \/ (\E d \in Drivers : pc[d][r] # "none") => CutOff(r)

SeqInv == Alone /\ Skipping /\ AtWork /\ Unskipped

\* A step of the main thread is of a driver that is active, or idle and then
\* alone; it moves no other driver.
LEMMA MainFrame ==
  ASSUME Inv, NEW d \in Drivers, MainStep(d)
  PROVE  /\ Active(d)
         /\ \A e \in Drivers \ {d} :
              phase'[e] = phase[e] /\ cursor'[e] = cursor[e] /\ pc'[e] = pc[e]
<1>1. Active(d)
  BY DEF Active, Stopped, MainStep, FindJob, InsertJob, SkipJob, CountJob, SealJobs,
     Launch, ListPending, JoinPool, Recount, CompleteRun, MoveTo
<1>2. \E f \in Phases : phase' = [phase EXCEPT ![d] = f]
  BY DEF MainStep, FindJob, InsertJob, SkipJob, CountJob, SealJobs, Launch,
     ListPending, JoinPool, StopIn, Recount, CompleteRun, MoveTo, Phases, Stopped, Inv, TypeOK
<1>3. \E n : cursor' = [cursor EXCEPT ![d] = n]
  BY DEF MainStep, FindJob, InsertJob, SkipJob, CountJob, SealJobs, Launch,
     ListPending, JoinPool, Recount, CompleteRun, Inv, TypeOK
<1>4. \E p : pc' = [pc EXCEPT ![d] = p]
  BY DEF MainStep, FindJob, InsertJob, SkipJob, CountJob, SealJobs, Launch,
     ListPending, JoinPool, StopIn, Recount, CompleteRun, threadVars, Inv, TypeOK
<1> QED BY <1>1, <1>2, <1>3, <1>4 DEF Inv, TypeOK

\* Threads leave the main threads and the other threads alone.
LEMMA ThreadFrame ==
  ASSUME Inv, NEW d \in Drivers, NEW r \in Repos, ThreadStep(d, r) \/ WriteFails(d, r)
  PROVE  /\ phase' = phase /\ cursor' = cursor
         /\ pc[d][r] \notin Finished
         /\ \A e \in Drivers, q \in Repos : e # d \/ q # r => pc'[e][q] = pc[e][q]
<1>1. phase' = phase /\ cursor' = cursor
  BY DEF ThreadStep, StartThread, Admit, RefuseSlot, CloseRefused, MarkRunning,
     InsertAttempt, Execute, Terminalize, WriteFails
<1>2. pc[d][r] \notin Finished
  BY DEF Finished, ThreadStep, StartThread, Admit, RefuseSlot, CloseRefused, MarkRunning,
     InsertAttempt, Execute, Terminalize, WriteFails, Step
<1>3. \E p : pc' = [pc EXCEPT ![d][r] = p]
  <2>1. CASE ThreadStep(d, r)
    BY <2>1 DEF ThreadStep, StartThread, Admit, RefuseSlot, CloseRefused, MarkRunning,
       InsertAttempt, Execute, Terminalize, Step
  <2>2. CASE WriteFails(d, r)
    BY <2>2 DEF WriteFails
  <2> QED BY <2>1, <2>2
<1> QED BY <1>1, <1>2, <1>3 DEF Inv, TypeOK

\* A driver that has stopped stays where it is.
LEMMA StoppedStays ==
  ASSUME Inv, [Next]_vars, NEW e \in Drivers, phase[e] \in Stopped
  PROVE  phase'[e] = phase[e] /\ cursor'[e] = cursor[e]
<1>1. ASSUME NEW d \in Drivers, Resume(d) \/ MainStep(d) \/ Crash(d)
      PROVE  phase'[e] = phase[e] /\ cursor'[e] = cursor[e]
  <2>1. CASE Resume(d)
    BY <2>1 DEF Resume, Stopped, Inv, TypeOK
  <2>2. CASE MainStep(d)
    BY <2>2, MainFrame DEF Active
  <2>3. CASE Crash(d)
    BY <2>3 DEF Crash, StopIn, Inv, TypeOK
  <2> QED BY <1>1, <2>1, <2>2, <2>3
<1>2. ASSUME NEW d \in Drivers, NEW r \in Repos, ThreadStep(d, r) \/ WriteFails(d, r)
      PROVE  phase'[e] = phase[e] /\ cursor'[e] = cursor[e]
  BY <1>2, ThreadFrame
<1> QED BY <1>1, <1>2 DEF Next, AllStopped, vars

\* A driver that was cut off at a row stays so.
LEMMA CutOffStays ==
  ASSUME Inv, [Next]_vars, NEW r \in Repos, CutOff(r) PROVE CutOff(r)'
BY StoppedStays DEF CutOff, Stopped

\* A resume waits until no other driver is active.
LEMMA AloneNext == ASSUME ~Concurrent, Inv, Alone, [Next]_vars PROVE Alone'
<1>1. ASSUME NEW d \in Drivers, Resume(d) PROVE Alone'
  BY <1>1 DEF Resume, Alone, Active, Stopped, Inv, TypeOK
<1>2. ASSUME \A e \in Drivers : Active(e)' => Active(e) PROVE Alone'
  BY <1>2 DEF Alone
<1>3. ASSUME NEW d \in Drivers, MainStep(d) PROVE \A e \in Drivers : Active(e)' => Active(e)
  BY <1>3, MainFrame DEF Active
<1>4. ASSUME NEW d \in Drivers, NEW r \in Repos, ThreadStep(d, r) \/ WriteFails(d, r)
      PROVE  \A e \in Drivers : Active(e)' => Active(e)
  BY <1>4, ThreadFrame DEF Active
<1>5. ASSUME NEW d \in Drivers, Crash(d) PROVE \A e \in Drivers : Active(e)' => Active(e)
  BY <1>5 DEF Crash, StopIn, Active, Stopped, Inv, TypeOK
<1>6. CASE AllStopped \/ UNCHANGED vars
  BY <1>2, <1>6 DEF AllStopped, vars, Active
<1> QED BY <1>1, <1>2, <1>3, <1>4, <1>5, <1>6 DEF Next

\* Outside the pool of the active driver there are no threads.
LEMMA NoThreads ==
  ASSUME Inv, Alone, NEW d \in Drivers, Active(d), NEW e \in Drivers, NEW r \in Repos,
         e # d \/ phase[d] # "pool"
  PROVE  pc[e][r] = "none"
<1>1. e # d => phase[e] # "pool"
  BY DEF Alone, Active, Stopped
<1> QED BY <1>1 DEF Inv, MainInv

\* A step of the main thread that writes a job row: the row, and what it becomes.
LEMMA MainWrites ==
  ASSUME Inv, Skipping, NEW d \in Drivers, Resume(d) \/ MainStep(d), NEW r \in Repos
  PROVE  \/ jobs'[r] = jobs[r]
         \/ /\ InsertJob(d) /\ r = cursor[d] /\ jobs[r].status = "absent"
            /\ jobs'[r] = NewJob(Kind[r])
         \/ /\ SkipJob(d) /\ r = cursor[d] /\ jobs[r].status = "pending"
            /\ jobs'[r].status = "skipped_unsupported_scenario"
<1>1. CASE InsertJob(d)
  <2> DEFINE c == cursor[d]
             row == NewJob(Kind[c])
  <2>1. \/ jobs' = jobs
        \/ jobs[c].status = "absent" /\ jobs' = [jobs EXCEPT ![c] = row]
    BY <1>1 DEF InsertJob
  <2> HIDE DEF c, row
  <2>2. r # c => jobs'[r] = jobs[r]
    BY <2>1 DEF Inv, TypeOK
  <2>3. r = c => jobs'[r] = jobs[r] \/ (jobs[r].status = "absent" /\ jobs'[r] = row)
    BY <2>1 DEF Inv, TypeOK
  <2> QED BY <1>1, <2>2, <2>3 DEF c, row
<1>2. CASE SkipJob(d)
  <2>1. phase[d] = "skip" /\ cursor[d] \in Repos
    BY <1>2 DEF SkipJob, MoveTo, Inv, MainInv
  <2>2. jobs[cursor[d]].status = "pending" /\ jobs[cursor[d]] \in JobRow
    BY <2>1 DEF Skipping, Inv, TypeOK
  <2> QED BY <1>2, <2>1, <2>2 DEF SkipJob, JobRow, Inv, TypeOK
<1>3. CASE ~InsertJob(d) /\ ~SkipJob(d)
  BY <1>3 DEF Resume, MainStep, FindJob, CountJob, SealJobs, Launch, ListPending,
     JoinPool, Recount, CompleteRun, dbVars
<1> QED BY <1>1, <1>2, <1>3

\* A thread writes the row of its own job, and leaves it terminal only when done.
LEMMA ThreadWrites ==
  ASSUME Inv, NEW d \in Drivers, NEW r \in Repos, ThreadStep(d, r) \/ WriteFails(d, r)
  PROVE  /\ \A q \in Repos : q # r => jobs'[q] = jobs[q]
         /\ \/ jobs'[r] = jobs[r]
            \/ jobs'[r].status = "running"
            \/ pc'[d][r] \in Finished
<1>1. CASE MarkRunning(d, r)
  <2>1. jobs[r] \in JobRow
    BY DEF Inv, TypeOK
  <2> QED BY <1>1, <2>1 DEF MarkRunning, JobRow, Inv, TypeOK
<1>2. CASE Terminalize(d, r)
  <2>1. \A q \in Repos : q # r => jobs'[q] = jobs[q]
    BY <1>2, TerminalizeInv
  <2>2. pc'[d][r] \in {"done", "dead"}
    BY <1>2 DEF Terminalize, Step, Inv, TypeOK
  <2> QED BY <2>1, <2>2 DEF Finished
<1>3. CASE ~MarkRunning(d, r) /\ ~Terminalize(d, r)
  BY <1>3 DEF ThreadStep, StartThread, Admit, RefuseSlot, CloseRefused, InsertAttempt,
     Execute, WriteFails, dbVars
<1> QED BY <1>1, <1>2, <1>3

\* A row about to be skipped stays as it was inserted: nobody else is active.
LEMMA SkippingNext == ASSUME ~Concurrent, Inv, Inv', SeqInv, [Next]_vars PROVE Skipping'
<1> SUFFICES ASSUME NEW e \in Drivers, phase'[e] = "skip"
             PROVE  jobs'[cursor'[e]].status = "pending"
  BY DEF Skipping
<1>1. ASSUME NEW d \in Drivers, InsertJob(d) PROVE jobs'[cursor'[e]].status = "pending"
  <2>1. Active(d) /\ phase[d] = "insert" /\ cursor[d] \in Repos
    BY <1>1, MainFrame DEF MainStep, InsertJob, Inv, MainInv
  <2>2. CASE e = d
    <3>1. /\ jobs[cursor[d]].status = "absent" /\ cursor' = cursor
          /\ Kind[cursor[d]] = "unsupported_scenario"
          /\ jobs' = [jobs EXCEPT ![cursor[d]] = NewJob(Kind[cursor[d]])]
      BY <1>1, <2>2 DEF InsertJob, Inv, TypeOK
    <3> QED BY <2>1, <2>2, <3>1 DEF NewJob, Inv, TypeOK
  <2>3. CASE e # d
    BY <1>1, <2>1, <2>3, MainFrame DEF SeqInv, Alone, MainStep, Active, Stopped
  <2> QED BY <2>2, <2>3
<1>2. ASSUME NEW d \in Drivers, Resume(d) \/ MainStep(d), ~InsertJob(d)
      PROVE  jobs'[cursor'[e]].status = "pending"
  <2>1. phase'[d] # "skip"
    BY SMTT(30), <1>2 DEF Resume, MainStep, FindJob, SkipJob, CountJob, SealJobs, Launch,
       ListPending, JoinPool, StopIn, Recount, CompleteRun, MoveTo, Inv, TypeOK
  <2>2. e # d
    BY <2>1
  <2>3. phase[e] = "skip"
    BY <1>2, <2>2, MainFrame DEF Resume, Inv, TypeOK
  <2>4. CASE Resume(d)
    BY <2>2, <2>3, <2>4 DEF Resume, Stopped
  <2>5. CASE MainStep(d)
    BY <2>2, <2>3, <2>5, MainFrame DEF SeqInv, Alone, Active, Stopped
  <2> QED BY <1>2, <2>4, <2>5
<1>3. ASSUME NEW d \in Drivers, NEW r \in Repos, ThreadStep(d, r) \/ WriteFails(d, r)
      PROVE  jobs'[cursor'[e]].status = "pending"
  <2>1. phase[e] = "skip" /\ cursor'[e] = cursor[e]
    BY <1>3, ThreadFrame
  <2>2. pc[d][r] = "none"
    BY <2>1, NoThreads DEF SeqInv, Active, Stopped
  <2> QED BY <1>3, <2>2, ThreadFrame DEF Finished
<1>4. ASSUME NEW d \in Drivers, Crash(d) PROVE jobs'[cursor'[e]].status = "pending"
  BY <1>4 DEF Crash, StopIn, SeqInv, Skipping, dbVars, Inv, TypeOK
<1>5. CASE AllStopped \/ UNCHANGED vars
  BY <1>5 DEF AllStopped, vars, SeqInv, Skipping, dbVars
<1> QED BY <1>1, <1>2, <1>3, <1>4, <1>5 DEF Next

\* The job of a thread at work has not ended.
LEMMA AtWorkNext == ASSUME ~Concurrent, Inv, SeqInv, [Next]_vars PROVE AtWork'
<1> SUFFICES ASSUME NEW e \in Drivers, NEW q \in Repos, pc'[e][q] \notin Finished
             PROVE  ~Terminal(q)'
  BY DEF AtWork
<1>1. ASSUME NEW d \in Drivers, Resume(d) \/ MainStep(d) PROVE ~Terminal(q)'
  <2>1. CASE ListPending(d)
    <3>1. jobs' = jobs /\ Active(d)
      BY <2>1, MainFrame DEF ListPending, MainStep, dbVars
    <3>2. e = d
      <4>1. ASSUME e # d PROVE FALSE
        <5>1. pc'[e] = pc[e]
          BY <2>1, <4>1, MainFrame DEF MainStep
        <5> QED BY <3>1, <4>1, <5>1, NoThreads DEF SeqInv, Finished
      <4> QED BY <4>1
    <3>3. pc'[d][q] \in {"none", "queued"} /\ (pc'[d][q] = "queued" => Drivable(q))
      BY <2>1 DEF ListPending, Inv, TypeOK
    <3> QED BY <3>1, <3>2, <3>3 DEF Finished, Drivable, Terminal
  <2>2. CASE JoinPool(d)
    <3>1. jobs' = jobs /\ (e = d => pc'[e][q] = "none") /\ (e # d => pc'[e] = pc[e])
      BY <2>2 DEF JoinPool, StopIn, dbVars, Inv, TypeOK
    <3> QED BY <3>1 DEF SeqInv, AtWork, Terminal, Finished
  <2>3. CASE ~ListPending(d) /\ ~JoinPool(d)
    <3>1. pc' = pc
      BY <1>1, <2>3 DEF Resume, MainStep, FindJob, InsertJob, SkipJob, CountJob,
         SealJobs, Launch, Recount, CompleteRun, threadVars
    <3>2. CASE InsertJob(d) \/ SkipJob(d)
      <4>1. Active(d) /\ phase[d] # "pool"
        BY <3>2, MainFrame DEF InsertJob, SkipJob, MoveTo, MainStep
      <4> QED BY <3>1, <4>1, NoThreads DEF SeqInv, Finished
    <3>3. CASE ~InsertJob(d) /\ ~SkipJob(d)
      <4>1. jobs'[q] = jobs[q]
        BY <1>1, <3>3, MainWrites DEF SeqInv
      <4> QED BY <3>1, <4>1 DEF SeqInv, AtWork, Terminal
    <3> QED BY <3>2, <3>3
  <2> QED BY <2>1, <2>2, <2>3
<1>2. ASSUME NEW d \in Drivers, NEW r \in Repos, ThreadStep(d, r) \/ WriteFails(d, r)
      PROVE  ~Terminal(q)'
  <2>1. pc[d][r] \notin Finished /\ phase' = phase
    BY <1>2, ThreadFrame
  <2>2. pc[d][r] # "none"
    BY <2>1 DEF Finished
  <2>3. phase[d] = "pool" /\ Active(d)
    BY <2>2 DEF Inv, MainInv, Active, Stopped
  <2>4. e = d
    BY <1>2, <2>3, ThreadFrame, NoThreads DEF SeqInv, Finished
  <2>5. CASE q # r
    BY <1>2, <2>4, <2>5, ThreadFrame, ThreadWrites DEF SeqInv, AtWork, Terminal
  <2>6. CASE q = r
    BY <1>2, <2>1, <2>4, <2>6, ThreadWrites DEF SeqInv, AtWork, Terminal
  <2> QED BY <2>5, <2>6
<1>3. ASSUME NEW d \in Drivers, Crash(d) PROVE ~Terminal(q)'
  <2>1. jobs' = jobs /\ (e = d => pc'[e][q] = "none") /\ (e # d => pc'[e] = pc[e])
    BY <1>3 DEF Crash, StopIn, dbVars, Inv, TypeOK
  <2> QED BY <2>1 DEF SeqInv, AtWork, Terminal, Finished
<1>4. CASE AllStopped \/ UNCHANGED vars
  BY <1>4 DEF AllStopped, vars, dbVars, threadVars, SeqInv, AtWork, Terminal
<1> QED BY <1>1, <1>2, <1>3, <1>4 DEF Next

\* An unsupported row is skipped unless its driver is cut off in between.
LEMMA UnskippedNext == ASSUME ~Concurrent, Inv, Inv', SeqInv, [Next]_vars PROVE Unskipped'
<1> SUFFICES ASSUME NEW r \in Repos, Kind[r] = "unsupported_scenario", ~CutOff(r)'
             PROVE  /\ \/ jobs'[r].status \in {"absent", "skipped_unsupported_scenario"}
                       \/ Skips(r)'
                    /\ ~Exists(r, 1)' /\ \A e \in Drivers : pc'[e][r] = "none"
  BY DEF Unskipped
<1>0. /\ ~CutOff(r)
      /\ jobs[r].status \in {"absent", "skipped_unsupported_scenario"} \/ Skips(r)
      /\ ~Exists(r, 1) /\ \A e \in Drivers : pc[e][r] = "none"
  BY CutOffStays DEF SeqInv, Unskipped
<1>1. ASSUME NEW d \in Drivers, Resume(d) \/ MainStep(d)
      PROVE  /\ \/ jobs'[r].status \in {"absent", "skipped_unsupported_scenario"}
                \/ Skips(r)'
             /\ ~Exists(r, 1)' /\ \A e \in Drivers : pc'[e][r] = "none"
  <2>1. ~Exists(r, 1)'
    BY <1>0, <1>1, MainStepQuiet DEF Exists
  <2>2. ASSUME Skips(r) PROVE MainStep(d) /\ phase[d] = "skip" /\ cursor[d] = r
    <3>1. PICK e \in Drivers : phase[e] = "skip" /\ cursor[e] = r
      BY <2>2 DEF Skips
    <3>2. Active(e)
      BY <3>1 DEF Active, Stopped
    <3>3. ~Resume(d)
      BY <3>1 DEF Resume, Stopped
    <3> QED BY <1>1, <3>1, <3>2, <3>3, MainFrame DEF SeqInv, Alone
  <2>3. \/ jobs'[r].status \in {"absent", "skipped_unsupported_scenario"}
        \/ Skips(r)'
    <3>1. CASE Skips(r)
      <4>1. SkipJob(d) /\ r = cursor[d]
        BY <2>2, <3>1 DEF MainStep, FindJob, InsertJob, CountJob, SealJobs, Launch,
           ListPending, JoinPool, Recount, CompleteRun, MoveTo
      <4>2. jobs[r] \in JobRow
        BY DEF Inv, TypeOK
      <4>3. jobs'[r].status = "skipped_unsupported_scenario"
        BY <4>1, <4>2 DEF SkipJob, JobRow, Inv, TypeOK
      <4> QED BY <4>3
    <3>2. CASE ~Skips(r)
      <4>1. CASE InsertJob(d) /\ r = cursor[d] /\ jobs[r].status = "absent"
        <5>1. phase' = [phase EXCEPT ![d] = "skip"] /\ cursor' = cursor
          BY <4>1 DEF InsertJob
        <5> QED BY <4>1, <5>1 DEF Skips, Inv, TypeOK
      <4>2. CASE SkipJob(d) /\ r = cursor[d]
        BY <3>2, <4>2 DEF Skips, SkipJob, MoveTo
      <4> QED BY <1>0, <1>1, <3>2, <4>1, <4>2, MainWrites DEF SeqInv
    <3> QED BY <3>1, <3>2
  <2>4. \A e \in Drivers : pc'[e][r] = "none"
    <3>1. CASE ListPending(d)
      <4>1. ~Skips(r)
        BY <2>2, <3>1 DEF ListPending, MoveTo
      <4>2. ~Drivable(r)
        BY <1>0, <4>1 DEF Drivable
      <4>3. pc' = [pc EXCEPT ![d] = [q \in Repos |-> IF Drivable(q) THEN "queued" ELSE "none"]]
        BY <3>1 DEF ListPending
      <4>4. \A e \in Drivers : e # d => pc'[e][r] = pc[e][r]
        BY <4>3 DEF Inv, TypeOK
      <4>5. pc'[d][r] = "none"
        BY <4>2, <4>3 DEF Inv, TypeOK
      <4> QED BY <1>0, <4>4, <4>5
    <3>2. CASE JoinPool(d)
      <4>1. PICK last \in {"failed", "recount"} : StopIn(d, last)
        BY <3>2 DEF JoinPool
      <4> QED BY <1>0, <4>1 DEF StopIn, Inv, TypeOK
    <3>3. CASE ~ListPending(d) /\ ~JoinPool(d)
      BY <1>0, <1>1, <3>3 DEF Resume, MainStep, FindJob, InsertJob, SkipJob, CountJob,
         SealJobs, Launch, Recount, CompleteRun, threadVars
    <3> QED BY <3>1, <3>2, <3>3
  <2> QED BY <2>1, <2>3, <2>4
<1>2. ASSUME NEW d \in Drivers, NEW q \in Repos, ThreadStep(d, q) \/ WriteFails(d, q)
      PROVE  /\ \/ jobs'[r].status \in {"absent", "skipped_unsupported_scenario"}
                \/ Skips(r)'
             /\ ~Exists(r, 1)' /\ \A e \in Drivers : pc'[e][r] = "none"
  <2>1. q # r
    BY <1>0, <1>2, ThreadFrame DEF Finished
  <2>2. attempts'[r] = attempts[r]
    <3>1. CASE RefuseSlot(d, q) \/ InsertAttempt(d, q)
      BY <2>1, <3>1 DEF RefuseSlot, InsertAttempt, Inv, TypeOK
    <3>2. CASE CloseRefused(d, q)
      BY <2>1, <3>2 DEF CloseRefused, Inv, TypeOK
    <3>3. CASE Execute(d, q)
      <4>1. PICK res \in AttemptResults(Kind[q]) :
              attempts' = IF res.closes
                          THEN [attempts EXCEPT ![q][tries[d][q]] = res.verdict]
                          ELSE attempts
        BY <3>3 DEF Execute
      <4> QED BY <2>1, <4>1 DEF Inv, TypeOK
    <3> QED BY <1>2, <3>1, <3>2, <3>3
            DEF ThreadStep, StartThread, Admit, MarkRunning, Terminalize, WriteFails, dbVars
  <2>3. \A e \in Drivers : pc'[e][r] = pc[e][r]
    BY <1>2, <2>1, ThreadFrame
  <2>4. jobs'[r] = jobs[r] /\ (Skips(r)' <=> Skips(r))
    BY <1>2, <2>1, ThreadFrame, ThreadWrites DEF Skips
  <2> QED BY <1>0, <2>2, <2>3, <2>4 DEF Exists
<1>3. ASSUME NEW d \in Drivers, Crash(d)
      PROVE  /\ \/ jobs'[r].status \in {"absent", "skipped_unsupported_scenario"}
                \/ Skips(r)'
             /\ ~Exists(r, 1)' /\ \A e \in Drivers : pc'[e][r] = "none"
  <2>1. /\ phase' = [phase EXCEPT ![d] = "crashed"] /\ cursor' = cursor
        /\ jobs' = jobs /\ attempts' = attempts
        /\ pc' = [pc EXCEPT ![d] = [q \in Repos |-> "none"]]
    BY <1>3 DEF Crash, StopIn, dbVars
  <2>2. cursor[d] # r
    BY <2>1 DEF CutOff, Inv, TypeOK
  <2>3. Skips(r) => Skips(r)'
    BY <2>1, <2>2 DEF Skips, Inv, TypeOK
  <2>4. \A e \in Drivers : pc'[e][r] = "none"
    BY <1>0, <2>1 DEF Inv, TypeOK
  <2> QED BY <1>0, <2>1, <2>3, <2>4 DEF Exists
<1>4. CASE AllStopped \/ UNCHANGED vars
  BY <1>0, <1>4 DEF AllStopped, vars, dbVars, threadVars, Skips, Exists
<1> QED BY <1>1, <1>2, <1>3, <1>4 DEF Next

\* The invariant of runs with one driver at a time: with it a resumed run meets
\* only rows that its predecessors have left, never one that is being written.
THEOREM SequentialInvariance == ASSUME ~Concurrent PROVE Spec => [](Inv /\ SeqInv)
<1>1. Init => SeqInv
  <2> SUFFICES ASSUME Init PROVE SeqInv OBVIOUS
  <2>1. \A d \in Drivers : phase[d] # "skip" /\ (Active(d) => d = Creator)
    BY DEF Init, Active
  <2>2. \A d \in Drivers, r \in Repos : pc[d][r] = "none"
    BY DEF Init
  <2>3. \A r \in Repos : jobs[r].status = "absent" /\ ~Exists(r, 1)
    <3>1. 1 \in 1..MaxAttempts
      BY RunAssumption
    <3> QED BY <3>1 DEF Init, Exists
  <2> QED BY <2>1, <2>2, <2>3 DEF SeqInv, Alone, Skipping, AtWork, Unskipped, Finished
<1>2. Inv /\ Inv' /\ SeqInv /\ [Next]_vars => SeqInv'
  BY AloneNext, SkippingNext, AtWorkNext, UnskippedNext DEF SeqInv
<1> QED BY <1>1, <1>2, Invariance, PTL DEF Spec

\* An unsupported scenario is executed only when the one driver that inserted its
\* row was killed before it had skipped it.
THEOREM SkippedOrCutOff == ASSUME ~Concurrent PROVE Spec => []SkippedUnlessCutOff
<1>1. Inv /\ SeqInv => SkippedUnlessCutOff
  BY DEF SeqInv, Unskipped, SkippedUnlessCutOff, CutOff
<1> QED BY <1>1, SequentialInvariance, PTL

\* A resume leaves finished work alone: no step writes a terminal job row.
THEOREM TerminalFinal == ASSUME ~Concurrent PROVE Spec => TerminalRowsFinal
<1>1. ASSUME Inv, SeqInv, [Next]_vars
      PROVE  \A r \in Repos : Terminal(r) => jobs'[r] = jobs[r]
  <2> SUFFICES ASSUME NEW r \in Repos, Terminal(r) PROVE jobs'[r] = jobs[r]
    OBVIOUS
  <2>1. ASSUME NEW d \in Drivers, Resume(d) \/ MainStep(d) PROVE jobs'[r] = jobs[r]
    BY <1>1, <2>1, MainWrites DEF SeqInv, Terminal
  <2>2. ASSUME NEW d \in Drivers, NEW q \in Repos, ThreadStep(d, q) \/ WriteFails(d, q)
        PROVE  jobs'[r] = jobs[r]
    <3>1. pc[d][q] \notin Finished
      BY <1>1, <2>2, ThreadFrame
    <3>2. r # q
      BY <1>1, <3>1 DEF SeqInv, AtWork
    <3> QED BY <1>1, <2>2, <3>2, ThreadWrites
  <2>3. CASE (\E d \in Drivers : Crash(d)) \/ AllStopped \/ UNCHANGED vars
    BY <2>3 DEF Crash, AllStopped, vars, dbVars
  <2> QED BY <1>1, <2>1, <2>2, <2>3 DEF Next
<1>2. Inv /\ SeqInv /\ [Next]_vars
        => [\A r \in Repos : Terminal(r) => jobs'[r] = jobs[r]]_jobs
  BY <1>1
<1> QED BY <1>2, SequentialInvariance, PTL DEF Spec, TerminalRowsFinal

-----------------------------------------------------------------------------
(***************************************************************************)
(* What can be counted of a corpus run: the slots of a pool's container    *)
(* counter, the jobs that faults strand, the rows behind the counters of   *)
(* a completed run, and what a resume finds of the driver before it.       *)
(***************************************************************************)


\* Sets of jobs can be counted.
LEMMA Counted ==
  ASSUME NEW S \in SUBSET Repos
  PROVE  IsFiniteSet(S) /\ Cardinality(S) \in Nat
BY ReposFinite, FS_Subset, FS_CardinalityType

\* A set with one more element.
LEMMA OneMore ==
  ASSUME NEW S \in SUBSET Repos, NEW r \in Repos, r \notin S
  PROVE  Cardinality(S \cup {r}) = Cardinality(S) + 1
BY Counted, FS_AddElement

\* A set with one element less.
LEMMA OneLess ==
  ASSUME NEW S \in SUBSET Repos, NEW r \in S
  PROVE  Cardinality(S \ {r}) = Cardinality(S) - 1
BY Counted, FS_RemoveElement

\* A subset has at most as many elements.
LEMMA Fewer ==
  ASSUME NEW S \in SUBSET Repos, NEW T \in SUBSET S
  PROVE  Cardinality(T) <= Cardinality(S)
BY Counted, FS_Subset

\* The empty set.
LEMMA NoneCounted == Cardinality({}) = 0
BY FS_EmptySet

-----------------------------------------------------------------------------
(***************************************************************************)
(* The slots of a pool.  A slot is free or held by a thread, but for the   *)
(* two leaks: a refused worker gives back what it never took, and a write  *)
(* that fails while a job is marked keeps what it took.                    *)
(***************************************************************************)
Holding(d) == {r \in Repos : pc[d][r] \in {"mark", "insert", "execute"}}
Refused(d) == {r \in Repos : outcome[d][r].errorClass = "CONTAINER_START_ERROR"}
Accounted(d) == slots[d] + Cardinality(Holding(d))

\* The numbers that are added up are integers.
LEMMA AccountedType ==
  ASSUME TypeOK, NEW d \in Drivers
  PROVE  /\ Accounted(d) \in Int /\ slots[d] \in Int
         /\ Cardinality(Holding(d)) \in Nat /\ Cardinality(Refused(d)) \in Nat
<1>1. Holding(d) \in SUBSET Repos /\ Refused(d) \in SUBSET Repos
  BY DEF Holding, Refused
<1> QED BY <1>1, Counted DEF Accounted, TypeOK

\* Threads of one driver leave the counter of another alone.
LEMMA OwnCounter ==
  ASSUME Inv, NEW d \in Drivers, NEW e \in Drivers, e # d, NEW r \in Repos,
         ThreadStep(e, r) \/ WriteFails(e, r)
  PROVE  slots'[d] = slots[d] /\ pc'[d] = pc[d] /\ outcome'[d] = outcome[d]
<1>1. \/ slots' = slots \/ slots' = [slots EXCEPT ![e] = @ - 1]
      \/ slots' = [slots EXCEPT ![e] = @ + 1]
  BY DEF ThreadStep, StartThread, Admit, RefuseSlot, CloseRefused, MarkRunning,
     InsertAttempt, Execute, Terminalize, WriteFails, TakeSlot, ReleaseSlot
<1>2. \E p : pc' = [pc EXCEPT ![e][r] = p]
  <2>1. CASE ThreadStep(e, r)
    BY <2>1 DEF ThreadStep, StartThread, Admit, RefuseSlot, CloseRefused, MarkRunning,
       InsertAttempt, Execute, Terminalize, Step
  <2>2. CASE WriteFails(e, r)
    BY <2>2 DEF WriteFails
  <2> QED BY <2>1, <2>2
<1>3. outcome' = outcome \/ \E o : outcome' = [outcome EXCEPT ![e][r] = o]
  BY DEF ThreadStep, StartThread, Admit, RefuseSlot, CloseRefused, MarkRunning,
     InsertAttempt, Execute, Terminalize, WriteFails
<1> QED BY <1>1, <1>2, <1>3 DEF Inv, TypeOK

\* What a step does to the counter of a driver.
SlotsKept(d)   == Accounted(d)' = Accounted(d) /\ Refused(d)' = Refused(d)
SlotsReset(d)  == Accounted(d)' = MaxActive /\ Refused(d)' = {} /\ busy' = busy
SlotsRefuse(d) ==
  \E r \in Repos : /\ pc[d][r] = "close_refused" /\ busy' = busy
                   /\ Accounted(d)' = Accounted(d) + 1
                   /\ Refused(d)' = Refused(d) \cup {r}
SlotsLost(d)   ==
  Accounted(d)' = Accounted(d) - 1 /\ Refused(d)' = Refused(d) /\ busy' = busy - 1
SlotsBack(d)   ==
  \E r \in Repos : /\ pc[d][r] = "execute" /\ busy' = busy
                   /\ Accounted(d)' = Accounted(d)
                   /\ Refused(d)' \in {Refused(d), Refused(d) \ {r}}
                        \cup IF "CONTAINER_START_ERROR" \in ErrorClasses
                             THEN {Refused(d) \cup {r}} ELSE {}

\* The class of a refusal is one an attempt returns only where it is told to.
LEMMA RefusalClass ==
  ASSUME NEW k, NEW res \in AttemptResults(k), res.errorClass = "CONTAINER_START_ERROR"
  PROVE  "CONTAINER_START_ERROR" \in ErrorClasses
<1>1. ASSUME NEW v, NEW c
      PROVE  Returned(v, c).errorClass = c /\ Closed(v, c).errorClass = c
  BY DEF Returned, Closed
<1>2. \/ res = Closed("ERROR", "INTERNAL_SCHEDULER_ERROR")
      \/ res = Closed("UNSUPPORTED", "")
      \/ \E v \in {"PASS", "FAIL", "UNKNOWN"} : res = Returned(v, "")
      \/ \E c \in ErrorClasses : res = Returned("ERROR", c)
  BY DEF AttemptResults
<1>3. res.errorClass # ""
  OBVIOUS
<1>4. CASE res = Closed("UNSUPPORTED", "")
  BY <1>1, <1>3, <1>4
<1>5. ASSUME NEW v \in {"PASS", "FAIL", "UNKNOWN"}, res = Returned(v, "") PROVE FALSE
  <2>1. Returned(v, "").errorClass = ""
    BY <1>1
  <2> QED BY <1>3, <1>5, <2>1
<1> QED BY ZenonT(40), <1>1, <1>2, <1>4, <1>5

\* A thread moves a slot between the free ones and its own; only a refused one adds one.
LEMMA ThreadSlots ==
  ASSUME Inv, Inv', NEW d \in Drivers, NEW r \in Repos, ThreadStep(d, r)
  PROVE  (SlotsKept(d) /\ busy' = busy) \/ SlotsRefuse(d) \/ SlotsBack(d)
<1> DEFINE H == Holding(d)
<1>0. /\ H \in SUBSET Repos /\ slots[d] \in Int /\ Cardinality(H) \in Nat
      /\ Accounted(d) = slots[d] + Cardinality(H)
      /\ Accounted(d)' = slots'[d] + Cardinality(H')
      /\ busy' = busy
  <2>1. busy' = busy
    BY DEF ThreadStep, StartThread, Admit, RefuseSlot, CloseRefused, MarkRunning,
       InsertAttempt, Execute, Terminalize, faultVars
  <2> QED BY <2>1, AccountedType DEF Inv, Accounted, Holding
<1>1. ASSUME slots' = slots, H' = H, outcome' = outcome PROVE SlotsKept(d) /\ busy' = busy
  BY <1>0, <1>1 DEF SlotsKept, Refused
<1>2. CASE StartThread(d, r) \/ RefuseSlot(d, r) \/ MarkRunning(d, r) \/ Terminalize(d, r)
  <2>1. slots' = slots /\ outcome' = outcome
    BY <1>2 DEF StartThread, RefuseSlot, MarkRunning, Terminalize
  <2>2. H' = H
    BY SMTT(30), <1>2 DEF StartThread, RefuseSlot, MarkRunning, Terminalize, Step, Holding, Inv, TypeOK
  <2> QED BY <1>1, <2>1, <2>2
<1>3. CASE Admit(d, r)
  <2>1. outcome' = outcome /\ r \notin H
    BY <1>3 DEF Admit, Step, Holding
  <2>2. CASE slots[d] > 0
    <3>1. slots'[d] = slots[d] - 1 /\ H' = H \cup {r}
      BY <1>3, <2>2 DEF Admit, Step, TakeSlot, Holding, Inv, TypeOK
    <3>2. Cardinality(H') = Cardinality(H) + 1
      BY <1>0, <2>1, <3>1, OneMore
    <3> QED BY <1>0, <2>1, <3>1, <3>2 DEF SlotsKept, Refused
  <2>3. CASE ~(slots[d] > 0)
    <3>1. slots' = slots /\ H' = H
      BY <1>3, <2>3 DEF Admit, Step, Holding, Inv, TypeOK
    <3> QED BY <1>1, <2>1, <3>1
  <2> QED BY <2>2, <2>3
<1>4. CASE CloseRefused(d, r)
  <2>1. /\ pc[d][r] = "close_refused" /\ slots'[d] = slots[d] + 1 /\ H' = H
        /\ outcome' = [outcome EXCEPT ![d][r] =
                        [verdict |-> "ERROR", errorClass |-> "CONTAINER_START_ERROR"]]
    BY <1>4 DEF CloseRefused, Step, ReleaseSlot, Holding, Inv, TypeOK
  <2>2. Refused(d)' = Refused(d) \cup {r}
    BY <2>1 DEF Refused, Inv, TypeOK
  <2> QED BY <1>0, <2>1, <2>2 DEF SlotsRefuse
<1>5. CASE InsertAttempt(d, r)
  <2>1. outcome' = outcome /\ pc[d][r] = "insert" /\ r \in H
    BY <1>5 DEF InsertAttempt, Holding
  <2>2. CASE Exists(r, tries[d][r])
    <3>1. slots'[d] = slots[d] + 1 /\ H' = H \ {r}
      BY <1>5, <2>2 DEF InsertAttempt, Step, ReleaseSlot, Holding, Inv, TypeOK
    <3>2. Cardinality(H') = Cardinality(H) - 1
      BY <1>0, <2>1, <3>1, OneLess
    <3> QED BY <1>0, <2>1, <3>1, <3>2 DEF SlotsKept, Refused
  <2>3. CASE ~Exists(r, tries[d][r])
    <3>1. slots' = slots /\ H' = H
      BY <1>5, <2>3 DEF InsertAttempt, Step, Holding, Inv, TypeOK
    <3> QED BY <1>1, <2>1, <3>1
  <2> QED BY <2>2, <2>3
<1>6. CASE Execute(d, r)
  <2>1. PICK res \in AttemptResults(Kind[r]), to \in {"admit", "terminalize"} :
          /\ Step(d, r, "execute", to) /\ ReleaseSlot(d)
          /\ outcome' = [outcome EXCEPT ![d][r] =
                          [verdict |-> res.verdict, errorClass |-> res.errorClass]]
    BY <1>6 DEF Execute
  <2>2. r \in H /\ slots'[d] = slots[d] + 1 /\ H' = H \ {r} /\ pc[d][r] = "execute"
    BY <2>1 DEF Step, ReleaseSlot, Holding, Inv, TypeOK
  <2>3. Cardinality(H') = Cardinality(H) - 1
    BY <1>0, <2>2, OneLess
  <2>4. res.errorClass = "CONTAINER_START_ERROR" => "CONTAINER_START_ERROR" \in ErrorClasses
    BY RefusalClass
  <2>5. \A q \in Repos : q # r => outcome'[d][q] = outcome[d][q]
    BY <2>1 DEF Inv, TypeOK
  <2>6. outcome'[d][r].errorClass = res.errorClass
    BY <2>1 DEF Inv, TypeOK
  <2>7. CASE res.errorClass = "CONTAINER_START_ERROR"
    <3>1. Refused(d)' = Refused(d) \cup {r}
      BY <2>5, <2>6, <2>7 DEF Refused
    <3> QED BY <1>0, <2>2, <2>3, <2>4, <2>7, <3>1 DEF SlotsBack
  <2>8. CASE res.errorClass # "CONTAINER_START_ERROR"
    <3>1. Refused(d)' = Refused(d) \ {r}
      BY <2>5, <2>6, <2>8 DEF Refused
    <3> QED BY <1>0, <2>2, <2>3, <3>1 DEF SlotsBack
  <2> QED BY <2>7, <2>8
<1> QED BY <1>2, <1>3, <1>4, <1>5, <1>6 DEF ThreadStep

\* What any step of a run does to the slots of a driver.
LEMMA SlotStep ==
  ASSUME Inv, Inv', [Next]_vars, NEW d \in Drivers
  PROVE  \/ SlotsKept(d) /\ busy' \in {busy, busy - 1}
         \/ SlotsReset(d) \/ SlotsRefuse(d) \/ SlotsLost(d) \/ SlotsBack(d)
<1>0. busy \in Int
  BY DEF Inv, TypeOK
<1>1. ASSUME slots'[d] = slots[d], Holding(d)' = Holding(d), outcome'[d] = outcome[d]
      PROVE  SlotsKept(d)
  BY <1>1 DEF SlotsKept, Accounted, Refused
<1>2. ASSUME NEW e \in Drivers, NEW last, StopIn(e, last), busy' = busy
      PROVE  SlotsKept(d) \/ SlotsReset(d)
  <2>1. CASE e = d
    <3>1. /\ slots'[d] = MaxActive /\ Holding(d)' = {}
          /\ \A r \in Repos : outcome'[d][r] = NoOutcome
      BY <1>2, <2>1 DEF StopIn, Holding, Inv, TypeOK
    <3>2. NoOutcome.errorClass # "CONTAINER_START_ERROR"
      BY DEF NoOutcome
    <3>3. Refused(d)' = {}
      BY <3>1, <3>2 DEF Refused
    <3>4. Accounted(d)' = MaxActive
      BY <3>1, NoneCounted, RunAssumption DEF Accounted
    <3> QED BY <1>2, <3>3, <3>4 DEF SlotsReset
  <2>2. CASE e # d
    BY <1>1, <1>2, <2>2 DEF StopIn, Holding, Inv, TypeOK
  <2> QED BY <2>1, <2>2
<1>3. ASSUME NEW e \in Drivers, Resume(e) \/ MainStep(e)
      PROVE  (SlotsKept(d) /\ busy' = busy) \/ SlotsReset(d)
  <2>0. busy' = busy
    BY <1>3 DEF Resume, MainStep, FindJob, InsertJob, SkipJob, CountJob, SealJobs, Launch,
       ListPending, JoinPool, Recount, CompleteRun, faultVars
  <2>1. CASE JoinPool(e)
    BY <1>2, <2>0, <2>1 DEF JoinPool
  <2>2. CASE ListPending(e)
    <3>1. slots' = slots /\ outcome' = outcome
      BY <2>2 DEF ListPending
    <3>2. Holding(d)' = Holding(d)
      <4>1. CASE e = d
        <5>1. \A r \in Repos : pc[d][r] = "none"
          BY <2>2, <4>1 DEF ListPending, MoveTo, Inv, MainInv
        <5>2. \A r \in Repos : pc'[d][r] \in {"none", "queued"}
          BY <2>2, <4>1 DEF ListPending, Inv, TypeOK
        <5> QED BY <5>1, <5>2 DEF Holding
      <4>2. CASE e # d
        BY <2>2, <4>2 DEF ListPending, Holding, Inv, TypeOK
      <4> QED BY <4>1, <4>2
    <3> QED BY <1>1, <2>0, <3>1, <3>2
  <2>3. CASE ~JoinPool(e) /\ ~ListPending(e)
    <3>1. slots' = slots /\ outcome' = outcome /\ pc' = pc
      BY <1>3, <2>3 DEF Resume, MainStep, FindJob, InsertJob, SkipJob, CountJob, SealJobs,
         Launch, Recount, CompleteRun, threadVars
    <3> QED BY <1>1, <2>0, <3>1 DEF Holding
  <2> QED BY <2>1, <2>2, <2>3
<1>4. ASSUME NEW e \in Drivers, NEW r \in Repos, ThreadStep(e, r)
      PROVE  (SlotsKept(d) /\ busy' = busy) \/ SlotsRefuse(d) \/ SlotsBack(d)
  <2>1. CASE e = d
    BY <1>4, <2>1, ThreadSlots
  <2>2. CASE e # d
    <3>1. busy' = busy
      BY <1>4 DEF ThreadStep, StartThread, Admit, RefuseSlot, CloseRefused, MarkRunning,
         InsertAttempt, Execute, Terminalize, faultVars
    <3> QED BY <1>1, <1>4, <2>2, <3>1, OwnCounter DEF Holding
  <2> QED BY <2>1, <2>2
<1>5. ASSUME NEW e \in Drivers, NEW r \in Repos, WriteFails(e, r)
      PROVE  (SlotsKept(d) /\ busy' = busy - 1) \/ SlotsLost(d)
  <2>1. /\ busy' = busy - 1 /\ outcome' = outcome
        /\ pc' = [pc EXCEPT ![e][r] = "dead"]
    BY <1>5 DEF WriteFails
  <2>2. CASE e # d
    BY <1>1, <1>5, <2>1, <2>2, OwnCounter DEF Holding
  <2>3. CASE e = d
    <3> DEFINE H == Holding(d)
    <3>0. /\ H \in SUBSET Repos /\ slots[d] \in Int /\ Cardinality(H) \in Nat
          /\ Accounted(d) = slots[d] + Cardinality(H)
          /\ Accounted(d)' = slots'[d] + Cardinality(H')
          /\ Refused(d)' = Refused(d)
      BY <2>1, AccountedType DEF Inv, Accounted, Holding, Refused
    <3>1. H' = H \ {r}
      BY <2>1, <2>3 DEF Holding, Inv, TypeOK
    <3>2. CASE pc[d][r] \in {"insert", "execute"}
      <4>1. slots'[d] = slots[d] + 1 /\ r \in H
        BY <1>5, <2>3, <3>2 DEF WriteFails, ReleaseSlot, Holding, Inv, TypeOK
      <4> QED BY <2>1, <3>0, <3>1, <4>1, OneLess DEF SlotsKept
    <3>3. CASE pc[d][r] = "mark"
      <4>1. slots'[d] = slots[d] /\ r \in H
        BY <1>5, <2>3, <3>3 DEF WriteFails, Holding
      <4> QED BY <2>1, <3>0, <3>1, <4>1, OneLess DEF SlotsLost
    <3>4. CASE pc[d][r] \notin {"mark", "insert", "execute"}
      <4>1. slots'[d] = slots[d] /\ H' = H
        BY <1>5, <2>3, <3>1, <3>4 DEF WriteFails, Holding
      <4> QED BY <2>1, <3>0, <4>1 DEF SlotsKept
    <3> QED BY <3>2, <3>3, <3>4
  <2> QED BY <2>2, <2>3
<1>6. ASSUME NEW e \in Drivers, Crash(e) PROVE (SlotsKept(d) /\ busy' = busy) \/ SlotsReset(d)
  <2>1. busy' = busy
    BY <1>6 DEF Crash
  <2> QED BY <1>2, <1>6, <2>1 DEF Crash
<1>7. CASE AllStopped \/ UNCHANGED vars
  BY <1>1, <1>7 DEF AllStopped, vars, threadVars, faultVars, Holding
<1> QED BY <1>3, <1>4, <1>5, <1>6, <1>7 DEF Next

\* A worker that was refused is on its way out.
RefusedIsOver ==
  \A d \in Drivers : \A r \in Refused(d) :
    pc[d][r] \in {"terminalize", "done", "dead"}

Drift(d) == Accounted(d) - MaxActive - Cardinality(Refused(d))

\* A refused thread has nothing left to do but to record its outcome.
LEMMA RefusedIsOverNext ==
  ASSUME "CONTAINER_START_ERROR" \notin ErrorClasses, Inv, RefusedIsOver, [Next]_vars
  PROVE  RefusedIsOver'
<1> SUFFICES ASSUME NEW d \in Drivers, NEW r \in Refused(d)'
             PROVE  pc'[d][r] \in {"terminalize", "done", "dead"}
  BY DEF RefusedIsOver
<1>0. r \in Repos /\ outcome'[d][r].errorClass = "CONTAINER_START_ERROR"
  BY DEF Refused
<1>1. ASSUME outcome'[d][r] = outcome[d][r]
      PROVE  pc[d][r] \in {"terminalize", "done", "dead"} /\ phase[d] = "pool"
  BY <1>0, <1>1 DEF RefusedIsOver, Refused, Inv, MainInv
<1>2. ASSUME NEW e \in Drivers, NEW last, StopIn(e, last)
      PROVE  pc'[d][r] \in {"terminalize", "done", "dead"}
  <2>1. NoOutcome.errorClass # "CONTAINER_START_ERROR"
    BY DEF NoOutcome
  <2>2. e # d
    BY <1>0, <1>2, <2>1 DEF StopIn, Inv, TypeOK
  <2> QED BY <1>1, <1>2, <2>2 DEF StopIn, Inv, TypeOK
<1>3. ASSUME NEW e \in Drivers, Resume(e) \/ MainStep(e)
      PROVE  pc'[d][r] \in {"terminalize", "done", "dead"}
  <2>1. CASE JoinPool(e)
    BY <1>2, <2>1 DEF JoinPool
  <2>2. CASE ~JoinPool(e)
    <3>1. outcome' = outcome
      BY <1>3, <2>2 DEF Resume, MainStep, FindJob, InsertJob, SkipJob, CountJob, SealJobs,
         Launch, ListPending, Recount, CompleteRun, threadVars
    <3>2. pc'[d] = pc[d]
      <4>1. CASE ListPending(e)
        <5>1. e # d
          BY <1>1, <3>1, <4>1 DEF ListPending, MoveTo
        <5> QED BY <4>1, <5>1 DEF ListPending, Inv, TypeOK
      <4> QED BY <1>3, <2>2, <4>1 DEF Resume, MainStep, FindJob, InsertJob, SkipJob,
                 CountJob, SealJobs, Launch, Recount, CompleteRun, threadVars
    <3> QED BY <1>1, <3>1, <3>2
  <2> QED BY <2>1, <2>2
<1>4. ASSUME NEW e \in Drivers, NEW q \in Repos, ThreadStep(e, q)
      PROVE  pc'[d][r] \in {"terminalize", "done", "dead"}
  <2>1. CASE e # d
    BY <1>1, <1>4, <2>1, OwnCounter
  <2>2. CASE e = d /\ q # r
    <3>1. outcome'[d][r] = outcome[d][r] /\ pc'[d][r] = pc[d][r]
      <4>1. outcome' = outcome \/ \E o : outcome' = [outcome EXCEPT ![d][q] = o]
        BY <1>4, <2>2 DEF ThreadStep, StartThread, Admit, RefuseSlot, CloseRefused,
           MarkRunning, InsertAttempt, Execute, Terminalize
      <4>2. outcome'[d][r] = outcome[d][r]
        BY <1>0, <2>2, <4>1 DEF Inv, TypeOK
      <4>3. pc'[d][r] = pc[d][r]
        BY <1>0, <1>4, <2>2, ThreadFrame
      <4> QED BY <4>2, <4>3
    <3> QED BY <1>1, <3>1
  <2>3. CASE e = d /\ q = r
    <3>1. CASE CloseRefused(d, r)
      BY <1>0, <3>1 DEF CloseRefused, Step, Inv, TypeOK
    <3>2. CASE Execute(d, r)
      <4>1. PICK res \in AttemptResults(Kind[r]) :
              outcome' = [outcome EXCEPT ![d][r] =
                           [verdict |-> res.verdict, errorClass |-> res.errorClass]]
        BY <3>2 DEF Execute
      <4>2. outcome'[d][r].errorClass = res.errorClass
        BY <1>0, <4>1 DEF Inv, TypeOK
      <4> QED BY <1>0, <4>2, RefusalClass
    <3>3. CASE Terminalize(d, r)
      BY <1>0, <3>3 DEF Terminalize, Step, Inv, TypeOK
    <3>4. CASE ~CloseRefused(d, r) /\ ~Execute(d, r) /\ ~Terminalize(d, r)
      <4>1. outcome' = outcome
        BY <1>4, <2>3, <3>4 DEF ThreadStep, StartThread, Admit, RefuseSlot, MarkRunning,
           InsertAttempt
      <4>2. pc[d][r] \in {"queued", "admit", "refuse", "mark", "insert"}
        BY <1>4, <2>3, <3>4 DEF ThreadStep, StartThread, Admit, RefuseSlot, MarkRunning,
           InsertAttempt, Step
      <4> QED BY <1>1, <4>1, <4>2
    <3> QED BY <3>1, <3>2, <3>3, <3>4
  <2> QED BY <2>1, <2>2, <2>3
<1>5. ASSUME NEW e \in Drivers, NEW q \in Repos, WriteFails(e, q)
      PROVE  pc'[d][r] \in {"terminalize", "done", "dead"}
  BY <1>0, <1>1, <1>5 DEF WriteFails, Inv, TypeOK
<1>6. ASSUME NEW e \in Drivers, Crash(e)
      PROVE  pc'[d][r] \in {"terminalize", "done", "dead"}
  BY <1>2, <1>6 DEF Crash
<1>7. CASE AllStopped \/ UNCHANGED vars
  BY <1>1, <1>7 DEF AllStopped, vars, threadVars
<1> QED BY <1>3, <1>4, <1>5, <1>6, <1>7 DEF Next

\* Each step keeps the drift of a counter within what failed writes explain.
LEMMA DriftNext ==
  ASSUME "CONTAINER_START_ERROR" \notin ErrorClasses, Inv, Inv', RefusedIsOver,
         [Next]_vars, NEW d \in Drivers, Drift(d) \in -(MaxBusy - busy)..0
  PROVE  Drift(d)' \in -(MaxBusy - busy')..0
<1> DEFINE R == Cardinality(Refused(d))
           A == Accounted(d)
<1>0. /\ A \in Int /\ A' \in Int /\ R \in Nat /\ R' \in Nat /\ MaxActive \in Nat
      /\ busy \in 0..MaxBusy /\ busy' \in 0..MaxBusy /\ MaxBusy \in Nat
      /\ Drift(d) = A - MaxActive - R /\ Drift(d)' = A' - MaxActive - R'
      /\ Refused(d) \in SUBSET Repos
  <2>1. A \in Int /\ A' \in Int /\ R \in Nat /\ R' \in Nat
    <3>1. TypeOK /\ TypeOK'
      BY DEF Inv
    <3>2. A \in Int /\ R \in Nat
      BY <3>1, AccountedType
    <3>3. A' \in Int /\ R' \in Nat
      <4>1. Holding(d)' \in SUBSET Repos /\ Refused(d)' \in SUBSET Repos
        BY DEF Holding, Refused
      <4>2. slots'[d] \in Int
        BY <3>1 DEF TypeOK
      <4>3. Cardinality(Holding(d)') \in Nat /\ Cardinality(Refused(d)') \in Nat
        BY <4>1, Counted
      <4> QED BY <4>2, <4>3 DEF Accounted
    <3> QED BY <3>2, <3>3
  <2>2. /\ busy \in 0..MaxBusy /\ busy' \in 0..MaxBusy
        /\ MaxBusy \in Nat /\ MaxActive \in Nat
    BY RunAssumption DEF Inv, TypeOK
  <2>3. Refused(d) \in SUBSET Repos
    BY DEF Refused
  <2> QED BY <2>1, <2>2, <2>3 DEF Drift
<1>1. CASE SlotsKept(d) /\ busy' \in {busy, busy - 1}
  <2>1. A' = A /\ R' = R
    BY <1>1 DEF SlotsKept
  <2> QED BY <1>0, <1>1, <2>1
<1>2. CASE SlotsReset(d)
  <2>1. A' = MaxActive /\ R' = 0 /\ busy' = busy
    BY <1>2, NoneCounted DEF SlotsReset
  <2> HIDE DEF A, R
  <2> QED BY <1>0, <2>1
<1>3. CASE SlotsRefuse(d)
  <2>1. PICK r \in Repos : /\ pc[d][r] = "close_refused" /\ busy' = busy /\ A' = A + 1
                           /\ Refused(d)' = Refused(d) \cup {r}
    BY <1>3 DEF SlotsRefuse
  <2>2. r \notin Refused(d)
    BY <2>1 DEF RefusedIsOver
  <2>3. R' = R + 1
    BY <1>0, <2>1, <2>2, OneMore
  <2> HIDE DEF A, R
  <2> QED BY <1>0, <2>1, <2>3
<1>4. CASE SlotsLost(d)
  <2>1. A' = A - 1 /\ R' = R /\ busy' = busy - 1
    BY <1>4 DEF SlotsLost
  <2> HIDE DEF A, R
  <2> QED BY <1>0, <2>1
<1>5. CASE SlotsBack(d)
  <2>1. PICK r \in Repos : /\ pc[d][r] = "execute" /\ busy' = busy /\ A' = A
                           /\ Refused(d)' \in {Refused(d), Refused(d) \ {r}}
    BY <1>5 DEF SlotsBack
  <2>2. r \notin Refused(d)
    BY <2>1 DEF RefusedIsOver
  <2>3. Refused(d)' = Refused(d)
    BY <2>1, <2>2
  <2>4. R' = R
    BY <2>3
  <2> HIDE DEF A, R
  <2> QED BY <1>0, <2>1, <2>4
<1> QED BY <1>1, <1>2, <1>3, <1>4, <1>5, SlotStep

\* The counter of a pool drifts no further than its refused workers and the failed
\* writes explain, for any number of drivers, workers and slots, where no attempt
\* returns the class of a refusal.
THEOREM SlotDrift ==
  ASSUME "CONTAINER_START_ERROR" \notin ErrorClasses
  PROVE  Spec => []SlotDriftBounded
<1> DEFINE Drifts == \A d \in Drivers : Drift(d) \in -(MaxBusy - busy)..0
<1>1. Init => RefusedIsOver /\ Drifts
  <2> SUFFICES ASSUME Init, NEW d \in Drivers
               PROVE  Refused(d) = {} /\ Drift(d) = 0 /\ busy = MaxBusy
    BY RunAssumption DEF RefusedIsOver
  <2>1. NoOutcome.errorClass # "CONTAINER_START_ERROR"
    BY DEF NoOutcome
  <2>2. Refused(d) = {} /\ Holding(d) = {} /\ slots[d] = MaxActive /\ busy = MaxBusy
    BY <2>1 DEF Init, Refused, Holding
  <2> QED BY <2>2, NoneCounted, RunAssumption DEF Drift, Accounted
<1>2. Inv /\ Inv' /\ RefusedIsOver /\ Drifts /\ [Next]_vars => RefusedIsOver' /\ Drifts'
  BY RefusedIsOverNext, DriftNext
<1>3. Inv /\ Drifts => SlotDriftBounded
  <2> SUFFICES ASSUME Inv, NEW d \in Drivers, Drift(d) \in -(MaxBusy - busy)..0
               PROVE  slots[d] + Cardinality(Holding(d)) - MaxActive
                        - Cardinality(Refused(d)) \in -(MaxBusy - busy)..0
    BY Zenon DEF Refused, Holding, SlotDriftBounded
  <2>1. /\ slots[d] \in Int /\ Cardinality(Holding(d)) \in Int
        /\ Cardinality(Refused(d)) \in Int /\ MaxActive \in Int
    BY AccountedType, RunAssumption DEF Inv
  <2> QED BY <2>1 DEF Drift, Accounted
<1> HIDE DEF Drifts
<1> QED BY <1>1, <1>2, <1>3, Invariance, PTL DEF Spec

-----------------------------------------------------------------------------
(***************************************************************************)
(* One driver at a time: who may take the next step, and what it may do to *)
(* the row of a job.                                                       *)
(***************************************************************************)

\* While a driver is active, it takes every step.
LEMMA OnlyOne ==
  ASSUME ~Concurrent, Inv, Alone, [Next]_vars, NEW d \in Drivers, Active(d)
  PROVE  \/ MainStep(d) \/ Crash(d)
         \/ \E r \in Repos : ThreadStep(d, r) \/ WriteFails(d, r)
         \/ UNCHANGED vars
<1>1. ASSUME NEW e \in Drivers, Resume(e) PROVE FALSE
  BY <1>1 DEF Resume, Active
<1>2. ASSUME NEW e \in Drivers, MainStep(e) \/ Crash(e) PROVE e = d
  <2>1. Active(e)
    BY <1>2, MainFrame DEF Crash, Active
  <2> QED BY <2>1 DEF Alone
<1>3. ASSUME NEW e \in Drivers, NEW r \in Repos, ThreadStep(e, r) \/ WriteFails(e, r)
      PROVE  e = d
  <2>1. pc[e][r] # "none"
    BY <1>3, ThreadFrame DEF Finished
  <2>2. Active(e)
    BY <2>1, InPool DEF Active, Stopped
  <2> QED BY <2>2 DEF Alone
<1>4. ~AllStopped
  BY DEF AllStopped, Active
<1> QED BY <1>1, <1>2, <1>3, <1>4 DEF Next

\* While none is, somebody may resume.
LEMMA Nobody ==
  ASSUME Inv, [Next]_vars, \A d \in Drivers : ~Active(d)
  PROVE  (\E d \in Drivers : Resume(d)) \/ UNCHANGED vars
<1>1. ASSUME NEW e \in Drivers, MainStep(e) \/ Crash(e) PROVE FALSE
  BY <1>1, MainFrame DEF Crash, Active
<1>2. ASSUME NEW e \in Drivers, NEW r \in Repos, ThreadStep(e, r) \/ WriteFails(e, r)
      PROVE  FALSE
  <2>1. pc[e][r] # "none"
    BY <1>2, ThreadFrame DEF Finished
  <2> QED BY <2>1, InPool DEF Active, Stopped
<1> QED BY <1>1, <1>2 DEF Next, AllStopped

\* What a thread does to its job, and where it goes.
Keeps(d, r)    == jobs'[r] = jobs[r] /\ pc'[d][r] \notin {"none", "queued", "done"}
Marks(d, r)    == /\ MarkRunning(d, r) /\ pc'[d][r] = "insert"
                  /\ jobs'[r].status = "running" /\ jobs'[r].verdict = jobs[r].verdict
Decides(d, r)  == /\ Terminalize(d, r) /\ pc'[d][r] = "done"
                  /\ jobs'[r].status = "completed"

\* A step of a thread keeps the row of its job, marks it, or decides it.
LEMMA ThreadRow ==
  ASSUME Inv, NEW d \in Drivers, NEW r \in Repos, ThreadStep(d, r) \/ WriteFails(d, r)
  PROVE  /\ \A q \in Repos : q # r => jobs'[q] = jobs[q]
         /\ Keeps(d, r) \/ Marks(d, r) \/ Decides(d, r)
<1>0. jobs[r] \in JobRow
  BY DEF Inv, TypeOK
<1>1. CASE MarkRunning(d, r)
  <2>1. pc'[d][r] = "insert"
    BY <1>1 DEF MarkRunning, Step, Inv, TypeOK
  <2>2. jobs' = [jobs EXCEPT ![r].status = "running", ![r].attemptCount = @ + 1]
    BY <1>1 DEF MarkRunning
  <2>3. /\ jobs'[r].status = "running" /\ jobs'[r].verdict = jobs[r].verdict
        /\ \A q \in Repos : q # r => jobs'[q] = jobs[q]
    BY <1>0, <2>2 DEF JobRow, Inv, TypeOK
  <2> QED BY <1>1, <2>1, <2>3 DEF Marks
<1>2. CASE Terminalize(d, r)
  <2>1. jobs[r].verdict = Null /\ \A q \in Repos : q # r => jobs'[q] = jobs[q]
    BY <1>2, TerminalizeInv
  <2>2. jobs[r].status = "completed" \/ jobs[r].status # "completed"
    OBVIOUS
  <2>3. MayDecide(r, outcome[d][r].verdict)
    BY <2>1 DEF MayDecide
  <2> DEFINE mine == outcome[d][r]
             missing == IF mine.verdict = "UNSUPPORTED"
                        THEN "compatible_execution_recipe" ELSE Null
  <2>4. /\ pc' = [pc EXCEPT ![d][r] = "done"]
        /\ jobs' = [jobs EXCEPT ![r].status = "completed", ![r].verdict = mine.verdict,
                                ![r].errorClass = mine.errorClass, ![r].missing = missing]
    BY <1>2, <2>3 DEF Terminalize, Step
  <2> HIDE DEF mine, missing
  <2>5. pc'[d][r] = "done" /\ jobs'[r].status = "completed"
    BY <1>0, <2>4 DEF JobRow, Inv, TypeOK
  <2> QED BY <1>2, <2>1, <2>5 DEF Decides
<1>3. CASE ~MarkRunning(d, r) /\ ~Terminalize(d, r)
  <2>1. jobs' = jobs
    BY <1>3 DEF ThreadStep, StartThread, Admit, RefuseSlot, CloseRefused, InsertAttempt,
       Execute, WriteFails, dbVars
  <2>2. pc'[d][r] \notin {"none", "queued", "done"}
    <3>1. CASE WriteFails(d, r)
      BY <3>1 DEF WriteFails, Inv, TypeOK
    <3>2. CASE ThreadStep(d, r)
      BY <1>3, <3>2 DEF ThreadStep, StartThread, Admit, RefuseSlot, CloseRefused,
         InsertAttempt, Execute, Step, Inv, TypeOK
    <3> QED BY <3>1, <3>2
  <2> QED BY <2>1, <2>2 DEF Keeps
<1> QED BY <1>1, <1>2, <1>3

\* No row of a job is deleted.
LEMMA RowsStay ==
  ASSUME Inv, [Next]_vars, NEW r \in Repos, JobExists(r) PROVE JobExists(r)'
<1>1. ASSUME NEW d \in Drivers, Resume(d) \/ MainStep(d) PROVE JobExists(r)'
  BY <1>1, MainStepQuiet DEF SameVerdict
<1>2. ASSUME NEW d \in Drivers, NEW q \in Repos, ThreadStep(d, q) \/ WriteFails(d, q)
      PROVE  JobExists(r)'
  BY <1>2, ThreadRow DEF Keeps, Marks, Decides, JobExists
<1>3. CASE (\E d \in Drivers : Crash(d)) \/ AllStopped \/ UNCHANGED vars
  BY <1>3 DEF Crash, AllStopped, vars, dbVars, JobExists
<1> QED BY <1>1, <1>2, <1>3 DEF Next

-----------------------------------------------------------------------------
(***************************************************************************)
(* One driver at a time: from the manifest to the completion.              *)
(***************************************************************************)

\* A driver that builds the jobs has them up to its cursor, and all when it goes on.
Built(d) ==
  /\ phase[d] = "idle" => cursor[d] = 1
  /\ phase[d] \in {"find", "insert", "skip", "count"} =>
       \A q \in Repos : q < cursor[d] => JobExists(q)
  /\ phase[d] = "insert" => ~JobExists(cursor[d])
  /\ phase[d] \in {"skip", "count"} => JobExists(cursor[d])
  /\ phase[d] \in {"launch", "list", "pool", "recount", "complete"} =>
       totalJobs = RepoCount /\ \A q \in Repos : JobExists(q)

\* It drives every pending job, and recounts them when none is left.
Driven(d) ==
  /\ \A r \in Repos :
       /\ pc[d][r] = "queued" => jobs[r].status = "pending"
       /\ phase[d] = "pool" /\ jobs[r].status = "pending" => pc[d][r] \notin {"none", "done"}
       /\ phase[d] \in {"recount", "complete"} => jobs[r].status # "pending"
  /\ phase[d] = "complete" => counters = Tally

\* A completed run has nobody at work, and nothing is pending.
RunOver ==
  runStatus = "completed" =>
    /\ \A d \in Drivers : ~Active(d)
    /\ totalJobs = RepoCount /\ counters = Tally
    /\ \A r \in Repos : jobs[r].status \notin {"absent", "pending"}

Decided == \A r \in Repos : jobs[r].verdict # Null => jobs[r].status = "completed"

ReportInv == (\A d \in Drivers : Built(d) /\ Driven(d)) /\ RunOver /\ Decided

\* No step undoes the building of the jobs.
LEMMA BuiltNext ==
  ASSUME ~Concurrent, Inv, Inv', SeqInv, [Next]_vars, NEW d \in Drivers, Built(d)
  PROVE  Built(d)'
<1>1. CASE phase[d] \in Stopped
  BY <1>1, StoppedStays DEF Built, Stopped
<1>2. CASE phase[d] = "idle"
  <2>1. phase'[d] \in {"idle", "find", "ended"} /\ cursor'[d] = cursor[d]
    <3>1. ASSUME NEW e \in Drivers, Resume(e)
          PROVE  phase'[d] \in {"idle", "find", "ended"} /\ cursor'[d] = cursor[d]
      BY <1>2, <3>1 DEF Resume, Inv, TypeOK
    <3>2. ASSUME NEW e \in Drivers, MainStep(e)
          PROVE  phase'[d] = "idle" /\ cursor'[d] = cursor[d]
      BY <1>2, <3>2, MainFrame DEF Active
    <3>3. ASSUME NEW e \in Drivers, Crash(e)
          PROVE  phase'[d] = "idle" /\ cursor'[d] = cursor[d]
      BY <1>2, <3>3 DEF Crash, StopIn, Inv, TypeOK
    <3>4. ASSUME NEW e \in Drivers, NEW r \in Repos, ThreadStep(e, r) \/ WriteFails(e, r)
          PROVE  phase'[d] = "idle" /\ cursor'[d] = cursor[d]
      BY <1>2, <3>4, ThreadFrame
    <3> QED BY <1>2, <3>1, <3>2, <3>3, <3>4 DEF Next, AllStopped, vars
  <2>2. cursor'[d] = 1
    BY <1>2, <2>1 DEF Built
  <2> QED BY <2>1, <2>2 DEF Built, Repos
<1>3. CASE Active(d)
  <2>1. CASE UNCHANGED vars
    BY <2>1 DEF vars, dbVars, Built, JobExists
  <2>2. CASE Crash(d)
    BY <2>2 DEF Crash, StopIn, Built, Inv, TypeOK
  <2>3. ASSUME NEW r \in Repos, ThreadStep(d, r) \/ WriteFails(d, r) PROVE Built(d)'
    <3>1. pc[d][r] # "none"
      BY <2>3, ThreadFrame DEF Finished
    <3>2. phase'[d] = "pool" /\ phase[d] = "pool"
      BY <2>3, <3>1, InPool, ThreadFrame
    <3>3. totalJobs' = totalJobs
      BY <2>3 DEF ThreadStep, StartThread, Admit, RefuseSlot, CloseRefused, MarkRunning,
         InsertAttempt, Execute, Terminalize, WriteFails, dbVars
    <3> QED BY <3>2, <3>3, RowsStay DEF Built
  <2>4. CASE MainStep(d)
    <3>0. /\ \A q \in Repos : JobExists(q) => JobExists(q)'
          /\ RepoCount \in Nat /\ cursor[d] \in 1..RepoCount + 1
          /\ d \in DOMAIN phase /\ d \in DOMAIN cursor
      BY RowsStay, RunAssumption DEF Inv, TypeOK
    <3>1. CASE FindJob(d)
      <4>1. /\ phase[d] = "find" /\ cursor[d] \in Repos
            /\ \/ /\ ~JobExists(cursor[d]) /\ phase'[d] = "insert" /\ cursor'[d] = cursor[d]
               \/ /\ JobExists(cursor[d]) /\ phase'[d] = "find"
                  /\ cursor'[d] = cursor[d] + 1
            /\ jobs' = jobs
        BY <3>0, <3>1 DEF FindJob, dbVars
      <4> QED BY <3>0, <4>1 DEF Built, JobExists, Repos
    <3>2. CASE InsertJob(d)
      <4>1. /\ phase[d] = "insert" /\ cursor[d] \in Repos /\ ~JobExists(cursor[d])
            /\ \/ phase'[d] \in {"count", "skip"} /\ cursor'[d] = cursor[d]
               \/ phase'[d] = "find" /\ cursor'[d] = cursor[d] + 1
            /\ jobs' = [jobs EXCEPT ![cursor[d]] = NewJob(Kind[cursor[d]])]
        BY <3>0, <3>2 DEF InsertJob, Built, JobExists, Inv, MainInv
      <4>2. NewJob(Kind[cursor[d]]).status # "absent"
        BY DEF NewJob
      <4>3. jobs'[cursor[d]].status # "absent"
        <5>1. PICK c \in Repos :
                /\ c = cursor[d]
                /\ \E row : /\ row.status # "absent"
                            /\ jobs' = [jobs EXCEPT ![c] = row]
          BY <4>1, <4>2
        <5>2. jobs'[c].status # "absent"
          BY <5>1 DEF Inv, TypeOK
        <5> QED BY <5>1, <5>2
      <4>4. \A q \in Repos : q <= cursor[d] => jobs'[q].status # "absent"
        BY <3>0, <4>1, <4>3 DEF Built, JobExists, Repos
      <4> QED BY <3>0, <4>1, <4>3, <4>4 DEF Built, JobExists, Repos
    <3>3. CASE SkipJob(d)
      BY <3>0, <3>3 DEF SkipJob, MoveTo, Built, Inv, MainInv
    <3>4. CASE CountJob(d)
      <4>1. /\ phase[d] = "count" /\ phase'[d] = "find" /\ cursor'[d] = cursor[d] + 1
        BY <3>0, <3>4 DEF CountJob, MoveTo
      <4> QED BY <3>0, <4>1 DEF Built, Repos
    <3>5. CASE SealJobs(d)
      <4>1. /\ phase[d] = "find" /\ phase'[d] = "launch" /\ cursor[d] = RepoCount + 1
            /\ totalJobs' = RepoCount
        BY <3>0, <3>5 DEF SealJobs, MoveTo
      <4> QED BY <3>0, <4>1 DEF Built, Repos
    <3>6. CASE Launch(d) \/ ListPending(d) \/ JoinPool(d) \/ Recount(d) \/ CompleteRun(d)
      <4>1. /\ phase[d] \in {"launch", "list", "pool", "recount", "complete"}
            /\ phase'[d] \in {"list", "pool", "failed", "recount", "complete", "ended"}
            /\ totalJobs' = totalJobs
        BY <3>0, <3>6 DEF Launch, ListPending, JoinPool, StopIn, Recount, CompleteRun,
           MoveTo, dbVars
      <4> QED BY <3>0, <4>1 DEF Built
    <3> QED BY <2>4, <3>1, <3>2, <3>3, <3>4, <3>5, <3>6 DEF MainStep
  <2> QED BY <1>3, <2>1, <2>2, <2>3, <2>4, OnlyOne DEF SeqInv
<1> QED BY <1>1, <1>2, <1>3 DEF Active

\* A recount of rows that did not change.
LEMMA TallyStays == ASSUME jobs' = jobs PROVE Tally' = Tally
BY DEF Tally

\* A verdict stays with a completed row.
LEMMA DecidedNext ==
  ASSUME ~Concurrent, Inv, SeqInv, Decided, [Next]_vars PROVE Decided'
<1> SUFFICES ASSUME NEW r \in Repos, jobs'[r].verdict # Null
             PROVE  jobs'[r].status = "completed"
  BY DEF Decided
<1>1. ASSUME NEW d \in Drivers, Resume(d) \/ MainStep(d)
      PROVE  jobs'[r].status = "completed"
  <2>1. jobs[r].verdict # Null
    BY <1>1, MainStepQuiet DEF SameVerdict
  <2> QED BY <1>1, <2>1, MainWrites DEF SeqInv, Decided
<1>2. ASSUME NEW d \in Drivers, NEW q \in Repos, ThreadStep(d, q) \/ WriteFails(d, q)
      PROVE  jobs'[r].status = "completed"
  <2>1. CASE q # r
    BY <1>2, <2>1, ThreadRow DEF Decided
  <2>2. CASE q = r
    <3>1. ~Terminal(r)
      BY <1>2, <2>2, ThreadFrame DEF SeqInv, AtWork
    <3>2. jobs[r].verdict = Null
      BY <3>1 DEF Decided, Terminal
    <3> QED BY <1>2, <2>2, <3>2, ThreadRow DEF Keeps, Marks, Decides
  <2> QED BY <2>1, <2>2
<1>3. CASE (\E d \in Drivers : Crash(d)) \/ AllStopped \/ UNCHANGED vars
  BY <1>3 DEF Crash, AllStopped, vars, dbVars, Decided
<1> QED BY <1>1, <1>2, <1>3 DEF Next

\* No pending job is dropped by the driver that drives it.
LEMMA DrivenNext ==
  ASSUME ~Concurrent, Inv, Inv', SeqInv, [Next]_vars, NEW d \in Drivers,
         Built(d), Driven(d)
  PROVE  Driven(d)'
<1>0. TypeOK /\ TypeOK' /\ MainInv /\ MainInv'
  BY DEF Inv
<1>1. ASSUME phase'[d] \notin {"pool", "recount", "complete"} PROVE Driven(d)'
  BY <1>0, <1>1 DEF MainInv, Driven
<1>2. CASE ~Active(d)
  <2>1. phase'[d] \in Stopped \cup {"idle", "find"}
    <3>1. CASE phase[d] \in Stopped
      BY <3>1, StoppedStays
    <3>2. CASE phase[d] = "idle"
      <4>1. ASSUME NEW e \in Drivers, Resume(e)
            PROVE  phase'[d] \in Stopped \cup {"idle", "find"}
        BY <3>2, <4>1 DEF Resume, Stopped, Inv, TypeOK
      <4>2. ASSUME NEW e \in Drivers, MainStep(e) PROVE phase'[d] = "idle"
        BY <3>2, <4>2, MainFrame DEF Active
      <4>3. ASSUME NEW e \in Drivers, Crash(e) PROVE phase'[d] = "idle"
        BY <3>2, <4>3 DEF Crash, StopIn, Inv, TypeOK
      <4>4. ASSUME NEW e \in Drivers, NEW r \in Repos, ThreadStep(e, r) \/ WriteFails(e, r)
            PROVE  phase'[d] = "idle"
        BY <3>2, <4>4, ThreadFrame
      <4> QED BY <3>2, <4>1, <4>2, <4>3, <4>4 DEF Next, AllStopped, vars
    <3> QED BY <1>2, <3>1, <3>2 DEF Active
  <2> QED BY <1>1, <2>1 DEF Stopped
<1>3. CASE Active(d)
  <2>1. CASE UNCHANGED vars
    BY <2>1, TallyStays DEF vars, dbVars, threadVars, Driven
  <2>2. CASE Crash(d)
    <3>1. phase'[d] = "crashed"
      BY <2>2 DEF Crash, StopIn, Inv, TypeOK
    <3> QED BY <1>1, <3>1
  <2>3. ASSUME NEW r \in Repos, ThreadStep(d, r) \/ WriteFails(d, r) PROVE Driven(d)'
    <3>1. phase[d] = "pool" /\ phase'[d] = "pool"
      <4>1. pc[d][r] # "none"
        BY <2>3, ThreadFrame DEF Finished
      <4> QED BY <2>3, <4>1, InPool, ThreadFrame
    <3>2. \A q \in Repos : q # r => jobs'[q] = jobs[q] /\ pc'[d][q] = pc[d][q]
      BY <2>3, ThreadFrame, ThreadRow
    <3>3. /\ pc'[d][r] # "queued"
          /\ jobs'[r].status = "pending" => pc'[d][r] \notin {"none", "done"}
      BY <2>3, ThreadRow DEF Keeps, Marks, Decides
    <3> QED BY <3>1, <3>2, <3>3 DEF Driven
  <2>4. CASE ListPending(d)
    <3>1. /\ phase'[d] = "pool" /\ jobs' = jobs
          /\ \A r \in Repos : pc'[d][r] = IF Drivable(r) THEN "queued" ELSE "none"
      BY <1>0, <2>4 DEF ListPending, MoveTo, dbVars, TypeOK
    <3> QED BY <3>1 DEF Driven, Drivable
  <2>5. CASE JoinPool(d)
    <3>1. CASE \E r \in Repos : pc[d][r] = "dead"
      <4>1. phase'[d] = "failed"
        BY <1>0, <2>5, <3>1 DEF JoinPool, StopIn, TypeOK
      <4> QED BY <1>1, <4>1
    <3>2. CASE ~ \E r \in Repos : pc[d][r] = "dead"
      <4>1. /\ phase[d] = "pool" /\ phase'[d] = "recount" /\ jobs' = jobs
            /\ \A r \in Repos : pc[d][r] \in {"none", "done"}
        BY <1>0, <2>5, <3>2 DEF JoinPool, StopIn, Finished, dbVars, TypeOK
      <4>2. \A r \in Repos : pc'[d][r] = "none"
        BY <1>0, <4>1 DEF MainInv
      <4> QED BY <4>1, <4>2 DEF Driven
    <3> QED BY <3>1, <3>2
  <2>6. CASE Recount(d)
    <3>1. /\ phase[d] = "recount" /\ phase'[d] = "complete" /\ jobs' = jobs
          /\ counters' = Tally /\ pc' = pc
      BY <1>0, <2>6 DEF Recount, MoveTo, threadVars, TypeOK
    <3> QED BY <3>1, TallyStays DEF Driven
  <2>7. CASE MainStep(d) /\ ~ListPending(d) /\ ~JoinPool(d) /\ ~Recount(d)
    <3>1. phase'[d] \notin {"pool", "recount", "complete"}
      BY <1>0, <2>7 DEF MainStep, FindJob, InsertJob, SkipJob, CountJob, SealJobs, Launch,
         CompleteRun, MoveTo, TypeOK
    <3> QED BY <1>1, <3>1
  <2> QED BY <1>3, <2>1, <2>2, <2>3, <2>4, <2>5, <2>6, <2>7, OnlyOne DEF SeqInv
<1> QED BY <1>2, <1>3

\* A completed run stays as its driver left it: nobody resumes it.
LEMMA RunOverNext ==
  ASSUME ~Concurrent, Inv, SeqInv, RunOver, [Next]_vars,
         \A d \in Drivers : Built(d) /\ Driven(d)
  PROVE  RunOver'
<1>1. CASE \A d \in Drivers : ~Active(d)
  <2>1. ASSUME runStatus' = "completed"
        PROVE  /\ \A d \in Drivers : ~Active(d)'
               /\ totalJobs' = RepoCount /\ counters' = Tally'
               /\ \A r \in Repos : jobs'[r].status \notin {"absent", "pending"}
    <3>1. runStatus' = runStatus /\ UNCHANGED <<totalJobs, counters, jobs>>
      BY <1>1, Nobody DEF Resume, vars, dbVars
    <3>2. ASSUME NEW d \in Drivers PROVE ~Active(d)'
      <4>1. phase'[d] \in {phase[d], "ended"}
        BY <1>1, <2>1, <3>1, Nobody DEF Resume, vars, Inv, TypeOK
      <4> QED BY <1>1, <4>1 DEF Active, Stopped
    <3> QED BY <2>1, <3>1, <3>2, TallyStays DEF RunOver
  <2> QED BY <2>1 DEF RunOver
<1>2. ASSUME NEW d \in Drivers, Active(d) PROVE RunOver'
  <2>0. runStatus # "completed"
    BY <1>2 DEF RunOver
  <2>1. CASE CompleteRun(d)
    <3>1. /\ phase[d] = "complete" /\ phase' = [phase EXCEPT ![d] = "ended"]
          /\ UNCHANGED <<totalJobs, counters, jobs>>
      BY <2>1 DEF CompleteRun, MoveTo
    <3>2. /\ totalJobs = RepoCount /\ counters = Tally
          /\ \A r \in Repos : jobs[r].status \notin {"absent", "pending"}
      BY <3>1 DEF Built, Driven, JobExists
    <3>3. ASSUME NEW e \in Drivers PROVE ~Active(e)'
      <4>1. e # d => ~Active(e)
        BY <1>2 DEF SeqInv, Alone
      <4>2. phase'[e] = IF e = d THEN "ended" ELSE phase[e]
        BY <3>1 DEF Inv, TypeOK
      <4> QED BY <4>1, <4>2 DEF Active, Stopped
    <3> QED BY <3>1, <3>2, <3>3, TallyStays DEF RunOver
  <2>2. CASE ~CompleteRun(d)
    <3>1. runStatus' # "completed"
      <4>1. CASE MainStep(d)
        BY <2>0, <2>2, <4>1 DEF MainStep, FindJob, InsertJob, SkipJob, CountJob, SealJobs,
           Launch, ListPending, JoinPool, Recount, dbVars
      <4>2. CASE Crash(d) \/ UNCHANGED vars
        BY <2>0, <4>2 DEF Crash, vars, dbVars
      <4>3. ASSUME NEW r \in Repos, ThreadStep(d, r) \/ WriteFails(d, r)
            PROVE  runStatus' # "completed"
        BY <2>0, <4>3 DEF ThreadStep, StartThread, Admit, RefuseSlot, CloseRefused,
           MarkRunning, InsertAttempt, Execute, Terminalize, WriteFails, dbVars
      <4> QED BY <1>2, <4>1, <4>2, <4>3, OnlyOne DEF SeqInv
    <3> QED BY <3>1 DEF RunOver
  <2> QED BY <2>1, <2>2
<1> QED BY <1>1, <1>2

\* At first no run reports anything.
LEMMA ReportInit == Init => ReportInv
<1> SUFFICES ASSUME Init PROVE ReportInv OBVIOUS
<1>1. \A d \in Drivers : phase[d] \in {"idle", "find"} /\ cursor[d] = 1
  BY DEF Init
<1>2. \A r \in Repos : jobs[r].verdict = Null /\ \A d \in Drivers : pc[d][r] = "none"
  BY DEF Init
<1>3. runStatus # "completed"
  BY DEF Init
<1> QED BY <1>1, <1>2, <1>3 DEF ReportInv, Built, Driven, RunOver, Decided, Repos

\* What is built, driven and recounted stays so until the run completes.
LEMMA ReportNext ==
  ASSUME ~Concurrent, Inv, Inv', SeqInv, ReportInv, [Next]_vars PROVE ReportInv'
BY BuiltNext, DrivenNext, RunOverNext, DecidedNext DEF ReportInv

-----------------------------------------------------------------------------
(***************************************************************************)
(* The counters of a completed run.                                        *)
(***************************************************************************)
In(b) == {r \in Repos : InBucket(jobs[r], b)}

\* The rows of a bucket, by verdict and status.
LEMMA BucketIs ==
  ASSUME NEW job
  PROVE  /\ InBucket(job, "COMPLETED") <=>
              job.status \in {"completed", "skipped_unsupported_scenario"}
         /\ InBucket(job, "SKIPPED") <=> job.status = "skipped_unsupported_scenario"
         /\ InBucket(job, "ERROR") <=> \/ job.verdict = "ERROR"
                                       \/ job.verdict = Null /\ job.status = "completed"
         /\ \A b \in {"PASS", "FAIL", "UNKNOWN", "UNSUPPORTED"} :
              InBucket(job, b) <=> job.verdict = b
BY DEF InBucket

\* The outcomes of the jobs that are over are told apart by the six buckets.
LEMMA SixBuckets ==
  ASSUME TypeOK, Decided
  PROVE  /\ In("COMPLETED") = In("PASS") \cup In("FAIL") \cup In("UNKNOWN")
                                \cup In("UNSUPPORTED") \cup In("ERROR") \cup In("SKIPPED")
         /\ In("PASS") \cap In("FAIL") = {}
         /\ (In("PASS") \cup In("FAIL")) \cap In("UNKNOWN") = {}
         /\ (In("PASS") \cup In("FAIL") \cup In("UNKNOWN")) \cap In("UNSUPPORTED") = {}
         /\ (In("PASS") \cup In("FAIL") \cup In("UNKNOWN") \cup In("UNSUPPORTED"))
              \cap In("ERROR") = {}
         /\ (In("PASS") \cup In("FAIL") \cup In("UNKNOWN") \cup In("UNSUPPORTED")
               \cup In("ERROR")) \cap In("SKIPPED") = {}
<1>1. \A r \in Repos : jobs[r].verdict \in Verdicts \cup {Null}
  BY DEF TypeOK, JobRow
<1>2. \A r \in Repos : jobs[r].verdict # Null => jobs[r].status = "completed"
  BY DEF Decided
<1>3. \A r \in Repos, b \in Buckets : r \in In(b) <=> InBucket(jobs[r], b)
  BY DEF In
<1>4. \A r \in Repos :
        /\ r \in In("COMPLETED") <=>
             jobs[r].status \in {"completed", "skipped_unsupported_scenario"}
        /\ r \in In("SKIPPED") <=> jobs[r].status = "skipped_unsupported_scenario"
        /\ r \in In("ERROR") <=> \/ jobs[r].verdict = "ERROR"
                                 \/ jobs[r].verdict = Null /\ jobs[r].status = "completed"
        /\ \A b \in {"PASS", "FAIL", "UNKNOWN", "UNSUPPORTED"} :
             r \in In(b) <=> jobs[r].verdict = b
  BY <1>3, BucketIs DEF Buckets, Verdicts
<1>5. \A b : In(b) \subseteq Repos
  BY DEF In
<1>6. \A r \in Repos :
        /\ r \in In("COMPLETED") <=>
             \/ r \in In("PASS") \/ r \in In("FAIL") \/ r \in In("UNKNOWN")
             \/ r \in In("UNSUPPORTED") \/ r \in In("ERROR") \/ r \in In("SKIPPED")
  BY <1>1, <1>2, <1>4 DEF Verdicts, Null
<1> QED BY <1>1, <1>2, <1>4, <1>5, <1>6 DEF Null

\* Two sets without a common element are counted separately.
LEMMA Disjoint ==
  ASSUME NEW S \in SUBSET Repos, NEW T \in SUBSET Repos, S \cap T = {}
  PROVE  Cardinality(S \cup T) = Cardinality(S) + Cardinality(T)
BY Counted, NoneCounted, FS_Union

\* A recount of the six buckets adds up to the completed jobs.
LEMMA TallyAdds ==
  ASSUME TypeOK, Decided
  PROVE  Tally["COMPLETED"] = Tally["PASS"] + Tally["FAIL"] + Tally["UNKNOWN"]
           + Tally["UNSUPPORTED"] + Tally["ERROR"] + Tally["SKIPPED"]
<1>1. \A b \in Buckets : Tally[b] = Cardinality(In(b)) /\ In(b) \in SUBSET Repos
  BY DEF Tally, In
<1>2. \A b \in Buckets : Cardinality(In(b)) \in Nat
  BY <1>1, Counted
<1> DEFINE A == In("PASS") \cup In("FAIL")
           B == A \cup In("UNKNOWN")
           C == B \cup In("UNSUPPORTED")
           D == C \cup In("ERROR")
<1>3. {"COMPLETED", "PASS", "FAIL", "UNKNOWN", "UNSUPPORTED", "ERROR", "SKIPPED"} \subseteq Buckets
  BY DEF Buckets, Verdicts
<1>4. Cardinality(A) = Cardinality(In("PASS")) + Cardinality(In("FAIL"))
  BY <1>1, <1>3, SixBuckets, Disjoint
<1>5. Cardinality(B) = Cardinality(A) + Cardinality(In("UNKNOWN"))
  BY <1>1, <1>3, SixBuckets, Disjoint
<1>6. Cardinality(C) = Cardinality(B) + Cardinality(In("UNSUPPORTED"))
  BY <1>1, <1>3, SixBuckets, Disjoint
<1>7. Cardinality(D) = Cardinality(C) + Cardinality(In("ERROR"))
  BY <1>1, <1>3, SixBuckets, Disjoint
<1>8. Cardinality(In("COMPLETED")) = Cardinality(D) + Cardinality(In("SKIPPED"))
  BY <1>1, <1>3, SixBuckets, Disjoint
<1> HIDE DEF A, B, C, D
<1> QED BY <1>1, <1>2, <1>3, <1>4, <1>5, <1>6, <1>7, <1>8

\* The counters of a completed run are those of its rows.
LEMMA ReportsRows == ASSUME TypeOK, ReportInv PROVE CountersReportRows
BY TallyAdds DEF ReportInv, RunOver, CountersReportRows

-----------------------------------------------------------------------------
(***************************************************************************)
(* The jobs that are lost.  A thread owns its job when the job has no      *)
(* attempt yet, or only the thread's; a job that was begun and has no such *)
(* owner is stranded, for good or until it ends some other thread.  Only a *)
(* fault adds one: a failing write its thread's job, a crash those of the  *)
(* threads in the pool.                                                    *)
(***************************************************************************)
Spoilt(r)   == ~Terminal(r) /\ (jobs[r].status = "running" \/ Exists(r, 1))
Owns(d, r)  == pc[d][r] \in Working /\ (Exists(r, 1) => Claimed(d, r))
Stranded    == {r \in Repos : Spoilt(r) /\ \A d \in Drivers : ~Owns(d, r)}
InWork(d)   == {r \in Repos : pc[d][r] \in Working}

PoolInv == \A d \in Drivers : Cardinality(InWork(d)) <= MaxWorkers
Lost(c, b) == (MaxCrashes - c) * MaxWorkers + (MaxBusy - b)
StrandInv == Cardinality(Stranded) <= Lost(crashes, busy)

\* A pool never has more threads at work than workers.
LEMMA PoolNext == ASSUME Inv, Inv', PoolInv, [Next]_vars PROVE PoolInv'
<1> SUFFICES ASSUME NEW d \in Drivers PROVE Cardinality(InWork(d)') <= MaxWorkers
  BY DEF PoolInv
<1>0. /\ Cardinality(InWork(d)) <= MaxWorkers /\ MaxWorkers \in Nat
      /\ InWork(d) \in SUBSET Repos /\ Cardinality(InWork(d)) \in Nat
  BY Counted, RunAssumption DEF PoolInv, InWork
<1>1. ASSUME InWork(d)' \subseteq InWork(d) PROVE Cardinality(InWork(d)') <= MaxWorkers
  <2>1. Cardinality(InWork(d)') <= Cardinality(InWork(d)) /\ Cardinality(InWork(d)') \in Nat
    BY <1>0, <1>1, Fewer, Counted
  <2> QED BY <1>0, <2>1
<1>2. ASSUME NEW e \in Drivers, NEW last, StopIn(e, last)
      PROVE  InWork(d)' \subseteq InWork(d)
  <2>1. \A r \in Repos : pc'[d][r] \in {pc[d][r], "none"}
    BY <1>2 DEF StopIn, Inv, TypeOK
  <2> QED BY <2>1 DEF InWork, Working
<1>3. ASSUME NEW e \in Drivers, Resume(e) \/ MainStep(e)
      PROVE  InWork(d)' \subseteq InWork(d)
  <2>1. CASE JoinPool(e)
    BY <1>2, <2>1 DEF JoinPool
  <2>2. CASE ListPending(e)
    <3>1. \A r \in Repos : pc'[d][r] \in {pc[d][r], "none", "queued"}
      BY <2>2 DEF ListPending, Inv, TypeOK
    <3> QED BY <3>1 DEF InWork, Working
  <2>3. CASE ~JoinPool(e) /\ ~ListPending(e)
    <3>1. pc' = pc
      BY <1>3, <2>3 DEF Resume, MainStep, FindJob, InsertJob, SkipJob, CountJob, SealJobs,
         Launch, Recount, CompleteRun, threadVars
    <3> QED BY <3>1 DEF InWork
  <2> QED BY <2>1, <2>2, <2>3
<1>4. ASSUME NEW e \in Drivers, NEW r \in Repos, StartThread(e, r)
      PROVE  Cardinality(InWork(d)') <= MaxWorkers
  <2>1. /\ pc' = [pc EXCEPT ![e][r] = "admit"] /\ PoolHasRoom(e) /\ pc[e][r] = "queued"
    BY <1>4 DEF StartThread, Step
  <2>2. CASE e # d
    <3>1. InWork(d)' = InWork(d)
      BY <2>1, <2>2 DEF InWork, Inv, TypeOK
    <3> QED BY <1>1, <3>1
  <2>3. CASE e = d
    <3>1. InWork(d)' = InWork(d) \cup {r} /\ r \notin InWork(d)
      BY <2>1, <2>3 DEF InWork, Working, Inv, TypeOK
    <3>2. Cardinality(InWork(d)) < MaxWorkers
      BY <2>1, <2>3 DEF PoolHasRoom, InWork
    <3>3. Cardinality(InWork(d)') = Cardinality(InWork(d)) + 1
      BY <1>0, <3>1, OneMore
    <3> QED BY <1>0, <3>2, <3>3
  <2> QED BY <2>2, <2>3
<1>5. ASSUME NEW e \in Drivers, NEW r \in Repos, ThreadStep(e, r) \/ WriteFails(e, r),
             ~StartThread(e, r)
      PROVE  InWork(d)' \subseteq InWork(d)
  <2>1. pc[e][r] \in Working
    BY <1>5 DEF ThreadStep, Admit, RefuseSlot, CloseRefused, MarkRunning, InsertAttempt,
       Execute, Terminalize, WriteFails, Step, Working
  <2>2. \A q \in Repos : e # d \/ q # r => pc'[d][q] = pc[d][q]
    BY <1>5, ThreadFrame
  <2> QED BY <2>1, <2>2 DEF InWork
<1>6. CASE \/ \E e \in Drivers : Crash(e)
           \/ AllStopped \/ UNCHANGED vars
  <2>1. InWork(d)' \subseteq InWork(d)
    BY <1>2, <1>6 DEF Crash, AllStopped, vars, threadVars, InWork
  <2> QED BY <1>1, <2>1
<1> QED BY <1>1, <1>3, <1>4, <1>5, <1>6 DEF Next

\* A thread leaves the attempts of other jobs alone, and its claim stays with it.
LEMMA ThreadRows ==
  ASSUME Inv, NEW d \in Drivers, NEW r \in Repos, ThreadStep(d, r) \/ WriteFails(d, r)
  PROVE  \A q \in Repos : q # r =>
           /\ attempts'[q] = attempts[q]
           /\ \A e \in Drivers : tries'[e][q] = tries[e][q]
<1>1. \A q \in Repos : q # r => attempts'[q] = attempts[q]
  <2>1. CASE RefuseSlot(d, r) \/ InsertAttempt(d, r)
    BY <2>1 DEF RefuseSlot, InsertAttempt, Inv, TypeOK
  <2>2. CASE CloseRefused(d, r)
    BY <2>2 DEF CloseRefused, Inv, TypeOK
  <2>3. CASE Execute(d, r)
    <3>1. PICK res \in AttemptResults(Kind[r]) :
            attempts' = IF res.closes
                        THEN [attempts EXCEPT ![r][tries[d][r]] = res.verdict]
                        ELSE attempts
      BY <2>3 DEF Execute
    <3> QED BY <3>1 DEF Inv, TypeOK
  <2> QED BY <2>1, <2>2, <2>3
          DEF ThreadStep, StartThread, Admit, MarkRunning, Terminalize, WriteFails, dbVars
<1>2. tries' = tries \/ \E n : tries' = [tries EXCEPT ![d][r] = n]
  BY DEF ThreadStep, StartThread, Admit, RefuseSlot, CloseRefused, MarkRunning,
     InsertAttempt, Execute, Terminalize, WriteFails
<1>3. \A q \in Repos : q # r => \A e \in Drivers : tries'[e][q] = tries[e][q]
  <2>1. CASE tries' = tries
    BY <2>1
  <2>2. ASSUME NEW n, tries' = [tries EXCEPT ![d][r] = n]
        PROVE  \A q \in Repos : q # r => \A e \in Drivers : tries'[e][q] = tries[e][q]
    <3> SUFFICES ASSUME NEW q \in Repos, q # r, NEW e \in Drivers
                 PROVE  tries'[e][q] = tries[e][q]
      OBVIOUS
    <3>1. tries'[e] = IF e = d THEN [tries[d] EXCEPT ![r] = n] ELSE tries[e]
      BY <2>2 DEF Inv, TypeOK
    <3>2. tries[d] \in [Repos -> 0..MaxAttempts]
      BY DEF Inv, TypeOK
    <3> QED BY <3>1, <3>2
  <2> QED BY <1>2, <2>1, <2>2
<1> QED BY <1>1, <1>3

\* Another job is as stranded as before.
LEMMA OtherJobs ==
  ASSUME Inv, NEW d \in Drivers, NEW r \in Repos, ThreadStep(d, r) \/ WriteFails(d, r),
         NEW q \in Repos, q # r, q \in Stranded'
  PROVE  q \in Stranded
<1>1. /\ jobs'[q] = jobs[q] /\ attempts'[q] = attempts[q]
      /\ \A e \in Drivers : tries'[e][q] = tries[e][q] /\ pc'[e][q] = pc[e][q]
  BY ThreadFrame, ThreadRow, ThreadRows
<1>2. Spoilt(q)' /\ \A e \in Drivers : ~Owns(e, q)'
  BY DEF Stranded
<1>3. Spoilt(q)
  BY <1>1, <1>2 DEF Spoilt, Terminal, Exists
<1>4. \A e \in Drivers : ~Owns(e, q)
  BY <1>1, <1>2 DEF Owns, Claimed, Exists
<1> QED BY <1>3, <1>4 DEF Stranded

\* The owner of a job stays it until the job has ended.
LEMMA OwnerStays ==
  ASSUME Inv, Inv', NEW d \in Drivers, NEW r \in Repos, ThreadStep(d, r), Owns(d, r)
  PROVE  Owns(d, r)' \/ Terminal(r)'
<1>0. /\ pc[d][r] \in Working /\ (Exists(r, 1) => Claimed(d, r))
      /\ tries[d][r] \in 0..MaxAttempts /\ MaxAttempts \in Nat \ {0}
      /\ ThreadOK(d, r) /\ HolderOK(d, r) /\ AttemptsOK(r)
  BY RunAssumption DEF Owns, Inv, TypeOK, ThreadInv, JobInv
<1>1. pc[d][r] # "queued"
  BY <1>0 DEF Working
<1>2. CASE RefuseSlot(d, r) \/ InsertAttempt(d, r)
  <2>1. pc[d][r] \in {"refuse", "insert"} /\ tries[d][r] \in 1..MaxAttempts
    BY <1>0, <1>2 DEF RefuseSlot, InsertAttempt, ThreadOK
  <2>2. ~Exists(r, tries[d][r])
    <3>1. ASSUME Exists(r, tries[d][r]) PROVE FALSE
      <4>1. Exists(r, 1)
        BY <1>0, <2>1, <3>1 DEF AttemptsOK
      <4>2. Claimed(d, r) /\ Inserted(d, r) = tries[d][r] - 1
        BY <1>0, <2>1, <4>1 DEF Inserted
      <4> QED BY <1>0, <2>1, <3>1, <4>2 DEF HolderOK
    <3> QED BY <3>1
  <2>3. pc'[d][r] \in {"execute", "close_refused"}
    BY <1>2, <2>2 DEF RefuseSlot, InsertAttempt, Step, Inv, TypeOK
  <2> QED BY <2>3 DEF Owns, Claimed, Working
<1>3. CASE Terminalize(d, r)
  <2>1. Decides(d, r)
    <3>1. ~Keeps(d, r) /\ ~Marks(d, r)
      <4>1. pc'[d][r] \in {"done", "dead"}
        BY <1>3 DEF Terminalize, Step, Inv, TypeOK
      <4>2. jobs[r].verdict = Null /\ jobs'[r].verdict # Null
        BY <1>3, TerminalizeInv, NullIsNoVerdict
      <4> QED BY <4>1, <4>2 DEF Keeps, Marks
    <3> QED BY <1>3, <3>1, ThreadRow
  <2> QED BY <2>1 DEF Decides, Terminal
<1>4. CASE Admit(d, r) \/ CloseRefused(d, r) \/ MarkRunning(d, r) \/ Execute(d, r)
  <2>1. Exists(r, 1)' => Exists(r, 1)
    <3>1. CASE CloseRefused(d, r)
      <4>1. attempts' = [attempts EXCEPT ![r] = [n \in 1..MaxAttempts |->
                           IF IsLatest(r, n) THEN "ERROR" ELSE attempts[r][n]]]
        BY <3>1 DEF CloseRefused
      <4>2. attempts'[r][1] = IF IsLatest(r, 1) THEN "ERROR" ELSE attempts[r][1]
        BY <1>0, <4>1 DEF Inv, TypeOK
      <4> QED BY <4>2 DEF Exists, IsLatest
    <3>2. CASE Execute(d, r)
      <4>1. Exists(r, 1)
        BY <1>0, <3>2 DEF Execute, Claimed, Inserted, HolderOK, ThreadOK
      <4> QED BY <4>1
    <3>3. CASE Admit(d, r) \/ MarkRunning(d, r)
      BY <3>3 DEF Admit, MarkRunning, dbVars, Exists
    <3> QED BY <1>4, <3>1, <3>2, <3>3
  <2>2. Claimed(d, r) => Claimed(d, r)'
    <3>1. CASE Admit(d, r)
      <4>1. pc[d][r] = "admit" /\ pc'[d][r] \in {"mark", "refuse"}
            /\ tries'[d][r] = tries[d][r] + 1
        BY <3>1 DEF Admit, Step, Inv, TypeOK
      <4> QED BY <1>0, <4>1 DEF Claimed
    <3>2. CASE MarkRunning(d, r)
      <4>1. pc[d][r] = "mark" /\ pc'[d][r] = "insert" /\ tries' = tries
        BY <3>2 DEF MarkRunning, Step, Inv, TypeOK
      <4> QED BY <4>1 DEF Claimed
    <3>3. CASE CloseRefused(d, r)
      BY <3>3 DEF CloseRefused, Step, Claimed, Inv, TypeOK
    <3>4. CASE Execute(d, r)
      <4>1. pc[d][r] = "execute" /\ pc'[d][r] \in {"admit", "terminalize"} /\ tries' = tries
        BY <3>4 DEF Execute, Step, Inv, TypeOK
      <4> QED BY <1>0, <4>1 DEF Claimed, ThreadOK
    <3> QED BY <1>4, <3>1, <3>2, <3>3, <3>4
  <2>3. pc'[d][r] \in Working
    BY <1>4 DEF Admit, CloseRefused, MarkRunning, Execute, Step, Working, Inv, TypeOK
  <2> QED BY <1>0, <2>1, <2>2, <2>3 DEF Owns
<1>5. ~StartThread(d, r)
  BY <1>1 DEF StartThread, Step
<1> QED BY <1>2, <1>3, <1>4, <1>5 DEF ThreadStep

\* A thread strands no job.
LEMMA ThreadStrands ==
  ASSUME Inv, Inv', SeqInv, NEW d \in Drivers, NEW r \in Repos, Driven(d), ThreadStep(d, r)
  PROVE  Stranded' \subseteq Stranded
<1> SUFFICES ASSUME NEW q \in Stranded' PROVE q \in Stranded
  OBVIOUS
<1>0. q \in Repos /\ Spoilt(q)' /\ \A e \in Drivers : ~Owns(e, q)'
  BY DEF Stranded
<1>1. CASE q # r
  BY <1>0, <1>1, OtherJobs
<1>2. CASE q = r
  <2>0. pc[d][r] \notin Finished
    BY ThreadFrame
  <2>1. \A e \in Drivers : e # d => ~Owns(e, r)
    <3>1. phase[d] = "pool"
      BY <2>0, InPool DEF Finished
    <3>2. \A e \in Drivers : e # d => pc[e][r] = "none"
      BY <3>1, NoThreads DEF SeqInv, Active, Stopped
    <3> QED BY <3>2 DEF Owns, Working
  <2>2. ~Terminal(r)
    BY <2>0 DEF SeqInv, AtWork
  <2>3. ~Owns(d, r)
    BY <1>0, <1>2, OwnerStays DEF Spoilt
  <2>4. Exists(r, 1)
    <3>1. CASE StartThread(d, r)
      <4>1. pc'[d][r] = "admit" /\ attempts' = attempts /\ tries' = tries /\ jobs' = jobs
        BY <3>1 DEF StartThread, Step, dbVars, Inv, TypeOK
      <4>2. Exists(r, 1)'
        BY <1>0, <1>2, <4>1 DEF Owns, Working
      <4> QED BY <4>1, <4>2 DEF Exists
    <3>2. CASE ~StartThread(d, r)
      <4>1. pc[d][r] \in Working
        BY <3>2 DEF ThreadStep, Admit, RefuseSlot, CloseRefused, MarkRunning, InsertAttempt,
           Execute, Terminalize, Step, Working
      <4> QED BY <2>3, <4>1 DEF Owns
    <3> QED BY <3>1, <3>2
  <2> QED BY <1>0, <1>2, <2>1, <2>2, <2>3, <2>4 DEF Stranded, Spoilt
<1> QED BY <1>1, <1>2

\* A job is inserted as pending, or as completed if its commit was not resolved.
LEMMA NewJobWaits ==
  ASSUME NEW k PROVE NewJob(k).status \in {"completed", "pending"}
<1> DEFINE s == IF k = "sha_error" THEN "completed" ELSE "pending"
<1>1. NewJob(k).status = s
  BY DEF NewJob
<1>2. s \in {"completed", "pending"}
  OBVIOUS
<1> QED BY <1>1, <1>2

\* Neither does a main thread.
LEMMA MainStrands ==
  ASSUME Inv, Inv', SeqInv, NEW d \in Drivers, Resume(d) \/ MainStep(d)
  PROVE  Stranded' \subseteq Stranded
<1> SUFFICES ASSUME NEW r \in Stranded' PROVE r \in Stranded
  OBVIOUS
<1>0. r \in Repos /\ Spoilt(r)' /\ \A e \in Drivers : ~Owns(e, r)'
  BY DEF Stranded
<1>1. attempts' = attempts
  BY MainStepQuiet
<1>2. Spoilt(r)
  <2>1. CASE jobs'[r] = jobs[r]
    BY <1>0, <1>1, <2>1 DEF Spoilt, Terminal, Exists
  <2>2. CASE jobs[r].status = "absent" /\ jobs'[r] = NewJob(Kind[r])
    <3>1. jobs'[r].status # "running"
      BY <2>2, NewJobWaits
    <3>2. Exists(r, 1)
      BY <1>0, <1>1, <3>1 DEF Spoilt, Exists
    <3> QED BY <2>2, <3>2 DEF Spoilt, Terminal
  <2>3. CASE jobs'[r].status = "skipped_unsupported_scenario"
    BY <1>0, <2>3 DEF Spoilt, Terminal
  <2> QED BY <1>0, <2>1, <2>2, <2>3, MainWrites DEF SeqInv
<1>3. \A e \in Drivers : ~Owns(e, r)
  <2> SUFFICES ASSUME NEW e \in Drivers, pc[e][r] \in Working
               PROVE  pc'[e][r] = pc[e][r] /\ tries'[e][r] = tries[e][r]
    BY <1>0, <1>1 DEF Owns, Claimed, Exists
  <2>1. phase[e] = "pool"
    <3>1. pc[e][r] # "none"
      BY DEF Working
    <3> QED BY <1>0, <3>1, InPool
  <2>2. CASE ListPending(d)
    <3>1. e # d
      BY <2>1, <2>2 DEF ListPending, MoveTo
    <3> QED BY <2>2, <3>1 DEF ListPending, Inv, TypeOK
  <2>3. CASE JoinPool(d)
    <3>1. e # d
      BY <1>0, <2>3 DEF JoinPool, Finished, Working
    <3> QED BY <2>3, <3>1 DEF JoinPool, StopIn, Inv, TypeOK
  <2>4. CASE ~ListPending(d) /\ ~JoinPool(d)
    BY <2>4 DEF Resume, MainStep, FindJob, InsertJob, SkipJob, CountJob, SealJobs,
       Launch, Recount, CompleteRun, threadVars
  <2> QED BY <2>2, <2>3, <2>4
<1> QED BY <1>0, <1>2, <1>3 DEF Stranded

\* Faults strand at most what they account for.
LEMMA StrandNext ==
  ASSUME ~Concurrent, Inv, Inv', SeqInv, PoolInv, \A d \in Drivers : Driven(d),
         StrandInv, [Next]_vars
  PROVE  StrandInv'
<1> DEFINE W == MaxWorkers
           n == Cardinality(Stranded)
<1>0. /\ Stranded \in SUBSET Repos /\ Stranded' \in SUBSET Repos
      /\ n \in Nat /\ n' \in Nat /\ n <= Lost(crashes, busy)
      /\ W \in Nat /\ MaxCrashes \in Nat /\ MaxBusy \in Nat
      /\ crashes \in 0..MaxCrashes /\ busy \in 0..MaxBusy
      /\ crashes' \in 0..MaxCrashes /\ busy' \in 0..MaxBusy
      /\ Lost(crashes, busy) \in Nat
  <2>1. Stranded \in SUBSET Repos /\ Stranded' \in SUBSET Repos
    BY DEF Stranded
  <2>2. n \in Nat /\ n' \in Nat
    BY <2>1, Counted
  <2>3. /\ W \in Nat /\ MaxCrashes \in Nat /\ MaxBusy \in Nat
        /\ crashes \in 0..MaxCrashes /\ busy \in 0..MaxBusy
        /\ crashes' \in 0..MaxCrashes /\ busy' \in 0..MaxBusy
    BY RunAssumption DEF Inv, TypeOK
  <2>4. MaxCrashes - crashes \in Nat /\ MaxBusy - busy \in Nat
    BY <2>3
  <2>5. Lost(crashes, busy) \in Nat
    BY <2>3, <2>4 DEF Lost
  <2> QED BY <2>1, <2>2, <2>3, <2>5 DEF StrandInv
<1>1. ASSUME Stranded' \subseteq Stranded, crashes' = crashes, busy' = busy
      PROVE  StrandInv'
  <2>1. n' <= n
    BY <1>0, <1>1, Fewer
  <2>2. n' <= Lost(crashes, busy)
    BY <1>0, <2>1
  <2> QED BY <1>1, <2>2 DEF StrandInv, Lost
<1>2. ASSUME NEW d \in Drivers, Resume(d) \/ MainStep(d) PROVE StrandInv'
  <2>1. crashes' = crashes /\ busy' = busy
    BY <1>2 DEF Resume, MainStep, FindJob, InsertJob, SkipJob, CountJob, SealJobs, Launch,
       ListPending, JoinPool, Recount, CompleteRun, faultVars
  <2> QED BY <1>1, <1>2, <2>1, MainStrands
<1>3. ASSUME NEW d \in Drivers, NEW r \in Repos, ThreadStep(d, r) PROVE StrandInv'
  <2>1. crashes' = crashes /\ busy' = busy
    BY <1>3 DEF ThreadStep, StartThread, Admit, RefuseSlot, CloseRefused, MarkRunning,
       InsertAttempt, Execute, Terminalize, faultVars
  <2> QED BY <1>1, <1>3, <2>1, ThreadStrands
<1>4. ASSUME NEW d \in Drivers, NEW r \in Repos, WriteFails(d, r) PROVE StrandInv'
  <2>1. crashes' = crashes /\ busy' = busy - 1
    BY <1>4 DEF WriteFails
  <2>2. Stranded' \subseteq Stranded \cup {r}
    BY <1>0, <1>4, OtherJobs
  <2>3. Stranded \cup {r} \in SUBSET Repos
    BY <1>0
  <2>4. n' <= Cardinality(Stranded \cup {r}) /\ Cardinality(Stranded \cup {r}) <= n + 1
    <3>1. n' <= Cardinality(Stranded \cup {r})
      BY <2>2, <2>3, Fewer
    <3>2. CASE r \in Stranded
      <4>1. Stranded \cup {r} = Stranded
        BY <3>2
      <4> QED BY <1>0, <3>1, <4>1
    <3>3. CASE r \notin Stranded
      BY <1>0, <3>1, <3>3, OneMore
    <3> QED BY <3>2, <3>3
  <2>5. Cardinality(Stranded \cup {r}) \in Nat
    BY <2>3, Counted
  <2>6. n' <= Lost(crashes, busy) + 1
    <3> HIDE DEF n
    <3> QED BY <1>0, <2>4, <2>5
  <2>7. Lost(crashes', busy') = Lost(crashes, busy) + 1
    <3> DEFINE L == (MaxCrashes - crashes) * W
    <3>1. L \in Int
      BY <1>0
    <3>2. /\ Lost(crashes, busy) = L + (MaxBusy - busy)
          /\ Lost(crashes', busy') = L + (MaxBusy - busy')
      BY <2>1 DEF Lost
    <3> HIDE DEF L
    <3> QED BY <1>0, <2>1, <3>1, <3>2
  <2>8. n' <= Lost(crashes', busy')
    BY <2>6, <2>7
  <2> QED BY <2>8 DEF StrandInv, Lost
<1>5. ASSUME NEW d \in Drivers, Crash(d) PROVE StrandInv'
  <2>1. /\ crashes' = crashes - 1 /\ busy' = busy /\ jobs' = jobs /\ attempts' = attempts
        /\ \A e \in Drivers : e # d => pc'[e] = pc[e] /\ tries'[e] = tries[e]
    BY <1>5 DEF Crash, StopIn, dbVars, Inv, TypeOK
  <2>2. Stranded' \subseteq Stranded \cup InWork(d)
    <3> SUFFICES ASSUME NEW q \in Stranded', q \notin Stranded PROVE q \in InWork(d)
      OBVIOUS
    <3>1. q \in Repos /\ Spoilt(q)' /\ \A e \in Drivers : ~Owns(e, q)'
      BY DEF Stranded
    <3>2. Spoilt(q)
      BY <2>1, <3>1 DEF Spoilt, Terminal, Exists
    <3>3. PICK e \in Drivers : Owns(e, q)
      BY <3>1, <3>2 DEF Stranded
    <3>4. e = d
      BY <2>1, <3>1, <3>3 DEF Owns, Claimed, Exists
    <3> QED BY <3>1, <3>3, <3>4 DEF Owns, InWork
  <2>3. /\ InWork(d) \in SUBSET Repos /\ Cardinality(InWork(d)) \in Nat
        /\ Cardinality(InWork(d)) <= W
    BY Counted DEF InWork, PoolInv
  <2>4. n' <= Cardinality(Stranded \cup InWork(d))
    BY <1>0, <2>2, <2>3, Fewer
  <2>5. Cardinality(Stranded \cup InWork(d)) <= n + Cardinality(InWork(d))
    <3>1. /\ Cardinality(Stranded \cup InWork(d)) =
               n + Cardinality(InWork(d)) - Cardinality(Stranded \cap InWork(d))
      BY <1>0, <2>3, Counted, FS_Union
    <3>2. Cardinality(Stranded \cap InWork(d)) \in Nat
      BY <1>0, Counted
    <3> HIDE DEF n
    <3> QED BY <1>0, <2>3, <3>1, <3>2
  <2>6. Cardinality(Stranded \cup InWork(d)) \in Nat
    BY <1>0, <2>3, Counted
  <2>7. n' <= Lost(crashes, busy) + W
    <3> HIDE DEF n
    <3> QED BY <1>0, <2>3, <2>4, <2>5, <2>6
  <2>8. Lost(crashes', busy') = Lost(crashes, busy) + W
    <3> DEFINE k == MaxCrashes - crashes
               b == MaxBusy - busy
    <3>1. k \in Int /\ b \in Int /\ W \in Int /\ MaxCrashes - crashes' = k + 1
      BY <1>0, <2>1
    <3>2. Lost(crashes, busy) = k * W + b /\ Lost(crashes', busy') = (k + 1) * W + b
      BY <2>1, <3>1 DEF Lost
    <3> HIDE DEF k, b, W
    <3>3. (k + 1) * W = k * W + W /\ k * W \in Int
      BY <3>1
    <3> QED BY <3>1, <3>2, <3>3
  <2>9. n' <= Lost(crashes', busy')
    BY <2>7, <2>8
  <2> QED BY <2>9 DEF StrandInv, Lost
<1>6. CASE AllStopped \/ UNCHANGED vars
  <2>1. /\ Stranded' = Stranded /\ crashes' = crashes /\ busy' = busy
    BY <1>6 DEF AllStopped, vars, dbVars, threadVars, faultVars, Stranded, Spoilt, Terminal,
       Owns, Claimed, Exists
  <2> QED BY <1>1, <2>1
<1> QED BY <1>2, <1>3, <1>4, <1>5, <1>6 DEF Next

\* What a completed run leaves out was stranded.
LEMMA InterruptedStranded ==
  ASSUME Inv, ReportInv, StrandInv PROVE StrandedJobsBounded
<1> SUFFICES ASSUME runStatus = "completed"
             PROVE  Cardinality(Interrupted) <= Lost(crashes, busy)
  BY DEF StrandedJobsBounded, Lost
<1>1. Interrupted \subseteq Stranded
  <2> SUFFICES ASSUME NEW r \in Repos, ~Terminal(r) PROVE r \in Stranded
    BY DEF Interrupted
  <2>1. jobs[r].status = "running"
    BY DEF ReportInv, RunOver, Terminal, Inv, TypeOK, JobRow, JobStatuses
  <2>2. \A d \in Drivers : pc[d][r] = "none"
    BY InPool DEF ReportInv, RunOver, Active, Stopped
  <2> QED BY <2>1, <2>2 DEF Stranded, Spoilt, Owns, Working
<1>2. Stranded \in SUBSET Repos
  BY DEF Stranded
<1>3. Cardinality(Interrupted) <= Cardinality(Stranded)
  BY <1>1, <1>2, Fewer
<1>4. Cardinality(Interrupted) \in Nat /\ Cardinality(Stranded) \in Nat
  BY <1>1, <1>2, Counted
<1>5. Lost(crashes, busy) \in Int
  BY RunAssumption DEF Lost, Inv, TypeOK
<1> QED BY <1>3, <1>4, <1>5 DEF StrandInv

\* With one driver at a time, however many follow one another, a completed run
\* reports exactly its rows, and leaves out no more jobs than a crash takes threads
\* with it and writes failed.
THEOREM ReportIsTrue == ASSUME ~Concurrent PROVE Spec => []CompletedRunReport
<1>1. Init => ReportInv /\ PoolInv /\ StrandInv
  <2> SUFFICES ASSUME Init PROVE PoolInv /\ StrandInv
    BY ReportInit
  <2>1. /\ \A d \in Drivers : InWork(d) = {}
        /\ crashes = MaxCrashes /\ busy = MaxBusy
    BY DEF Init, InWork, Working
  <2>2. Stranded = {}
    <3>1. \A r \in Repos : jobs[r].status = "absent"
      BY DEF Init
    <3>2. \A r \in Repos : ~Exists(r, 1)
      <4>1. 1 \in 1..MaxAttempts
        BY RunAssumption
      <4> QED BY <4>1 DEF Init, Exists
    <3> QED BY <3>1, <3>2 DEF Stranded, Spoilt
  <2>3. Lost(crashes, busy) = 0
    BY <2>1, RunAssumption DEF Lost
  <2> QED BY <2>1, <2>2, <2>3, NoneCounted, RunAssumption DEF PoolInv, StrandInv
<1>2. Inv /\ Inv' /\ SeqInv /\ ReportInv /\ PoolInv /\ StrandInv /\ [Next]_vars
        => ReportInv' /\ PoolInv' /\ StrandInv'
  BY ReportNext, PoolNext, StrandNext DEF ReportInv
<1>3. Inv /\ ReportInv /\ StrandInv => CompletedRunReport
  BY ReportsRows, InterruptedStranded DEF CompletedRunReport, Inv
<1> QED BY <1>1, <1>2, <1>3, SequentialInvariance, PTL DEF Spec

-----------------------------------------------------------------------------
(***************************************************************************)
(* What a resume finds.  As long as no write has failed, every worker gets *)
(* a slot, only a job without attempts is driven, and no thread dies.      *)
(***************************************************************************)
Roomy(d) == Accounted(d) >= MaxActive
Begun(r) == Exists(r, 1) => jobs[r].status \notin {"absent", "pending"}
Clean(d, r) ==
  /\ pc[d][r] \notin {"refuse", "close_refused", "dead"}
  /\ pc[d][r] \in Working => Owns(d, r)
  /\ pc[d][r] = "queued" => ~Exists(r, 1)
  /\ pc[d][r] = "insert" => jobs[r].status \notin {"absent", "pending"}

FreshInv ==
  /\ \A d \in Drivers : Roomy(d) /\ phase[d] # "failed"
  /\ \A d \in Drivers, r \in Repos : Clean(d, r)
  /\ \A r \in Repos : Begun(r)

ResumeInv == busy = MaxBusy => FreshInv

\* A failing write is not given back.
LEMMA BusyFalls == ASSUME Inv, [Next]_vars, busy' = MaxBusy PROVE busy = MaxBusy
<1>1. busy' \in {busy, busy - 1}
  <2>1. ASSUME NEW d \in Drivers, Resume(d) \/ MainStep(d) \/ Crash(d) PROVE busy' = busy
    BY <2>1 DEF Resume, MainStep, FindJob, InsertJob, SkipJob, CountJob, SealJobs, Launch,
       ListPending, JoinPool, Recount, CompleteRun, Crash, faultVars
  <2>2. ASSUME NEW d \in Drivers, NEW r \in Repos, ThreadStep(d, r) PROVE busy' = busy
    BY <2>2 DEF ThreadStep, StartThread, Admit, RefuseSlot, CloseRefused, MarkRunning,
       InsertAttempt, Execute, Terminalize, faultVars
  <2>3. ASSUME NEW d \in Drivers, NEW r \in Repos, WriteFails(d, r) PROVE busy' = busy - 1
    BY <2>3 DEF WriteFails
  <2> QED BY <2>1, <2>2, <2>3 DEF Next, AllStopped, vars, faultVars
<1> QED BY <1>1, RunAssumption DEF Inv, TypeOK

\* Until a write fails, a counter never falls below its limit.
LEMMA RoomyNext ==
  ASSUME Inv, Inv', [Next]_vars, busy = MaxBusy, busy' = MaxBusy, NEW d \in Drivers, Roomy(d)
  PROVE  Roomy(d)'
<1>0. /\ MaxActive \in Nat /\ MaxBusy \in Nat
      /\ Accounted(d) \in Int /\ Accounted(d)' \in Int
  <2>1. TypeOK /\ TypeOK'
    BY DEF Inv
  <2>2. Accounted(d) \in Int
    BY <2>1, AccountedType
  <2>3. Accounted(d)' \in Int
    <3>1. slots'[d] \in Int
      BY <2>1 DEF TypeOK
    <3>2. Holding(d)' \in SUBSET Repos
      BY DEF Holding
    <3>3. Cardinality(Holding(d)') \in Nat
      BY <3>2, Counted
    <3> QED BY <3>1, <3>3 DEF Accounted
  <2> QED BY <2>2, <2>3, RunAssumption
<1>1. \/ Accounted(d)' = Accounted(d) \/ Accounted(d)' = MaxActive
      \/ Accounted(d)' = Accounted(d) + 1
  BY <1>0, SlotStep DEF SlotsKept, SlotsReset, SlotsRefuse, SlotsLost, SlotsBack
<1> QED BY <1>0, <1>1 DEF Roomy

\* A thread that asks for a slot gets one.
LEMMA RoomForAll ==
  ASSUME Inv, PoolInv, MaxWorkers <= MaxActive, NEW d \in Drivers, NEW r \in Repos,
         Roomy(d), pc[d][r] = "admit"
  PROVE  slots[d] > 0
<1> DEFINE H == Holding(d)
           W == InWork(d)
<1>1. H \in SUBSET Repos /\ W \in SUBSET Repos /\ r \notin H /\ H \cup {r} \subseteq W
  BY DEF Holding, InWork, Working
<1>2. Cardinality(H) + 1 <= Cardinality(W)
  BY <1>1, OneMore, Fewer
<1>3. Cardinality(H) \in Nat /\ Cardinality(W) \in Nat
  BY <1>1, Counted
<1>4. slots[d] \in Int /\ MaxActive \in Nat /\ MaxWorkers \in Nat
  BY RunAssumption DEF Inv, TypeOK
<1>5. Cardinality(W) <= MaxWorkers /\ slots[d] + Cardinality(H) >= MaxActive
  BY DEF PoolInv, Roomy, Accounted
<1> HIDE DEF H, W
<1> QED BY <1>2, <1>3, <1>4, <1>5

\* A thread whose job has no attempt but its own inserts the next one.
LEMMA NoCollision ==
  ASSUME Inv, NEW d \in Drivers, NEW r \in Repos, Owns(d, r), pc[d][r] = "insert"
  PROVE  ~Exists(r, tries[d][r])
<1>0. /\ tries[d][r] \in 1..MaxAttempts
      /\ ThreadOK(d, r) /\ HolderOK(d, r) /\ AttemptsOK(r)
  BY DEF Inv, TypeOK, ThreadInv, JobInv, ThreadOK
<1>1. ASSUME Exists(r, tries[d][r]) PROVE FALSE
  <2>1. Exists(r, 1)
    BY <1>0, <1>1 DEF AttemptsOK
  <2>2. Claimed(d, r) /\ Inserted(d, r) = tries[d][r] - 1
    BY <1>0, <2>1 DEF Owns, Inserted
  <2> QED BY <1>0, <1>1, <2>2 DEF HolderOK
<1> QED BY <1>1

\* A thread leaves every job as fresh for the next driver as it needs to be.
LEMMA ThreadFresh ==
  ASSUME Inv, Inv', SeqInv, SeqInv', PoolInv, MaxWorkers <= MaxActive, FreshInv,
         NEW d \in Drivers, NEW r \in Repos, ThreadStep(d, r)
  PROVE  (\A e \in Drivers, q \in Repos : Clean(e, q)') /\ \A q \in Repos : Begun(q)'
<1>0. Clean(d, r) /\ Begun(r) /\ Roomy(d)
  BY DEF FreshInv
<1>1. ASSUME NEW q \in Repos, q # r PROVE Begun(q)' /\ \A e \in Drivers : Clean(e, q)'
  <2>1. /\ jobs'[q] = jobs[q] /\ attempts'[q] = attempts[q]
        /\ \A e \in Drivers : tries'[e][q] = tries[e][q] /\ pc'[e][q] = pc[e][q]
    BY <1>1, ThreadFrame, ThreadRow, ThreadRows
  <2>2. Begun(q) /\ \A e \in Drivers : Clean(e, q)
    BY DEF FreshInv
  <2> QED BY <2>1, <2>2 DEF Begun, Clean, Owns, Claimed, Exists
<1>2. ASSUME NEW e \in Drivers, e # d PROVE Clean(e, r)'
  <2>1. phase[d] = "pool"
    BY ThreadFrame, InPool DEF Finished
  <2>2. pc[e][r] = "none"
    BY <1>2, <2>1, NoThreads DEF SeqInv, Active, Stopped
  <2>3. pc'[e][r] = "none"
    BY <1>2, <2>2, ThreadFrame
  <2> QED BY <2>3 DEF Clean, Working
<1>3. CASE StartThread(d, r)
  <2>1. /\ pc[d][r] = "queued" /\ pc'[d][r] = "admit" /\ attempts' = attempts
        /\ tries' = tries /\ jobs' = jobs
    BY <1>3 DEF StartThread, Step, dbVars, Inv, TypeOK
  <2>2. ~Exists(r, 1) /\ ~Exists(r, 1)'
    BY <1>0, <2>1 DEF Clean, Exists
  <2>3. Clean(d, r)' /\ Begun(r)'
    BY <2>1, <2>2 DEF Clean, Begun, Owns, Working
  <2> QED BY <1>1, <1>2, <2>3
<1>4. CASE ~StartThread(d, r)
  <2>1. pc[d][r] \in Working /\ Owns(d, r)
    <3>1. pc[d][r] \in Working
      BY <1>4 DEF ThreadStep, Admit, RefuseSlot, CloseRefused, MarkRunning, InsertAttempt,
         Execute, Terminalize, Step, Working
    <3> QED BY <1>0, <3>1 DEF Clean
  <2>2. pc'[d][r] \in Working => Owns(d, r)'
    <3>1. Owns(d, r)' \/ Terminal(r)'
      BY <2>1, OwnerStays
    <3>2. Terminal(r)' => pc'[d][r] \in Finished
      BY DEF SeqInv, AtWork
    <3> QED BY <3>1, <3>2 DEF Working, Finished
  <2>3. CASE Admit(d, r)
    <3>1. slots[d] > 0
      BY <1>0, <2>3, RoomForAll DEF Admit, Step
    <3>2. pc'[d][r] = "mark" /\ jobs' = jobs /\ attempts' = attempts
      BY <2>3, <3>1 DEF Admit, Step, dbVars, Inv, TypeOK
    <3> QED BY <1>0, <1>1, <1>2, <2>2, <3>2 DEF Clean, Begun, Exists
  <2>4. CASE MarkRunning(d, r)
    <3>1. pc'[d][r] = "insert" /\ jobs'[r].status = "running"
      <4>1. pc'[d][r] = "insert"
        BY <2>4 DEF MarkRunning, Step, Inv, TypeOK
      <4>2. jobs' = [jobs EXCEPT ![r].status = "running", ![r].attemptCount = @ + 1]
        BY <2>4 DEF MarkRunning
      <4>3. jobs[r] \in JobRow /\ jobs \in [Repos -> JobRow]
        BY DEF Inv, TypeOK
      <4>4. jobs'[r].status = "running"
        BY <4>2, <4>3 DEF JobRow
      <4> QED BY <4>1, <4>4
    <3> QED BY <1>1, <1>2, <2>2, <3>1 DEF Clean, Begun
  <2>5. CASE InsertAttempt(d, r)
    <3>1. pc[d][r] = "insert" /\ ~Exists(r, tries[d][r])
      BY <2>1, <2>5, NoCollision DEF InsertAttempt
    <3>2. pc'[d][r] = "execute" /\ jobs' = jobs
      BY <2>5, <3>1 DEF InsertAttempt, Step, Inv, TypeOK
    <3>3. jobs'[r].status \notin {"absent", "pending"}
      BY <1>0, <3>1, <3>2 DEF Clean
    <3> QED BY <1>1, <1>2, <2>2, <3>2, <3>3 DEF Clean, Begun
  <2>6. CASE Execute(d, r)
    <3>1. pc[d][r] = "execute" /\ pc'[d][r] \in {"admit", "terminalize"} /\ jobs' = jobs
      BY <2>6 DEF Execute, Step, Inv, TypeOK
    <3>2. Exists(r, 1)
      <4>1. ThreadOK(d, r) /\ HolderOK(d, r) /\ tries[d][r] \in 0..MaxAttempts
        BY DEF Inv, ThreadInv, TypeOK
      <4>2. tries[d][r] >= 1 /\ Claimed(d, r) /\ Inserted(d, r) = tries[d][r]
        BY <3>1, <4>1 DEF ThreadOK, Claimed, Inserted
      <4>3. 1 \in 1..MaxAttempts
        BY RunAssumption
      <4> QED BY <4>1, <4>2, <4>3 DEF HolderOK
    <3>3. jobs'[r].status \notin {"absent", "pending"}
      BY <1>0, <3>1, <3>2 DEF Begun
    <3> QED BY <1>1, <1>2, <2>2, <3>1, <3>3 DEF Clean, Begun
  <2>7. CASE Terminalize(d, r)
    <3>1. ~Keeps(d, r) /\ ~Marks(d, r)
      <4>1. pc'[d][r] \in {"done", "dead"}
        BY <2>7 DEF Terminalize, Step, Inv, TypeOK
      <4>2. jobs[r].verdict = Null /\ jobs'[r].verdict # Null
        BY <2>7, TerminalizeInv, NullIsNoVerdict
      <4> QED BY <4>1, <4>2 DEF Keeps, Marks
    <3>2. pc'[d][r] = "done" /\ jobs'[r].status = "completed"
      BY <3>1, ThreadRow DEF Decides
    <3> QED BY <1>1, <1>2, <2>2, <3>2 DEF Clean, Begun
  <2>8. ~RefuseSlot(d, r) /\ ~CloseRefused(d, r)
    BY <1>0 DEF Clean, RefuseSlot, CloseRefused, Step
  <2> QED BY <1>4, <2>3, <2>4, <2>5, <2>6, <2>7, <2>8 DEF ThreadStep
<1> QED BY <1>3, <1>4

\* So does a main thread, which drives only pending jobs.
LEMMA MainFresh ==
  ASSUME Inv, Inv', SeqInv, FreshInv, NEW d \in Drivers, Resume(d) \/ MainStep(d)
  PROVE  (\A e \in Drivers, q \in Repos : Clean(e, q)') /\ \A q \in Repos : Begun(q)'
<1>1. attempts' = attempts
  BY MainStepQuiet
<1>2. ASSUME NEW q \in Repos
      PROVE  jobs[q].status \notin {"absent", "pending"} =>
               jobs'[q].status \notin {"absent", "pending"}
  BY MainWrites DEF SeqInv
<1>3. ASSUME NEW q \in Repos PROVE Begun(q)'
  BY <1>1, <1>2 DEF FreshInv, Begun, Exists
<1>4. ASSUME NEW e \in Drivers, NEW q \in Repos PROVE Clean(e, q)'
  <2>0. Clean(e, q) /\ Begun(q)
    BY DEF FreshInv
  <2>1. CASE pc'[e][q] = pc[e][q] /\ tries'[e][q] = tries[e][q]
    BY <1>1, <1>2, <2>0, <2>1 DEF Clean, Owns, Claimed, Exists
  <2>2. CASE pc'[e][q] = "none"
    BY <2>2 DEF Clean, Working
  <2>3. CASE ListPending(d)
    <3>1. CASE e # d
      BY <2>1, <2>3, <3>1 DEF ListPending, Inv, TypeOK
    <3>2. CASE e = d
      <4>1. pc'[e][q] = IF Drivable(q) THEN "queued" ELSE "none"
        BY <2>3, <3>2 DEF ListPending, Inv, TypeOK
      <4>2. Drivable(q) => ~Exists(q, 1)'
        BY <1>1, <2>0 DEF Drivable, Begun, Exists
      <4> QED BY <4>1, <4>2 DEF Clean, Working
    <3> QED BY <3>1, <3>2
  <2>4. CASE JoinPool(d)
    <3>1. CASE e # d
      BY <2>1, <2>4, <3>1 DEF JoinPool, StopIn, Inv, TypeOK
    <3>2. CASE e = d
      <4>1. pc'[e][q] = "none"
        BY <2>4, <3>2 DEF JoinPool, StopIn, Inv, TypeOK
      <4> QED BY <2>2, <4>1
    <3> QED BY <3>1, <3>2
  <2>5. CASE ~ListPending(d) /\ ~JoinPool(d)
    <3>1. pc' = pc /\ tries' = tries
      BY <2>5 DEF Resume, MainStep, FindJob, InsertJob, SkipJob, CountJob, SealJobs,
         Launch, Recount, CompleteRun, threadVars
    <3> QED BY <2>1, <3>1
  <2> QED BY <2>3, <2>4, <2>5
<1> QED BY <1>3, <1>4

\* A build meets no row of a job it has not found, and a pool no thread that died.
LEMMA NoneFails ==
  ASSUME Inv, FreshInv, \A d \in Drivers : Built(d), [Next]_vars, NEW e \in Drivers
  PROVE  phase'[e] # "failed"
<1>0. /\ phase[e] # "failed" /\ \A d \in Drivers, r \in Repos : pc[d][r] # "dead"
  BY DEF FreshInv, Clean
<1>1. ASSUME NEW d \in Drivers, Resume(d) PROVE phase'[e] # "failed"
  BY <1>0, <1>1 DEF Resume, Inv, TypeOK
<1>2. ASSUME NEW d \in Drivers, MainStep(d) PROVE phase'[e] # "failed"
  <2>1. CASE InsertJob(d)
    <3>1. jobs[cursor[d]].status = "absent"
      BY <2>1 DEF InsertJob, Built, JobExists
    <3>2. phase'[d] # "failed" /\ \A f \in Drivers : f # d => phase'[f] = phase[f]
      BY <2>1, <3>1 DEF InsertJob, Inv, TypeOK
    <3> QED BY <1>0, <3>2
  <2>2. CASE JoinPool(d)
    <3>1. phase' = [phase EXCEPT ![d] = "recount"]
      BY <1>0, <2>2 DEF JoinPool, StopIn
    <3> QED BY <1>0, <3>1 DEF Inv, TypeOK
  <2>3. CASE ~InsertJob(d) /\ ~JoinPool(d)
    BY <1>0, <1>2, <2>3 DEF MainStep, FindJob, SkipJob, CountJob, SealJobs, Launch, ListPending,
       Recount, CompleteRun, MoveTo, Inv, TypeOK
  <2> QED BY <2>1, <2>2, <2>3
<1>3. ASSUME NEW d \in Drivers, Crash(d) PROVE phase'[e] # "failed"
  BY <1>0, <1>3 DEF Crash, StopIn, Inv, TypeOK
<1>4. ASSUME NEW d \in Drivers, NEW r \in Repos, ThreadStep(d, r) \/ WriteFails(d, r)
      PROVE  phase'[e] # "failed"
  BY <1>0, <1>4, ThreadFrame
<1> QED BY <1>0, <1>1, <1>2, <1>3, <1>4 DEF Next, AllStopped, vars

\* No step makes a resume collide, until a write fails.
LEMMA ResumeInvNext ==
  ASSUME Inv, Inv', SeqInv, SeqInv', PoolInv, MaxWorkers <= MaxActive,
         \A d \in Drivers : Built(d), ResumeInv, [Next]_vars
  PROVE  ResumeInv'
<1> SUFFICES ASSUME busy' = MaxBusy PROVE FreshInv'
  BY DEF ResumeInv
<1>1. busy = MaxBusy /\ FreshInv
  BY BusyFalls DEF ResumeInv
<1>2. \A d \in Drivers : Roomy(d)' /\ phase'[d] # "failed"
  BY <1>1, RoomyNext, NoneFails DEF FreshInv
<1> SUFFICES (\A e \in Drivers, q \in Repos : Clean(e, q)') /\ \A q \in Repos : Begun(q)'
  BY <1>2 DEF FreshInv
<1>3. ASSUME NEW d \in Drivers, Resume(d) \/ MainStep(d)
      PROVE  (\A e \in Drivers, q \in Repos : Clean(e, q)') /\ \A q \in Repos : Begun(q)'
  BY <1>1, <1>3, MainFresh
<1>4. ASSUME NEW d \in Drivers, NEW r \in Repos, ThreadStep(d, r)
      PROVE  (\A e \in Drivers, q \in Repos : Clean(e, q)') /\ \A q \in Repos : Begun(q)'
  BY <1>1, <1>4, ThreadFresh
<1>5. ASSUME NEW d \in Drivers, NEW r \in Repos, WriteFails(d, r) PROVE FALSE
  <2>1. busy' = busy - 1 /\ busy \in Int
    BY <1>5 DEF WriteFails, Inv, TypeOK
  <2> QED BY <1>1, <2>1
<1>6. ASSUME NEW d \in Drivers, Crash(d)
      PROVE  (\A e \in Drivers, q \in Repos : Clean(e, q)') /\ \A q \in Repos : Begun(q)'
  <2>1. jobs' = jobs /\ attempts' = attempts
    BY <1>6 DEF Crash, dbVars
  <2>2. ASSUME NEW e \in Drivers, NEW q \in Repos PROVE Clean(e, q)'
    <3>1. \/ pc'[e][q] = "none"
          \/ pc'[e][q] = pc[e][q] /\ tries'[e][q] = tries[e][q]
      BY <1>6 DEF Crash, StopIn, Inv, TypeOK
    <3>2. Clean(e, q)
      BY <1>1 DEF FreshInv
    <3> QED BY <2>1, <3>1, <3>2 DEF Clean, Owns, Claimed, Exists, Working
  <2> QED BY <1>1, <2>1, <2>2 DEF FreshInv, Begun, Exists
<1>7. CASE AllStopped \/ UNCHANGED vars
  BY <1>1, <1>7 DEF AllStopped, vars, dbVars, threadVars, FreshInv, Clean, Begun, Owns, Claimed,
     Exists
<1> QED BY <1>3, <1>4, <1>5, <1>6, <1>7 DEF Next

\* With one driver at a time, and no more workers than container slots, a resume
\* meets nothing on the unique indexes over the rows of jobs and of attempts, and no
\* thread dies, until a write fails.
THEOREM NeverCollides ==
  ASSUME ~Concurrent, MaxWorkers <= MaxActive PROVE Spec => []ResumeNeverCollides
<1>1. Init => ReportInv /\ PoolInv /\ ResumeInv
  <2> SUFFICES ASSUME Init PROVE PoolInv /\ FreshInv
    BY ReportInit DEF ResumeInv
  <2>1. \A d \in Drivers : InWork(d) = {} /\ Holding(d) = {} /\ slots[d] = MaxActive
    BY DEF Init, InWork, Working, Holding
  <2>2. PoolInv /\ \A d \in Drivers : Roomy(d)
    <3>1. MaxWorkers \in Nat /\ MaxActive \in Nat
      BY RunAssumption
    <3>2. PoolInv
      BY <2>1, <3>1, NoneCounted DEF PoolInv
    <3>3. \A d \in Drivers : Accounted(d) = MaxActive
      BY <2>1, <3>1, NoneCounted DEF Accounted
    <3> QED BY <3>1, <3>2, <3>3 DEF Roomy
  <2>3. \A d \in Drivers : phase[d] # "failed"
    BY DEF Init
  <2>4. \A d \in Drivers, r \in Repos : Clean(d, r)
    BY DEF Init, Clean, Working
  <2>5. \A r \in Repos : ~Exists(r, 1)
    <3>1. 1 \in 1..MaxAttempts
      BY RunAssumption
    <3> QED BY <3>1 DEF Init, Exists
  <2> QED BY <2>2, <2>3, <2>4, <2>5 DEF FreshInv, Begun
<1>2. Inv /\ Inv' /\ SeqInv /\ SeqInv' /\ ReportInv /\ PoolInv /\ ResumeInv /\ [Next]_vars
        => ReportInv' /\ PoolInv' /\ ResumeInv'
  BY ReportNext, PoolNext, ResumeInvNext DEF ReportInv
<1>3. ResumeInv => ResumeNeverCollides
  BY DEF ResumeInv, ResumeNeverCollides, FreshInv, Clean
<1> QED BY <1>1, <1>2, <1>3, SequentialInvariance, PTL DEF Spec
=============================================================================
