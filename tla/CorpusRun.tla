----------------------------- MODULE CorpusRun -----------------------------
(***************************************************************************)
(* One corpus run of src/compliance/corpus_runner: the rows of             *)
(* corpus_runs, evaluation_jobs, evaluation_attempts and                   *)
(* requirement_evaluations, and the processes that write them.             *)
(*                                                                         *)
(* A driver is one invocation of `run` or `resume`: it builds the jobs of  *)
(* the frozen manifest row by row, then drives the pending ones through a  *)
(* pool of worker threads, recounts the aggregate counters and completes   *)
(* the run.  Every database statement that commits on its own connection   *)
(* is a step of its own.  Any driver may crash between two steps.          *)
(*                                                                         *)
(* Abstracted: what an attempt executes (its outcome is a choice over the  *)
(* outcomes _execute_one_attempt can return), timestamps, messages, and    *)
(* the manifest, which is frozen before the first driver starts.           *)
(***************************************************************************)
EXTENDS Integers, FiniteSets

CONSTANTS
  Drivers,       \* invocations of the CLI on this run
  Creator,       \* the one that created the run (`run`); the others `resume`
  RepoCount,     \* rows of the manifest
  Kind,          \* what build_jobs_for_run finds out about each row
  MaxWorkers,    \* corpus_runs.max_workers
  MaxActive,     \* slots of the ActiveContainerCounter
  MaxAttempts,   \* corpus_runs.max_attempts
  ErrorClasses,  \* error classes a returned ERROR verdict may carry
  Concurrent,    \* may `resume` start while another driver is alive?
  MaxCrashes,    \* bound: driver crashes
  MaxBusy        \* bound: writes that fail with "database is locked"

Repos    == 1..RepoCount
Kinds    == {"sha_error", "no_adapter", "unsupported_scenario", "runnable"}
Verdicts == {"PASS", "FAIL", "UNKNOWN", "UNSUPPORTED", "ERROR"}

\* SQL NULL, and the empty error class.
Null == "null"

RetryableErrorClasses == {"CONTAINER_START_ERROR", "TIMEOUT"}
AllErrorClasses ==
  ErrorClasses \cup {"", "SHA_RESOLUTION_ERROR", "SKIPPED_UNSUPPORTED_SCENARIO",
                     "CONTAINER_START_ERROR", "INTERNAL_SCHEDULER_ERROR"}

ASSUME RunAssumption ==
  /\ Creator \in Drivers
  /\ RepoCount \in Nat
  /\ Kind \in [Repos -> Kinds]
  /\ MaxWorkers \in Nat \ {0}
  /\ MaxActive \in Nat
  /\ MaxAttempts \in Nat \ {0}
  /\ Concurrent \in BOOLEAN
  /\ MaxCrashes \in Nat
  /\ MaxBusy \in Nat

VARIABLES
  runStatus,   \* corpus_runs.status
  totalJobs,   \* corpus_runs.total_jobs
  counters,    \* the seven aggregate counters of corpus_runs
  jobs,        \* evaluation_jobs, one row per manifest row
  evaluation,  \* requirement_evaluations.compliance_status per job
  attempts,    \* evaluation_attempts: per job, per attempt_number
  phase,       \* where each driver's main thread is
  cursor,      \* the manifest row a building driver is at
  slots,       \* _SemaphoreLike._n of each driver's counter
  pc,          \* where each driver's worker thread for a job is
  tries,       \* `attempt` of that thread
  outcome,     \* (last_status, last_err_class) of that thread
  crashes,     \* crashes left
  busy         \* failing writes left

dbVars     == <<runStatus, totalJobs, counters, jobs, evaluation, attempts>>
threadVars == <<slots, pc, tries, outcome>>
faultVars  == <<crashes, busy>>
vars == <<dbVars, phase, cursor, threadVars, faultVars>>

JobStatuses ==
  {"absent", "pending", "running", "completed", "skipped_unsupported_scenario"}
Buckets == Verdicts \cup {"SKIPPED", "COMPLETED"}

JobRow == [status       : JobStatuses,
           verdict      : Verdicts \cup {Null},
           errorClass   : AllErrorClasses,
           missing      : {Null, "compatible_execution_recipe"},
           attemptCount : Nat]

\* An attempt row is absent, open (completed_at IS NULL) or closed with its
\* result_status.
AttemptStates == {"absent", "open"} \cup Verdicts

Stopped == {"ended", "failed", "crashed"}
Phases  == {"idle", "find", "insert", "skip", "count", "seal", "launch",
            "list", "pool", "recount", "complete"} \cup Stopped

\* Threads that occupy a worker of the pool.
Working  == {"admit", "refuse", "close_refused", "mark", "insert", "execute",
             "terminalize"}
Finished == {"none", "done", "dead"}
PCs      == Working \cup {"none", "queued", "done", "dead"}

NoOutcome == [verdict |-> Null, errorClass |-> ""]
Outcomes  == [verdict : Verdicts \cup {Null}, errorClass : AllErrorClasses]

TypeOK ==
  /\ runStatus \in {"pending", "running", "completed"}
  /\ totalJobs \in Nat
  /\ counters \in [Buckets -> Nat]
  /\ jobs \in [Repos -> JobRow]
  /\ evaluation \in [Repos -> Verdicts \cup {Null}]
  /\ attempts \in [Repos -> [1..MaxAttempts -> AttemptStates]]
  /\ phase \in [Drivers -> Phases]
  /\ cursor \in [Drivers -> 1..RepoCount + 1]
  /\ slots \in [Drivers -> Int]
  /\ pc \in [Drivers -> [Repos -> PCs]]
  /\ tries \in [Drivers -> [Repos -> 0..MaxAttempts]]
  /\ outcome \in [Drivers -> [Repos -> Outcomes]]
  /\ crashes \in 0..MaxCrashes
  /\ busy \in 0..MaxBusy

Init ==
  /\ runStatus = "pending"
  /\ totalJobs = 0
  /\ counters = [b \in Buckets |-> 0]
  /\ jobs = [r \in Repos |-> [status |-> "absent", verdict |-> Null,
                              errorClass |-> "", missing |-> Null,
                              attemptCount |-> 0]]
  /\ evaluation = [r \in Repos |-> Null]
  /\ attempts = [r \in Repos |-> [n \in 1..MaxAttempts |-> "absent"]]
  /\ phase = [d \in Drivers |-> IF d = Creator THEN "find" ELSE "idle"]
  /\ cursor = [d \in Drivers |-> 1]
  /\ slots = [d \in Drivers |-> MaxActive]
  /\ pc = [d \in Drivers |-> [r \in Repos |-> "none"]]
  /\ tries = [d \in Drivers |-> [r \in Repos |-> 0]]
  /\ outcome = [d \in Drivers |-> [r \in Repos |-> NoOutcome]]
  /\ crashes = MaxCrashes
  /\ busy = MaxBusy

-----------------------------------------------------------------------------
(***************************************************************************)
(* The main thread of a driver.                                            *)
(***************************************************************************)

MoveTo(d, from, to) ==
  /\ phase[d] = from
  /\ phase' = [phase EXCEPT ![d] = to]

\* The process is gone, and with it its pool and its counter.
StopIn(d, last) ==
  /\ phase'   = [phase EXCEPT ![d] = last]
  /\ slots'   = [slots EXCEPT ![d] = MaxActive]
  /\ pc'      = [pc EXCEPT ![d] = [r \in Repos |-> "none"]]
  /\ tries'   = [tries EXCEPT ![d] = [r \in Repos |-> 0]]
  /\ outcome' = [outcome EXCEPT ![d] = [r \in Repos |-> NoOutcome]]

\* cmd_resume: refuse a completed run, else rebuild the jobs and run.
Resume(d) ==
  /\ phase[d] = "idle"
  /\ Concurrent \/ \A e \in Drivers : phase[e] \in Stopped \cup {"idle"}
  /\ phase' = [phase EXCEPT ![d] = IF runStatus = "completed"
                                   THEN "ended" ELSE "find"]
  /\ UNCHANGED <<dbVars, cursor, threadVars, faultVars>>

\* find_job_for_repo
NotLookedUp(r) == FALSE          \* defect: the look-up of v1.1.0, which had none
JobExists(r) == jobs[r].status # "absent"

\* build_jobs_for_run, per manifest row: look the job up first ...
FindJob(d) ==
  LET r == cursor[d] IN
  /\ phase[d] = "find"
  /\ r \in Repos
  /\ IF ~JobExists(r)
     THEN /\ phase' = [phase EXCEPT ![d] = "insert"]
          /\ UNCHANGED cursor
     ELSE /\ cursor' = [cursor EXCEPT ![d] = r + 1]
          /\ UNCHANGED phase
  /\ UNCHANGED <<dbVars, threadVars, faultVars>>

NewJob(k) ==
  [status       |-> IF k = "sha_error" THEN "completed" ELSE "pending",
   verdict      |-> Null,
   errorClass   |-> IF k = "sha_error" THEN "SHA_RESOLUTION_ERROR" ELSE "",
   missing      |-> Null,
   attemptCount |-> 0]

\* ... then insert it; the unique index raises IntegrityError when another
\* driver inserted it in between.
InsertJob(d) ==
  LET r == cursor[d] IN
  /\ phase[d] = "insert"
  /\ IF jobs[r].status # "absent"
     THEN /\ phase' = [phase EXCEPT ![d] = "failed"]
          /\ UNCHANGED <<jobs, cursor>>
     ELSE /\ jobs' = [jobs EXCEPT ![r] = NewJob(Kind[r])]
          /\ IF Kind[r] \in {"sha_error", "unsupported_scenario"}
             THEN /\ phase' = [phase EXCEPT ![d] =
                        IF Kind[r] = "sha_error" THEN "count" ELSE "skip"]
                  /\ UNCHANGED cursor
             ELSE /\ phase' = [phase EXCEPT ![d] = "find"]
                  /\ cursor' = [cursor EXCEPT ![d] = r + 1]
  /\ UNCHANGED <<runStatus, totalJobs, counters, evaluation, attempts,
                 threadVars, faultVars>>

\* update_evaluation_job_skipped
SkipJob(d) ==
  LET r == cursor[d] IN
  /\ MoveTo(d, "skip", "count")
  /\ jobs' = [jobs EXCEPT ![r].status = "skipped_unsupported_scenario",
                          ![r].errorClass = "SKIPPED_UNSUPPORTED_SCENARIO"]
  /\ UNCHANGED <<runStatus, totalJobs, counters, evaluation, attempts, cursor,
                 threadVars, faultVars>>

\* increment_corpus_run_counters, in the two ways build_jobs_for_run calls it
CountJob(d) ==
  LET r      == cursor[d]
      bucket == IF Kind[r] = "sha_error" THEN "ERROR" ELSE "SKIPPED"
  IN
  /\ MoveTo(d, "count", "find")
  /\ counters' = [counters EXCEPT !["COMPLETED"] = @ + 1, ![bucket] = @ + 1]
  /\ cursor' = [cursor EXCEPT ![d] = r + 1]
  /\ UNCHANGED <<runStatus, totalJobs, jobs, evaluation, attempts,
                 threadVars, faultVars>>

\* The end of build_jobs_for_run.
SealJobs(d) ==
  /\ cursor[d] = RepoCount + 1
  /\ MoveTo(d, "find", "launch")
  /\ runStatus' = "pending"
  /\ totalJobs' = RepoCount
  /\ UNCHANGED <<counters, jobs, evaluation, attempts, cursor, threadVars,
                 faultVars>>

\* run_corpus_run: mark the run, list its pending jobs, submit them.
Launch(d) ==
  /\ MoveTo(d, "launch", "list")
  /\ runStatus' = "running"
  /\ UNCHANGED <<totalJobs, counters, jobs, evaluation, attempts, cursor,
                 threadVars, faultVars>>

UndecidedJob(r)     == jobs[r].verdict = Null             \* defect: drives SHA errors
InterruptedToo(r)   == jobs[r].status \in {"pending", "running"}   \* defect: naive resume
Drivable(r) == jobs[r].status = "pending"

\* defect: marks the jobs running when they are submitted
MarkWhenSubmitted(d) ==
  LET queued == {r \in Repos : Drivable(r)} IN
  /\ MoveTo(d, "list", "pool")
  /\ pc' = [pc EXCEPT ![d] = [r \in Repos |->
                                IF r \in queued THEN "queued" ELSE "none"]]
  /\ jobs' = [r \in Repos |-> IF r \in queued
                              THEN [jobs[r] EXCEPT !.status = "running"]
                              ELSE jobs[r]]
  /\ UNCHANGED <<runStatus, totalJobs, counters, evaluation, attempts, cursor,
                 slots, tries, outcome, faultVars>>

ListPending(d) ==
  /\ MoveTo(d, "list", "pool")
  /\ pc' = [pc EXCEPT ![d] = [r \in Repos |->
                                IF Drivable(r) THEN "queued" ELSE "none"]]
  /\ UNCHANGED <<dbVars, cursor, slots, tries, outcome, faultVars>>

\* Every future is done.  An exception of one of them is raised here, after
\* the pool has drained, and ends the process.
JoinPool(d) ==
  /\ phase[d] = "pool"
  /\ \A r \in Repos : pc[d][r] \in Finished
  /\ IF \E r \in Repos : pc[d][r] = "dead"
     THEN StopIn(d, "failed")
     ELSE StopIn(d, "recount")
  /\ UNCHANGED <<dbVars, cursor, faultVars>>

InBucket(job, b) ==
  CASE b = "COMPLETED" -> job.status \in
                            {"completed", "skipped_unsupported_scenario"}
    [] b = "SKIPPED"   -> job.status = "skipped_unsupported_scenario"
    [] b = "ERROR"     -> \/ job.verdict = "ERROR"
                          \/ job.verdict = Null /\ job.status = "completed"
    [] OTHER           -> job.verdict = b

Tally == [b \in Buckets |-> Cardinality({r \in Repos : InBucket(jobs[r], b)})]

\* defect: completes on the counters accumulated so far
KeepCounters(d) ==
  /\ MoveTo(d, "recount", "complete")
  /\ UNCHANGED <<dbVars, cursor, threadVars, faultVars>>

\* set_corpus_run_counters_from_jobs
Recount(d) ==
  /\ MoveTo(d, "recount", "complete")
  /\ counters' = Tally
  /\ UNCHANGED <<runStatus, totalJobs, jobs, evaluation, attempts, cursor,
                 threadVars, faultVars>>

CompleteRun(d) ==
  /\ MoveTo(d, "complete", "ended")
  /\ runStatus' = "completed"
  /\ UNCHANGED <<totalJobs, counters, jobs, evaluation, attempts, cursor,
                 threadVars, faultVars>>

-----------------------------------------------------------------------------
(***************************************************************************)
(* A worker thread: _process_one_job_thread for job r in driver d.         *)
(***************************************************************************)

Step(d, r, from, to) ==
  /\ pc[d][r] = from
  /\ pc' = [pc EXCEPT ![d][r] = to]

TakeSlot(d)    == slots' = [slots EXCEPT ![d] = @ - 1]
KeepSlot(d)    == UNCHANGED slots                       \* defect: no finally
ReleaseSlot(d) == slots' = [slots EXCEPT ![d] = @ + 1]

PoolHasRoom(d) ==
  Cardinality({q \in Repos : pc[d][q] \in Working}) < MaxWorkers

\* The pool starts the submitted jobs in order, MaxWorkers at a time.
StartThread(d, r) ==
  /\ phase[d] = "pool"
  /\ \A q \in Repos : pc[d][q] = "queued" => r <= q
  /\ PoolHasRoom(d)
  /\ Step(d, r, "queued", "admit")
  /\ UNCHANGED <<dbVars, phase, cursor, slots, tries, outcome, faultVars>>

\* attempt += 1; counter.acquire()
Admit(d, r) ==
  /\ Step(d, r, "admit", IF slots[d] > 0 THEN "mark" ELSE "refuse")
  /\ tries' = [tries EXCEPT ![d][r] = @ + 1]
  /\ IF slots[d] > 0 THEN TakeSlot(d) ELSE UNCHANGED slots
  /\ UNCHANGED <<dbVars, phase, cursor, outcome, faultVars>>

\* insert_evaluation_attempt under the unique index (job, attempt_number):
\* an insert that collides raises, and the thread dies.
NoUniqueIndex(r, n) == FALSE                              \* defect: index dropped
Exists(r, n) == attempts[r][n] # "absent"

\* The slot was refused: an attempt row records it ...
RefuseSlot(d, r) ==
  LET n == tries[d][r] IN
  /\ pc[d][r] = "refuse"
  /\ IF Exists(r, n)
     THEN /\ Step(d, r, "refuse", "dead")
          /\ UNCHANGED attempts
     ELSE /\ Step(d, r, "refuse", "close_refused")
          /\ attempts' = [attempts EXCEPT ![r][n] = "open"]
  /\ UNCHANGED <<runStatus, totalJobs, counters, jobs, evaluation, phase,
                 cursor, slots, tries, outcome, faultVars>>

AnyAttempt(r, n) == Exists(r, n)                          \* defect: no ORDER BY/LIMIT
IsLatest(r, n) == Exists(r, n) /\ \A m \in 1..MaxAttempts : Exists(r, m) => m <= n

\* ... is closed as the job's latest attempt, and release() gives back a slot
\* that was never taken.  The loop is left: no retry.
CloseRefused(d, r) ==
  /\ Step(d, r, "close_refused", "terminalize")
  /\ attempts' = [attempts EXCEPT ![r] = [n \in 1..MaxAttempts |->
                    IF IsLatest(r, n) THEN "ERROR" ELSE attempts[r][n]]]
  /\ outcome' = [outcome EXCEPT ![d][r] =
                    [verdict |-> "ERROR", errorClass |-> "CONTAINER_START_ERROR"]]
  /\ ReleaseSlot(d)
  /\ UNCHANGED <<runStatus, totalJobs, counters, jobs, evaluation, phase,
                 cursor, tries, faultVars>>

\* update_evaluation_job_running: no guard on the row's present status.
MarkRunning(d, r) ==
  /\ Step(d, r, "mark", "insert")
  /\ jobs' = [jobs EXCEPT ![r].status = "running", ![r].attemptCount = @ + 1]
  /\ UNCHANGED <<runStatus, totalJobs, counters, evaluation, attempts, phase,
                 cursor, slots, tries, outcome, faultVars>>

\* _execute_one_attempt starts by inserting its row, outside its try block;
\* the caller's finally still releases the slot.
InsertAttempt(d, r) ==
  LET n == tries[d][r] IN
  /\ pc[d][r] = "insert"
  /\ IF Exists(r, n)
     THEN /\ Step(d, r, "insert", "dead")
          /\ ReleaseSlot(d)
          /\ UNCHANGED attempts
     ELSE /\ Step(d, r, "insert", "execute")
          /\ attempts' = [attempts EXCEPT ![r][n] = "open"]
          /\ UNCHANGED slots
  /\ UNCHANGED <<runStatus, totalJobs, counters, jobs, evaluation, phase,
                 cursor, tries, outcome, faultVars>>

\* What an attempt of a job may return, and whether its row is closed then:
\* an attempt that runs to its end returns without closing its row; whatever
\* raises inside it becomes an INTERNAL_SCHEDULER_ERROR.
Returned(v, c) == [verdict |-> v, errorClass |-> c, closes |-> FALSE]
Closed(v, c)   == [verdict |-> v, errorClass |-> c, closes |-> TRUE]

AttemptResults(k) ==
  {Closed("ERROR", "INTERNAL_SCHEDULER_ERROR")} \cup
  IF k = "no_adapter"
  THEN {Closed("UNSUPPORTED", "")}
  ELSE {Returned(v, "") : v \in {"PASS", "FAIL", "UNKNOWN"}}
         \cup {Returned("ERROR", c) : c \in ErrorClasses}

\* Only an ERROR of a retryable class with attempts left goes round again.
StopsEarly(res, n) ==                                     \* defect: off by one
  /\ res.verdict = "ERROR"
  /\ res.errorClass \in RetryableErrorClasses
  /\ n + 1 < MaxAttempts
MayRetry(res, n) ==
  /\ res.verdict = "ERROR"
  /\ res.errorClass \in RetryableErrorClasses
  /\ n < MaxAttempts

\* The attempt ends, the slot is released, and the loop decides.
Execute(d, r) ==
  /\ pc[d][r] = "execute"
  /\ \E res \in AttemptResults(Kind[r]) :
    LET n == tries[d][r] IN
    /\ Step(d, r, "execute", IF MayRetry(res, n) THEN "admit" ELSE "terminalize")
    /\ outcome' = [outcome EXCEPT ![d][r] =
                     [verdict |-> res.verdict, errorClass |-> res.errorClass]]
    /\ attempts' = IF res.closes
                   THEN [attempts EXCEPT ![r][n] = res.verdict] ELSE attempts
    /\ ReleaseSlot(d)
    /\ UNCHANGED <<runStatus, totalJobs, counters, jobs, evaluation, phase,
                   cursor, tries, faultVars>>

\* The WHERE clause of terminalize_job's guarded UPDATE.
MayDecide(r, v) ==
  \/ jobs[r].status # "completed"
  \/ jobs[r].verdict \in {Null, v}

\* terminalize_job: the job row, the requirement_evaluations row and the
\* capability stamp in one transaction.  A conflicting verdict is offered once
\* more as an ERROR; when that conflicts too the exception kills the thread.
Terminalize(d, r) ==
  LET mine     == outcome[d][r]
      conflict == [verdict |-> "ERROR", errorClass |-> "INTERNAL_SCHEDULER_ERROR"]
      final    == IF MayDecide(r, mine.verdict) THEN mine ELSE conflict
  IN
  /\ pc[d][r] = "terminalize"
  /\ IF MayDecide(r, final.verdict)
     THEN /\ Step(d, r, "terminalize", "done")
          /\ jobs' = [jobs EXCEPT
               ![r].status     = "completed",
               ![r].verdict    = final.verdict,
               ![r].errorClass = final.errorClass,
               ![r].missing    = IF final.verdict = "UNSUPPORTED"
                                 THEN "compatible_execution_recipe" ELSE Null]
          /\ evaluation' = [evaluation EXCEPT ![r] = final.verdict]
     ELSE /\ Step(d, r, "terminalize", "dead")
          /\ UNCHANGED <<jobs, evaluation>>
  /\ UNCHANGED <<runStatus, totalJobs, counters, attempts, phase, cursor,
                 slots, tries, outcome, faultVars>>

-----------------------------------------------------------------------------
(***************************************************************************)
(* Faults.                                                                 *)
(***************************************************************************)

\* A write of a worker thread raises OperationalError (database is locked)
\* and the thread dies.  The slot is released by the finally clause around
\* _execute_one_attempt, and by nothing while the job is being marked.
WriteFails(d, r) ==
  /\ busy > 0
  /\ busy' = busy - 1
  /\ pc[d][r] \in {"refuse", "close_refused", "mark", "insert", "execute",
                   "terminalize"}
  /\ pc' = [pc EXCEPT ![d][r] = "dead"]
  /\ IF pc[d][r] \in {"insert", "execute"} THEN ReleaseSlot(d)
     ELSE UNCHANGED slots
  /\ UNCHANGED <<dbVars, phase, cursor, tries, outcome, crashes>>

\* The process is killed, or its main thread raises.
Crash(d) ==
  /\ crashes > 0
  /\ crashes' = crashes - 1
  /\ phase[d] \notin Stopped \cup {"idle"}
  /\ StopIn(d, "crashed")
  /\ UNCHANGED <<dbVars, cursor, busy>>

\* Every invocation has returned: the run is left as it is.
AllStopped ==
  /\ \A d \in Drivers : phase[d] \in Stopped
  /\ UNCHANGED vars

-----------------------------------------------------------------------------
MainStep(d) ==
  \/ FindJob(d) \/ InsertJob(d) \/ SkipJob(d) \/ CountJob(d) \/ SealJobs(d)
  \/ Launch(d) \/ ListPending(d) \/ JoinPool(d) \/ Recount(d) \/ CompleteRun(d)

ThreadStep(d, r) ==
  \/ StartThread(d, r) \/ Admit(d, r) \/ RefuseSlot(d, r) \/ CloseRefused(d, r)
  \/ MarkRunning(d, r) \/ InsertAttempt(d, r) \/ Execute(d, r)
  \/ Terminalize(d, r)

Next ==
  \/ \E d \in Drivers : Resume(d)
  \/ \E d \in Drivers : MainStep(d)
  \/ \E d \in Drivers, r \in Repos : ThreadStep(d, r)
  \/ \E d \in Drivers, r \in Repos : WriteFails(d, r)
  \/ \E d \in Drivers : Crash(d)
  \/ AllStopped

Spec == Init /\ [][Next]_vars

\* The threads of a live process are scheduled, and somebody resumes a run
\* that has not completed; nothing makes a crash or a failing write happen.
Fairness ==
  /\ \A d \in Drivers : WF_vars(Resume(d)) /\ WF_vars(MainStep(d))
  /\ \A d \in Drivers, r \in Repos : WF_vars(ThreadStep(d, r))

FairSpec == Spec /\ Fairness

-----------------------------------------------------------------------------
(***************************************************************************)
(* Properties.                                                             *)
(***************************************************************************)

Terminal(r)  == jobs[r].status \in {"completed", "skipped_unsupported_scenario"}
Interrupted  == {r \in Repos : ~Terminal(r)}

\* A verdict is recorded at most once per job, whatever drivers, retries,
\* refusals and crashes do (TerminalizationConflict's "no silent overwrite").
Register == INSTANCE VerdictRegister WITH
  Jobs <- Repos, Undecided <- Null,
  verdict <- [r \in Repos |-> jobs[r].verdict]
VerdictDecidedOnce == Register!Spec

\* The unique (job, attempt_number) index keeps two drivers from executing the
\* same evaluation: only one of them ever gets past its first insert.
OneExecutorPerJob ==
  \A r \in Repos : \A d, e \in Drivers :
    /\ pc[d][r] \in {"execute", "terminalize"}
    /\ pc[e][r] \in {"execute", "terminalize"}
    => d = e

\* terminalize_job never meets a row decided by somebody else, so the branch
\* that handles TerminalizationConflict is unreachable.
NoTerminalizationConflict ==
  \A d \in Drivers, r \in Repos :
    pc[d][r] = "terminalize" => MayDecide(r, outcome[d][r].verdict)

\* A recorded verdict is backed by the job's newest attempt row, which is
\* still open or closed with that very verdict; its requirement_evaluations
\* row agrees; and every older attempt is an unfinished or failed one.
VerdictBackedByAttempt ==
  \A r \in Repos : jobs[r].verdict # Null =>
    /\ evaluation[r] = jobs[r].verdict
    /\ jobs[r].missing # Null <=> jobs[r].verdict = "UNSUPPORTED"
    /\ \E n \in 1..MaxAttempts :
         /\ attempts[r][n] \in {"open", jobs[r].verdict}
         /\ \A m \in 1..MaxAttempts : m > n => attempts[r][m] = "absent"
         /\ \A m \in 1..n-1 : attempts[r][m] \in {"open", "ERROR"}

\* Attempt history is append-only and gapless: no row is deleted, only the newest
\* of a job ever changes, it is opened before it is closed, and a closed row is
\* final.
AppendOnly ==
  \A r \in Repos, n \in 1..MaxAttempts :
    attempts'[r][n] # attempts[r][n] =>
      /\ attempts'[r][n] # "absent"
      /\ attempts'[r][n] = "open" <=> attempts[r][n] = "absent"
      /\ attempts[r][n] \in {"absent", "open"}
      /\ n > 1 => Exists(r, n - 1)
      /\ \A m \in 1..MaxAttempts : m > n => ~Exists(r, m)
AttemptHistory == [][AppendOnly]_attempts

\* A crash strands at most the jobs its worker threads held, a failing write
\* at most one: nothing else is left out of a completed run, and without a fault
\* nothing is.
StrandedJobsBounded ==
  runStatus = "completed" =>
    Cardinality(Interrupted) <=
      (MaxCrashes - crashes) * MaxWorkers + (MaxBusy - busy)

\* A completed run reports exactly its rows: the counters equal a recount, and
\* the six outcome buckets add up to completed_jobs.
CountersReportRows ==
  runStatus = "completed" =>
    /\ counters = Tally
    /\ counters["COMPLETED"] =
         counters["PASS"] + counters["FAIL"] + counters["UNKNOWN"]
         + counters["UNSUPPORTED"] + counters["ERROR"] + counters["SKIPPED"]
    /\ totalJobs = RepoCount

\* With one driver at a time, a terminal job row is never written again: a
\* resume leaves finished work alone.
TerminalRowsFinal ==
  [][\A r \in Repos : Terminal(r) => jobs'[r] = jobs[r]]_jobs

\* With one driver at a time, a resumed run meets nothing an earlier driver
\* left behind on the unique indexes: neither over job rows, which would end
\* build_jobs_for_run, nor over attempt rows, which would end a thread.
ResumeNeverCollides ==
  busy = MaxBusy =>
    \A d \in Drivers : /\ phase[d] # "failed"
                       /\ \A r \in Repos : pc[d][r] # "dead"

\* With one driver at a time, an unsupported scenario is executed only when
\* the driver that inserted its row died before it had skipped it: its insert
\* and its skip are two transactions, and a resume looks at neither again.
SkippedUnlessCutOff ==
  \A r \in Repos : Kind[r] = "unsupported_scenario" /\ Exists(r, 1) =>
    \E d \in Drivers : phase[d] = "crashed" /\ cursor[d] = r

\* The counter of a pool drifts from the number of threads that hold a slot
\* only by what its two leaks explain: up by one for each refused worker,
\* which releases what it never acquired, and down by one for each write that
\* failed between acquire and try.  (No attempt of an instance that checks
\* this returns the class of a refusal itself.)
SlotDriftBounded ==
  \A d \in Drivers :
    LET holding == {r \in Repos : pc[d][r] \in {"mark", "insert", "execute"}}
        refused == {r \in Repos :
                      outcome[d][r].errorClass = "CONTAINER_START_ERROR"}
        drift   == slots[d] + Cardinality(holding) - MaxActive
                     - Cardinality(refused)
    IN  drift \in -(MaxBusy - busy)..0

\* A job that ends with a retryable error has used all its attempts, whichever
\* drivers made them; a refused slot, which is retryable by its class, is the
\* one error that is final at once.
RetriesAreUsedUp ==
  \A r \in Repos :
    jobs[r].errorClass \in RetryableErrorClasses \ {"CONTAINER_START_ERROR"}
      => \A n \in 1..MaxAttempts : Exists(r, n)

\* A run that is resumed after a crash completes.
EventuallyCompleted == <>(runStatus = "completed")

-----------------------------------------------------------------------------
(***************************************************************************)
(* What the repository says of a run and its code does not do.             *)
(***************************************************************************)

\* "every job reaches terminal state after resume"
CompletedRunIsTerminal == runStatus = "completed" => \A r \in Repos : Terminal(r)

\* However many drivers run at once, a job has one executor, which meets nobody
\* else's verdict when it decides.
SoleExecutor == OneExecutorPerJob /\ NoTerminalizationConflict

\* A verdict is what the newest attempt of its job came to, after all the attempts
\* it was entitled to.
VerdictsAreEarned == VerdictBackedByAttempt /\ RetriesAreUsedUp

\* What `run` and `resume` say of a completed run is true of its rows, and leaves
\* out no more than the faults explain.
CompletedRunReport == StrandedJobsBounded /\ CountersReportRows
=============================================================================
