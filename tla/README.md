# Reguard in TLA+

A verification project for Reguard: TLA+ modules of the parts where interleavings,
crashes, partial failures and the order of rules decide what a compliance verdict is
worth, TLC runs over small instances of them, and theorems about them that TLAPS
checks for every instance.

Paths below are relative to the repository root; `corpus_runner/`, `pipeline/`,
`corpus/`, `cli/`, `integrations/` and `legal/` stand for directories of
`src/compliance/`, and `maintenance/` for `scripts/maintenance/`.

## 1. The system

Reguard answers one question about an agent framework: does it, at a given
commit, record its events automatically and durably (AI Act, Article 12(1))? A
**probe** installs the framework, drives its agent with a deterministic stimulus
and leaves a trajectory; the framework's **adapter** turns that into evidence; a
**requirement** turns the evidence into PASS, FAIL, UNKNOWN or ERROR. The
**pipeline driver** does this for one repository and stores the record. The
**corpus runner** does it for a frozen manifest of repositories, with worker
threads, retries, a cache of git mirrors and resumable runs. The manifest is
selected from a **registry** of repositories discovered on GitHub and classified by
rules. **`reguard check`** answers the same question for a target of one's own, in
the user's process. Apart from these, a **legal** part stores the text of laws,
divides articles into obligations, classifies each, and keeps a registry of
assessments that people review, and notes that show it.

    GitHub -> discover, refresh, reclassify -> agent_repositories <- seed, gold scripts
                                                    |
      create_corpus_run -> corpus_runs, corpus_run_repositories (frozen commits)
                                                    |
      run / resume -> evaluation_jobs -> worker threads -> evaluation_attempts
                            |                |
                            |   RepositoryMaterializer -> SourceCache (git mirrors, flock)
                            |                |
                            |   run_with_prepared_checkout -> run_probe -> adapter
                            |                |                  -> requirement
                            |   compliance_runtime_runs (unique dedup key)
                            |
                        requirement_evaluations, counters

      reguard.yml -> resolver -> recipe -> target's graph -> observer -> normalizer
                                                    -> requirement -> three artefacts

      EUR-Lex -> ingest -> laws, law_articles <- ingest_frameworks, classify_detection
                                  |
             article_runtime_pipeline -> assessments <- review
                                  |           |
                            note of the law   sync_article_notes -> notes of articles

### Inventory

| Component | State | Operations | What is hard | What makes it correct |
|---|---|---|---|---|
| Corpus run scheduler (`corpus_runner/executor.py`, `cli.py`) | run status, counters; a pool of threads, a counter of containers | `run`, `resume`; build jobs, admit, attempt, retry, terminalize, recount, complete | threads and drivers interleave at every commit; the process dies between two commits; `database is locked` | a verdict is decided once and earned by its attempts; a completed run reports exactly its rows; a resume loses and repeats nothing |
| Persistence (`corpus_runner/persistence.py`, `migrations/006`-`010`) | `corpus_runs`, `evaluation_jobs`, `evaluation_attempts`, `requirement_evaluations` | one connection and one commit per statement; `terminalize_job` is the only compound transaction | guarded and unguarded UPDATEs, unique indexes as locks | at most one terminal write per job |
| Run creation (`create_corpus_run`, `cli.py`, `sha_resolver.py`) | `corpus_runs`, manifest rows | select, insert the run, read its id, insert the manifest | the id is that of the newest run; rows are written one by one while the registry changes | a manifest belongs to one run, is whole, and holds what was pinned and vetted |
| Source cache, materializer (`corpus_runner/cache`, `materializer.py`) | mirror, metadata file, temporary file, lock file per entry | prepare, fetch, archive, mark used, `cache gc` | parts run without the lock; killed clones; collectors | a mirror is stable while read; leftovers are never taken for the commit |
| Workspaces (`workspace/manager.py`) | one directory per attempt | prepare, destroy | preparations that fail half way | no orphan |
| Pipeline driver (`pipeline/driver.py`, `persistence.py`, `migrations/005`) | `compliance_runtime_runs` | `run_one`, `run_with_prepared_checkout`, `run_path_mode` | look-up, probe and insert are separate; callers race | one record per key, and everybody returns it |
| Probe and evidence (`orchestrator.py`, `container_runner.py`) | work directory, artifacts directory | `run_probe`, `_find_trajectory`, `collect_evidence` | everything on the way fails or times out, and leaves files | a failure of the infrastructure is never a verdict on the framework |
| Adapters, requirements | none | `parse_trajectory`, `evaluate`, `assert_evidence` | five frameworks, half-written files | PASS only for a record the framework wrote |
| Container runtime (`src/runtime/`) | copy of the checkout, artifacts, result file | `exec`, `test`, `build`, `inspect` | commands that hang or fail half way; one budget shared by three commands, under a second timeout of the host | success means all of it ran; the exit status tells what the result file is; the runtime is done before the host's guard |
| Compliance CLI and integrations (`cli/`, `integrations/`) | reguard.yml; `result.json`, `evidence.json`, `summary.md` | `check`, `doctor`, `init` | the target runs in the checking process, may exit, raise or leave rows of an earlier run; artefacts are written one by one | PASS only for a trajectory the target names; artefacts are of one check; `doctor` agrees with `check` |
| Registry and discovery (`corpus/`, two scripts) | `agent_repositories`, `agent_repository_audits` | discover, refresh, reclassify, seed, gold | commands work on what they read before; names move between repositories on GitHub | a repository is found once; a classification is one answer of the rules; writers keep to their columns |
| Classifier (`corpus/classifier.py`) | none | `classify` | the order of a dozen rules over a dozen tables of patterns | an objection refuses, whatever else speaks for it |
| Legal store (`legal/`, two scripts) | `laws`, `law_articles`, recitals, annexes, chunks; the page on disk | ingest, load, classify detection methods | deleted rows whose keys SQLite gives again; cached and cut pages; one writer at a time | the stored law is one page; a verdict is about the text next to it |
| Legal text (`legal/parser.py`, `chunker.py`, `requirements/legal_text_parser.py`, `article_classifier.py`) | none | parse a page, chunk it, divide an article, classify an obligation | markers that open, close and absorb text | no text is lost or doubled; each obligation keeps its own key |
| Assessments (two scripts) | `article_runtime_assessments`; the note of a law, the notes of articles | assess, review, sync | notes are written before the commit, from torn reads, beside people | people's decisions and text stay; notes show the registry |

The hazards in `PROJECT.json` list, line by line, where this code is hard to test.

## 2. Modules

| Module | What it is |
|---|---|
| `VerdictRegister` | Abstract: a write-once value per key. Implemented by `CorpusRun` and by `ResultStore` |
| `CorpusRun`, `MCCorpusRun`, `CorpusRun_proofs` | One corpus run, any number of drivers |
| `SourceCache`, `MCSourceCache`, `SourceCache_proofs` | One cache entry, its attempts and collectors |
| `ResultStore`, `MCResultStore`, `ResultStore_proofs` | The records of one repository and commit, and the callers that share them |
| `Probe`, `Probe_proofs` | One probe, its evidence and its verdict |
| `Runtime`, `MCRuntime`, `Runtime_proofs` | One invocation of the container's runtime, below `Probe` |
| `Check`, `MCCheck`, `Check_proofs` | Invocations of the `reguard` command line on one checkout |
| `Classifier` | The rules of the classifier, as operators |
| `Registry` | The commands on the registry of repositories; extends `Classifier` |
| `RunCreation`, `MCRunCreation`, `RunCreation_proofs` | Creations of corpus runs beside those commands; extends `Registry` |
| `LegalText` | Parsing, chunking, division into obligations and classification, as operators |
| `LegalStore` | The stored law and its three writers; extends `LegalText` |
| `Assessments`, `MCLegal`, `Assessments_proofs` | Assessments, reviews and notes beside those writers; extends `LegalStore` |

Modules compose in three ways. `RunCreation` and `Assessments` run with the actions of
the modules they extend, interleaved. `CorpusRun` starts where `RunCreation` returns,
with a whole manifest; its attempts return what `Probe` decides and `ResultStore`
stores, and are prepared by `SourceCache`; `Runtime` is what `Probe` sees as an exit status
and a result file. `VerdictRegister` is implemented twice, by refinement.

### CorpusRun

A *driver* is one invocation of `run` or `resume`. Its main thread walks the
manifest (`FindJob`, `InsertJob`, `SkipJob`, `CountJob`, `SealJobs` are the
commits of `build_jobs_for_run`), starts the run (`Launch`), reads the pending
jobs once (`ListPending`), joins the pool (`JoinPool`), recounts and completes
(`Recount`, `CompleteRun`). A worker thread is the function
`_process_one_job_thread`, one action per commit: `Admit` (the semaphore),
`MarkRunning`, `InsertAttempt`, `Execute` (the attempt and the decision to retry),
`Terminalize` (the transaction of `terminalize_job`); `RefuseSlot` and
`CloseRefused` are its refused branch, including the release of a slot that was
never acquired. `WriteFails` is `database is locked` after the busy retries, and
kills the thread (or, in the main thread, the driver). `Crash` kills the process at
any point; the pool and the counter of containers go with it, the rows stay.

The variables are the tables (`jobs`, `attempts`, `evaluation`, `counters`,
`runStatus`, `totalJobs`) and the memory of each driver (`phase`, `cursor`, `slots`,
`pc`, `tries`, `outcome`). An attempt's outcome is a choice over what
`_execute_one_attempt` can return for that kind of row, with or without closing the
attempt row, as the code does on its error and success paths.

### SourceCache

`Start` to `PublishMark` are the steps of `RepositoryMaterializer.prepare` and of
the two look-ups in `materialize_checkout` it causes: whether the commit is there
is verified *without* the lock; the clone or fetch, and the archive, run under it;
the metadata is written through one temporary file, by `fetch` under the lock and
by `_mark_used` without it. `List`, `TryLock` and `Remove` are `gc_with_lock`. A
mirror is a record of whether it has a HEAD and a usable configuration and of the
commits in it; a process killed in a clone, or a collector killed in a removal,
leaves one of the broken states.

Two things go round the lock. `_lock` logs a flock that fails and goes on, so `Lock` may
take its caller into the critical section without it (`bare`). And a killed
process leaves the git command it was waiting for running (`orphan`): an
abandoned clone writes on in many steps beside whoever comes next (`OrphanClones`), an
abandoned fetch adds its commits when it is done (`OrphanFetches`). `Unguarded` says that
somebody may be at the mirror in one of these ways, and what git does then is a choice: a clone,
a fetch or an archive may fail, a removal may leave something. Whatever may fail on
the host has an outcome of its own: creating the workspace, which is not in the `try` of
`prepare` (`CreateWorkspace`), extracting (`Extract`), and the `chmod` that takes longer than a minute
(`Settle`). Metadata stamped with an error counts as fresh: it has no date to be old by.
`met` is a history variable: the attempts that were at work while another attempt, a command left running or
a collector with the lock was. It grows when an attempt starts and when a collector takes the lock.

### ResultStore

`Start`, `LookUp`, `Probe`, `Insert`, `Adopt` are the three entry points of
`driver.py`, told apart by `Mode`; `Link` is `_find_compliance_runtime_run_id`, the
look-up a corpus worker does afterwards. Records of one repository and commit differ
by `repository_id` (that of the row, or -1 in path mode for an unregistered
repository) and adapter version, so these two are the key. A record carries who
made it, so that no two probes are confused. The default database is used
throughout, as the driver does.

### Probe

`executor` and `adapter` are the parameters of the call. `Install`, `AgentEnds`,
`AgentFails` are the host's virtualenv or the container's command; `InstallFails`,
`Unsupported`, `Report` are the ways a container exits, with its result file or
without it; `Raise` is any exception of `run_probe`; `Locate` is `_find_trajectory` and the
copy; `Collect` and `Evaluate` are `collect_evidence` with the five
`parse_trajectory`, and the requirement. `Prepare` and `WriteBundle` make the work directory and the
evidence file; they are outside of the `except` of `_run_pipeline`, and if one fails
(`HostFails`) the call ends with an exception and without a record. A trajectory is one of nine contents, told
apart by what adapters do with them. Three variables (`agent`, `durable`,
`dropped`) are the truth about the framework's run; no action of the pipeline
reads them except the scan of the working directory, and the properties compare
the verdict with them. A file left by what ran has a suffix, a name and a place, since
the scan passes over suffixes that are not a recording's, the names of the
harness's own files and some directories.

### Runtime

What happens inside the container of a probe, which `Probe` sees only as an exit
status and a result file. `Detect` is `detect()` and the ways a command ends with
it (`Refusal`); `Copy` the copy of the checkout; `Run` and `TimeOut` end the command
that is running, with its result or because its share of the budget (`Budget`) is
used up, and `After` says which command follows. `Report`, `Publish` and `Exit` write
the result through a temporary file and choose the exit status; `OpenReport`,
`Rewrite` and `RewriteFails` are the error result of `main` for whatever was raised
(`Raise`), which is written in place. `Kill` is the engine, or the host's guard.
A repository is the set of signs detection looks for. Time is two counters:
`spent`, which the code computes from the records of its commands, and `clock`, which
also counts the copy and the killing. What the host relies on (`HostRun`: `exec`,
and `test --no-auto-setup` in a prepared image) is stated for those modes only.

### Check

`Start` to `Write` are one `reguard check`, in the order of `commands_check.py`: the
configuration is found and read (`Resolve`, with `Refuse` for the exits before a run), the
recipe runs dry, fails to load the graph, or invokes it (`DryRun`, `LoadFails`, `Invoke`;
`Flush` is what the target writes after it returned), the observer reads the trajectory the final
state names, or raises (`Observe`), the requirement judges the normalized evidence (`Judge`), and the
artefacts are written one after the other (`Write`, `Return`). `TargetExits`, `Raise` and
`Kill` end it in between, and leave the files it has written. `Edit` and
`CreateTemplate` (`reguard init`) write the configuration meanwhile, and `Doctor` reads it:
an answer "OK" is remembered with whether it was given `--config`, and whether it had a name for
the repository, without which `doctor` looks at nothing else.
A configuration is the set of tests of `_build_integration` it fails, with the few
values that steer the run; a trajectory is the rows it holds, as
`langgraph_state/observer.py` and the requirement tell them apart. The files an
earlier check left are state, since the target may name a trajectory of an
earlier run.

### Classifier, Registry, RunCreation

`Classify` is the decision procedure of `corpus/classifier.py`: `Objections` in the order of the
code, then `Reject` or `Accept` with a category, over the set of pattern tables a
repository's texts match (which pattern matches which text stays abstract). In
`Registry` a command is a record of its position and of what it holds in memory.
`discover` is `StartDiscover`, `Search`, `Known` (the look-up of a page's items), `InsertRow` or
`InsertFails`; `refresh` is `StartRefresh`, `Miss` or `Fetch`, `Store`; `reclassify` is
`StartReclassify`, `DryRun` or `WriteClass`; the gold script is `StartGold`, `CommitGold`;
`Seed` is one transaction. `Change` is GitHub: a repository appears, vanishes, is renamed or
described anew. `Finish` and `Kill` end a command. `RunCreation` adds `Select` (the
selection of `cmd_run`, over the rows of that moment), `InsertRun`, `Newest` (the
query for the newest id after it), `InsertManifest` row by row with `Refused` when a repository is
named twice, `ReturnRun`, and the kills. A row carries, as ghosts, the
metadata its verdict was given on, and a manifest row what its pin was.

### LegalText, LegalStore, Assessments

A page is a sequence of blocks, told apart by what the parsers do with them.
`ParseLaw` and `ChunkLaw` are `legal/parser.py` and `legal/chunker.py`; `ParseArticle`, `AtomicId` and
`ClassifyAtomic` are the division of an article, the key of an obligation and its class.
`LegalStore` has the writers: `ingest_one` with its page on disk (`StartIngest`,
`Download`, `StoreLaw`), the transaction of `ingest_frameworks`, and the batches of
`classify_detection_methods`. SQLite's single writer is `lock`; a key is one more than the
greatest in the table, so deleted keys come back. `IngestOther` is the same for another
law, of which only keys matter. `Assessments` adds `article_runtime_pipeline`
(`StartAssess`, `AssessArticle`, `CommitAssess`, `AssessLockedOut`), `Review` by a person,
`sync_article_notes` (`StartSync`, `ReadRegistry`, `WriteNote`), `Edit` of a note by a person,
and kills. The note of an article is the sequence of its parts: blocks between two markers, and
what a person wrote between blocks. A kill in its writing leaves any beginning of
it, with a block that lacks the marker of its end perhaps (`Broken`), and `Replaced` is
`_replace_or_append_block` on such notes too: it pairs the first start with the first end after
it, and appends where there is none. `torn` is a ghost for notes that a kill cut off, until a person
finds one whose blocks are whole. The note of the law has a block for each of its
sections; a kill leaves its first sections, the last without its block perhaps (`CutOff`).

Texts are told apart by their words. `Short` (less than 50 characters) and `Citation` (a reference to the Official
Journal and little else) are parameters, for what `ingest_frameworks` and
`classify_detection_methods --full` pass over.

## 3. Runs

Passing. A property that joins several statements is a conjunction of named parts, each
with its own comment in the module.

| Run | Instance | Shows |
|---|---|---|
| `resume` | 5 rows, one of every kind and a second runnable one, 2 workers, 2 slots, 2 attempts, one driver at a time, the first may crash | a completed run reports exactly its rows and leaves out at most what a crash took (`CompletedRunReport`); a resume collides with no row of its predecessor, rewrites no terminal row, and executes an unsupported scenario only if the skip was cut off; a run that is resumed completes |
| `concurrent` | 2 drivers at once, 2 runnable rows, 2 workers, **1** slot, retryable errors, a failing write, a crash | one thread executes or terminalizes a job, and `TerminalizationConflict` is unreachable (`SoleExecutor`); a verdict is what its newest attempt came to, after all the attempts it was entitled to (`VerdictsAreEarned`); attempt history is append-only; the container counter drifts only by its two leaks; the run implements `VerdictRegister` |
| `cache_shared` | 2 attempts that want different commits, one of which the remote lost and the extraction refuses, and a collector, one after the other or at once, on any initial entry; a kill, and a failure of git, flock or the host | while nobody is at the entry without its lock, one writer per mirror, and none while it is archived; a failed preparation leaves no workspace, and failed for a reason that has a culprit; an attempt that meets nobody is refused a good commit only by git or the host, whatever it finds; nobody waits for the lock for ever |
| `results` | 2 corpus workers on different adapter versions, a clone-mode and a path-mode caller, a repository that may be registered meanwhile, a kill, a failing insert | whoever returns a record returns the stored one, and links to it; it is written once; a rerun does not probe |
| `probe` | 5 frameworks, 3 executors, every failure | PASS and FAIL are about what the framework did; a durable record passes on every executor; every call is decided, unless the host's own directory or evidence file fails |
| `runtime` | 4 subcommands, 9 repositories (each strategy, some with signs of two), a budget of 720 s, commands of 0 to 360 s that fail, hang or end; exceptions and kills anywhere | an exit status tells what the result file is, and success means all that was to run ran; the shares of the budget end before the host's guard, and leave the probe its time; a hanging command does not hang the invocation |
| `check` | 2 checks one after the other, 4 configurations and the template, 4 argument sets, 7 targets, one edit, one exception or kill | PASS is given exactly to targets that left a record under the name of a trajectory; the target runs only where a verdict can be given and no provider key is visible; artefacts are whole and in order; a `doctor` that has a name calls ready what `check` finds |
| `registry` | 2 repositories, 2 names, 2 commands and 2 creations of which 3 are started, one change on GitHub, one failed write or kill | a repository is found once and not lost; a classification is one answer of the rules, and fresh after a reclassification; the gold batch is whole; a creation that overlaps no other returns its own, whole run, of what was pinned and vetted; writers keep to their columns |
| `legal` | 4 script starts out of 6 scripts, articles 5 and 12, 3 editions of the law, a challenge page or a cut one, a kill (in the middle of a note too) or a locked file, one review or edit | the stored law is one page, word for word, but for recitals that are passed over; a verdict is about the text next to it, unless the law was stored anew under the run; obligations are the text of their article, each with its own row; notes show the registry; nobody's decision is taken back, nor what is written in a note whose blocks are whole |

Violated, each a disagreement between the code and what the repository says of it:

| Run | Says | Does |
|---|---|---|
| `v_notes` | "Human-written content outside the markers is preserved" (`maintenance/sync_article_notes.py:308`) | after a kill has left a block without its end, one run appends a fresh block and the next replaces everything from the old start to the new end |
| `v_completed` | "every job reaches terminal state after resume" (`audit/corpus_runner_v1/cr2_20_repo_report.md:158`) | a resumed run lists only `pending` jobs, and completes with jobs that are still `running` |
| `v_review` | "status is preserved on re-run; we only flip to 'needs_review' if the classifier output CHANGED" (`maintenance/article_runtime_pipeline.py:136`) | the subquery that reads the old class compares columns of its own table with themselves, so it reads the first row of the table, and a confirmed row that did not change goes back to review |

The states of the passing runs are between 25,689 (`resume`) and 2,304,980 (`check`); none takes
more than three minutes on two workers.

### Bounds, and why they are enough

Two drivers, two workers and two attempts are the smallest instance in which a
driver meets another's rows, a thread another thread, and an attempt its
predecessor; a third of any would repeat one of these meetings. One slot for two
workers makes refusal possible, two of two make it impossible without a fault. One
crash and one failing write separate the damage of each; how damage adds up is
stated in terms of `MaxCrashes` and `MaxBusy`, and the theorems hold for any number. In `resume` the
manifest has a row of every kind `build_jobs_for_run` tells apart. In the cache,
entries share nothing, so one is enough; two concurrent attempts and one collector
make every pair of critical sections meet; what earlier attempts may have left is in the initial states, and
what either of the two leaves is found by the other. A collector by size may take any entry, so it does all
that one by age does. In `results` two versions and two ids make
all four keys. `Probe` has no bound at all: its instance is the whole system. In
`runtime` the durations lie on both sides of every share of 720 s (10 of the import of pytest,
240 of `exec`, 360 of `build` and `test`) and use it up exactly; the copy and a
killed process group take all that the host's 60 s leave them.

A check shares nothing with another but the files, so two, one after the other,
meet all that one leaves to the next; a configuration has one defect at most, since
each is fatal by itself. In `registry` two repositories and two names make a rename, a
swap and a name taken by another; three starts let any two programs overlap and
a third find what they left; includes and pins have every form that is treated
differently. In `legal` articles 5 and 12 are one that has obligations of every form and one that has a
second key; three editions make a page, its revision and a smaller one, whose keys
are taken again, with the number of a recital in a block of its own, a recital that is a citation
and one that is short; four starts are needed for a verdict to be made, deleted, replaced
and read, or for a note to be written, cut off, and synchronised twice.

The bounds that TLC needs are `MaxCrashes`, `MaxBusy`, `MaxFailures`, `MaxFaults` (faults),
`MaxAttempts` (the code's own), `MaxEdits`, `MaxChanges`, `MaxReviews` (what others do),
`MaxStarts` (commands started), `Cuts` (where a page is cut off), `Queries`, `MaxTotal`,
`Limit`, `RunLimit`, `BatchSize` (the commands' own options), and the sets of drivers, attempts, checks,
commands and callers.

### Fairness

Liveness is checked under weak fairness of what is really scheduled: the threads
of a live process, a user who resumes an interrupted run (`EventuallyCompleted`
promises nothing otherwise), attempts and collectors whose git commands have
timeouts (`materializer.py`, `source_cache.py`), and the steps of a pipeline whose
subprocesses have timeouts. Creating the virtualenv is the one step without a
timeout of its own. In `Runtime` the running command may hang for ever, and only
`TimeOut` is fair then. No fairness makes a crash, a failing write or a discovery happen.

`check`, `registry` and `legal` state none. Nothing in a check bounds the target's code, which runs
without a timeout; the commands on the registry and the scripts on the law are started by
hand, and no one of them waits for another.

`CHECK_DEADLOCK` is off in `registry`, `legal`, `v_review` and `v_notes`: when the bounded number of starts is used
up and every command has ended, nothing is left to do. Everywhere else it is on, and a
stopped system takes an explicit stuttering action (`AllStopped`, `AllEnded`, `Returned`,
`AllOver`, `Done`), so a state from which nothing else can go on would be reported.

## 4. Proofs

All are about `Spec`, without fairness, for arbitrary constants that satisfy the
named assumptions: `RunAssumption`, `CacheAssumption`, `StoreAssumption` (of `ResultStore`),
`ProbeAssumption`, `RuntimeAssumption`, `BudgetAssumption`, `CheckAssumption`,
`RegistryAssumption`, `CreationAssumption`, and `ShortAssumption`, `StoreAssumption`, `EditionsAssumption`,
`OpeningAssumption`, `AssessmentsAssumption` of the legal modules. TLC evaluates each in the runs of its module.
Type correctness is proved for each of these modules, and therefore in no run
but `legal`.

Three of these are about what EUR-Lex publishes, not about the code. `ShortAssumption`: a
text without a word is short. `EditionsAssumption`: an edition has no two articles of one number.
`OpeningAssumption`: of two pages of the law of which anything is stored, something goes by the same
key, be it a recital, an article or an annex. In fact the editions of a law all begin with recital 1, or, like the
Charter, which has no recitals, with article 1; how a page is divided into blocks does not matter. The
assumption is needed. `ingest_frameworks --no-replace` does not look
whether the law is stored; what keeps two editions from standing side by side is a
unique constraint, which refuses the second one (`session.commit()`
fails, and the whole transaction with it) as long as they share a key. It is stated for every
page there may be: one that was cut off, or the challenge page of the firewall, has nothing to store, or
opens like the others.

**CorpusRun_proofs.** The code has no lock on a job: `update_evaluation_job_running`
is unguarded and the pending list is stale. What protects a job is the unique
index on (job, attempt number): every thread starts at attempt 1, so only one ever
gets past its first insert. The row (job, 1) is therefore a token that is taken
once and never given back. `Inv` says that a job has one holder of this token
(`OwnerOK`), that the holder knows exactly which attempt rows exist (`HolderOK`, without
which a retry could collide), that rows have no gap (`AttemptsOK`), and that a
verdict implies a past holder. From it follow `SoleExecutor`, `AttemptHistory` and, step by
step, that the run implements `VerdictRegister` (`DecidedOnce`). `Earning` says in
addition what the rows of a holder look like (`RowsOK`) and what it has used up when
it is about to decide (`ReadyOK`); `VerdictsEarned` reads a decided row backwards through
it. With one driver at a time, `SeqInv` holds: only one driver is active (`Alone`), a row to
be skipped is still as it was inserted (`Skipping`), a working thread's job has not ended
(`AtWork`), and an unsupported row was skipped unless its driver was cut off
(`Unskipped`). `SkippedOrCutOff` and `TerminalFinal` follow.

**CorpusRun_proofs, second half,** counts. `SlotStep` says what any step does to the slots that are
free or held (`Accounted`), so that `SlotDrift` follows by adding up, provided that no
attempt reports the class of a refusal itself (then a refused thread cannot be told
from another). For `ReportIsTrue`, `Built` and `Driven` carry the fact
that no row is absent or pending from the manifest to the recount, `RunOver` keeps it in a
completed run, and `Decided` and `SixBuckets` make the six buckets a partition of the completed rows. A
job is stranded when it was begun and no thread owns it; `StrandInv` bounds the
stranded by the faults so far, because a thread never strands a job (`OwnerStays`), a
failing write strands its own, and a crash those of its pool, which are no more
than its workers (`PoolInv`). `NeverCollides` adds that until a write fails every pool has its
slots, every working thread owns its job, and only jobs without attempts are
pending (`FreshInv`): so nobody is refused and no thread dies.

**SourceCache_proofs.** `IInv` says that whoever fills, reads or removes a mirror
holds the lock or is known to have gone round it, and what a workspace holds after each step; `MirrorIsProtected` follows, because
a step that changes a mirror belongs to a holder, or to somebody `Unguarded` tells of. For `FailuresAreCleanAndCaused`, a
failure is traced back (`Explained`): an attempt that was refused a mirror or commit it
had verified knows a collector, a failed or abandoned clone, or a writer without the lock that took it (`Behind`, `Touched`, `Caused`), one
that lost the metadata file another attempt that published it (`FileThere`). For `OnlyGitOrHostFails`,
an attempt at work that has met nobody is alone with the entry (`Alone`), so a mirror that it has
verified stays (`Undisturbed`).

**ResultStore_proofs.** With distinct keys, the newest row of a key is its only row
(`NewestOfDistinct`), so a look-up does not depend on its ORDER BY and an insert
under a new key changes no other look-up (`AppendRow`). `IInv` keeps the keys
distinct, and says that a caller that adopts or returns has its key stored. From it,
with `Linked` for the look-up by a prefix of the key, `StoredRecordServes`; the second
implementation of `VerdictRegister`; and `RerunsServed`: once a key is stored, `Served` holds of every
caller that starts later, which is an action property of each step and needs no fairness.

**Probe_proofs.** `IInv` follows the chain from the probe's file to the verdict:
where a file came from (`Provenance`), which files a clean exit can leave
(`CleanExit`), that evidence is what `collect_evidence` makes of it. `DecidedByFile`
reads the chain backwards from a PASS or FAIL, and the theorems
follow by cases over the frameworks.

**Runtime_proofs.** A result depends on the whole path of an invocation, so `IInv`
keeps the path (`Path`: which commands ran when this one runs) and what it took
(`Time`: the probe starts with at most two thirds of the budget spent, and
everything else fits into the copy and the killing of the last command).
`ResultIsTrue` follows for any repository.
`BudgetIsKept` holds for any budget of at least 300 s, which
`orchestrator.py:690` guarantees, and rests on `BudgetAssumption`: copying and killing
take less than the 60 s between the two timeouts, and an adapter asks for a
run at most a third of its budget (a sixth or a fifth, in the adapters there are).
Neither is enforced by the code.

**Check_proofs.** `RunInv` says what a check holds at each place it can be at; with no overlap
(`Alone`) the files were written by this check from its place on (`FilesInv`), and the record
on disk is followed from the target that wrote it to the verdict (`RecordInv`: `FromTarget`
until it returns, `Stays` while nobody else runs, `HasBeenRead` after the observer). `DoctorInv` says that
what `doctor` found ready is still so until the next edit.

**RunCreation_proofs.** `ObjectionsRefuse` is about the classifier alone: with any
objection a repository is rejected, and an accepted one has an agent's category. The
registry's invariants are about commands that work on old readings: what a
command holds was in the table or on GitHub (`Gathered`), nobody else wrote to what an
undisturbed command read (`AloneIsAlone`, `Undisturbed`), and a manifest row
carries a verdict the classifier gave on its own reading (`Vetted`, `Sound`). The proof has one
lemma per writer of a table (`Writers`) and treats every other step as a bystander. For
`ReturnedManifestIsWhole`, a creation that overlapped no other has written exactly what it no
longer has to do (`WrittenSoFar`).

**Assessments_proofs.** These results are about sequences of any length: a page, the text of an
article, the rows of a registry. The induction theorems of the library cannot be used, since they
take a predicate, so the proofs use the least element of a set (`Least`, from the
well-foundedness of the order on the naturals) and derive induction over a *set* of numbers or sequences from it
(`Induction`, `SeqInduction`). The functions of `LegalText` recurse over positions; for each
it is shown once that the function its equation describes exists, and what its value is at each position.

From there come the theorems about data. `PageIsCarried`: the invariant of the parser's loop
says of each position what has been put into articles, recitals and annexes so far. `ArticleIsCarried`:
the same for the division of an article, with
`AtomicIdsDiffer`, that no two obligations get one id, although ids are made of
labels that may come twice. `UpsertedLines`: upserting the lines of an article
one after the other leaves a row for each and touches no other. `InOrder` is
treated by the rank of a row in its order.

The invariant is `StoreInv /\ AssessInv /\ SyncInv`. `StoreInv` says that what is stored is one page or
nothing, each row with its own key and a verdict about its own text (`OnePage`), and
what a classification run has still to do: its list is up to date, and contains all that has no verdict,
unless the law was stored anew under it (`RunFor`). `VerdictsHold` alone is not
inductive, because the verdict is written from the list. `AssessInv` says the same of a
transaction of the pipeline that is open (`Worked`): the rows it has made follow those of the
registry with statuses kept or sent to review (`Follows`), all that was assessed has its lines
(`AllWritten`), the note, which is written before the commit, shows the rows that
are not committed (`Shown`), and no section outside the run is touched (`SparesOthers`); at the
commit this becomes the statement about the registry. `SyncInv` says that each note written so far shows the rows
that were read, and that a note no kill has cut off is `Tidy`: each block once, with its end. In such a note a
replacement touches one part and leaves the others in their places (`ReplacedNote`, over
`PutBetween`), which is why a person's text stays; in one that was cut off it need not, which is `v_notes`. The five invariants of the run `legal` follow, and `PersonsWorkIsKept`
from the invariant before and after a step. TLC has checked the invariant on the states of `legal`
as well.

**Only model-checked.** The liveness properties (`EventuallyCompleted`, `EveryAttemptEnds`,
`EventuallyDecided`, `EventuallyOver`), which are beyond the prover. Every other property of a
passing run is stated by a theorem. The three runs that end in a violation show
behaviours, which need no proof.

## 5. Disagreements met and not run

The models show these as well, or would; no run of the present set checks them.

Corpus runs:

- A refused worker releases a slot it never acquired, so one container too many runs
  (`corpus_runner/executor.py:836`; "Respects max_active_containers", `:659`). A write that fails
  between `acquire` and `try` loses one (`:839`; "Should never happen", `:817`).
  `SlotDriftBounded` says how far both go. `ActiveContainerCounter` itself compares its count and
  then adds to it, without a lock (`:413`-`:423`); the model does either in one step.
- An unsupported scenario's job is inserted as pending and skipped in a second
  transaction (`executor.py:371`); after a crash in between, resume finds it pending
  and executes it (`tests/corpus/test_corpus_runner_v1.py:1090` says it is skipped).
- `update_evaluation_job_running` (`corpus_runner/persistence.py:330`) has no guard: a
  second driver turns a decided row into a running one with a verdict, although
  "there is no longer a hybrid pre-terminal / terminal state" (`:959`).
- SHA failures and skips become terminal outside `terminalize_job` and get no
  `requirement_evaluations` row (`executor.py:299`; `persistence.py:1366`); the skip path never
  stamps `missing_capability` (`persistence.py:365`; `migrations/010_corpus_runner_v1_1_schema.sql:19`).
- A refused slot is a retryable `CONTAINER_START_ERROR` that is never retried
  (`executor.py:837`; `errors.py:45`). A probe that times out is `PROBE_ERROR`
  (`errors.py:72`), so the class `TIMEOUT` never comes from a probe.
- Look-up and insert of a job are two transactions, so a second driver's insert
  can raise (`executor.py:348`; "never raises", `:247`).
- A successful attempt never sets `completed_at` (`executor.py:577`;
  `audit/corpus_runner_v1/ephemeral_execution_architecture.md:628` reads such rows as
  interrupted).
- Overlapping creations return each other's run, and write into it (`executor.py:163`); a
  repository named twice in `--include`, or a kill, leaves a partial manifest, although "the
  frozen run manifest is immutable thereafter" (`sha_resolver.py:14`). `ReturnedManifestIsWhole`
  is stated for creations that overlap no other. The last statement of a creation (`:217`) writes `pending` and
  no jobs again; for its own run these are the values there, but a creation that took the id of another
  run resets it, which may already be executed then. Execution is not in that module.
- A run evaluates what was accepted when it was selected (`cli.py:166`), whatever a refresh or a
  reclassification finds out before its manifest is written.
- `_load_pinned_shas` "Validates each SHA as 40 lowercase hex; raises ValueError" (`cli.py:167`) and does
  not look at them; a malformed one becomes a failed row later.

Cache and pipeline:

- "Two invocations against the same SHA must produce equivalent prepared workspaces"
  (`materializer.py:24`), but two unlocked writers share one temporary file
  (`source_cache.py:176`): the second `replace()` raises and its workspace is destroyed. A failing clone of
  another attempt can take the mirror away under a verification, and so can a flock that failed or a git
  command whose attempt was killed. `FailuresAreCleanAndCaused` names these culprits.
- "Two parallel jobs against the same cache_key serialise their fetch through a fcntl flock"
  (`source_cache.py:143`), but a flock that fails is logged (`:152`), and both fetch.
- `prepare` destroys the workspace when it fails "so it does not become an orphan" (`materializer.py:184`), but
  not when the creation of the workspace itself fails half way (`:170`).
- Left out of the model: that a metadata file cannot be written for want of space or rights. In `fetch` that is
  taken for a failed fetch, and a failure to stamp the error is passed over; `_mark_used` raises.
- The collector "re-evaluates" under the lock on the listing it took before
  (`materializer.py:294`, `:322`), so it may evict an entry that was just used; and one
  that gets the lock between verification and extraction turns an attempt into an
  ERROR ("eviction never affects compliance verdicts", `corpus_runner/cli.py:104`).
- `workspace gc` compares directory names, which are made of attempt ids, with job ids
  (`corpus_runner/cli.py:302`), although it "Never touches active workspaces" (`:127`).
- The row of a record is looked up "by the dedup key" (`executor.py:608`), in fact by a
  prefix of it, newest first: another caller's row may be linked.
- `scenario_id` of a job is not passed on: every probe runs the default scenario
  (`driver.py:64`), which is also the one in the dedup key. The key has neither
  `runtime_version` nor executor (`ephemeral_execution_architecture.md:556` says it has).
- A probe that "never wrote a trajectory" is "ERROR, never FAIL" (`requirements/base.py:64`), but
  the runtime's own result file may be taken for a trajectory (`container_runner.py:153`), and
  PocketFlow is failed without having run. A trajectory that is no JSON gives UNKNOWN, not
  ERROR (the adapters catch it). In the container, a file PocketFlow leaves is not seen:
  the probe's baseline is taken after the run (`orchestrator.py:358`) and the
  scan of the host looks at another directory. `AbsenceIsAbsence` is stated for the host only, and
  for files the scan does not pass over: "any *new* JSON / .log files" (`adapters/pocketflow.py:73`).
- `_run_pipeline` "always returns a fully populated RunRecord" (`driver.py:189`), but if the work
  directory cannot be made (`:204`) or the evidence file cannot be written (`:236`) the exception passes
  through it. `EventuallyDecided` says that nothing else does.
- `test` with auto-setup gives setup and installation half of the budget each, the
  installation of pytest another half, and the tests the rest, so it may take two and
  a half times `--timeout-seconds`, a "Hard timeout per mode" (`runtime/entrypoint.py:77`).
  The corpus never runs it so.
- `orchestrator.py:684` wants a heavy installation not to be "capped by the run budget",
  but `exec` caps it at a third of the sum (`runtime/commands/exec.py:131`), 240 s of the
  600 s the adapter asks for.
- Poetry is "detected but explicitly unsupported" (`runtime/detect.py:62`), yet
  installs run; Pipfile outranks pyproject.toml, against the order in the docstring.

Checks:

- `doctor` "Verifies: reguard.yml schema validity (if found); integration resolution" and "Exits 0 if everything
  checks out" (`cli/commands_doctor.py:3`-`:10`), but without a name for the repository it resolves nothing
  (`:54`), and a file that does not build is no issue for it (`:75`): it says OK, and `check` answers UNSUPPORTED.
  `DoctorOkMeansFound` is stated for what it does look at.

Registry:

- `reclassify` promises to update `relevance_confidence` (`corpus/pipeline.py:303`), but compares only
  status, category and reason (`:403`): a confidence that depends on the stars alone stays.
- A discovery that meets a taken name or number takes it for "a race against another writer"
  (`:204`), although a renamed repository is a different thing; it is then never in the table under its own number.
- `refresh` looks repositories up by name and never compares their number, so a row may
  take the metadata of another repository that has its name now. A name that is not found is not
  stamped (`:227`), so with a limit it is first again next time and keeps the others waiting.
- `max_total` is the "cap on rows inserted" (`:151`); it limits what is gathered, before known ones are
  taken out.
- The dates `seed_compliance_targets.py` writes (`:65`) are of a form the models do not read back.
- `_gold_repos` of `pipeline/__main__.py` names a column that the tables do not have.

Law:

- "We never silently drop text" (`requirements/legal_text_parser.py:25`): text before the first
  numbered paragraph is dropped. `ObligationsAreTheArticle` is stated from there on.
- Annexes are stored without their text (`legal/parser.py`), which `models.py:122` and
  `legal/chunker.py:91` call the full text.
- A page cut off, or the challenge page of a firewall, is kept on disk and used for ever after; one
  without articles empties the law.
- Deleted rows give their keys to others: a run of `classify_detection_methods` that was overtaken writes
  its verdict to another article, or ends on a row that is gone. A question the model does not
  answer is stored as an answer (`classify_detection_methods.py:126`) and never asked again; `--full`
  ignores `--dry-run` (`:755`).
- The verdict of such an overtaken run is outside of `VerdictsHold`, which is about what the others write.
  `--full` means "ALL unclassified items" and "skips items with content shorter than min_content_chars"
  (`classify_detection_methods.py:359`, `:362`): short ones are never classified.
- `ingest_frameworks` stores no recital of less than 50 characters and none that is mostly a reference
  (`:170`-`:176`); the page of the law is then stored but for these, and a later recital of the same number
  takes the place of the one passed over.
- `ingest_one` stores an article under `12` where `ingest_frameworks` stores `12(a)`, so assessments have two keys;
  the chunks stay those of the other page; `--no-replace` on a law that is stored loses the
  whole run; the short name it writes (`ingest_frameworks.py:198`) is no longer that of the
  note, which is then not found.
- `ingest_frameworks` and `classify_detection_methods` take `scripts/` for the root (`:26`, `:24`), and
  `article_runtime_pipeline.py:40` imports modules from `src/` that are in
  `src/compliance/requirements/`: as they are placed, they do not find their files. The models say what they
  do once they are found.
- The note of the law is written before its rows are committed (`article_runtime_pipeline.py:393`), so a
  run that is killed or refused leaves a note that shows what is not stored. If the kill cuts a block of it
  off, the next run writes another into the section and the run after that replaces both, with what is
  between them, as in the notes of articles (`v_notes`); the model follows only the blocks there that have their end. A
  new title makes a second note beside the old one. Rows of articles that are
  gone stay. `--celex` (`:421`) chooses the note only; the articles are those of the AI Act.

## 6. Not modelled

- **Workspace and cache leftovers**: `workspace gc`, the unlocked legacy `gc()` of the cache, which
  nothing calls, and `capture_artifact`, which copies a file.
- **Persistence helpers** that no caller in `src/` uses any more, and readers
  (`load_*`, `list_*`, `validate_terminal_state`).
- **Loaders of frameworks that are not EU law** (`legal/framework_loader.py`), one reader per file format, and
  the catalogues and scenarios, which are data; `legal` search.
- **Built-in integration manifests and legacy adapters**: no command passes them to the resolver.
- **The inventory of `runtime inspect`**, and what detection only reports.
- **One-off scripts**: `bulk_download*.py`, `download_must_have.py`, `collect_eu_ai_repos.py`,
  `process_manual_downloads.py`, `sync_regulation_index.py`, the scripts that sample, judge and export audits and gold sets, the
  migrations as programs, and `audit/corpus_runner_v1/*.py`, which ran once to write reports. Each reads its
  input and writes one file or table, with nobody else.
- **Hazards, or parts of them, without a property** (all in section 5): the collector that decides on an old
  listing, and `workspace gc`, where the code does what its comments deny whatever interleaves, and a property
  would only restate that; a run that evaluates what is no longer accepted (`ManifestIsSound` is about the moment
  of selection), and a verdict written to another article's row by an overtaken run (`VerdictsHold` excludes it),
  of which nothing in the repository says that they do not happen.
- **Outside**: the container engine and git, modelled from how they are called; the database's own locking
  beyond `database is locked` and one writer at a time; downloaded data; which text matches
  which regular expression; the wording of reports and logs.

## 7. Running

    tlc -workers 2 -config resume.cfg MCCorpusRun.tla
    tlapm CorpusRun_proofs.tla

Each run's configuration names its module in the table of `PROJECT.json`, which
also has, for every property, a mutation of a mapped definition that breaks it.
The mutated forms are the definitions marked `defect:` in the modules. The proofs of
`Assessments_proofs` (about eight minutes) and `CorpusRun_proofs` (about five) take the longest.
