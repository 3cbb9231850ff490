---------------------------- MODULE SourceCache ----------------------------
(***************************************************************************)
(* One entry of the source cache of src/compliance/corpus_runner (a bare   *)
(* git mirror, its metadata file and its lock file), the attempts that     *)
(* materialize a workspace from it (RepositoryMaterializer.prepare and     *)
(* SourceCache.materialize_checkout), and the garbage collectors of        *)
(* `cache gc` (gc_with_lock).  Entries are independent: every file and the *)
(* lock belong to one cache key.                                           *)
(*                                                                         *)
(* git is external: a clone fills the mirror with what the remote has, a   *)
(* fetch adds to it, either may fail, and `git cat-file` and `git archive` *)
(* see the mirror as it is when they run.  The git command of a killed     *)
(* process is not killed with it: it works on, without the lock.           *)
(***************************************************************************)
EXTENDS Naturals

CONSTANTS
  Attempts,    \* evaluation attempts that need this repository
  Collectors,  \* invocations of `cache gc`
  Shas,        \* commits
  Remote,      \* those the remote still has
  Unsafe,      \* those with a symbolic link the extraction refuses
  Wanted,      \* the frozen SHA of each attempt
  ByAge,       \* `cache gc` by --max-age-days; otherwise by --max-bytes
  MaxCrashes,  \* bound: processes killed
  MaxFailures  \* bound: failures of git, of flock and of the host

ASSUME CacheAssumption ==
  /\ Remote \subseteq Shas
  /\ Unsafe \subseteq Shas
  /\ Wanted \in [Attempts -> Shas]
  /\ ByAge \in BOOLEAN
  /\ MaxCrashes \in Nat
  /\ MaxFailures \in Nat
  /\ Attempts \cap Collectors = {}
  /\ "nobody" \notin Attempts \cup Collectors

Nobody == "nobody"

VARIABLES
  mirror,     \* bare.git: has it a HEAD, is it unusable, the commits inside
  meta,       \* cache_meta.json: "absent", "old" by its last use, or "fresh", as
              \* the stamp of an error counts too: it has no date to be old by
  tmp,        \* cache_meta.json.tmp: "absent" or what replace() will publish
  lock,       \* holder of the flock on <cache_key>.lock
  bare,       \* attempts that went on without it, because flock failed
  orphan,     \* the git command a killed attempt has left running; "cloned"
              \* when it was a clone that has ended since
  pc,         \* where each attempt is
  site,       \* which of its two cache look-ups an attempt is in
  recheck,    \* does it look for the SHA again after a fetch?
  workspace,  \* "none", "empty", or the commit extracted into it
  raised,     \* why an attempt failed
  met,        \* history: the attempts that were at work while another attempt, a
              \* command left running or a collector was
  gc,         \* where each collector is
  crashes,    \* crashes left
  failures    \* failures left

cacheVars   == <<mirror, meta, tmp, lock, bare, orphan>>
attemptVars == <<pc, site, recheck, workspace, raised, met>>
vars == <<cacheVars, attemptVars, gc, crashes, failures>>

\* A clone or a removal that has not finished may be Hollow, Headless or Configless;
\* git can repair the first by a fetch, the others by nothing.
Absent     == [exists |-> FALSE, unusable |-> FALSE, shas |-> {}]
Hollow     == [exists |-> TRUE,  unusable |-> FALSE, shas |-> {}]
Headless   == [exists |-> FALSE, unusable |-> TRUE,  shas |-> {}]
Configless == [exists |-> TRUE,  unusable |-> TRUE,  shas |-> {}]
Holding(S) == [exists |-> TRUE,  unusable |-> FALSE, shas |-> S]
Mirrors    == [exists : BOOLEAN, unusable : BOOLEAN, shas : SUBSET Shas]

\* What may be left of a mirror while it is taken apart file by file, and what a
\* clone may have made of one when it is looked at, fails or is killed.
Remains(m) ==
  {Absent} \cup IF m = Absent THEN {} ELSE
    {Headless} \cup IF ~m.exists THEN {} ELSE
      {Configless} \cup IF m.unusable THEN {} ELSE {Holding(S) : S \in SUBSET m.shas}
HalfCloned(m) == Remains(Holding(m.shas \cup Remote))

\* The date of an entry matters only to a collector by age.
MetaStates == {"absent", "fresh"} \cup IF ByAge THEN {"old"} ELSE {}

Ended    == {"prepared", "failed", "crashed"}
Fetching == {"clone", "cloning", "pull", "stamp", "publish", "stamp_error",
             "publish_error"}
Reading  == {"archive", "reading"}
PCs == {"idle", "look", "verify", "lock_fetch", "create", "lock_archive",
        "settle", "mark", "publish_mark"} \cup Fetching \cup Reading \cup Ended
Removing == {"remove", "removing", "unlink"}
Reasons  == {"", "git", "sha", "gone", "meta", "unsafe", "create", "host"}

TypeOK ==
  /\ mirror \in Mirrors
  /\ meta \in MetaStates
  /\ tmp \in {"absent", "fresh"}
  /\ lock \in Attempts \cup Collectors \cup {Nobody}
  /\ bare \in SUBSET Attempts
  /\ orphan \in [Attempts -> {"none", "fetch", "clone", "cloned"}]
  /\ pc \in [Attempts -> PCs]
  /\ site \in [Attempts -> {"prepare", "checkout"}]
  /\ recheck \in [Attempts -> BOOLEAN]
  /\ workspace \in [Attempts -> {"none", "empty"} \cup Shas]
  /\ \A a \in Attempts : workspace[a] \in {"none", "empty", Wanted[a]}
  /\ raised \in [Attempts -> Reasons]
  /\ met \in SUBSET Attempts
  /\ gc \in [Collectors -> {"list", "try", "done"} \cup Removing]
  /\ crashes \in 0..MaxCrashes
  /\ failures \in 0..MaxFailures

\* Whatever earlier runs, killed ones included, left behind; their git commands
\* have ended.
Init ==
  /\ \/ mirror \in {Absent, Headless, Configless}
     \/ \E S \in SUBSET Shas : mirror = Holding(S)
  /\ meta \in MetaStates
  /\ tmp \in {"absent", "fresh"}
  /\ lock = Nobody
  /\ bare = {}
  /\ orphan = [a \in Attempts |-> "none"]
  /\ pc = [a \in Attempts |-> "idle"]
  /\ site = [a \in Attempts |-> "prepare"]
  /\ recheck = [a \in Attempts |-> FALSE]
  /\ workspace = [a \in Attempts |-> "none"]
  /\ raised = [a \in Attempts |-> ""]
  /\ met = {}
  /\ gc = [g \in Collectors |-> "list"]
  /\ crashes = MaxCrashes
  /\ failures = MaxFailures

-----------------------------------------------------------------------------
Goto(a, from, to) ==
  /\ pc[a] = from
  /\ pc' = [pc EXCEPT ![a] = to]

\* Every git command runs under a timeout; git may also fail for the network,
\* flock for the file system, and the host's files and processes for their own
\* reasons.
Fails == failures > 0 /\ failures' = failures - 1

\* flock(LOCK_EX) waits for the holder; closing the file releases it.  _lock only
\* logs a flock that fails, and goes on.
Lock(a) ==
  \/ lock = Nobody /\ lock' = a /\ UNCHANGED <<bare, failures>>
  \/ Fails /\ bare' = bare \cup {a} /\ UNCHANGED lock
Unlock(p) ==
  /\ lock' = IF lock = p THEN Nobody ELSE lock
  /\ bare' = bare \ {p}

\* Somebody may be at the mirror without the lock: an attempt or a clone left behind,
\* which may spoil it for others, or a fetch left behind, which only adds to it.
Rivals    == bare # {} \/ \E b \in Attempts : orphan[b] = "clone"
Unguarded == Rivals \/ \E b \in Attempts : orphan[b] = "fetch"

\* An exception leaves prepare(); the workspace goes with it.
KeepWorkspace(a, why) ==                        \* defect: no clean-up on failure
  /\ pc' = [pc EXCEPT ![a] = "failed"]
  /\ raised' = [raised EXCEPT ![a] = why]
  /\ UNCHANGED workspace
Raise(a, why) ==
  /\ pc' = [pc EXCEPT ![a] = "failed"]
  /\ raised' = [raised EXCEPT ![a] = why]
  /\ workspace' = [workspace EXCEPT ![a] = "none"]

\* What follows once the mirror is believed to hold the commit.
Proceed(a) ==
  pc' = [pc EXCEPT ![a] = IF site[a] = "prepare" THEN "create" ELSE "lock_archive"]

AtWork  == {b \in Attempts : pc[b] \notin Ended \cup {"idle"}}
Running == \E b \in Attempts : orphan[b] \in {"clone", "fetch"}
Evicted == \E g \in Collectors : gc[g] \in Removing

Start(a) ==
  /\ Goto(a, "idle", "look")
  /\ met' = IF AtWork # {} \/ Running \/ Evicted THEN met \cup AtWork \cup {a}
            ELSE met
  /\ UNCHANGED <<cacheVars, site, recheck, workspace, raised, gc, crashes, failures>>

\* layout.exists, read without the lock, in prepare() and again in
\* materialize_checkout(): a hit verifies the commit, a miss fetches.
Look(a) ==
  /\ Goto(a, "look", IF mirror.exists THEN "verify" ELSE "lock_fetch")
  /\ recheck' = [recheck EXCEPT ![a] = FALSE]
  /\ UNCHANGED <<cacheVars, site, workspace, raised, met, gc, crashes, failures>>

AlwaysFetch(a) == TRUE                          \* defect: retries until it is there
MayFetch(a)    == ~recheck[a]

\* git cat-file -t, without the lock, in a directory that may be gone.
Verify(a) ==
  /\ pc[a] = "verify"
  /\ \/ /\ Wanted[a] \in mirror.shas
        /\ Proceed(a)
        /\ UNCHANGED <<recheck, workspace, raised, failures>>
     \/ /\ Wanted[a] \notin mirror.shas /\ mirror # Absent /\ MayFetch(a)
        /\ pc' = [pc EXCEPT ![a] = "lock_fetch"]
        /\ recheck' = [recheck EXCEPT ![a] = TRUE]
        /\ UNCHANGED <<workspace, raised, failures>>
     \/ /\ Wanted[a] \notin mirror.shas /\ (mirror = Absent \/ ~MayFetch(a))
        /\ Raise(a, IF mirror = Absent THEN "gone" ELSE "sha")
        /\ UNCHANGED <<recheck, failures>>
     \/ Fails /\ Raise(a, "git") /\ UNCHANGED recheck
  /\ UNCHANGED <<cacheVars, site, met, gc, crashes>>

\* Workspace.create(), then materialize_checkout() starts over.  The creation is
\* not in prepare()'s try: what it has made when it fails stays.
CreateWorkspace(a) ==
  /\ \/ /\ Goto(a, "create", "look")
        /\ workspace' = [workspace EXCEPT ![a] = "empty"]
        /\ site' = [site EXCEPT ![a] = "checkout"]
        /\ UNCHANGED <<raised, failures>>
     \/ /\ Goto(a, "create", "failed")
        /\ Fails
        /\ raised' = [raised EXCEPT ![a] = "create"]
        /\ \E left \in {"none", "empty"} : workspace' = [workspace EXCEPT ![a] = left]
        /\ UNCHANGED site
  /\ UNCHANGED <<cacheVars, recheck, met, gc, crashes>>

-----------------------------------------------------------------------------
(***************************************************************************)
(* SourceCache.fetch, under the lock.                                      *)
(***************************************************************************)
FetchFails(a, from, why) ==
  /\ Goto(a, from, "stamp_error")
  /\ raised' = [raised EXCEPT ![a] = why]

TrustMirror(a) ==                               \* defect: fetches only what it cloned
  /\ Lock(a)
  /\ Goto(a, "lock_fetch", IF mirror.exists THEN "stamp" ELSE "clone")
  /\ UNCHANGED <<mirror, meta, tmp, orphan, site, recheck, workspace, raised, met,
                 gc, crashes>>
LockFetch(a) ==
  /\ Lock(a)
  /\ Goto(a, "lock_fetch", IF mirror.exists THEN "pull" ELSE "clone")
  /\ UNCHANGED <<mirror, meta, tmp, orphan, site, recheck, workspace, raised, met,
                 gc, crashes>>

\* git clone --mirror: HEAD exists long before the first object does.  It
\* refuses a directory that is not empty.
StartClone(a) ==
  /\ IF mirror = Absent
     THEN /\ Goto(a, "clone", "cloning")
          /\ mirror' = Hollow
          /\ UNCHANGED raised
     ELSE FetchFails(a, "clone", "git") /\ UNCHANGED mirror
  /\ UNCHANGED <<meta, tmp, lock, bare, orphan, site, recheck, workspace, met, gc,
                 crashes, failures>>

\* A clone that fails removes what it made; one that times out is killed.  It fails
\* by itself when somebody else is at its directory.
FinishClone(a) ==
  /\ \/ /\ mirror.exists /\ ~mirror.unusable
        /\ Goto(a, "cloning", "pull")
        /\ mirror' = Holding(mirror.shas \cup Remote)
        /\ UNCHANGED <<raised, failures>>
     \/ /\ FetchFails(a, "cloning", "git")
        /\ \/ Fails
           \/ /\ ~mirror.exists \/ mirror.unusable \/ Rivals
              /\ UNCHANGED failures
        /\ mirror' \in HalfCloned(mirror)
  /\ UNCHANGED <<meta, tmp, lock, bare, orphan, site, recheck, workspace, met, gc,
                 crashes>>

\* git fetch starts in the mirror's directory; another git at work there may hold
\* the references it wants to lock.
Pull(a) ==
  /\ \/ /\ mirror # Absent /\ ~mirror.unusable
        /\ Goto(a, "pull", "stamp")
        /\ mirror' = [mirror EXCEPT !.shas = @ \cup Remote]
        /\ UNCHANGED <<raised, failures>>
     \/ /\ mirror = Absent
        /\ FetchFails(a, "pull", "gone")
        /\ UNCHANGED <<mirror, failures>>
     \/ /\ FetchFails(a, "pull", "git")
        /\ Fails \/ ((mirror.unusable \/ Unguarded) /\ UNCHANGED failures)
        /\ UNCHANGED mirror
  /\ UNCHANGED <<meta, tmp, lock, bare, orphan, site, recheck, workspace, met, gc,
                 crashes>>

\* _write_meta: one temporary file per entry, shared by all writers ...
WriteTmp(a, from, to) ==
  /\ Goto(a, from, to)
  /\ tmp' = "fresh"
  /\ UNCHANGED <<mirror, meta, lock, bare, orphan, site, recheck, workspace, raised,
                 met, gc, crashes, failures>>

Stamp(a)      == WriteTmp(a, "stamp", "publish")
StampError(a) == WriteTmp(a, "stamp_error", "publish_error")
Mark(a)       == WriteTmp(a, "mark", "publish_mark")

\* ... then Path.replace, which raises when another writer has moved the file.
Replace == tmp # "absent" /\ meta' = tmp /\ tmp' = "absent"

Publish(a) ==
  /\ pc[a] = "publish"
  /\ \/ /\ Replace
        /\ Unlock(a)
        /\ IF recheck[a] THEN pc' = [pc EXCEPT ![a] = "verify"] ELSE Proceed(a)
        /\ UNCHANGED raised
     \/ /\ tmp = "absent"
        /\ pc' = [pc EXCEPT ![a] = "stamp_error"]
        /\ raised' = [raised EXCEPT ![a] = "meta"]
        /\ UNCHANGED <<meta, tmp, lock, bare>>
  /\ UNCHANGED <<mirror, orphan, site, recheck, workspace, met, gc, crashes, failures>>

\* The error stamp is best effort; the first exception is raised again.
PublishError(a) ==
  /\ pc[a] = "publish_error"
  /\ \/ Replace
     \/ tmp = "absent" /\ UNCHANGED <<meta, tmp>>
  /\ Unlock(a)
  /\ Raise(a, raised[a])
  /\ UNCHANGED <<mirror, orphan, site, recheck, met, gc, crashes, failures>>

-----------------------------------------------------------------------------
(***************************************************************************)
(* The rest of materialize_checkout: archive and extract under the lock,   *)
(* stamp the use without it.                                               *)
(***************************************************************************)
LockArchive(a) ==
  /\ Lock(a)
  /\ Goto(a, "lock_archive", "archive")
  /\ UNCHANGED <<mirror, meta, tmp, orphan, site, recheck, workspace, raised, met,
                 gc, crashes>>

\* git archive starts in the mirror's directory and finds the commit, or fails.
StartArchive(a) ==
  /\ \/ /\ Wanted[a] \in mirror.shas
        /\ Goto(a, "archive", "reading")
        /\ UNCHANGED <<lock, bare, workspace, raised>>
     \/ /\ Wanted[a] \notin mirror.shas
        /\ pc[a] = "archive"
        /\ Raise(a, IF mirror = Absent THEN "gone" ELSE "sha")
        /\ Unlock(a)
  /\ UNCHANGED <<mirror, meta, tmp, orphan, site, recheck, met, gc, crashes, failures>>

\* The archive arrives whole or git fails: while the mirror is changed under it,
\* git may fail for that.
Extract(a) ==
  /\ pc[a] = "reading"
  /\ \/ /\ Wanted[a] \notin Unsafe
        /\ pc' = [pc EXCEPT ![a] = "settle"]
        /\ workspace' = [workspace EXCEPT ![a] = Wanted[a]]
        /\ UNCHANGED <<raised, failures>>
     \/ Wanted[a] \in Unsafe /\ Raise(a, "unsafe") /\ UNCHANGED failures
     \/ Fails /\ \E why \in {"git", "host"} : Raise(a, why)
     \/ Unguarded /\ Raise(a, "git") /\ UNCHANGED failures
  /\ Unlock(a)
  /\ UNCHANGED <<mirror, meta, tmp, orphan, site, recheck, met, gc, crashes>>

\* The marker is written and chmod -R runs, without the lock; a chmod that takes
\* longer than its minute raises.
Settle(a) ==
  /\ \/ Goto(a, "settle", "mark") /\ UNCHANGED <<workspace, raised, failures>>
     \/ pc[a] = "settle" /\ Fails /\ Raise(a, "host")
  /\ UNCHANGED <<cacheVars, site, recheck, met, gc, crashes>>

PublishMark(a) ==
  /\ pc[a] = "publish_mark"
  /\ \/ /\ Replace
        /\ pc' = [pc EXCEPT ![a] = "prepared"]
        /\ UNCHANGED <<workspace, raised>>
     \/ /\ tmp = "absent"
        /\ Raise(a, "meta")
        /\ UNCHANGED <<meta, tmp>>
  /\ UNCHANGED <<mirror, lock, bare, orphan, site, recheck, met, gc, crashes, failures>>

-----------------------------------------------------------------------------
(***************************************************************************)
(* gc_with_lock.                                                           *)
(***************************************************************************)
Evictable == IF ByAge THEN meta = "old" ELSE meta # "absent"

\* cache.entries() reads every entry once; the decision rests on this reading.
List(g) ==
  /\ gc[g] = "list"
  /\ gc' = [gc EXCEPT ![g] = IF Evictable THEN "try" ELSE "done"]
  /\ UNCHANGED <<cacheVars, attemptVars, crashes, failures>>

\* flock(LOCK_EX | LOCK_NB): an entry in use is protected, and so is one whose
\* flock fails.
IgnoreLock(g) ==                                \* defect: evicts without the lock
  /\ gc[g] = "try"
  /\ gc' = [gc EXCEPT ![g] = "remove"]
  /\ UNCHANGED <<cacheVars, attemptVars, crashes, failures>>
TryLock(g) ==
  /\ gc[g] = "try"
  /\ \/ /\ lock = Nobody
        /\ lock' = g
        /\ gc' = [gc EXCEPT ![g] = "remove"]
        /\ met' = met \cup AtWork
        /\ UNCHANGED failures
     \/ /\ gc' = [gc EXCEPT ![g] = "done"]
        /\ Fails \/ (lock # Nobody /\ UNCHANGED failures)
        /\ UNCHANGED <<lock, met>>
  /\ UNCHANGED <<mirror, meta, tmp, bare, orphan, pc, site, recheck, workspace, raised,
                 crashes>>

\* rmtree(bare.git), which leaves what is written behind its back, then the
\* metadata is unlinked.
Remove(g) ==
  /\ \/ /\ gc[g] = "remove"
        /\ gc' = [gc EXCEPT ![g] = "removing"]
        /\ mirror' \in Remains(mirror)
        /\ UNCHANGED <<meta, lock, bare>>
     \/ /\ gc[g] = "removing"
        /\ gc' = [gc EXCEPT ![g] = "unlink"]
        /\ mirror' = Absent \/ (Unguarded /\ mirror' \in Remains(mirror))
        /\ UNCHANGED <<meta, lock, bare>>
     \/ /\ gc[g] = "unlink"
        /\ gc' = [gc EXCEPT ![g] = "done"]
        /\ meta' = "absent"
        /\ Unlock(g)
        /\ UNCHANGED mirror
  /\ UNCHANGED <<tmp, orphan, attemptVars, crashes, failures>>

-----------------------------------------------------------------------------
\* The process of an attempt is killed: its lock goes, its files stay, and the git
\* command it was waiting for works on.
Crash(a) ==
  /\ crashes > 0
  /\ crashes' = crashes - 1
  /\ pc[a] \notin Ended \cup {"idle"}
  /\ pc' = [pc EXCEPT ![a] = "crashed"]
  /\ orphan' = [orphan EXCEPT ![a] = IF pc[a] = "cloning" THEN "clone"
                                     ELSE IF pc[a] = "pull" THEN "fetch" ELSE @]
  /\ Unlock(a)
  /\ UNCHANGED <<mirror, meta, tmp, site, recheck, workspace, raised, met, gc,
                 failures>>

\* A clone left behind writes on in many steps, or removes what it made; it may be
\* killed, fail or succeed, also at once.
OrphanClones(b) ==
  /\ orphan[b] = "clone"
  /\ mirror' \in HalfCloned(mirror)
  /\ orphan' \in {orphan, [orphan EXCEPT ![b] = "cloned"]}
  /\ UNCHANGED <<meta, tmp, lock, bare, attemptVars, gc, crashes, failures>>

\* A fetch left behind adds to the mirror if that is still there, or fails.
OrphanFetches(b) ==
  /\ orphan[b] = "fetch"
  /\ orphan' = [orphan EXCEPT ![b] = "none"]
  /\ \/ UNCHANGED mirror
     \/ /\ mirror # Absent /\ ~mirror.unusable
        /\ mirror' = [mirror EXCEPT !.shas = @ \cup Remote]
  /\ UNCHANGED <<meta, tmp, lock, bare, attemptVars, gc, crashes, failures>>

CollectorCrash(g) ==
  /\ crashes > 0
  /\ crashes' = crashes - 1
  /\ gc[g] \in Removing
  /\ gc' = [gc EXCEPT ![g] = "done"]
  /\ Unlock(g)
  /\ UNCHANGED <<mirror, meta, tmp, orphan, attemptVars, failures>>

AllEnded ==
  /\ \A a \in Attempts : pc[a] \in Ended
  /\ \A g \in Collectors : gc[g] = "done"
  /\ UNCHANGED vars

AttemptStep(a) ==
  \/ Start(a) \/ Look(a) \/ Verify(a) \/ CreateWorkspace(a)
  \/ LockFetch(a) \/ StartClone(a) \/ FinishClone(a) \/ Pull(a)
  \/ Stamp(a) \/ Publish(a) \/ StampError(a) \/ PublishError(a)
  \/ LockArchive(a) \/ StartArchive(a) \/ Extract(a) \/ Settle(a) \/ Mark(a)
  \/ PublishMark(a)

CollectorStep(g) == List(g) \/ TryLock(g) \/ Remove(g)

Next ==
  \/ \E a \in Attempts : AttemptStep(a)
  \/ \E g \in Collectors : CollectorStep(g)
  \/ \E a \in Attempts : Crash(a) \/ OrphanClones(a) \/ OrphanFetches(a)
  \/ \E g \in Collectors : CollectorCrash(g)
  \/ AllEnded

Spec == Init /\ [][Next]_vars

\* Live processes are scheduled, and their git commands return (they have timeouts).
\* Nothing ends a command left behind.
Fairness ==
  /\ \A a \in Attempts : WF_vars(AttemptStep(a))
  /\ \A g \in Collectors : WF_vars(CollectorStep(g))
FairSpec == Spec /\ Fairness

-----------------------------------------------------------------------------
(***************************************************************************)
(* Properties.                                                             *)
(***************************************************************************)

\* While an attempt archives a commit nobody changes the mirror under it:
\* fetches and collectors are kept out by the entry's lock, as long as nobody is at
\* the mirror without it.
StableWhileRead ==
  \A a \in Attempts : pc[a] = "reading" /\ ~Unguarded => mirror' = mirror

\* A mirror is filled by one process at a time, and no collector removes a
\* mirror that is being filled.
OneWriter ==
  \A a \in Attempts : pc[a] \in Fetching /\ ~Unguarded =>
    /\ \A b \in Attempts : pc[b] \in Fetching => b = a
    /\ \A g \in Collectors : gc[g] \notin Removing

\* An attempt that meets nobody at the entry - no other attempt, no git command a
\* killed one has left running, no collector that removes - is refused a commit the
\* remote has only for its own links, a failing git command or the host: what a killed
\* clone, a killed writer, a killed collector or an old mirror left behind is repaired
\* or refused by git, and never taken for the commit.
OnlyGitOrHostFails ==
  \A a \in Attempts \ met :
    pc[a] = "failed" /\ Wanted[a] \in Remote \ Unsafe =>
      raised[a] \in {"git", "host", "create"}

\* When it does meet somebody, a commit the remote has may be refused for more reasons, and
\* each has its culprit: a collector that took the mirror away between its
\* verification and its extraction, a failing or an abandoned clone of another
\* attempt that did, a flock that failed, or another attempt that published the
\* temporary metadata file which all writers of an entry share.
OverlapsHaveTheirCulprit ==
  \A a \in Attempts :
    pc[a] = "failed" /\ Wanted[a] \in Remote \ Unsafe =>
      \/ raised[a] \in {"git", "host", "create"}
      \/ /\ raised[a] \in {"gone", "sha"}
         /\ \/ \E g \in Collectors : gc[g] \in Removing \cup {"done"}
            \/ \E b \in Attempts : orphan[b] \in {"clone", "cloned"}
            \/ failures < MaxFailures
      \/ raised[a] = "meta" /\ \E b \in Attempts \ {a} : pc[b] # "idle"

\* A workspace outlives its attempt's preparation only if it was handed over
\* complete, if its creation itself failed, or if the process was killed.
NoOrphanWorkspace ==
  \A a \in Attempts :
    /\ pc[a] = "prepared" => workspace[a] = Wanted[a]
    /\ pc[a] = "failed" /\ raised[a] # "create" => workspace[a] = "none"

\* Nobody waits for the lock for ever: every attempt ends.
EveryAttemptEnds == \A a \in Attempts : <>(pc[a] \in Ended)

\* The lock of an entry protects its mirror: from other writers and from collectors
\* while it is filled, from all of them while a commit is archived from it.  It does
\* so except where the code goes round it: a flock that failed, and the git command
\* a killed process has left running.
MirrorIsProtected == [][OneWriter' /\ StableWhileRead]_vars

\* A preparation that fails leaves no workspace behind, and fails for a reason.
FailuresAreCleanAndCaused == NoOrphanWorkspace /\ OverlapsHaveTheirCulprit
=============================================================================
