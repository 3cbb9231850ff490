---------------------------- MODULE RunCreation ----------------------------
(***************************************************************************)
(* The creation of corpus runs over the registry: `corpus_runner run`      *)
(* selects eligible repositories, inserts a run, takes the id of the       *)
(* newest run for its own, and writes the manifest of it row by row, with  *)
(* the commit each repository is to be evaluated at.  The commands of      *)
(* Registry go on meanwhile, and several creations may run at once.        *)
(*                                                                         *)
(* Abstracted: a commit is told apart by where it comes from; the order of *)
(* the repositories that are not named; the statements of a selection are  *)
(* one step.  What happens to a run afterwards is CorpusRun.               *)
(***************************************************************************)
EXTENDS Registry

CONSTANTS
  Drivers,   \* processes that create a run
  Includes,  \* the sequences of names --include may give
  RunLimit,  \* --limit of run
  Pinnings   \* what --manifest may give for each name

\* Nothing, a commit, something that is no commit.
Given == {"nothing", "commit", "garbage"}

ASSUME CreationAssumption ==
  /\ Includes \subseteq Seq(Names) /\ RunLimit \in Nat \ {0}
  /\ Pinnings \subseteq [Names -> Given]

VARIABLES
  runs,     \* the number of rows of corpus_runs: their ids are 1..runs
  manifest, \* the table corpus_run_repositories
  making    \* driver -> what it is doing

creation == <<runs, manifest, making>>
allVars == <<vars, creation>>

\* vetted (ghost): what the row had been classified by when it was selected.
Picks == [id : Ids, name : Names, dated : BOOLEAN, vetted : Facts]
Pick(r) == [id |-> r.id, name |-> r.name, dated |-> r.dated, vetted |-> r.basis]
Commits == {"pinned", "head", "none"}
\* given (ghost): what --manifest gave.
Manifested == [run : Nat, pick : Picks, position : Nat, sha : Commits,
               given : Given]

\* first: of each name given, its repository, until it is dealt with; rest: the
\* others left; picked: all.
\* own (ghost): the run it inserted; rid: the one it takes for its own.
Makings == [pc : {"idle", "insert", "newest", "rows", "returned", "raised"},
            first : Seq(SUBSET Picks), rest : SUBSET Picks, picked : SUBSET Picks,
            pins : [Names -> Given], next : Nat, own : Nat, rid : Nat, alone : BOOLEAN]
Unmade == [pc |-> "idle", first |-> <<>>, rest |-> {}, picked |-> {},
           pins |-> [n \in Names |-> "nothing"], next |-> 0, own |-> 0, rid |-> 0, alone |-> FALSE]

CreationInit == Init /\ runs = 0 /\ manifest = {}
                /\ making = [d \in Drivers |-> Unmade]

\* defect: whatever the classifier said
StillPython(r) == r.facts.language = "Python" /\ ~r.facts.archived /\ ~r.facts.fork
Eligible(r) ==
  /\ r.facts.language = "Python" /\ r.class.status = "accepted" /\ r.enabled
  /\ ~r.facts.archived /\ ~r.facts.fork

\* list_eligible_repositories: the named ones in the order given, as often as they
\* are named, then others.
Found(include, i) == {Pick(r) : r \in {s \in rows : s.name = include[i] /\ Eligible(s)}}
FoundBefore(include, i) == {j \in DOMAIN include : j < i /\ Found(include, j) # {}}
Named(include) ==
  [i \in DOMAIN include |-> IF Cardinality(FoundBefore(include, i)) < RunLimit
                              THEN Found(include, i) ELSE {}]
Filled(first) == {i \in DOMAIN first : first[i] # {}}
Others(include) == {r \in rows : Eligible(r) /\ \A i \in DOMAIN include : r.name # include[i]}

Room(include) == RunLimit - Cardinality(Filled(Named(include)))
Chosen(include, S) ==
  {Pick(r) : r \in S} \cup UNION {Named(include)[i] : i \in DOMAIN include}
Selection(d, include, pins, S) ==
  [Unmade EXCEPT !.pc = "insert", !.first = Named(include),
                 !.rest = {Pick(r) : r \in S}, !.picked = Chosen(include, S),
                 !.pins = pins,
                 !.alone = \A e \in Drivers \ {d} : making[e].pc = "idle"]

\* With nothing chosen the command ends with 2.
Select(d) ==
  /\ making[d].pc = "idle" /\ starts < MaxStarts
  /\ \E include \in Includes, pins \in Pinnings : \E S \in SUBSET Others(include) :
       /\ Cardinality(S) <= Room(include)
       /\ Cardinality(S) < Room(include) => S = Others(include)
       /\ Chosen(include, S) # {}
       /\ making' = [e \in Drivers |-> IF e = d THEN Selection(d, include, pins, S)
                                       ELSE [making[e] EXCEPT !.alone = FALSE]]
  /\ starts' = starts + 1
  /\ UNCHANGED <<runs, manifest, shared, job, faults>>

Make(d, m) == making' = [making EXCEPT ![d] = m]

InsertRun(d) ==
  /\ making[d].pc = "insert"
  /\ runs' = runs + 1
  /\ Make(d, [making[d] EXCEPT !.pc = "newest", !.own = runs + 1])
  /\ UNCHANGED <<manifest, vars>>

Newest(d) ==
  /\ making[d].pc = "newest"
  /\ Make(d, [making[d] EXCEPT !.pc = "rows", !.rid = runs])
  /\ UNCHANGED <<runs, manifest, vars>>

\* The first of the named ones that are left, with its place; else one of the rest.
Todo(d) ==
  LET first == making[d].first
      turn == {i \in Filled(first) : \A j \in Filled(first) : i <= j}
  IN IF Filled(first) # {} THEN UNION {{[at |-> i, pick |-> p] : p \in first[i]} : i \in turn}
                           ELSE {[at |-> 0, pick |-> p] : p \in making[d].rest}
Left(d, t) ==
  [making[d] EXCEPT
     !.first = [j \in DOMAIN @ |-> IF j = t.at THEN {} ELSE @[j]],
     !.rest = IF t.at = 0 THEN @ \ {t.pick} ELSE @,
     !.next = @ + 1]
\* defect: something that is no commit is looked up instead
LenientShas(d, p) == IF making[d].pins[p.name] = "commit" THEN {"pinned"}
                                                       ELSE {"head", "none"}
\* A commit given is not looked up; `git ls-remote` answers or fails.
Shas(d, p) == CASE making[d].pins[p.name] = "garbage" -> {"none"}
                [] making[d].pins[p.name] = "commit" -> {"pinned"}
                [] making[d].pins[p.name] = "nothing" -> {"head", "none"}
Taken(d, p) == \E m \in manifest : m.run = making[d].rid /\ m.pick.id = p.id

InsertManifest(d) ==
  /\ making[d].pc = "rows"
  /\ \E t \in Todo(d) : \E sha \in Shas(d, t.pick) :
       /\ ~Taken(d, t.pick)
       /\ manifest' = manifest \cup
            {[run |-> making[d].rid, pick |-> t.pick, sha |-> sha,
              position |-> making[d].next, given |-> making[d].pins[t.pick.name]]}
       /\ Make(d, Left(d, t))
  /\ UNCHANGED <<runs, vars>>

\* A repository twice in a run: IntegrityError.
Refused(d) ==
  /\ making[d].pc = "rows" /\ \E t \in Todo(d) : Taken(d, t.pick)
  /\ Make(d, [making[d] EXCEPT !.pc = "raised"])
  /\ UNCHANGED <<runs, manifest, vars>>

\* defect: the named ones are enough
NamedDone(d) == Filled(making[d].first) = {}
\* The UPDATE that comes last sets the status and the number of jobs to what the
\* row was inserted with; a run in execution is not in this module.
AllDone(d) == Filled(making[d].first) = {} /\ making[d].rest = {}
ReturnRun(d) ==
  /\ making[d].pc = "rows" /\ AllDone(d)
  /\ Make(d, [making[d] EXCEPT !.pc = "returned"])
  /\ UNCHANGED <<runs, manifest, vars>>

\* The process goes on with the run it returned, ends with the error, or is killed.
LeaveCreation(d) ==
  /\ making[d].pc \in {"returned", "raised"}
  /\ Make(d, Unmade)
  /\ UNCHANGED <<runs, manifest, vars>>
KillCreation(d) ==
  /\ making[d].pc \in {"insert", "newest", "rows"} /\ faults < MaxFaults
  /\ Make(d, Unmade)
  /\ faults' = faults + 1
  /\ UNCHANGED <<runs, manifest, shared, job, starts>>

CreationStep(d) == InsertRun(d) \/ Newest(d) \/ InsertManifest(d) \/ Refused(d)
                   \/ ReturnRun(d) \/ LeaveCreation(d)
Next ==
  \/ RegistryNext /\ UNCHANGED creation
  \/ \E d \in Drivers : Select(d) \/ CreationStep(d) \/ KillCreation(d)

Spec == CreationInit /\ [][Next]_allVars

-----------------------------------------------------------------------------
(* Properties.                                                              *)

\* Every variable has its type.
TypeOK ==
  /\ hub \subseteq Listings /\ rows \subseteq Row /\ gold \in [Ids -> Nat]
  /\ job \in [Commands -> Jobs]
  /\ changes \in 0..MaxChanges /\ starts \in 0..MaxStarts /\ faults \in 0..MaxFaults
  /\ runs \in Nat /\ manifest \subseteq Manifested
  /\ making \in [Drivers -> Makings]

\* A repository has one row and a name one row, however many commands found it at
\* once and whatever names it had on GitHub.
OneRowEach == \A r, s \in rows : r.id = s.id \/ r.name = s.name => r = s

\* The classification of a row that a command wrote is the classifier's whole answer
\* to one reading of the repository: no two commands leave a status of one with a
\* category, a reason or an `enabled` of the other.
ClassifiedAsAWhole ==
  \A r \in rows : r.dated =>
    LET c == Classify(r.basis) IN
    /\ r.class.status = c.status /\ r.class.category = c.category
    /\ r.class.reason = c.reason /\ r.enabled = (c.status # "rejected")

\* A reclassification that no other command disturbed leaves every row it has dealt
\* with as the classifier would have it, even where an earlier one wrote a verdict
\* on metadata that had changed by then.
FreshWhenReclassified ==
  \A c \in Commands : job[c].pc = "write" /\ job[c].alone =>
    \A r \in rows : r.id \in IdsOf(job[c].seen \ job[c].todo) =>
      LET now == Classify(r.facts) IN
      /\ r.class.status = now.status /\ r.class.category = now.category
      /\ r.enabled = (now.status # "rejected")

\* Without failures, every repository a discovery found and has dealt with is in the
\* table, or its name is another one's there.
DiscoveryIsComplete ==
  \A c \in Commands : job[c].pc = "insert" /\ faults = 0 =>
    \A t \in job[c].seen \ job[c].todo : \E r \in rows : r.id = t.id \/ r.name = t.name

\* A script that no other command disturbs adds no audit of the batch to a repository
\* that has one: run again, or after it was killed, it completes the batch.
GoldOnce ==
  \A c \in Commands : job[c].pc = "commit" /\ job[c].alone =>
    \A t \in job[c].todo : gold[t.id] = 0

\* The gold set is recorded as a whole: after any step, every name of it has an audit
\* or none has.
GoldAllOrNone ==
  (\E i \in Ids : gold[i] > 0) =>
    \A n \in Gold : \E r \in rows : r.name = n /\ gold[r.id] > 0

\* Rows never vanish, and one step does not change both what GitHub said of a row
\* and how it is classified: refresh and reclassify leave each other's columns.
WritersKeepToTheirColumns ==
  [][\A r \in rows : \E s \in rows' :
       /\ s.id = r.id /\ s.name = r.name
       /\ s.facts = r.facts \/ (s.class = r.class /\ s.enabled = r.enabled)]_allVars

\* A creation that no other overlapped returns the run it inserted, and the manifest
\* of that run is its whole selection, in gapless positions.
ReturnedManifestIsWhole ==
  \A d \in Drivers : making[d].pc = "returned" /\ making[d].alone =>
    LET own == {m \in manifest : m.run = making[d].own} IN
    /\ making[d].rid = making[d].own
    /\ {m.pick : m \in own} = making[d].picked
    /\ {m.position : m \in own} = 0..(making[d].next - 1)

\* The commit of a repository that --manifest names is the one given, or none.
PinsAreHonoured ==
  \A m \in manifest : m.given # "nothing" =>
    m.sha = IF m.given = "commit" THEN "pinned" ELSE "none"

\* Whatever is evaluated has been accepted by the classifier, on its own reading of
\* the repository, or was seeded.
ManifestIsVetted ==
  \A m \in manifest : m.pick.dated => Classify(m.pick.vetted).status = "accepted"

\* A repository is found once and not lost again.
FoundOnce == OneRowEach /\ DiscoveryIsComplete

\* A classification is one answer of the classifier, and after a reclassification
\* its present one.
ClassificationsHold == ClassifiedAsAWhole /\ FreshWhenReclassified

\* The gold set is recorded for all of its names or for none, and nowhere twice.
GoldIsWhole == GoldOnce /\ GoldAllOrNone

\* A run evaluates accepted repositories at the commits it was given.
ManifestIsSound == PinsAreHonoured /\ ManifestIsVetted
=============================================================================
