------------------------------ MODULE Registry ------------------------------
(***************************************************************************)
(* The corpus of agent repositories: the table agent_repositories and the  *)
(* commands that fill and maintain it (src/compliance/corpus): discover,   *)
(* refresh and reclassify, with the scripts that seed it and that record   *)
(* its gold audits.  Commands may run at once; each reads the table in one *)
(* transaction, works on what it read, and writes in others.               *)
(*                                                                         *)
(* GitHub answers with what a name stands for at that moment, which        *)
(* changes.  A row is keyed by the number of its repository, and names are *)
(* unique too.  No command removes a row.                                  *)
(*                                                                         *)
(* Abstracted: which rows were refreshed longest ago, and the order of     *)
(* rows and of search results; how a search matches (it returns some of    *)
(* what GitHub has, of which --min-stars drops some).                      *)
(***************************************************************************)
EXTENDS Classifier, FiniteSets

CONSTANTS
  Numbers,    \* repositories, by their number on GitHub
  Names,      \* full names
  Metadata,   \* what GitHub may say of a repository
  Hubs,       \* what GitHub may list at first
  Commands,   \* processes, each of which runs one command after the other
  Targets,    \* the names seed_compliance_targets registers
  Gold,       \* the names gold_article12_v1_commit records
  Queries,    \* the number of queries of a discovery
  MaxTotal,   \* --limit of discover
  Limit,      \* --limit of refresh
  MaxChanges, \* bound: changes on GitHub
  MaxStarts,  \* bound: commands started
  MaxFaults   \* bound: failed writes, and kills

\* A seeded row has a made-up number, one for each target.
Ids == Numbers \cup Targets
Listings == [name : Names, number : Numbers, facts : Metadata]

ASSUME RegistryAssumption ==
  /\ Metadata \subseteq Facts /\ Hubs \subseteq SUBSET Listings
  /\ Targets \subseteq Names /\ Gold \subseteq Names /\ Numbers \cap Names = {}
  /\ {Queries, MaxTotal, Limit, MaxChanges, MaxStarts, MaxFaults} \subseteq Nat
  /\ \A listed \in Hubs : \A l, m \in listed : l.name = m.name => l = m

VARIABLES
  hub,     \* what GitHub lists: at most one repository under each name
  rows,    \* the table agent_repositories
  gold,    \* row -> its audits in the batch of the gold set
  job,     \* command -> what it is doing
  changes, \* ghost: changes on GitHub
  starts,  \* ghost: commands started
  faults   \* ghost: failed writes, and kills

shared == <<hub, rows, gold, changes>>
vars == <<hub, rows, gold, job, changes, starts, faults>>

\* dated: are the timestamps of the row ones the ORM can load?
\* basis (ghost): the metadata the row was last classified by.
Row == [id : Ids, name : Names, facts : Facts,
        class : [status : Statuses, category : Categories \cup {"none"},
                 confidence : Nat, reason : Reasons \cup {""}],
        enabled : BOOLEAN, dated : BOOLEAN, basis : Facts]
Items == [id : Ids, name : Names, facts : Facts]
Item(r) == [id |-> r.id, name |-> r.name, facts |-> r.facts]
IdsOf(S) == {x.id : x \in S}

\* todo: what is left to do; seen: what discover found, what reclassify read,
\* what refresh has fetched.
\* alone (ghost): has no other command run since this one was started?
PCs == {"idle", "search", "insert", "fetch", "store", "write", "commit", "raised",
        "unreadable"}
Jobs == [pc : PCs, left : 0..Queries, todo : SUBSET Items, seen : SUBSET Items,
         alone : BOOLEAN]
Idle == [pc |-> "idle", left |-> Queries, todo |-> {}, seen |-> {}, alone |-> FALSE]

Init ==
  /\ hub \in Hubs /\ rows = {} /\ gold = [i \in Ids |-> 0]
  /\ job = [c \in Commands |-> Idle]
  /\ changes = 0 /\ starts = 0 /\ faults = 0

\* A repository changes, disappears or takes a name over.
Change ==
  /\ changes < MaxChanges
  /\ changes' = changes + 1
  /\ \E n \in Names : \E new \in {{}} \cup {{l} : l \in {m \in Listings : m.name = n}} :
       /\ hub' = {l \in hub : l.name # n} \cup new
       /\ hub' # hub
  /\ UNCHANGED <<rows, gold, job, starts, faults>>

Starting(c) == job[c].pc = "idle" /\ starts < MaxStarts
Running(c) == job[c].pc # "idle"
\* A command is started: none of those that run is alone any more.
Begin(c, j) ==
  /\ job' = [d \in Commands |->
               IF d = c THEN [j EXCEPT !.alone = \A e \in Commands \ {c} : ~Running(e)]
                        ELSE [job[d] EXCEPT !.alone = FALSE]]
  /\ starts' = starts + 1
Become(c, j) == job' = [job EXCEPT ![c] = j] /\ UNCHANGED starts

-----------------------------------------------------------------------------
(* seed_compliance_targets: one transaction of INSERT OR IGNORE.            *)

SeedFacts == [archived |-> FALSE, fork |-> FALSE, blank |-> FALSE, pushed |-> FALSE,
              language |-> "Python", matches |-> {}, categories |-> {},
              popular |-> FALSE]
\* defect: a row is its number, whatever its name
NumberOnly(id, name) == \E r \in rows : r.id = id
\* A row the unique indices refuse
Conflicts(id, name) == \E r \in rows : r.id = id \/ r.name = name
\* Its timestamps are written by a format that drops the hour's directive.
SeedRow(n) == [id |-> n, name |-> n, facts |-> SeedFacts,
               class |-> Classified("accepted", "none", 0, ""),
               enabled |-> TRUE, dated |-> FALSE, basis |-> SeedFacts]

Seed(c) ==
  /\ Starting(c)
  /\ rows' = rows \cup {SeedRow(n) : n \in {t \in Targets : ~Conflicts(t, t)}}
  /\ job' = [d \in Commands |-> [job[d] EXCEPT !.alone = FALSE]]
  /\ starts' = starts + 1
  /\ UNCHANGED <<hub, gold, changes, faults>>

-----------------------------------------------------------------------------
(* discover.                                                                *)

NewRow(t) == [id |-> t.id, name |-> t.name, facts |-> t.facts,
              class |-> Classify(t.facts),
              enabled |-> Classify(t.facts).status # "rejected",
              dated |-> TRUE, basis |-> t.facts]

StartDiscover(c) ==
  /\ Starting(c)
  /\ Begin(c, [Idle EXCEPT !.pc = "search"])
  /\ UNCHANGED <<shared, faults>>

\* A query fails, or some of the repositories GitHub lists come in.
Hits(c) == {[id |-> l.number, name |-> l.name, facts |-> l.facts] :
              l \in {m \in hub : m.facts.language = "Python"
                                 /\ m.number \notin IdsOf(job[c].todo)}}
QueriesLeft(c) == job[c].left > 0
Enough(c) == Cardinality(job[c].todo) >= MaxTotal
Search(c) ==
  /\ job[c].pc = "search" /\ QueriesLeft(c) /\ ~Enough(c)
  /\ \E S \in SUBSET Hits(c) :
       /\ \A s, t \in S : s.id = t.id => s = t
       /\ Cardinality(job[c].todo \cup S) <= MaxTotal
       /\ Become(c, [job[c] EXCEPT !.todo = @ \cup S, !.left = @ - 1])
  /\ UNCHANGED <<shared, faults>>

\* What the table has already, by number, is dropped.
Known(c) ==
  /\ job[c].pc = "search" /\ (~QueriesLeft(c) \/ Enough(c))
  /\ Become(c, [job[c] EXCEPT !.pc = "insert", !.seen = job[c].todo,
                              !.todo = {t \in @ : t.id \notin IdsOf(rows)}])
  /\ UNCHANGED <<shared, faults>>

\* defect: a conflict ends the discovery
UnlessConflict(c, t) == IF Conflicts(t.id, t.name) THEN {} ELSE job[c].todo \ {t}
Rest(c, t) == job[c].todo \ {t}
\* One transaction for each row; a conflict is taken for a lost race.
InsertRow(c) ==
  /\ job[c].pc = "insert"
  /\ \E t \in job[c].todo :
       /\ Become(c, [job[c] EXCEPT !.todo = Rest(c, t)])
       /\ rows' = IF Conflicts(t.id, t.name) THEN rows ELSE rows \cup {NewRow(t)}
  /\ UNCHANGED <<hub, gold, changes, faults>>

\* Any other failure is logged, and the next row is tried.
InsertFails(c) ==
  /\ job[c].pc = "insert" /\ faults < MaxFaults
  /\ \E t \in job[c].todo : Become(c, [job[c] EXCEPT !.todo = @ \ {t}])
  /\ faults' = faults + 1
  /\ UNCHANGED shared

-----------------------------------------------------------------------------
(* refresh and reclassify: a read of rows, then a transaction for each.     *)

\* The ORM cannot load a row whose timestamps it cannot parse.
Reads(c, S, pc) ==
  Begin(c, IF \A r \in S : r.dated
             THEN [Idle EXCEPT !.pc = pc, !.todo = {Item(r) : r \in S},
                               !.seen = IF pc = "write" THEN {Item(r) : r \in S} ELSE {}]
             ELSE [Idle EXCEPT !.pc = "unreadable"])

\* A name, or the Limit rows refreshed longest ago
StartRefresh(c) ==
  /\ Starting(c)
  /\ \E S \in SUBSET rows :
       /\ \/ \E n \in Names : S = {r \in rows : r.name = n}
          \/ /\ Cardinality(S) <= Limit
             /\ Cardinality(S) < Limit => S = rows
       /\ Reads(c, S, "fetch")
  /\ UNCHANGED <<shared, faults>>

\* No answer, or GitHub knows no such name: the row is left alone.
Miss(c) ==
  /\ job[c].pc = "fetch"
  /\ \E t \in job[c].todo : Become(c, [job[c] EXCEPT !.todo = @ \ {t}])
  /\ UNCHANGED <<shared, faults>>

\* The repository is asked for by name; its number is not compared.
Fetch(c) ==
  /\ job[c].pc = "fetch"
  /\ \E t \in job[c].todo : \E l \in hub :
       /\ l.name = t.name
       /\ Become(c, [job[c] EXCEPT !.pc = "store", !.todo = @ \ {t},
                                   !.seen = {[t EXCEPT !.facts = l.facts]}])
  /\ UNCHANGED <<shared, faults>>

\* defect: a refresh that classifies what it fetched, but for the category
Reclassified(r, t) ==
  IF r.id # t.id THEN r
  ELSE [r EXCEPT !.facts = [t.facts EXCEPT !.fork = r.facts.fork],
                 !.class.status = Classify(t.facts).status]
\* Everything but the name, `fork` and the classification
Refreshed(r, t) ==
  IF r.id # t.id THEN r
  ELSE [r EXCEPT !.facts = [t.facts EXCEPT !.fork = r.facts.fork]]
Store(c) ==
  /\ job[c].pc = "store"
  /\ \E t \in job[c].seen : rows' = {Refreshed(r, t) : r \in rows}
  /\ Become(c, [job[c] EXCEPT !.pc = "fetch", !.seen = {}])
  /\ UNCHANGED <<hub, gold, changes, faults>>

\* Rows chosen by --only-status and --limit.
StartReclassify(c) ==
  /\ Starting(c)
  /\ \E S \in SUBSET rows : Reads(c, S, "write")
  /\ UNCHANGED <<shared, faults>>

\* --dry-run: nothing is written.
DryRun(c) ==
  /\ job[c].pc = "write" /\ job[c].todo = job[c].seen
  /\ Become(c, Idle)
  /\ UNCHANGED <<shared, faults>>

Differs(r, class) ==
  \/ r.class.status # class.status
  \/ r.class.category # class.category
  \/ r.class.reason # class.reason
\* defect: what has been accepted stays so
KeepsAccepted(r, t) ==
  LET class == Classify(t.facts) IN
  IF r.id # t.id THEN r
  ELSE IF Differs(r, class) /\ r.class.status # "accepted"
         THEN [r EXCEPT !.class = class, !.enabled = class.status # "rejected",
                        !.basis = t.facts]
         ELSE [r EXCEPT !.basis = t.facts]
\* defect: `enabled` is left as it was
KeepsEnabled(r, t) ==
  LET class == Classify(t.facts) IN
  IF r.id # t.id THEN r
  ELSE IF Differs(r, class)
         THEN [r EXCEPT !.class = class, !.basis = t.facts]
         ELSE [r EXCEPT !.basis = t.facts]
\* What was read is classified, and written if status, category or reason differ from what the row has now.
Rewritten(r, t) ==
  LET class == Classify(t.facts) IN
  IF r.id # t.id THEN r
  ELSE IF Differs(r, class)
         THEN [r EXCEPT !.class = class, !.enabled = class.status # "rejected",
                        !.basis = t.facts]
         ELSE [r EXCEPT !.basis = t.facts]
WriteClass(c) ==
  /\ job[c].pc = "write"
  /\ \E t \in job[c].todo :
       /\ rows' = {Rewritten(r, t) : r \in rows}
       /\ Become(c, [job[c] EXCEPT !.todo = @ \ {t}])
  /\ UNCHANGED <<hub, gold, changes, faults>>

-----------------------------------------------------------------------------
(* gold_article12_v1_commit.                                                *)

\* defect: a name without a row is passed over
SomeNamed(S) == S # {}
\* A name without a row: RuntimeError.
AllNamed(S) == \A n \in Gold : \E r \in S : r.name = n
\* defect: whatever the batch has already
Everything(S) == S
\* Rows the batch has already are skipped.
Unrecorded(S) == {r \in S : gold[r.id] = 0}

StartGold(c) ==
  /\ Starting(c)
  /\ LET S == {r \in rows : r.name \in Gold} IN
     IF AllNamed(S) THEN Reads(c, Unrecorded(S) \cup {r \in S : ~r.dated}, "commit")
                    ELSE Begin(c, [Idle EXCEPT !.pc = "raised"])
  /\ UNCHANGED <<shared, faults>>

\* One transaction for all the rest.
CommitGold(c) ==
  /\ job[c].pc = "commit"
  /\ gold' = [i \in Ids |-> gold[i] + IF i \in IdsOf(job[c].todo) THEN 1 ELSE 0]
  /\ Become(c, Idle)
  /\ UNCHANGED <<hub, rows, changes, faults>>

-----------------------------------------------------------------------------

Finish(c) ==
  /\ \/ job[c].pc \in {"insert", "fetch", "write"} /\ job[c].todo = {}
     \/ job[c].pc \in {"raised", "unreadable"}
  /\ Become(c, Idle)
  /\ UNCHANGED <<shared, faults>>

\* The process is killed, or a transaction of a refresh, a reclassification or the
\* gold set fails.
Kill(c) ==
  /\ Running(c) /\ faults < MaxFaults
  /\ faults' = faults + 1
  /\ Become(c, Idle)
  /\ UNCHANGED shared

Start(c) == Seed(c) \/ StartDiscover(c) \/ StartRefresh(c) \/ StartReclassify(c)
            \/ StartGold(c)
Work(c) ==
  \/ Search(c) \/ Known(c) \/ InsertRow(c)
  \/ Miss(c) \/ Fetch(c) \/ Store(c)
  \/ DryRun(c) \/ WriteClass(c)
  \/ CommitGold(c) \/ Finish(c)
RegistryNext == Change \/ \E c \in Commands : Start(c) \/ Work(c) \/ InsertFails(c)
                                              \/ Kill(c)
=============================================================================
