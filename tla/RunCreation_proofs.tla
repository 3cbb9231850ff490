------------------------- MODULE RunCreation_proofs -------------------------
(***************************************************************************)
(* Proofs about Registry and RunCreation, for any GitHub, commands,        *)
(* drivers and bounds.                                                     *)
(***************************************************************************)
EXTENDS RunCreation, TLAPS, WellFoundedInduction

-----------------------------------------------------------------------------
(* The classifier.                                                          *)

\* Every set of naturals has a least element.
LEMMA Least ==
  ASSUME NEW S, S \subseteq Nat, S # {}
  PROVE  \E i \in S : \A j \in S : i <= j
<1>1. PICK i \in S : \A j \in S : ~ (<<j, i>> \in OpToRel(<, Nat))
  BY NatLessThanWellFounded, WFMin
<1>2. \A j \in S : ~ (j < i)
  BY <1>1 DEF OpToRel
<1>3. QED
  BY <1>2

\* A rejection is a classification, and of no agent's category.
LEMMA RejectTyped ==
  ASSUME NEW f \in Facts, Applying(f) # {}
  PROVE  /\ Reject(f) \in Classifications
         /\ Reject(f).status = "rejected" /\ Reject(f).category = "not_agent"
<1>1. Applying(f) \subseteq DOMAIN Order
  BY DEF Applying
<1>0. DOMAIN Order \subseteq Nat
  BY DEF Order
<1>2. \E i \in Applying(f) : \A j \in Applying(f) : i <= j
  BY <1>0, <1>1, Least
<1> DEFINE i == CHOOSE k \in Applying(f) : \A j \in Applying(f) : k <= j
<1>3. i \in DOMAIN Order
  BY <1>1, <1>2
<1>4. Order[i] \in Reasons
  BY <1>3 DEF Reasons
<1>5. Confidence(Order[i]) \in Nat
  BY DEF Confidence
<1> HIDE DEF i
<1>6. Reject(f) = Classified("rejected", "not_agent", Confidence(Order[i]), Order[i])
  BY DEF Reject, i
<1>7. QED
  BY <1>4, <1>5, <1>6 DEF Classified, Classifications, Statuses, Categories

\* The best of the categories that apply is an agent's.
LEMMA BestTyped ==
  ASSUME NEW f \in Facts, f.categories # {}
  PROVE  Best(f) \in AgentCategories
<1>1. Matched(f) \subseteq Ranks /\ Ranks \subseteq Nat
  BY DEF Matched, Ranks, Priority
<1>2. PICK k \in f.categories : k \in AgentCategories
  BY DEF Facts
<1>3. Matched(f) # {}
  BY <1>2 DEF Matched, AgentCategories
<1>4. \E i \in Matched(f) : \A j \in Matched(f) : i <= j
  BY <1>1, <1>3, Least
<1>5. QED
  BY <1>1, <1>4 DEF Best, AgentCategories

\* What is not rejected gets a classification too, and an agent's category if accepted.
LEMMA AcceptTyped ==
  ASSUME NEW f \in Facts
  PROVE  /\ Accept(f) \in Classifications
         /\ Accept(f).status = "accepted" => Accept(f).category \in AgentCategories
         /\ Accept(f).status # "rejected"
<1>1. /\ "topic_and_category" \in Reasons /\ "topic_only" \in Reasons
      /\ "description_and_category" \in Reasons /\ "description_only" \in Reasons
      /\ "no_signal" \in Reasons
  BY DEF Reasons
<1>2. Base(f) \in Nat /\ (Base(f) * 85) \div 100 \in Nat
  BY DEF Base
<1>3. f.categories # {} => Best(f) \in AgentCategories
  BY BestTyped
<1>4. "other_agent" \in AgentCategories
  <2>1. 9 \in Ranks /\ Priority[9] = "other_agent"
    BY DEF Ranks, Priority
  <2>2. QED
    BY <2>1 DEF AgentCategories
<1>5. AgentCategories \subseteq Categories /\ "unknown" \in Categories
      /\ "accepted" \in Statuses /\ "candidate" \in Statuses
  BY DEF Categories, Statuses
<1>6. CASE "runtime" \in f.matches
  <2>1. CASE f.categories # {}
    BY <1>1, <1>2, <1>3, <1>5, <1>6, <2>1 DEF Accept, ByTopic, ByDescription, Classified, Classifications
  <2>2. CASE f.categories = {}
    BY <1>1, <1>4, <1>5, <1>6, <2>2 DEF Accept, ByTopic, ByDescription, Classified, Classifications
  <2>3. QED
    BY <2>1, <2>2
<1>7. CASE "runtime" \notin f.matches
  <2>1. CASE "hint" \in f.matches /\ f.categories # {}
    BY <1>1, <1>2, <1>3, <1>5, <1>7, <2>1 DEF Accept, ByTopic, ByDescription, Classified, Classifications
  <2>2. CASE "hint" \in f.matches /\ f.categories = {}
    BY <1>1, <1>5, <1>7, <2>2 DEF Accept, ByTopic, ByDescription, Classified, Classifications
  <2>3. CASE "hint" \notin f.matches
    BY <1>1, <1>5, <1>7, <2>3 DEF Accept, ByTopic, ByDescription, Classified, Classifications
  <2>4. QED
    BY <2>1, <2>2, <2>3
<1>8. QED
  BY <1>6, <1>7

\* The classifier answers with a classification.
LEMMA ClassifyTyped ==
  ASSUME NEW f \in Facts
  PROVE  Classify(f) \in Classifications
BY RejectTyped, AcceptTyped DEF Classify

\* No repository with an objection is accepted, or left for a human to review, and
\* one that is accepted has the category of an agent.
THEOREM ObjectionsRefuse ==
  ASSUME NEW f \in Facts
  PROVE  /\ Applying(f) # {} => Classify(f).status = "rejected"
         /\ Classify(f).status = "accepted" => Classify(f).category \in AgentCategories
<1>1. CASE Applying(f) # {}
  BY <1>1, RejectTyped DEF Classify
<1>2. CASE Applying(f) = {}
  BY <1>2, AcceptTyped DEF Classify
<1>3. QED
  BY <1>1, <1>2

-----------------------------------------------------------------------------
(* Type correctness.                                                        *)

\* The bounds and options are numbers.
LEMMA Bounds ==
  /\ Queries \in Nat /\ MaxTotal \in Nat /\ Limit \in Nat /\ MaxChanges \in Nat
  /\ MaxStarts \in Nat /\ MaxFaults \in Nat
BY RegistryAssumption

\* A command that is not running.
LEMMA IdleTyped == Idle \in Jobs
BY RegistryAssumption DEF Idle, Jobs, PCs

\* What a command remembers of a row.
LEMMA ItemTyped ==
  ASSUME NEW r \in Row
  PROVE  Item(r) \in Items
BY DEF Item, Row, Items

\* A command that begins.
LEMMA BeginTyped ==
  ASSUME TypeOK, NEW c \in Commands, NEW j \in Jobs, Starting(c), Begin(c, j)
  PROVE  job' \in [Commands -> Jobs] /\ starts' \in 0..MaxStarts
<1>1. ASSUME NEW b \in BOOLEAN PROVE [j EXCEPT !.alone = b] \in Jobs
  BY DEF Jobs
<1>2. \A d \in Commands : [job[d] EXCEPT !.alone = FALSE] \in Jobs
  BY DEF TypeOK, Jobs
<1>3. \A d \in Commands : job'[d] \in Jobs
  <2>1. \A d \in Commands :
          job'[d] = IF d = c
                      THEN [j EXCEPT !.alone = \A e \in Commands \ {c} : ~Running(e)]
                      ELSE [job[d] EXCEPT !.alone = FALSE]
    BY DEF Begin
  <2>2. (\A e \in Commands \ {c} : ~Running(e)) \in BOOLEAN
    OBVIOUS
  <2>3. QED
    BY <1>1, <1>2, <2>1, <2>2
<1>4. job' = [d \in Commands |-> job'[d]]
  BY DEF Begin
<1>5. starts' \in 0..MaxStarts
  BY Bounds DEF TypeOK, Begin, Starting
<1>6. QED
  BY <1>3, <1>4, <1>5

\* A command that goes on.
LEMMA BecomeTyped ==
  ASSUME TypeOK, NEW c \in Commands, NEW j \in Jobs, Become(c, j)
  PROVE  job' \in [Commands -> Jobs] /\ starts' \in 0..MaxStarts
BY DEF TypeOK, Become

\* What an action of the registry has to type.
Typed == /\ hub' \subseteq Listings /\ rows' \subseteq Row /\ gold' \in [Ids -> Nat]
         /\ job' \in [Commands -> Jobs]
         /\ changes' \in 0..MaxChanges /\ starts' \in 0..MaxStarts
         /\ faults' \in 0..MaxFaults

\* What happens on GitHub.
LEMMA ChangeTyped == ASSUME TypeOK, Change PROVE Typed
BY RegistryAssumption DEF TypeOK, Change, Typed

\* The description the seed script writes.
LEMMA SeedFactsTyped == SeedFacts \in Facts
BY DEF SeedFacts, Facts

\* The seed script.
LEMMA SeedTyped == ASSUME TypeOK, NEW c \in Commands, Seed(c) PROVE Typed
<1>1. \A n \in Targets : SeedRow(n) \in Row
  BY RegistryAssumption, SeedFactsTyped DEF SeedRow, Row, Ids, Classified, Statuses
<1>2. rows' \subseteq Row
  BY <1>1 DEF Seed, TypeOK
<1>3. \A d \in Commands : [job[d] EXCEPT !.alone = FALSE] \in Jobs
  BY DEF TypeOK, Jobs
<1>4. job' \in [Commands -> Jobs]
  BY <1>3 DEF Seed
<1>5. QED
  BY <1>2, <1>4, RegistryAssumption DEF TypeOK, Seed, Starting, Typed

\* discover, but for its insert.
LEMMA DiscoverTyped ==
  ASSUME TypeOK, NEW c \in Commands,
         StartDiscover(c) \/ Search(c) \/ Known(c) \/ InsertFails(c)
  PROVE  Typed
<1> USE Bounds
<1>1. job[c] \in Jobs
  BY DEF TypeOK
<1>2. CASE StartDiscover(c)
  <2>1. [Idle EXCEPT !.pc = "search"] \in Jobs
    BY IdleTyped DEF Jobs, PCs
  <2>2. QED
    BY <1>2, <2>1, BeginTyped DEF StartDiscover, TypeOK, Typed, shared
<1>3. CASE Search(c)
  <2>1. PICK S \in SUBSET Hits(c) :
          Become(c, [job[c] EXCEPT !.todo = @ \cup S, !.left = @ - 1])
    BY <1>3 DEF Search
  <2>2. S \subseteq Items
    <3>1. \A l \in hub : l.name \in Names /\ l.number \in Ids /\ l.facts \in Facts
      BY RegistryAssumption DEF Listings, Ids, TypeOK
    <3>2. QED
      BY <3>1 DEF Hits, Items
  <2>3. job[c].left > 0
    BY <1>3 DEF Search, QueriesLeft
  <2>6. job[c].left - 1 \in 0..Queries /\ job[c].todo \cup S \in SUBSET Items
    BY <1>1, <2>2, <2>3 DEF Jobs
  <2>4. [job[c] EXCEPT !.todo = @ \cup S, !.left = @ - 1] \in Jobs
    BY <1>1, <2>6 DEF Jobs
  <2>5. QED
    BY <1>3, <2>1, <2>4, BecomeTyped DEF Search, TypeOK, Typed, shared
<1>4. CASE Known(c)
  <2>0. {t \in job[c].todo : t.id \notin IdsOf(rows)} \in SUBSET Items
    BY <1>1 DEF Jobs
  <2>1. [job[c] EXCEPT !.pc = "insert", !.seen = job[c].todo,
                       !.todo = {t \in @ : t.id \notin IdsOf(rows)}] \in Jobs
    BY <1>1, <2>0 DEF Jobs, PCs
  <2>2. QED
    BY <1>4, <2>1, BecomeTyped DEF Known, TypeOK, Typed, shared
<1>5. CASE InsertFails(c)
  <2>1. PICK t \in job[c].todo : Become(c, [job[c] EXCEPT !.todo = @ \ {t}])
    BY <1>5 DEF InsertFails
  <2>2. [job[c] EXCEPT !.todo = @ \ {t}] \in Jobs
    BY <1>1 DEF Jobs
  <2>3. QED
    BY <1>5, <2>1, <2>2, BecomeTyped DEF InsertFails, TypeOK, Typed, shared
<1>6. QED
  BY <1>2, <1>3, <1>4, <1>5

\* The insert of discover.
LEMMA InsertRowTyped ==
  ASSUME TypeOK, NEW c \in Commands, InsertRow(c)
  PROVE  Typed
<1>1. job[c] \in Jobs
  BY DEF TypeOK
<1>2. PICK t \in job[c].todo :
        /\ Become(c, [job[c] EXCEPT !.todo = Rest(c, t)])
        /\ rows' = IF Conflicts(t.id, t.name) THEN rows ELSE rows \cup {NewRow(t)}
  BY DEF InsertRow
<1>3. t \in Items
  BY <1>1 DEF Jobs
<1>4. NewRow(t) \in Row
  <2>1. Classify(t.facts) \in Classifications
    BY <1>3, ClassifyTyped DEF Items
  <2>2. QED
    BY <1>3, <2>1 DEF NewRow, Row, Items, Classifications
<1>5. [job[c] EXCEPT !.todo = Rest(c, t)] \in Jobs
  BY <1>1 DEF Jobs, Rest
<1>6. QED
  BY <1>2, <1>4, <1>5, BecomeTyped DEF InsertRow, TypeOK, Typed

\* A command that reads rows and goes on with them, or finds them unreadable.
LEMMA ReadsTyped ==
  ASSUME TypeOK, NEW c \in Commands, NEW S \in SUBSET rows,
         NEW pc \in {"fetch", "write", "commit"}, Starting(c), Reads(c, S, pc)
  PROVE  job' \in [Commands -> Jobs] /\ starts' \in 0..MaxStarts
<1>1. {Item(r) : r \in S} \subseteq Items
  BY ItemTyped DEF TypeOK
<1>2. [Idle EXCEPT !.pc = pc, !.todo = {Item(r) : r \in S},
                   !.seen = IF pc = "write" THEN {Item(r) : r \in S} ELSE {}] \in Jobs
  BY <1>1, IdleTyped DEF Jobs, PCs
<1>3. [Idle EXCEPT !.pc = "unreadable"] \in Jobs
  BY IdleTyped DEF Jobs, PCs
<1>4. QED
  BY <1>2, <1>3, BeginTyped DEF Reads

\* The commands that begin with a reading of the table.
LEMMA StartTyped ==
  ASSUME TypeOK, NEW c \in Commands,
         StartRefresh(c) \/ StartReclassify(c) \/ StartGold(c)
  PROVE  Typed
<1>1. CASE StartRefresh(c)
  <2>1. \E S \in SUBSET rows : Reads(c, S, "fetch")
    BY <1>1 DEF StartRefresh
  <2>2. job' \in [Commands -> Jobs] /\ starts' \in 0..MaxStarts
    BY <1>1, <2>1, ReadsTyped DEF StartRefresh
  <2>3. QED
    BY <1>1, <2>2 DEF StartRefresh, TypeOK, Typed, shared
<1>2. CASE StartReclassify(c)
  <2>1. job' \in [Commands -> Jobs] /\ starts' \in 0..MaxStarts
    BY <1>2, ReadsTyped DEF StartReclassify
  <2>2. QED
    BY <1>2, <2>1 DEF StartReclassify, TypeOK, Typed, shared
<1>3. CASE StartGold(c)
  <2> DEFINE S == {r \in rows : r.name \in Gold}
  <2>1. Unrecorded(S) \cup {r \in S : ~r.dated} \in SUBSET rows
    BY DEF Unrecorded
  <2>2. [Idle EXCEPT !.pc = "raised"] \in Jobs
    BY IdleTyped DEF Jobs, PCs
  <2>3. job' \in [Commands -> Jobs] /\ starts' \in 0..MaxStarts
    BY <1>3, <2>1, <2>2, ReadsTyped, BeginTyped DEF StartGold
  <2>4. QED
    BY <1>3, <2>3 DEF StartGold, TypeOK, Typed, shared
<1>4. QED
  BY <1>1, <1>2, <1>3

\* A command that is done with one of its items.
LEMMA DropTyped ==
  ASSUME TypeOK, NEW c \in Commands, NEW t,
         Become(c, [job[c] EXCEPT !.todo = @ \ {t}])
  PROVE  job' \in [Commands -> Jobs] /\ starts' \in 0..MaxStarts
<1>1. [job[c] EXCEPT !.todo = @ \ {t}] \in Jobs
  BY DEF TypeOK, Jobs
<1>2. QED
  BY <1>1, BecomeTyped

\* refresh.
LEMMA RefreshTyped ==
  ASSUME TypeOK, NEW c \in Commands, Miss(c) \/ Fetch(c) \/ Store(c)
  PROVE  Typed
<1>1. job[c] \in Jobs
  BY DEF TypeOK
<1>2. CASE Miss(c)
  BY <1>2, DropTyped DEF Miss, TypeOK, Typed, shared
<1>3. CASE Fetch(c)
  <2>1. PICK t \in job[c].todo, l \in hub :
          Become(c, [job[c] EXCEPT !.pc = "store", !.todo = @ \ {t},
                                   !.seen = {[t EXCEPT !.facts = l.facts]}])
    BY <1>3 DEF Fetch
  <2>2. t \in Items /\ l.facts \in Facts
    BY <1>1, RegistryAssumption DEF Jobs, TypeOK, Listings
  <2>3. {[t EXCEPT !.facts = l.facts]} \in SUBSET Items
    BY <2>2 DEF Items
  <2>4. [job[c] EXCEPT !.pc = "store", !.todo = @ \ {t},
                       !.seen = {[t EXCEPT !.facts = l.facts]}] \in Jobs
    BY <1>1, <2>3 DEF Jobs, PCs
  <2>5. QED
    BY <1>3, <2>1, <2>4, BecomeTyped DEF Fetch, TypeOK, Typed, shared
<1>4. CASE Store(c)
  <2>1. PICK t \in job[c].seen : rows' = {Refreshed(r, t) : r \in rows}
    BY <1>4 DEF Store
  <2>2. t.facts \in Facts
    BY <1>1 DEF Jobs, Items
  <2>3. \A r \in Row : [t.facts EXCEPT !.fork = r.facts.fork] \in Facts
    BY <2>2 DEF Row, Facts
  <2>4. \A r \in Row : Refreshed(r, t) \in Row
    BY <2>3 DEF Refreshed, Row
  <2>5. rows' \subseteq Row
    BY <2>1, <2>4 DEF TypeOK
  <2>6. [job[c] EXCEPT !.pc = "fetch", !.seen = {}] \in Jobs
    BY <1>1 DEF Jobs, PCs
  <2>7. QED
    BY <1>4, <2>5, <2>6, BecomeTyped DEF Store, TypeOK, Typed
<1>5. QED
  BY <1>2, <1>3, <1>4

\* The row that reclassify writes.
LEMMA RewrittenTyped ==
  ASSUME NEW r \in Row, NEW t \in Items
  PROVE  Rewritten(r, t) \in Row
<1>1. Classify(t.facts) \in Classifications /\ t.facts \in Facts
  BY ClassifyTyped DEF Items
<1>2. CASE r.id # t.id
  BY <1>2 DEF Rewritten
<1>3. CASE r.id = t.id /\ Differs(r, Classify(t.facts))
  <2>1. Rewritten(r, t) =
          [r EXCEPT !.class = Classify(t.facts),
                    !.enabled = Classify(t.facts).status # "rejected",
                    !.basis = t.facts]
    BY <1>3 DEF Rewritten
  <2>2. Classify(t.facts) \in [status : Statuses, category : Categories \cup {"none"},
                               confidence : Nat, reason : Reasons \cup {""}]
    BY <1>1 DEF Classifications
  <2>3. QED
    BY <1>1, <2>1, <2>2 DEF Row
<1>4. CASE r.id = t.id /\ ~Differs(r, Classify(t.facts))
  <2>1. Rewritten(r, t) = [r EXCEPT !.basis = t.facts]
    BY <1>4 DEF Rewritten
  <2>2. QED
    BY <1>1, <2>1 DEF Row
<1>5. QED
  BY <1>2, <1>3, <1>4

\* reclassify.
LEMMA ReclassifyTyped ==
  ASSUME TypeOK, NEW c \in Commands, DryRun(c) \/ WriteClass(c)
  PROVE  Typed
<1>1. CASE DryRun(c)
  BY <1>1, IdleTyped, BecomeTyped DEF DryRun, TypeOK, Typed, shared
<1>2. CASE WriteClass(c)
  <2>1. PICK t \in job[c].todo :
          /\ rows' = {Rewritten(r, t) : r \in rows}
          /\ Become(c, [job[c] EXCEPT !.todo = @ \ {t}])
    BY <1>2 DEF WriteClass
  <2>2. t \in Items
    BY DEF TypeOK, Jobs
  <2>3. rows' \subseteq Row
    BY <2>1, <2>2, RewrittenTyped DEF TypeOK
  <2>4. QED
    BY <1>2, <2>1, <2>3, DropTyped DEF WriteClass, TypeOK, Typed
<1>3. QED
  BY <1>1, <1>2

\* The gold script's commit, and the end of any command.
LEMMA LeaveTyped ==
  ASSUME TypeOK, NEW c \in Commands, CommitGold(c) \/ Finish(c) \/ Kill(c)
  PROVE  Typed
<1>1. CASE CommitGold(c)
  <2>1. gold' \in [Ids -> Nat]
    BY <1>1 DEF CommitGold, TypeOK
  <2>2. QED
    BY <1>1, <2>1, IdleTyped, BecomeTyped DEF CommitGold, TypeOK, Typed
<1>2. CASE Finish(c)
  BY <1>2, IdleTyped, BecomeTyped DEF Finish, TypeOK, Typed, shared
<1>3. CASE Kill(c)
  BY <1>3, Bounds, IdleTyped, BecomeTyped DEF Kill, TypeOK, Typed, shared
<1>4. QED
  BY <1>1, <1>2, <1>3

\* Every step of the registry keeps its types.
LEMMA RegistryTyped ==
  ASSUME TypeOK, RegistryNext
  PROVE  Typed
<1>1. CASE Change
  BY <1>1, ChangeTyped
<1>2. ASSUME NEW c \in Commands, Start(c) \/ Work(c) \/ InsertFails(c) \/ Kill(c)
      PROVE  Typed
  BY <1>2, SeedTyped, DiscoverTyped, InsertRowTyped, StartTyped, RefreshTyped,
     ReclassifyTyped, LeaveTyped DEF Start, Work
<1>3. QED
  BY <1>1, <1>2 DEF RegistryNext

\* A creation that has not begun.
LEMMA UnmadeTyped == Unmade \in Makings
BY DEF Unmade, Makings, Given

\* What a creation remembers of a row.
LEMMA PickTyped == ASSUME NEW r \in Row PROVE Pick(r) \in Picks
BY DEF Pick, Row, Picks

\* What an action of a creation has to type.
MadeTyped == runs' \in Nat /\ manifest' \subseteq Manifested /\ making' \in [Drivers -> Makings]

\* What --include finds, name by name: nothing, or the rows of that name.
LEMMA NamedTyped ==
  ASSUME TypeOK, NEW include \in Includes
  PROVE  /\ Named(include) \in Seq(SUBSET Picks)
         /\ \A i \in DOMAIN Named(include) :
              Named(include)[i] = {} \/ Named(include)[i] = Found(include, i)
<1>1. include \in Seq(Names)
  BY CreationAssumption
<1>2. \A i \in DOMAIN include : Found(include, i) \subseteq Picks
  BY PickTyped DEF Found, TypeOK
<1>3. \A i \in DOMAIN include : Named(include)[i] \in SUBSET Picks
  BY <1>2 DEF Named
<1>4. Named(include) \in [1..Len(include) -> SUBSET Picks]
  BY <1>1, <1>3 DEF Named
<1>5. Named(include) \in Seq(SUBSET Picks)
  BY <1>1, <1>4
<1>6. QED
  BY <1>5 DEF Named

\* What the selection hands to the creation.
LEMMA SelectionTyped ==
  ASSUME TypeOK, NEW d \in Drivers, NEW include \in Includes, NEW pins \in Pinnings,
         NEW S \in SUBSET Others(include)
  PROVE  Selection(d, include, pins, S) \in Makings
<1>1. Named(include) \in Seq(SUBSET Picks)
  BY NamedTyped
<1>2. \A r \in S : r \in Row
  BY DEF Others, TypeOK
<1>3. {Pick(r) : r \in S} \in SUBSET Picks
  BY <1>2, PickTyped
<1>4. DOMAIN Named(include) = DOMAIN include
  BY DEF Named
<1>5. \A i \in DOMAIN include : Named(include)[i] \subseteq Picks
  BY <1>1, <1>4
<1>6. Chosen(include, S) \in SUBSET Picks
  BY <1>3, <1>5 DEF Chosen
<1>7. pins \in [Names -> Given]
  BY CreationAssumption
<1>8. (\A e \in Drivers \ {d} : making[e].pc = "idle") \in BOOLEAN
  OBVIOUS
<1>9. QED
  BY <1>1, <1>3, <1>6, <1>7, <1>8, UnmadeTyped DEF Selection, Makings

\* The selection.
LEMMA SelectTyped == ASSUME TypeOK, NEW d \in Drivers, Select(d) PROVE Typed /\ MadeTyped
<1>1. PICK m \in Makings :
        making' = [e \in Drivers |-> IF e = d THEN m
                                     ELSE [making[e] EXCEPT !.alone = FALSE]]
  BY SelectionTyped DEF Select
<1>2. \A e \in Drivers : [making[e] EXCEPT !.alone = FALSE] \in Makings
  BY DEF TypeOK, Makings
<1>3. making' \in [Drivers -> Makings]
  BY <1>1, <1>2
<1>4. starts' \in 0..MaxStarts
  BY Bounds DEF Select, TypeOK
<1>5. QED
  BY <1>3, <1>4 DEF Select, TypeOK, Typed, MadeTyped, shared

\* What is still to be inserted is one of the rows of the first name that is left, or,
\* when none is left, of the others.
LEMMA TodoTyped ==
  ASSUME TypeOK, NEW d \in Drivers, NEW t \in Todo(d)
  PROVE  /\ t.pick \in Picks /\ t.at \in Nat
         /\ \/ t.at \in DOMAIN making[d].first /\ t.pick \in making[d].first[t.at]
            \/ t.pick \in making[d].rest /\ Filled(making[d].first) = {}
<1>1. making[d].first \in Seq(SUBSET Picks) /\ making[d].rest \in SUBSET Picks
  BY DEF TypeOK, Makings
<1>2. CASE Filled(making[d].first) # {}
  <2>1. PICK i \in Filled(making[d].first) :
          \E p \in making[d].first[i] : t = [at |-> i, pick |-> p]
    BY <1>2 DEF Todo
  <2>2. i \in DOMAIN making[d].first
    BY DEF Filled
  <2>3. QED
    BY <1>1, <2>1, <2>2
<1>3. CASE Filled(making[d].first) = {}
  <2>1. PICK p \in making[d].rest : t = [at |-> 0, pick |-> p]
    BY <1>3 DEF Todo
  <2>2. QED
    BY <1>1, <1>3, <2>1
<1>4. QED
  BY <1>2, <1>3

\* A creation with one row less to insert.
LEMMA LeftTyped ==
  ASSUME TypeOK, NEW d \in Drivers, NEW t \in Todo(d)
  PROVE  Left(d, t) \in Makings
<1> DEFINE m == making[d]
           first == [j \in DOMAIN m.first |-> IF j = t.at THEN {} ELSE m.first[j]]
           rest == IF t.at = 0 THEN m.rest \ {t.pick} ELSE m.rest
<1>1. m \in Makings
  BY DEF TypeOK
<1>2. m.first \in Seq(SUBSET Picks) /\ m.next \in Nat /\ m.rest \in SUBSET Picks
  BY <1>1 DEF Makings
<1>3. first \in [1..Len(m.first) -> SUBSET Picks]
  BY <1>2
<1>4. first \in Seq(SUBSET Picks)
  BY <1>2, <1>3
<1>5. rest \in SUBSET Picks
  BY <1>2
<1>6. m.next + 1 \in Nat
  BY <1>2
<1>7. Left(d, t) = [m EXCEPT !.first = first, !.rest = rest, !.next = m.next + 1]
  BY DEF Left
<1> HIDE DEF m, first, rest
<1>8. QED
  BY <1>1, <1>4, <1>5, <1>6, <1>7 DEF Makings

\* A creation keeps its own types and leaves the registry alone.
LEMMA CreationTyped ==
  ASSUME TypeOK, NEW d \in Drivers, CreationStep(d)
  PROVE  MadeTyped /\ UNCHANGED vars
<1>1. making[d] \in Makings
  BY DEF TypeOK
<1>2. ASSUME NEW m \in Makings, Make(d, m) PROVE making' \in [Drivers -> Makings]
  BY <1>2 DEF Make, TypeOK
<1>3. CASE InsertRun(d)
  <2>0. \A n \in Nat : [making[d] EXCEPT !.pc = "newest", !.own = n] \in Makings
    BY <1>1 DEF Makings
  <2>1. [making[d] EXCEPT !.pc = "newest", !.own = runs + 1] \in Makings
    <3>1. runs + 1 \in Nat
      BY DEF TypeOK
    <3>2. QED
      BY <2>0, <3>1
  <2>2. QED
    BY <1>2, <1>3, <2>1 DEF InsertRun, MadeTyped, TypeOK
<1>4. CASE Newest(d)
  <2>1. [making[d] EXCEPT !.pc = "rows", !.rid = runs] \in Makings
    BY <1>1 DEF TypeOK, Makings
  <2>2. QED
    BY <1>2, <1>4, <2>1 DEF Newest, MadeTyped, TypeOK
<1>5. CASE InsertManifest(d)
  <2>1. PICK t \in Todo(d) : \E sha \in Shas(d, t.pick) :
       /\ manifest' = manifest \cup
            {[run |-> making[d].rid, pick |-> t.pick, sha |-> sha,
              position |-> making[d].next, given |-> making[d].pins[t.pick.name]]}
       /\ Make(d, Left(d, t))
    BY <1>5 DEF InsertManifest
  <2>2. t.pick \in Picks /\ t.pick.name \in Names
    BY TodoTyped DEF Picks
  <2>3. making[d].pins[t.pick.name] \in Given /\ making[d].rid \in Nat
        /\ making[d].next \in Nat
    BY <1>1, <2>2 DEF Makings
  <2>4. Shas(d, t.pick) \subseteq Commits
    BY <2>3 DEF Shas, Commits, Given
  <2>5. manifest' \subseteq Manifested
    BY <2>1, <2>2, <2>3, <2>4 DEF Manifested, TypeOK
  <2>6. making' \in [Drivers -> Makings]
    BY <1>2, <2>1, LeftTyped
  <2>7. QED
    BY <1>5, <2>5, <2>6 DEF InsertManifest, MadeTyped, TypeOK
<1>6. CASE Refused(d) \/ ReturnRun(d) \/ LeaveCreation(d)
  <2>1. /\ [making[d] EXCEPT !.pc = "raised"] \in Makings
        /\ [making[d] EXCEPT !.pc = "returned"] \in Makings
    BY <1>1 DEF Makings
  <2>2. QED
    BY <1>2, <1>6, <2>1, UnmadeTyped DEF Refused, ReturnRun, LeaveCreation, MadeTyped,
       TypeOK
<1>7. QED
  BY <1>3, <1>4, <1>5, <1>6 DEF CreationStep

\* A creation that is killed.
LEMMA KillTyped ==
  ASSUME TypeOK, NEW d \in Drivers, KillCreation(d)
  PROVE  Typed /\ MadeTyped
<1>1. making' \in [Drivers -> Makings]
  BY UnmadeTyped DEF KillCreation, Make, TypeOK
<1>2. faults' \in 0..MaxFaults
  BY Bounds DEF KillCreation, TypeOK
<1>3. QED
  BY <1>1, <1>2 DEF KillCreation, TypeOK, Typed, MadeTyped, shared

\* Every step keeps the types.
LEMMA TypeNext == TypeOK /\ [Next]_allVars => TypeOK'
<1> SUFFICES ASSUME TypeOK, [Next]_allVars PROVE TypeOK'
  OBVIOUS
<1>1. ASSUME Typed, MadeTyped PROVE TypeOK'
  BY <1>1 DEF Typed, MadeTyped, TypeOK
<1>2. CASE RegistryNext /\ UNCHANGED creation
  BY <1>1, <1>2, RegistryTyped DEF creation, MadeTyped, TypeOK
<1>3. ASSUME NEW d \in Drivers, Select(d) \/ CreationStep(d) \/ KillCreation(d)
      PROVE  TypeOK'
  <2>1. UNCHANGED vars => Typed
    BY DEF TypeOK, vars, Typed
  <2>2. QED
    BY <1>1, <1>3, <2>1, SelectTyped, CreationTyped, KillTyped
<1>4. CASE UNCHANGED allVars
  BY <1>4 DEF allVars, vars, creation, TypeOK
<1>5. QED
  BY <1>2, <1>3, <1>4 DEF Next

\* The types hold at the beginning.
LEMMA TypeInit == CreationInit => TypeOK
<1> SUFFICES ASSUME CreationInit PROVE TypeOK
  OBVIOUS
<1>1. hub \subseteq Listings
  BY RegistryAssumption DEF CreationInit, Init
<1>2. QED
  BY <1>1, Bounds, IdleTyped, UnmadeTyped DEF CreationInit, Init, TypeOK

\* Every variable has its type, for every GitHub, command and bound.
THEOREM TypeCorrect == Spec => []TypeOK
BY TypeInit, TypeNext, PTL DEF Spec

-----------------------------------------------------------------------------
(* The rows: one each, classified as a whole.                               *)

\* Four steps write the table of repositories, and no other.
LEMMA Writers ==
  ASSUME [Next]_allVars
  PROVE  \/ UNCHANGED rows
         \/ \E c \in Commands : Seed(c) \/ InsertRow(c) \/ Store(c) \/ WriteClass(c)
<1>1. CASE Change
  BY <1>1 DEF Change
<1>2. ASSUME NEW c \in Commands, Start(c) \/ Work(c) \/ InsertFails(c) \/ Kill(c)
      PROVE  UNCHANGED rows \/ Seed(c) \/ InsertRow(c) \/ Store(c) \/ WriteClass(c)
  BY <1>2 DEF Start, Work, StartDiscover, StartRefresh, StartReclassify, StartGold,
     Search, Known, Miss, Fetch, DryRun, CommitGold, Finish, InsertFails, Kill, shared
<1>3. ASSUME NEW d \in Drivers, Select(d) \/ CreationStep(d) \/ KillCreation(d)
      PROVE  UNCHANGED rows
  BY <1>3 DEF Select, CreationStep, InsertRun, Newest, InsertManifest, Refused,
     ReturnRun, LeaveCreation, KillCreation, shared, vars
<1>4. CASE UNCHANGED allVars
  BY <1>4 DEF allVars, vars
<1>5. QED
  BY <1>1, <1>2, <1>3, <1>4 DEF Next, RegistryNext

\* What a write makes of a row
LEMMA Written ==
  ASSUME NEW r \in Row, NEW t \in Items
  PROVE  /\ Refreshed(r, t).id = r.id /\ Refreshed(r, t).name = r.name
         /\ Refreshed(r, t).class = r.class /\ Refreshed(r, t).enabled = r.enabled
         /\ Refreshed(r, t).basis = r.basis /\ Refreshed(r, t).dated = r.dated
         /\ Rewritten(r, t).id = r.id /\ Rewritten(r, t).name = r.name
         /\ Rewritten(r, t).facts = r.facts /\ Rewritten(r, t).dated = r.dated
<1>1. /\ Refreshed(r, t).id = r.id /\ Refreshed(r, t).name = r.name
      /\ Refreshed(r, t).class = r.class /\ Refreshed(r, t).enabled = r.enabled
      /\ Refreshed(r, t).basis = r.basis /\ Refreshed(r, t).dated = r.dated
  BY DEF Refreshed, Row
<1>2. CASE r.id # t.id
  BY <1>1, <1>2 DEF Rewritten
<1>3. CASE r.id = t.id /\ Differs(r, Classify(t.facts))
  BY <1>1, <1>3 DEF Rewritten, Row
<1>4. CASE r.id = t.id /\ ~Differs(r, Classify(t.facts))
  BY <1>1, <1>4 DEF Rewritten, Row
<1>5. QED
  BY <1>2, <1>3, <1>4

\* What a command is at work on are items.
LEMMA Working ==
  ASSUME TypeOK, NEW c \in Commands
  PROVE  job[c].todo \subseteq Items /\ job[c].seen \subseteq Items
BY DEF TypeOK, Jobs

\* A repository is never given a second row: whoever inserts has looked, and the
\* unique constraints refuse what was inserted since.
LEMMA OneRowEachNext == TypeOK /\ OneRowEach /\ [Next]_allVars => OneRowEach'
<1> SUFFICES ASSUME TypeOK, OneRowEach, [Next]_allVars PROVE OneRowEach'
  OBVIOUS
<1>1. CASE UNCHANGED rows
  BY <1>1 DEF OneRowEach
<1>2. ASSUME NEW c \in Commands, Seed(c) PROVE OneRowEach'
  <2>1. rows' = rows \cup {SeedRow(n) : n \in {t \in Targets : ~Conflicts(t, t)}}
    BY <1>2 DEF Seed
  <2>2. \A n : SeedRow(n).id = n /\ SeedRow(n).name = n
    BY DEF SeedRow
  <2>3. \A n : ~Conflicts(n, n) => \A r \in rows : r.id # n /\ r.name # n
    BY DEF Conflicts
  <2>4. QED
    BY <2>1, <2>2, <2>3 DEF OneRowEach
<1>3. ASSUME NEW c \in Commands, InsertRow(c) PROVE OneRowEach'
  <2>1. PICK t \in job[c].todo :
          rows' = IF Conflicts(t.id, t.name) THEN rows ELSE rows \cup {NewRow(t)}
    BY <1>3 DEF InsertRow
  <2>2. NewRow(t).id = t.id /\ NewRow(t).name = t.name
    BY DEF NewRow
  <2>3. QED
    BY <2>1, <2>2 DEF OneRowEach, Conflicts
<1>4. ASSUME NEW c \in Commands, Store(c) PROVE OneRowEach'
  <2>1. PICK t \in Items : rows' = {Refreshed(r, t) : r \in rows}
    BY <1>4, Working DEF Store
  <2>2. QED
    BY <2>1, Written DEF OneRowEach, TypeOK
<1>5. ASSUME NEW c \in Commands, WriteClass(c) PROVE OneRowEach'
  <2>1. PICK t \in Items : rows' = {Rewritten(r, t) : r \in rows}
    BY <1>5, Working DEF WriteClass
  <2>2. QED
    BY <2>1, Written DEF OneRowEach, TypeOK
<1>6. QED
  BY <1>1, <1>2, <1>3, <1>4, <1>5, Writers

\* reclassify writes all columns of one answer, or finds them there.
LEMMA RewrittenWhole ==
  ASSUME NEW r \in Row, NEW t \in Items, r.id = t.id,
         r.dated => LET c == Classify(r.basis) IN
           /\ r.class.status = c.status /\ r.class.category = c.category
           /\ r.class.reason = c.reason /\ r.enabled = (c.status # "rejected")
  PROVE  /\ Rewritten(r, t).basis = t.facts
         /\ r.dated => LET c == Classify(t.facts) IN
              /\ Rewritten(r, t).class.status = c.status
              /\ Rewritten(r, t).class.category = c.category
              /\ Rewritten(r, t).class.reason = c.reason
              /\ Rewritten(r, t).enabled = (c.status # "rejected")
<1>1. CASE Differs(r, Classify(t.facts))
  BY <1>1 DEF Rewritten, Row
<1>2. CASE ~Differs(r, Classify(t.facts))
  <2>1. Rewritten(r, t) = [r EXCEPT !.basis = t.facts]
    BY <1>2 DEF Rewritten
  <2>2. /\ Rewritten(r, t).basis = t.facts /\ Rewritten(r, t).class = r.class
        /\ Rewritten(r, t).enabled = r.enabled
    BY <2>1 DEF Row
  <2>3. /\ r.class.status = Classify(t.facts).status
        /\ r.class.category = Classify(t.facts).category
        /\ r.class.reason = Classify(t.facts).reason
    BY <1>2 DEF Differs
  <2>4. QED
    BY <2>2, <2>3
<1>3. QED
  BY <1>1, <1>2

\* Whoever classifies writes the classification as a whole.
LEMMA ClassifiedNext == TypeOK /\ ClassifiedAsAWhole /\ [Next]_allVars => ClassifiedAsAWhole'
<1> SUFFICES ASSUME TypeOK, ClassifiedAsAWhole, [Next]_allVars PROVE ClassifiedAsAWhole'
  OBVIOUS
<1>1. CASE UNCHANGED rows
  BY <1>1 DEF ClassifiedAsAWhole
<1>2. ASSUME NEW c \in Commands, Seed(c) PROVE ClassifiedAsAWhole'
  <2>1. rows' = rows \cup {SeedRow(n) : n \in {t \in Targets : ~Conflicts(t, t)}}
    BY <1>2 DEF Seed
  <2>2. \A n : ~SeedRow(n).dated
    BY DEF SeedRow
  <2>3. QED
    BY <2>1, <2>2 DEF ClassifiedAsAWhole
<1>3. ASSUME NEW c \in Commands, InsertRow(c) PROVE ClassifiedAsAWhole'
  <2>1. PICK t \in job[c].todo :
          rows' = IF Conflicts(t.id, t.name) THEN rows ELSE rows \cup {NewRow(t)}
    BY <1>3 DEF InsertRow
  <2>2. /\ NewRow(t).class = Classify(t.facts) /\ NewRow(t).basis = t.facts
        /\ NewRow(t).enabled = (Classify(t.facts).status # "rejected")
    BY DEF NewRow
  <2>3. QED
    BY <2>1, <2>2 DEF ClassifiedAsAWhole
<1>4. ASSUME NEW c \in Commands, Store(c) PROVE ClassifiedAsAWhole'
  <2>1. PICK t \in Items : rows' = {Refreshed(r, t) : r \in rows}
    BY <1>4, Working DEF Store
  <2>2. QED
    BY <2>1, Written DEF ClassifiedAsAWhole, TypeOK
<1>5. ASSUME NEW c \in Commands, WriteClass(c) PROVE ClassifiedAsAWhole'
  <2>1. PICK t \in Items : rows' = {Rewritten(r, t) : r \in rows}
    BY <1>5, Working DEF WriteClass
  <2>2. SUFFICES ASSUME NEW s \in rows', s.dated
                 PROVE  LET k == Classify(s.basis) IN
                        /\ s.class.status = k.status /\ s.class.category = k.category
                        /\ s.class.reason = k.reason
                        /\ s.enabled = (k.status # "rejected")
    BY DEF ClassifiedAsAWhole
  <2>3. PICK r \in rows : s = Rewritten(r, t)
    BY <2>1
  <2>4. r \in Row /\ r.dated
    BY <2>2, <2>3, Written DEF TypeOK
  <2>5. LET k == Classify(r.basis) IN
          /\ r.class.status = k.status /\ r.class.category = k.category
          /\ r.class.reason = k.reason /\ r.enabled = (k.status # "rejected")
    BY <2>4 DEF ClassifiedAsAWhole
  <2>6. CASE r.id = t.id
    BY <2>3, <2>4, <2>5, <2>6, RewrittenWhole
  <2>7. CASE r.id # t.id
    BY <2>3, <2>5, <2>7 DEF Rewritten
  <2>8. QED
    BY <2>6, <2>7
<1>6. QED
  BY <1>1, <1>2, <1>3, <1>4, <1>5, Writers

\* However many commands found a repository at once, it has one row, and its name too.
THEOREM RowsUnique == Spec => []OneRowEach
<1>1. CreationInit => OneRowEach
  BY DEF CreationInit, Init, OneRowEach
<1>2. QED
  BY <1>1, OneRowEachNext, TypeCorrect, PTL DEF Spec

\* No two commands leave a classification that is partly of one of them.
THEOREM ClassificationsWhole == Spec => []ClassifiedAsAWhole
<1>1. CreationInit => ClassifiedAsAWhole
  BY DEF CreationInit, Init, ClassifiedAsAWhole
<1>2. QED
  BY <1>1, ClassifiedNext, TypeCorrect, PTL DEF Spec

\* A writer changes the description of a row or its classification, never takes a row,
\* its number or its name away.
LEMMA ColumnsNext ==
  ASSUME TypeOK, [Next]_allVars
  PROVE  \A r \in rows : \E s \in rows' :
           /\ s.id = r.id /\ s.name = r.name
           /\ s.facts = r.facts \/ (s.class = r.class /\ s.enabled = r.enabled)
<1>1. CASE UNCHANGED rows
  BY <1>1
<1>2. ASSUME NEW c \in Commands, Seed(c) \/ InsertRow(c)
      PROVE  rows \subseteq rows'
  BY <1>2 DEF Seed, InsertRow
<1>3. ASSUME NEW c \in Commands, Store(c), NEW r \in rows
      PROVE  \E s \in rows' : s.id = r.id /\ s.name = r.name
                              /\ s.class = r.class /\ s.enabled = r.enabled
  <2>1. PICK t \in Items : rows' = {Refreshed(q, t) : q \in rows}
    BY <1>3, Working DEF Store
  <2>2. QED
    BY <2>1, Written DEF TypeOK
<1>4. ASSUME NEW c \in Commands, WriteClass(c), NEW r \in rows
      PROVE  \E s \in rows' : s.id = r.id /\ s.name = r.name /\ s.facts = r.facts
  <2>1. PICK t \in Items : rows' = {Rewritten(q, t) : q \in rows}
    BY <1>4, Working DEF WriteClass
  <2>2. QED
    BY <2>1, Written DEF TypeOK
<1>5. QED
  BY <1>1, <1>2, <1>3, <1>4, Writers

\* Refresh and reclassify leave each other's columns, and no row vanishes.
THEOREM ColumnsKept == Spec => WritersKeepToTheirColumns
BY ColumnsNext, TypeCorrect, PTL DEF Spec, WritersKeepToTheirColumns

-----------------------------------------------------------------------------
(* Commands that no other disturbs.                                         *)

\* While a command is alone the others are idle.
AloneIsAlone == \A c \in Commands : job[c].alone => \A e \in Commands \ {c} : ~Running(e)

\* A command that begins ends the solitude of the others.
LEMMA AloneBegin ==
  ASSUME TypeOK, NEW c \in Commands, NEW j \in Jobs, AloneIsAlone, Starting(c), Begin(c, j)
  PROVE  AloneIsAlone'
<1>1. \A e \in Commands \ {c} : job'[e].alone = FALSE /\ job'[e].pc = job[e].pc
  BY DEF Begin, TypeOK, Jobs
<1>2. job'[c].alone = \A e \in Commands \ {c} : ~Running(e)
  BY DEF Begin, TypeOK, Jobs
<1>3. QED
  BY <1>1, <1>2 DEF AloneIsAlone, Running

\* A command that goes on stays as alone as it was.
LEMMA AloneBecome ==
  ASSUME TypeOK, NEW c \in Commands, NEW j \in Jobs, AloneIsAlone, Running(c),
         j.alone => job[c].alone, Become(c, j)
  PROVE  AloneIsAlone'
<1>1. \A e \in Commands \ {c} : job'[e] = job[e]
  BY DEF Become, TypeOK
<1>2. job'[c] = j
  BY DEF Become, TypeOK
<1>3. QED
  BY <1>1, <1>2 DEF AloneIsAlone, Running

\* A command begins, or one that runs goes on.
LEMMA JobChanges ==
  ASSUME TypeOK, NEW c \in Commands, Start(c) \/ Work(c) \/ InsertFails(c) \/ Kill(c)
  PROVE  \/ Seed(c)
         \/ Starting(c) /\ \E j \in Jobs : Begin(c, j)
         \/ Running(c) /\ \E j \in Jobs : (j.alone => job[c].alone) /\ Become(c, j)
<1>1. job[c] \in Jobs
  BY DEF TypeOK
<1>2. CASE Seed(c)
  BY <1>2
<1>3. CASE StartDiscover(c)
  <2>1. [Idle EXCEPT !.pc = "search"] \in Jobs
    BY IdleTyped DEF Jobs, PCs
  <2>2. QED
    BY <1>3, <2>1 DEF StartDiscover
<1>4. CASE StartRefresh(c) \/ StartReclassify(c) \/ StartGold(c)
  <2>1. ASSUME NEW S \in SUBSET rows, NEW pc \in {"fetch", "write", "commit"},
               Reads(c, S, pc)
        PROVE  \E j \in Jobs : Begin(c, j)
    <3>1. {Item(r) : r \in S} \subseteq Items
      BY ItemTyped DEF TypeOK
    <3>2. [Idle EXCEPT !.pc = pc, !.todo = {Item(r) : r \in S},
             !.seen = IF pc = "write" THEN {Item(r) : r \in S} ELSE {}] \in Jobs
      BY <3>1, IdleTyped DEF Jobs, PCs
    <3>3. [Idle EXCEPT !.pc = "unreadable"] \in Jobs
      BY IdleTyped DEF Jobs, PCs
    <3>4. QED
      BY <2>1, <3>2, <3>3 DEF Reads
  <2>2. [Idle EXCEPT !.pc = "raised"] \in Jobs
    BY IdleTyped DEF Jobs, PCs
  <2>3. \E S \in SUBSET rows, pc \in {"fetch", "write", "commit"} :
          Reads(c, S, pc) \/ Begin(c, [Idle EXCEPT !.pc = "raised"])
    <3>1. CASE StartRefresh(c)
      BY <3>1 DEF StartRefresh
    <3>2. CASE StartReclassify(c)
      BY <3>2 DEF StartReclassify
    <3>3. CASE StartGold(c)
      <4> DEFINE S == {r \in rows : r.name \in Gold}
      <4>1. Unrecorded(S) \cup {r \in S : ~r.dated} \in SUBSET rows
        BY DEF Unrecorded
      <4>2. QED
        BY <3>3, <4>1 DEF StartGold
    <3>4. QED
      BY <1>4, <3>1, <3>2, <3>3
  <2>4. Starting(c)
    BY <1>4 DEF StartRefresh, StartReclassify, StartGold
  <2>5. QED
    BY <2>1, <2>2, <2>3, <2>4
<1>5. CASE Search(c)
  <2>1. PICK S \in SUBSET Hits(c) :
          Become(c, [job[c] EXCEPT !.todo = @ \cup S, !.left = @ - 1])
    BY <1>5 DEF Search
  <2>2. S \subseteq Items
    <3>1. \A l \in hub : l.name \in Names /\ l.number \in Ids /\ l.facts \in Facts
      BY RegistryAssumption DEF Listings, Ids, TypeOK
    <3>2. QED
      BY <3>1 DEF Hits, Items
  <2>3. job[c].left - 1 \in 0..Queries /\ job[c].todo \cup S \in SUBSET Items
    BY <1>1, <1>5, <2>2, Bounds DEF Jobs, Search, QueriesLeft
  <2>4. \A n \in 0..Queries :
          /\ [job[c] EXCEPT !.todo = job[c].todo \cup S, !.left = n] \in Jobs
          /\ [job[c] EXCEPT !.todo = job[c].todo \cup S, !.left = n].alone = job[c].alone
    BY <1>1, <2>3 DEF Jobs
  <2>5. QED
    BY <1>5, <2>1, <2>3, <2>4 DEF Search, Running
<1>6. CASE Known(c)
  <2>1. {t \in job[c].todo : t.id \notin IdsOf(rows)} \in SUBSET Items
    BY <1>1 DEF Jobs
  <2> DEFINE j == [job[c] EXCEPT !.pc = "insert", !.seen = job[c].todo,
                              !.todo = {t \in @ : t.id \notin IdsOf(rows)}]
  <2>2. j \in Jobs /\ j.alone = job[c].alone
    BY <1>1, <2>1 DEF Jobs, PCs
  <2>3. QED
    BY <1>6, <2>2 DEF Known, Running
<1>7. CASE InsertRow(c) \/ InsertFails(c) \/ Miss(c) \/ WriteClass(c)
  <2>1. PICK t : Become(c, [job[c] EXCEPT !.todo = @ \ {t}])
    BY <1>7 DEF InsertRow, InsertFails, Miss, WriteClass, Rest
  <2>2. [job[c] EXCEPT !.todo = @ \ {t}] \in Jobs
        /\ [job[c] EXCEPT !.todo = @ \ {t}].alone = job[c].alone
    BY <1>1 DEF Jobs
  <2>3. QED
    BY <1>7, <2>1, <2>2 DEF InsertRow, InsertFails, Miss, WriteClass, Running
<1>8. CASE Fetch(c)
  <2>1. PICK t \in job[c].todo, l \in hub :
          Become(c, [job[c] EXCEPT !.pc = "store", !.todo = @ \ {t},
                                   !.seen = {[t EXCEPT !.facts = l.facts]}])
    BY <1>8 DEF Fetch
  <2>2. t \in Items /\ l.facts \in Facts
    BY <1>1, RegistryAssumption DEF Jobs, TypeOK, Listings
  <2>3. {[t EXCEPT !.facts = l.facts]} \in SUBSET Items
    BY <2>2 DEF Items
  <2> DEFINE j == [job[c] EXCEPT !.pc = "store", !.todo = @ \ {t},
                                 !.seen = {[t EXCEPT !.facts = l.facts]}]
  <2>4. j \in Jobs /\ j.alone = job[c].alone
    BY <1>1, <2>3 DEF Jobs, PCs
  <2>5. QED
    BY <1>8, <2>1, <2>4 DEF Fetch, Running
<1>9. CASE Store(c)
  <2>1. [job[c] EXCEPT !.pc = "fetch", !.seen = {}] \in Jobs
        /\ [job[c] EXCEPT !.pc = "fetch", !.seen = {}].alone = job[c].alone
    BY <1>1 DEF Jobs, PCs
  <2>2. QED
    BY <1>9, <2>1 DEF Store, Running
<1>10. CASE DryRun(c) \/ CommitGold(c) \/ Finish(c) \/ Kill(c)
  <2>1. Idle \in Jobs /\ Idle.alone = FALSE
    BY IdleTyped DEF Idle
  <2>2. Running(c) /\ Become(c, Idle)
    BY <1>10 DEF DryRun, CommitGold, Finish, Kill, Running
  <2>3. QED
    BY <2>1, <2>2
<1>11. QED
  BY <1>2, <1>3, <1>4, <1>5, <1>6, <1>7, <1>8, <1>9, <1>10 DEF Start, Work

\* A creation does nothing to the registry.
LEMMA CreationLeavesJobs ==
  ASSUME NEW d \in Drivers, Select(d) \/ CreationStep(d) \/ KillCreation(d)
  PROVE  UNCHANGED <<hub, rows, gold, job, changes>>
BY DEF Select, CreationStep, InsertRun, Newest, InsertManifest, Refused, ReturnRun,
   LeaveCreation, KillCreation, shared, vars

\* A command is alone only as long as no other has run.
LEMMA AloneNext == TypeOK /\ AloneIsAlone /\ [Next]_allVars => AloneIsAlone'
<1> SUFFICES ASSUME TypeOK, AloneIsAlone, [Next]_allVars PROVE AloneIsAlone'
  OBVIOUS
<1>1. CASE UNCHANGED job
  BY <1>1 DEF AloneIsAlone, Running
<1>2. ASSUME NEW c \in Commands, Start(c) \/ Work(c) \/ InsertFails(c) \/ Kill(c)
      PROVE  AloneIsAlone'
  <2>1. CASE Seed(c)
    <3>1. \A d \in Commands : job'[d].alone = FALSE
      BY <2>1 DEF Seed, TypeOK, Jobs
    <3>2. QED
      BY <3>1 DEF AloneIsAlone
  <2>2. QED
    BY <1>2, <2>1, JobChanges, AloneBegin, AloneBecome
<1>3. CASE Change
  BY <1>1, <1>3 DEF Change
<1>4. QED
  BY <1>1, <1>2, <1>3, CreationLeavesJobs DEF Next, RegistryNext, allVars, vars

\* A step of someone else leaves a command where it is, and the tables alone if the
\* command is still alone afterwards.
LEMMA Bystander ==
  ASSUME TypeOK, AloneIsAlone, [Next]_allVars, NEW c \in Commands,
         ~(Start(c) \/ Work(c) \/ InsertFails(c) \/ Kill(c))
  PROVE  /\ job'[c].pc = job[c].pc /\ job'[c].todo = job[c].todo
         /\ job'[c].seen = job[c].seen
         /\ job'[c].alone => job[c].alone /\ UNCHANGED <<rows, gold>>
<1>1. CASE Change
  BY <1>1 DEF Change
<1>2. ASSUME NEW e \in Commands \ {c}, Start(e) \/ Work(e) \/ InsertFails(e) \/ Kill(e)
      PROVE  /\ job'[c].pc = job[c].pc /\ job'[c].todo = job[c].todo
             /\ job'[c].seen = job[c].seen /\ ~job'[c].alone
  <2>1. CASE Seed(e)
    BY <2>1 DEF Seed, TypeOK, Jobs
  <2>2. ASSUME NEW j \in Jobs, Begin(e, j)
        PROVE  /\ job'[c].pc = job[c].pc /\ job'[c].todo = job[c].todo
               /\ job'[c].seen = job[c].seen /\ ~job'[c].alone
    BY <2>2 DEF Begin, TypeOK, Jobs
  <2>3. ASSUME NEW j \in Jobs, Running(e), Become(e, j)
        PROVE  job'[c] = job[c] /\ ~job'[c].alone
    <3>1. job'[c] = job[c]
      BY <2>3 DEF Become, TypeOK
    <3>2. QED
      BY <2>3, <3>1 DEF AloneIsAlone
  <2>4. QED
    BY <1>2, <2>1, <2>2, <2>3, JobChanges
<1>3. ASSUME NEW d \in Drivers, Select(d) \/ CreationStep(d) \/ KillCreation(d)
      PROVE  UNCHANGED <<rows, gold, job>>
  BY <1>3, CreationLeavesJobs
<1>4. CASE UNCHANGED allVars
  BY <1>4 DEF allVars, vars
<1>5. QED
  BY <1>1, <1>2, <1>3, <1>4 DEF Next, RegistryNext

\* What a command holds after its reading is what it has read.
LEMMA ReadsJob ==
  ASSUME TypeOK, NEW c \in Commands, NEW S \in SUBSET rows,
         NEW pc \in {"fetch", "write", "commit"}, Reads(c, S, pc)
  PROVE  \/ job'[c].pc = "unreadable"
         \/ /\ \A r \in S : r.dated
            /\ job'[c].pc = pc /\ job'[c].todo = {Item(r) : r \in S}
            /\ pc = "write" => job'[c].seen = {Item(r) : r \in S}
<1>1. ASSUME NEW j, Begin(c, j), j \in Jobs
      PROVE  job'[c].pc = j.pc /\ job'[c].todo = j.todo /\ job'[c].seen = j.seen
  BY <1>1 DEF Begin, TypeOK, Jobs
<1>2. {Item(r) : r \in S} \subseteq Items
  BY ItemTyped DEF TypeOK
<1> DEFINE j == [Idle EXCEPT !.pc = pc, !.todo = {Item(r) : r \in S},
                   !.seen = IF pc = "write" THEN {Item(r) : r \in S} ELSE {}]
<1>3. j \in Jobs /\ j.pc = pc /\ j.todo = {Item(r) : r \in S}
      /\ (pc = "write" => j.seen = {Item(r) : r \in S})
  BY <1>2, IdleTyped DEF Jobs, PCs
<1>4. [Idle EXCEPT !.pc = "unreadable"] \in Jobs
      /\ [Idle EXCEPT !.pc = "unreadable"].pc = "unreadable"
  BY IdleTyped DEF Jobs, PCs
<1>5. CASE \A r \in S : r.dated
  <2>1. Begin(c, j)
    BY <1>5 DEF Reads
  <2> HIDE DEF j
  <2>2. QED
    BY <1>1, <1>3, <1>5, <2>1
<1>6. CASE ~\A r \in S : r.dated
  BY <1>1, <1>4, <1>6 DEF Reads
<1>7. QED
  BY <1>5, <1>6

\* A command that goes on is what it becomes.
LEMMA Became ==
  ASSUME TypeOK, NEW c \in Commands, NEW j, Become(c, j)
  PROVE  job'[c] = j
BY DEF TypeOK, Become

\* From where the places are reached in which a command writes.
LEMMA Into ==
  ASSUME TypeOK, NEW c \in Commands, Start(c) \/ Work(c) \/ InsertFails(c) \/ Kill(c)
  PROVE  /\ job'[c].pc = "commit" => StartGold(c)
         /\ job'[c].pc = "write" => StartReclassify(c) \/ WriteClass(c)
         /\ job'[c].pc = "insert" => Known(c) \/ InsertRow(c) \/ InsertFails(c)
<1>1. job \in [Commands -> Jobs] /\ job[c] \in Jobs
  BY DEF TypeOK
<1>2. CASE Seed(c) \/ DryRun(c) \/ CommitGold(c) \/ Finish(c) \/ Kill(c)
  <2>1. job'[c].pc = "idle"
    BY <1>1, <1>2 DEF Seed, DryRun, CommitGold, Finish, Kill, Become, Starting, Jobs,
       Idle
  <2>2. QED
    BY <2>1
<1>3. CASE StartDiscover(c) \/ Search(c)
  <2>1. job'[c].pc = "search"
    BY ZenonT(40), <1>1, <1>3 DEF StartDiscover, Search, Begin, Become, Jobs, Idle
  <2>2. QED
    BY <2>1
<1>4. CASE Miss(c) \/ Fetch(c) \/ Store(c)
  <2>1. job'[c].pc \in {"fetch", "store"}
    <3>1. CASE Miss(c)
      BY <1>1, <3>1 DEF Miss, Become, Jobs
    <3>2. CASE Fetch(c)
      <4>1. PICK T, S : job'[c] = [job[c] EXCEPT !.pc = "store", !.todo = T, !.seen = S]
        BY <3>2, Became DEF Fetch
      <4>2. QED
        BY <1>1, <4>1 DEF Jobs
    <3>3. CASE Store(c)
      BY <1>1, <3>3 DEF Store, Become, Jobs
    <3>4. QED
      BY <1>4, <3>1, <3>2, <3>3
  <2>2. QED
    BY <2>1
<1>5. CASE StartRefresh(c)
  <2>1. job'[c].pc \in {"fetch", "unreadable"}
    BY <1>5, ReadsJob DEF StartRefresh
  <2>2. QED
    BY <2>1
<1>6. CASE StartReclassify(c)
  <2>1. job'[c].pc \in {"write", "unreadable"}
    BY <1>6, ReadsJob DEF StartReclassify
  <2>2. QED
    BY <1>6, <2>1
<1>7. CASE WriteClass(c)
  <2>1. job'[c].pc = "write"
    BY <1>1, <1>7 DEF WriteClass, Become, Jobs
  <2>2. QED
    BY <1>7, <2>1
<1>8. CASE StartGold(c)
  <2> DEFINE S == {r \in rows : r.name \in Gold}
  <2>1. Unrecorded(S) \cup {r \in S : ~r.dated} \in SUBSET rows
    BY DEF Unrecorded
  <2>2. ASSUME Begin(c, [Idle EXCEPT !.pc = "raised"]) PROVE job'[c].pc = "raised"
    BY <1>1, <2>2 DEF Begin, Idle
  <2>3. job'[c].pc \in {"commit", "raised", "unreadable"}
    BY <1>8, <2>1, <2>2, ReadsJob DEF StartGold
  <2>4. QED
    BY <1>8, <2>3
<1>9. CASE Known(c) \/ InsertRow(c) \/ InsertFails(c)
  <2>1. job'[c].pc = "insert"
    <3>1. CASE Known(c)
      <4>1. PICK T, S : job'[c] = [job[c] EXCEPT !.pc = "insert", !.seen = S, !.todo = T]
        BY <3>1, Became DEF Known
      <4>2. QED
        BY <1>1, <4>1 DEF Jobs
    <3>2. CASE InsertRow(c) \/ InsertFails(c)
      BY <1>1, <3>2 DEF InsertRow, InsertFails, Become, Jobs
    <3>3. QED
      BY <1>9, <3>1, <3>2
  <2>2. QED
    BY <1>9, <2>1
<1>10. QED
  BY <1>2, <1>3, <1>4, <1>5, <1>6, <1>7, <1>8, <1>9 DEF Start, Work

-----------------------------------------------------------------------------
(* The gold set.                                                            *)

\* What a script that commits is to record, with what is recorded, is the gold set.
Gathered ==
  \A c \in Commands : job[c].pc = "commit" =>
    \A n \in Gold : \E r \in rows :
      r.name = n /\ (gold[r.id] > 0 \/ r.id \in IdsOf(job[c].todo))

\* The gold script begins with all of its names found, and those not recorded to do.
LEMMA GoldStarts ==
  ASSUME TypeOK, NEW c \in Commands, StartGold(c), job'[c].pc = "commit"
  PROVE  /\ AllNamed({r \in rows : r.name \in Gold}) /\ UNCHANGED <<rows, gold>>
         /\ job'[c].todo = {Item(r) : r \in Unrecorded({s \in rows : s.name \in Gold})}
<1> DEFINE S == {r \in rows : r.name \in Gold}
           T == Unrecorded(S) \cup {r \in S : ~r.dated}
<1>1. ASSUME Begin(c, [Idle EXCEPT !.pc = "raised"]) PROVE job'[c].pc = "raised"
  BY <1>1 DEF Begin, Idle, TypeOK
<1>2. AllNamed(S) /\ Reads(c, T, "commit")
  BY <1>1 DEF StartGold
<1>3. T \in SUBSET rows
  BY DEF Unrecorded
<1>4. (\A r \in T : r.dated) /\ job'[c].todo = {Item(r) : r \in T}
  BY <1>2, <1>3, ReadsJob
<1>5. T = Unrecorded(S)
  BY <1>4
<1>6. QED
  BY <1>2, <1>4, <1>5 DEF StartGold, shared

\* An undisturbed gold script has nothing to do where there is an audit of the batch.
LEMMA GoldOnceNext ==
  TypeOK /\ AloneIsAlone /\ GoldOnce /\ [Next]_allVars => GoldOnce'
<1> SUFFICES ASSUME TypeOK, AloneIsAlone, GoldOnce, [Next]_allVars,
                    NEW c \in Commands, job'[c].pc = "commit", job'[c].alone,
                    NEW t \in job'[c].todo
             PROVE  gold'[t.id] = 0
  BY DEF GoldOnce
<1>1. CASE Start(c) \/ Work(c) \/ InsertFails(c) \/ Kill(c)
  <2>1. StartGold(c)
    BY <1>1, Into
  <2>2. PICK r \in Unrecorded({s \in rows : s.name \in Gold}) : t = Item(r)
    BY <2>1, GoldStarts
  <2>3. gold[t.id] = 0
    BY <2>2 DEF Unrecorded, Item
  <2>4. QED
    BY <2>1, <2>3, GoldStarts
<1>2. CASE ~(Start(c) \/ Work(c) \/ InsertFails(c) \/ Kill(c))
  <2>1. /\ job[c].pc = "commit" /\ job[c].alone /\ t \in job[c].todo /\ UNCHANGED gold
    BY <1>2, Bystander
  <2>2. QED
    BY <2>1 DEF GoldOnce
<1>3. QED
  BY <1>1, <1>2

\* gold changes when a script commits only, and an audit is never taken back.
LEMMA GoldWriters ==
  ASSUME TypeOK, [Next]_allVars
  PROVE  /\ \/ UNCHANGED gold
            \/ \E c \in Commands : CommitGold(c)
         /\ \A i \in Ids : gold[i] > 0 => gold'[i] > 0
<1>1. ASSUME NEW c \in Commands, Start(c) \/ Work(c) \/ InsertFails(c) \/ Kill(c)
      PROVE  UNCHANGED gold \/ CommitGold(c)
  BY <1>1 DEF Start, Work, StartDiscover, StartRefresh, StartReclassify, StartGold, Seed,
     Search, Known, Miss, Fetch, DryRun, Finish, InsertFails, Kill, shared, InsertRow,
     Store, WriteClass
<1>2. UNCHANGED gold \/ \E c \in Commands : CommitGold(c)
  BY <1>1, CreationLeavesJobs DEF Next, RegistryNext, Change, allVars, vars
<1>3. ASSUME NEW c \in Commands, CommitGold(c), NEW i \in Ids, gold[i] > 0
      PROVE  gold'[i] > 0
  <2>1. gold[i] \in Nat
    BY DEF TypeOK
  <2>2. gold'[i] = gold[i] + 1 \/ gold'[i] = gold[i] + 0
    BY <1>3 DEF CommitGold
  <2>3. QED
    BY <1>3, <2>1, <2>2
<1>4. QED
  BY <1>2, <1>3

\* The name of gold a step finds in the table keeps its row.
LEMMA GatheredNext == TypeOK /\ Gathered /\ [Next]_allVars /\ AloneIsAlone => Gathered'
<1> SUFFICES ASSUME TypeOK, Gathered, AloneIsAlone, [Next]_allVars,
                    NEW c \in Commands, job'[c].pc = "commit", NEW n \in Gold
             PROVE  \E r \in rows' :
                      r.name = n /\ (gold'[r.id] > 0 \/ r.id \in IdsOf(job'[c].todo))
  BY DEF Gathered
<1>1. CASE Start(c) \/ Work(c) \/ InsertFails(c) \/ Kill(c)
  <2> DEFINE S == {r \in rows : r.name \in Gold}
  <2>1. StartGold(c)
    BY <1>1, Into
  <2>2. PICK r \in S : r.name = n
    BY <2>1, GoldStarts DEF AllNamed
  <2>3. gold[r.id] \in Nat
    BY DEF TypeOK, Row
  <2>4. CASE gold[r.id] > 0
    BY <2>1, <2>2, <2>4, GoldStarts
  <2>5. CASE gold[r.id] = 0
    <3>1. Item(r) \in job'[c].todo
      BY <2>1, <2>5, GoldStarts DEF Unrecorded
    <3>2. r.id \in IdsOf(job'[c].todo)
      BY <3>1 DEF IdsOf, Item
    <3>3. QED
      BY <2>1, <2>2, <3>2, GoldStarts
  <2>6. QED
    BY <2>3, <2>4, <2>5
<1>2. CASE ~(Start(c) \/ Work(c) \/ InsertFails(c) \/ Kill(c))
  <2>1. job[c].pc = "commit" /\ job'[c].todo = job[c].todo
    BY <1>2, Bystander
  <2>2. PICK r \in rows : r.name = n /\ (gold[r.id] > 0 \/ r.id \in IdsOf(job[c].todo))
    BY <2>1 DEF Gathered
  <2>3. PICK s \in rows' : s.id = r.id /\ s.name = r.name
    BY ColumnsNext
  <2>4. r.id \in Ids
    BY DEF TypeOK, Row
  <2>5. QED
    BY <2>1, <2>2, <2>3, <2>4, GoldWriters
<1>3. QED
  BY <1>1, <1>2

\* The gold batch is recorded as a whole.
LEMMA GoldAllOrNoneNext ==
  TypeOK /\ Gathered /\ GoldAllOrNone /\ [Next]_allVars => GoldAllOrNone'
<1> SUFFICES ASSUME TypeOK, Gathered, GoldAllOrNone, [Next]_allVars,
                    NEW i \in Ids, gold'[i] > 0, NEW n \in Gold
             PROVE  \E r \in rows' : r.name = n /\ gold'[r.id] > 0
  BY DEF GoldAllOrNone
<1>1. CASE UNCHANGED gold
  <2>1. PICK r \in rows : r.name = n /\ gold[r.id] > 0
    BY <1>1 DEF GoldAllOrNone
  <2>2. PICK s \in rows' : s.id = r.id /\ s.name = r.name
    BY ColumnsNext
  <2>3. QED
    BY <1>1, <2>1, <2>2
<1>2. ASSUME NEW c \in Commands, CommitGold(c)
      PROVE  \E r \in rows' : r.name = n /\ gold'[r.id] > 0
  <2>1. job[c].pc = "commit" /\ UNCHANGED rows
    BY <1>2 DEF CommitGold
  <2>2. PICK r \in rows : r.name = n /\ (gold[r.id] > 0 \/ r.id \in IdsOf(job[c].todo))
    BY <2>1 DEF Gathered
  <2>3. r.id \in Ids /\ gold[r.id] \in Nat
    BY DEF TypeOK, Row
  <2>4. CASE gold[r.id] > 0
    BY <2>1, <2>2, <2>3, <2>4, GoldWriters
  <2>5. CASE r.id \in IdsOf(job[c].todo)
    <3>1. gold'[r.id] = gold[r.id] + 1
      BY <1>2, <2>3, <2>5 DEF CommitGold
    <3>2. QED
      BY <2>1, <2>2, <2>3, <3>1
  <2>6. QED
    BY <2>2, <2>4, <2>5
<1>3. QED
  BY <1>1, <1>2, GoldWriters

\* Nothing has been started.
LEMMA CommandsInit ==
  CreationInit => /\ AloneIsAlone /\ GoldOnce /\ Gathered /\ GoldAllOrNone
BY DEF CreationInit, Init, Idle, AloneIsAlone, GoldOnce, Gathered, GoldAllOrNone

\* A script that no other command disturbs repeats no audit.
THEOREM GoldNotRepeated == Spec => []GoldOnce
BY CommandsInit, AloneNext, GoldOnceNext, TypeCorrect, PTL DEF Spec

\* Whatever runs at once and fails, the gold set has audits for all of its names or
\* for none.
THEOREM GoldWhole == Spec => []GoldAllOrNone
BY CommandsInit, AloneNext, GatheredNext, GoldAllOrNoneNext, TypeCorrect, PTL DEF Spec

-----------------------------------------------------------------------------
(* Discoveries and reclassifications.                                       *)

\* Faults are not forgotten.
LEMMA FaultsGrow == ASSUME TypeOK, [Next]_allVars PROVE faults' >= faults
<1>1. faults \in Nat
  BY Bounds DEF TypeOK
<1>2. UNCHANGED faults \/ faults' = faults + 1
  <2>1. ASSUME NEW c \in Commands, Start(c) \/ Work(c) \/ InsertFails(c) \/ Kill(c)
        PROVE  UNCHANGED faults \/ faults' = faults + 1
    BY <2>1 DEF Start, Work, StartDiscover, StartRefresh, StartReclassify, StartGold,
       Seed, Search, Known, Miss, Fetch, DryRun, Finish, InsertFails, Kill, InsertRow,
       Store, WriteClass, CommitGold
  <2>2. ASSUME NEW d \in Drivers, Select(d) \/ CreationStep(d) \/ KillCreation(d)
        PROVE  UNCHANGED faults \/ faults' = faults + 1
    BY <2>2 DEF Select, CreationStep, InsertRun, Newest, InsertManifest, Refused,
       ReturnRun, LeaveCreation, KillCreation, vars
  <2>3. QED
    BY <2>1, <2>2 DEF Next, RegistryNext, Change, allVars, vars
<1>3. QED
  BY <1>1, <1>2

\* Without a fault, what a discovery no longer has to do is in the table.
LEMMA DiscoveryNext ==
  TypeOK /\ AloneIsAlone /\ DiscoveryIsComplete /\ [Next]_allVars => DiscoveryIsComplete'
<1> SUFFICES ASSUME TypeOK, AloneIsAlone, DiscoveryIsComplete, [Next]_allVars,
                    NEW c \in Commands, job'[c].pc = "insert", faults' = 0,
                    NEW t \in job'[c].seen \ job'[c].todo
             PROVE  \E r \in rows' : r.id = t.id \/ r.name = t.name
  BY DEF DiscoveryIsComplete
<1>1. faults = 0
  BY FaultsGrow, Bounds DEF TypeOK
<1>2. ASSUME NEW r \in rows, r.id = t.id \/ r.name = t.name
      PROVE  \E s \in rows' : s.id = t.id \/ s.name = t.name
  BY <1>2, ColumnsNext
<1>3. ASSUME job[c].pc = "insert", t \in job[c].seen \ job[c].todo
      PROVE  \E r \in rows' : r.id = t.id \/ r.name = t.name
  BY <1>1, <1>2, <1>3 DEF DiscoveryIsComplete
<1>4. CASE ~(Start(c) \/ Work(c) \/ InsertFails(c) \/ Kill(c))
  BY <1>3, <1>4, Bystander
<1>5. CASE Known(c)
  <2>1. job[c] \in Jobs
    BY DEF TypeOK
  <2>2. job'[c] = [job[c] EXCEPT !.pc = "insert", !.seen = job[c].todo,
                            !.todo = {u \in @ : u.id \notin IdsOf(rows)}]
    BY <1>5, Became DEF Known
  <2>3. job'[c].seen = job[c].todo
        /\ job'[c].todo = {u \in job[c].todo : u.id \notin IdsOf(rows)}
    BY <2>1, <2>2 DEF Jobs
  <2>4. t.id \in IdsOf(rows)
    BY <2>3
  <2>5. QED
    BY <1>2, <2>4 DEF IdsOf
<1>6. CASE InsertRow(c)
  <2>1. PICK u \in job[c].todo :
          /\ Become(c, [job[c] EXCEPT !.todo = Rest(c, u)])
          /\ rows' = IF Conflicts(u.id, u.name) THEN rows ELSE rows \cup {NewRow(u)}
    BY <1>6 DEF InsertRow
  <2>2. job'[c].seen = job[c].seen /\ job'[c].todo = job[c].todo \ {u}
    BY <2>1, Became DEF TypeOK, Jobs, Rest
  <2>3. CASE t = u
    <3>1. NewRow(u).id = u.id
      BY DEF NewRow
    <3>2. CASE Conflicts(u.id, u.name)
      BY <2>1, <2>3, <3>2 DEF Conflicts
    <3>3. CASE ~Conflicts(u.id, u.name)
      BY <2>1, <2>3, <3>1, <3>3
    <3>4. QED
      BY <3>2, <3>3
  <2>4. CASE t # u
    BY <1>3, <1>6, <2>2, <2>4 DEF InsertRow
  <2>5. QED
    BY <2>3, <2>4
<1>7. CASE InsertFails(c)
  BY <1>1, <1>7 DEF InsertFails
<1>8. QED
  BY <1>4, <1>5, <1>6, <1>7, Into

\* What an undisturbed reclassification read is still what the table has, and what it
\* has dealt with is up to date.
Undisturbed ==
  \A c \in Commands : job[c].pc = "write" /\ job[c].alone =>
    /\ job[c].todo \subseteq job[c].seen
    /\ \A t \in job[c].seen, r \in rows : r.id = t.id =>
      /\ r.facts = t.facts /\ r.dated
      /\ t \notin job[c].todo =>
           /\ r.class.status = Classify(r.facts).status
           /\ r.class.category = Classify(r.facts).category
           /\ r.enabled = (Classify(r.facts).status # "rejected")

\* Nobody has written to what an undisturbed command has read.
LEMMA UndisturbedNext ==
  TypeOK /\ AloneIsAlone /\ OneRowEach /\ ClassifiedAsAWhole /\ Undisturbed
    /\ [Next]_allVars => Undisturbed'
<1> SUFFICES ASSUME TypeOK, AloneIsAlone, OneRowEach, ClassifiedAsAWhole, Undisturbed,
                    [Next]_allVars,
                    NEW c \in Commands, job'[c].pc = "write", job'[c].alone
             PROVE  /\ job'[c].todo \subseteq job'[c].seen
                    /\ \A t \in job'[c].seen, r \in rows' : r.id = t.id =>
                         /\ r.facts = t.facts /\ r.dated
                         /\ t \notin job'[c].todo =>
                              /\ r.class.status = Classify(r.facts).status
                              /\ r.class.category = Classify(r.facts).category
                              /\ r.enabled = (Classify(r.facts).status # "rejected")
  BY DEF Undisturbed
<1>0. job'[c].todo \subseteq job'[c].seen
  <2>1. CASE ~(Start(c) \/ Work(c) \/ InsertFails(c) \/ Kill(c))
    BY <2>1, Bystander DEF Undisturbed
  <2>2. CASE StartReclassify(c)
    BY <2>2, ReadsJob DEF StartReclassify
  <2>3. CASE WriteClass(c)
    <3>1. PICK u : job'[c] = [job[c] EXCEPT !.todo = @ \ {u}]
      BY <2>3, Became DEF WriteClass
    <3>2. job[c].pc = "write" /\ job'[c].seen = job[c].seen
          /\ job'[c].todo = job[c].todo \ {u} /\ job'[c].alone = job[c].alone
      BY <2>3, <3>1 DEF WriteClass, TypeOK, Jobs
    <3>3. QED
      BY <3>2 DEF Undisturbed
  <2>4. QED
    BY <2>1, <2>2, <2>3, Into
<1> SUFFICES ASSUME NEW t \in job'[c].seen, NEW r \in rows', r.id = t.id
             PROVE  /\ r.facts = t.facts /\ r.dated
                    /\ t \notin job'[c].todo =>
                         /\ r.class.status = Classify(r.facts).status
                         /\ r.class.category = Classify(r.facts).category
                         /\ r.enabled = (Classify(r.facts).status # "rejected")
  BY <1>0
<1>1. CASE ~(Start(c) \/ Work(c) \/ InsertFails(c) \/ Kill(c))
  <2>1. /\ job[c].pc = "write" /\ job[c].alone /\ t \in job[c].seen
        /\ job'[c].todo = job[c].todo /\ r \in rows
    BY <1>1, Bystander
  <2>2. QED
    BY <2>1 DEF Undisturbed
<1>2. CASE StartReclassify(c)
  <2>1. PICK S \in SUBSET rows : Reads(c, S, "write")
    BY <1>2 DEF StartReclassify
  <2>2. /\ \A s \in S : s.dated
        /\ job'[c].todo = {Item(s) : s \in S} /\ job'[c].seen = {Item(s) : s \in S}
    BY <2>1, ReadsJob
  <2>3. PICK s \in S : t = Item(s)
    BY <2>2
  <2>4. r \in rows /\ s \in rows /\ r.id = s.id
    BY <1>2, <2>3 DEF StartReclassify, shared, Item
  <2>5. r = s
    BY <2>4 DEF OneRowEach
  <2>6. QED
    BY <2>2, <2>3, <2>5 DEF Item
<1>3. CASE WriteClass(c)
  <2>1. PICK u \in job[c].todo :
          /\ rows' = {Rewritten(q, u) : q \in rows}
          /\ Become(c, [job[c] EXCEPT !.todo = @ \ {u}])
    BY <1>3 DEF WriteClass
  <2>2. /\ job'[c].seen = job[c].seen /\ job'[c].todo = job[c].todo \ {u}
        /\ job'[c].alone = job[c].alone /\ job[c].pc = "write"
    BY ZenonT(40), <1>3, <2>1, Became DEF TypeOK, Jobs, WriteClass
  <2>3. PICK q \in rows : r = Rewritten(q, u)
    BY <2>1
  <2>4. q \in Row /\ u \in Items
    BY Working DEF TypeOK
  <2>5. r.id = q.id /\ r.facts = q.facts /\ r.dated = q.dated
    BY <2>3, <2>4, Written
  <2>6. /\ q.facts = t.facts /\ q.dated
        /\ t \notin job[c].todo =>
             /\ q.class.status = Classify(q.facts).status
             /\ q.class.category = Classify(q.facts).category
             /\ q.enabled = (Classify(q.facts).status # "rejected")
    <3>1. t \in job[c].seen /\ q.id = t.id /\ job[c].alone
      BY <2>2, <2>5
    <3>2. QED
      BY <2>2, <3>1 DEF Undisturbed
  <2>7. CASE q.id # u.id
    <3>1. r = q
      BY <2>3, <2>7 DEF Rewritten
    <3>2. t # u
      BY <2>5, <2>7
    <3>3. QED
      BY <2>2, <2>6, <3>1, <3>2
  <2>8. CASE q.id = u.id
    <3>1. LET k == Classify(q.basis) IN
            /\ q.class.status = k.status /\ q.class.category = k.category
            /\ q.class.reason = k.reason /\ q.enabled = (k.status # "rejected")
      BY <2>6 DEF ClassifiedAsAWhole
    <3>2. /\ r.class.status = Classify(u.facts).status
          /\ r.class.category = Classify(u.facts).category
          /\ r.enabled = (Classify(u.facts).status # "rejected")
      BY <2>3, <2>4, <2>6, <2>8, <3>1, RewrittenWhole
    <3>3. u \in job[c].seen
      BY <2>2 DEF Undisturbed
    <3>4. q.facts = u.facts
      BY <2>2, <2>8, <3>3 DEF Undisturbed
    <3>5. QED
      BY <2>5, <2>6, <3>2, <3>4
  <2>9. QED
    BY <2>7, <2>8
<1>4. QED
  BY <1>1, <1>2, <1>3, Into


\* A reclassification nobody disturbed leaves fresh classifications.
LEMMA FreshFromUndisturbed == TypeOK /\ Undisturbed => FreshWhenReclassified
<1> SUFFICES ASSUME TypeOK, Undisturbed,
                    NEW c \in Commands, job[c].pc = "write", job[c].alone,
                    NEW r \in rows, r.id \in IdsOf(job[c].seen \ job[c].todo)
             PROVE  LET now == Classify(r.facts) IN
                    /\ r.class.status = now.status /\ r.class.category = now.category
                    /\ r.enabled = (now.status # "rejected")
  BY DEF FreshWhenReclassified
<1>1. PICK t \in job[c].seen \ job[c].todo : r.id = t.id
  BY DEF IdsOf
<1>2. QED
  BY <1>1 DEF Undisturbed

\* Whatever races left behind, a reclassification nothing disturbs puts right.
THEOREM ReclassifiedFresh == Spec => []FreshWhenReclassified
<1>1. CreationInit => Undisturbed
  BY DEF CreationInit, Init, Idle, Undisturbed
<1>2. QED
  BY <1>1, UndisturbedNext, FreshFromUndisturbed, CommandsInit, AloneNext, RowsUnique,
     ClassificationsWhole, TypeCorrect, PTL DEF Spec

\* Without failures a discovery loses nothing it found.
THEOREM DiscoveryComplete == Spec => []DiscoveryIsComplete
<1>1. CreationInit => DiscoveryIsComplete
  BY DEF CreationInit, Init, Idle, DiscoveryIsComplete
<1>2. QED
  BY <1>1, DiscoveryNext, CommandsInit, AloneNext, TypeCorrect, PTL DEF Spec

-----------------------------------------------------------------------------
(* Creations.                                                               *)

\* Whatever a creation has chosen or is to write has been accepted, and of each name
\* given there is one repository at most.
Sound(m) ==
  /\ m.rest \subseteq m.picked
  /\ \A i \in DOMAIN m.first : /\ m.first[i] \subseteq m.picked
                               /\ \A p, q \in m.first[i] : p = q
  /\ \A p \in m.picked : p.dated => Classify(p.vetted).status = "accepted"
Vetted == \A d \in Drivers : Sound(making[d])

\* Only creations write creations.
LEMMA RegistryLeavesMakings ==
  ASSUME [Next]_allVars,
         ~\E d \in Drivers : Select(d) \/ CreationStep(d) \/ KillCreation(d)
  PROVE  UNCHANGED creation
BY DEF Next, allVars

\* A step of a creation is about that one only.
LEMMA MadeIs ==
  ASSUME TypeOK, NEW d \in Drivers, NEW m, Make(d, m)
  PROVE  making'[d] = m /\ \A e \in Drivers \ {d} : making'[e] = making[e]
BY DEF TypeOK, Make

\* A row that is eligible was accepted by the classifier.
LEMMA PickedVetted ==
  ASSUME TypeOK, ClassifiedAsAWhole, NEW r \in rows, Eligible(r), Pick(r).dated
  PROVE  Classify(Pick(r).vetted).status = "accepted"
BY DEF ClassifiedAsAWhole, Eligible, Pick

\* All that was picked is left to do.
AllLeft(m) ==
  \A p \in m.picked : p \in m.rest \/ \E i \in DOMAIN m.first : p \in m.first[i]

\* A selection is sound: all that it holds, and could read the dates of, was accepted.
LEMMA SelectionVetted ==
  ASSUME TypeOK, OneRowEach, ClassifiedAsAWhole, NEW d \in Drivers,
         NEW include \in Includes, NEW pins \in Pinnings, NEW S \in SUBSET Others(include),
         making'[d] = Selection(d, include, pins, S)
  PROVE  /\ Sound(making'[d]) /\ making'[d].pc = "insert" /\ making'[d].next = 0
         /\ AllLeft(making'[d])
         /\ making'[d].alone => \A e \in Drivers \ {d} : making[e].pc = "idle"
<1> DEFINE m == making'[d]
<1>1. /\ m.rest = {Pick(r) : r \in S} /\ m.first = Named(include)
      /\ m.picked = Chosen(include, S) /\ m.pc = "insert" /\ m.next = 0
      /\ m.pins = pins /\ m.alone = \A e \in Drivers \ {d} : making[e].pc = "idle"
  BY DEF Selection, Unmade
<1>2. DOMAIN Named(include) = DOMAIN include
  BY DEF Named
<1>3. m.picked = m.rest \cup UNION {m.first[i] : i \in DOMAIN m.first}
  BY <1>1, <1>2 DEF Chosen
<1>4. \A i \in DOMAIN m.first : m.first[i] = {} \/ m.first[i] = Found(include, i)
  BY <1>1, NamedTyped
<1>5. \A i : \A p \in Found(include, i) :
        \E r \in rows : r.name = include[i] /\ Eligible(r) /\ p = Pick(r)
  BY DEF Found
<1>6. \A i \in DOMAIN m.first : \A p, q \in m.first[i] : p = q
  <2>1. SUFFICES ASSUME NEW i \in DOMAIN m.first, NEW p \in Found(include, i),
                        NEW q \in Found(include, i)
                 PROVE  p = q
    BY <1>4
  <2>2. PICK r \in rows : r.name = include[i] /\ p = Pick(r)
    BY <1>5
  <2>3. PICK s \in rows : s.name = include[i] /\ q = Pick(s)
    BY <1>5
  <2>4. r = s
    BY <2>2, <2>3 DEF OneRowEach
  <2>5. QED
    BY <2>2, <2>3, <2>4
<1>7. \A p \in m.picked : p.dated => Classify(p.vetted).status = "accepted"
  <2>1. SUFFICES ASSUME NEW p \in m.picked
                 PROVE  \E r \in rows : Eligible(r) /\ p = Pick(r)
    BY PickedVetted
  <2>2. CASE p \in m.rest
    BY <1>1, <2>2 DEF Others
  <2>3. CASE \E i \in DOMAIN m.first : p \in m.first[i]
    BY <1>4, <1>5, <2>3
  <2>4. QED
    BY <1>3, <2>2, <2>3
<1>8. Sound(m)
  BY <1>3, <1>6, <1>7 DEF Sound
<1>9. AllLeft(m)
  BY <1>3 DEF AllLeft
<1>10. QED
  BY <1>1, <1>8, <1>9

\* A creation leaves its repositories one by one.
LEMMA LeftIs ==
  ASSUME TypeOK, NEW d \in Drivers, NEW t \in Todo(d), Make(d, Left(d, t))
  PROVE  LET m == making'[d] IN
         /\ m.pc = making[d].pc /\ m.picked = making[d].picked /\ m.own = making[d].own
         /\ m.rid = making[d].rid /\ m.alone = making[d].alone
         /\ m.pins = making[d].pins /\ m.next = making[d].next + 1
         /\ m.rest \subseteq making[d].rest /\ making[d].rest \subseteq m.rest \cup {t.pick}
         /\ DOMAIN m.first = DOMAIN making[d].first
         /\ \A i \in DOMAIN m.first :
              m.first[i] = IF i = t.at THEN {} ELSE making[d].first[i]
<1> DEFINE k == making[d]
           m == making'[d]
           first == [j \in DOMAIN k.first |-> IF j = t.at THEN {} ELSE k.first[j]]
           rest == IF t.at = 0 THEN k.rest \ {t.pick} ELSE k.rest
<1>1. k \in Makings
  BY DEF TypeOK
<1>2. m = [k EXCEPT !.first = first, !.rest = rest, !.next = k.next + 1]
  BY MadeIs DEF Left
<1>3. /\ m.pc = k.pc /\ m.picked = k.picked /\ m.own = k.own /\ m.rid = k.rid
      /\ m.alone = k.alone /\ m.pins = k.pins /\ m.next = k.next + 1
      /\ m.rest = rest /\ m.first = first
  <2> HIDE DEF k, first, rest
  <2>1. QED
    BY <1>1, <1>2 DEF Makings
<1>4. QED
  BY <1>3

\* What the steps do that insert no row of the manifest.
LEMMA StepIs ==
  ASSUME TypeOK, NEW d \in Drivers,
         InsertRun(d) \/ Newest(d) \/ Refused(d) \/ ReturnRun(d)
  PROVE  LET k == making[d]
             m == making'[d]
         IN /\ m.rest = k.rest /\ m.first = k.first /\ m.picked = k.picked
            /\ m.next = k.next /\ m.alone = k.alone
            /\ InsertRun(d) => m.pc = "newest" /\ m.own = runs + 1 /\ m.rid = k.rid
            /\ Newest(d) => m.pc = "rows" /\ m.own = k.own /\ m.rid = runs
            /\ Refused(d) => m.pc = "raised" /\ m.rid = k.rid
            /\ ReturnRun(d) => m.pc = "returned" /\ m.own = k.own /\ m.rid = k.rid
            /\ \A e \in Drivers \ {d} : making'[e] = making[e]
<1> DEFINE k == making[d]
           m == making'[d]
<1>1. k \in Makings
  BY DEF TypeOK
<1>2. CASE InsertRun(d)
  <2>1. m = [k EXCEPT !.pc = "newest", !.own = runs + 1]
        /\ \A e \in Drivers \ {d} : making'[e] = making[e]
    BY <1>2, MadeIs DEF InsertRun
  <2>2. k.pc = "insert"
    BY <1>2 DEF InsertRun
  <2>3. ~Newest(d) /\ ~Refused(d) /\ ~ReturnRun(d)
    BY <2>2 DEF Newest, Refused, ReturnRun
  <2>4. \A n : LET x == [k EXCEPT !.pc = "newest", !.own = n] IN
          /\ x.rest = k.rest /\ x.first = k.first /\ x.picked = k.picked
          /\ x.next = k.next /\ x.alone = k.alone /\ x.pc = "newest" /\ x.own = n
          /\ x.rid = k.rid
    BY <1>1 DEF Makings
  <2>5. QED
    BY <2>1, <2>3, <2>4
<1>3. CASE Newest(d)
  <2>1. m = [k EXCEPT !.pc = "rows", !.rid = runs]
        /\ \A e \in Drivers \ {d} : making'[e] = making[e]
    BY <1>3, MadeIs DEF Newest
  <2>2. k.pc = "newest"
    BY <1>3 DEF Newest
  <2>3. ~InsertRun(d) /\ ~Refused(d) /\ ~ReturnRun(d)
    BY <2>2 DEF InsertRun, Refused, ReturnRun
  <2>4. QED
    BY <1>1, <2>1, <2>3 DEF Makings
<1>4. CASE Refused(d)
  <2>1. m = [k EXCEPT !.pc = "raised"]
        /\ \A e \in Drivers \ {d} : making'[e] = making[e]
    BY <1>4, MadeIs DEF Refused
  <2>2. k.pc = "rows" /\ ~AllDone(d)
    BY <1>4 DEF Refused, AllDone, Todo
  <2>3. ~InsertRun(d) /\ ~Newest(d) /\ ~ReturnRun(d)
    BY <2>2 DEF InsertRun, Newest, ReturnRun
  <2>4. QED
    BY <1>1, <2>1, <2>3 DEF Makings
<1>5. CASE ReturnRun(d)
  <2>1. m = [k EXCEPT !.pc = "returned"]
        /\ \A e \in Drivers \ {d} : making'[e] = making[e]
    BY <1>5, MadeIs DEF ReturnRun
  <2>2. k.pc = "rows" /\ AllDone(d)
    BY <1>5 DEF ReturnRun
  <2>3. ~InsertRun(d) /\ ~Newest(d) /\ ~Refused(d)
    BY <2>2 DEF InsertRun, Newest, Refused, AllDone, Todo
  <2>4. QED
    BY <1>1, <2>1, <2>3 DEF Makings
<1>6. QED
  BY <1>2, <1>3, <1>4, <1>5

\* What a creation holds or has written stays vetted, whatever the registry becomes.
LEMMA VettedNext ==
  TypeOK /\ OneRowEach /\ ClassifiedAsAWhole /\ Vetted /\ [Next]_allVars => Vetted'
<1> SUFFICES ASSUME TypeOK, OneRowEach, ClassifiedAsAWhole, Vetted, [Next]_allVars
             PROVE  Vetted'
  OBVIOUS
<1>1. CASE UNCHANGED creation
  BY <1>1 DEF Vetted, creation
<1>2. \A d \in Drivers : Sound(making[d])
  BY DEF Vetted
<1>3. ASSUME NEW d \in Drivers, Select(d) PROVE Vetted'
  <2>1. PICK include, pins, S :
          /\ include \in Includes /\ pins \in Pinnings
          /\ S \in SUBSET Others(include)
          /\ making' = [e \in Drivers |-> IF e = d THEN Selection(d, include, pins, S)
                                          ELSE [making[e] EXCEPT !.alone = FALSE]]
    BY <1>3 DEF Select
  <2>0. S \in SUBSET Others(include) /\ making'[d] = Selection(d, include, pins, S)
    BY <2>1
  <2>2. Sound(making'[d])
    BY <2>0, <2>1, SelectionVetted
  <2>3. \A e \in Drivers \ {d} : making'[e].rest = making[e].rest
          /\ making'[e].first = making[e].first /\ making'[e].picked = making[e].picked
    BY <2>1 DEF TypeOK, Makings
  <2>4. \A e \in Drivers \ {d} : Sound(making'[e])
    BY <1>2, <2>3 DEF Sound
  <2>5. \A e \in Drivers : Sound(making'[e])
    BY <2>2, <2>4
  <2>6. QED
    BY <2>5 DEF Vetted
<1>4. ASSUME NEW d \in Drivers, NEW m, Make(d, m), Sound(m) PROVE Vetted'
  <2>1. \A e \in Drivers : Sound(making'[e])
    BY <1>2, <1>4, MadeIs
  <2>2. QED
    BY <2>1 DEF Vetted
<1>5. Sound(Unmade)
  BY DEF Unmade, Sound
<1>6. ASSUME NEW d \in Drivers, CreationStep(d) PROVE Vetted'
  <2>1. making[d] \in Makings /\ Sound(making[d])
    BY <1>2 DEF TypeOK
  <2>2. CASE InsertRun(d) \/ Newest(d) \/ Refused(d) \/ ReturnRun(d)
    <3>1. Sound(making'[d]) /\ \A e \in Drivers \ {d} : Sound(making'[e])
      BY <1>2, <2>2, StepIs DEF Sound
    <3>2. QED
      BY <3>1 DEF Vetted
  <2>3. CASE InsertManifest(d)
    <3>1. PICK t \in Todo(d) : Make(d, Left(d, t))
      BY <2>3 DEF InsertManifest
    <3>2. Sound(making'[d])
      BY <2>1, <3>1, LeftIs DEF Sound
    <3>3. making'[d] = Left(d, t)
      BY <3>1, MadeIs
    <3>4. QED
      BY <1>4, <3>1, <3>2, <3>3
  <2>4. CASE LeaveCreation(d)
    BY <1>4, <1>5, <2>4 DEF LeaveCreation
  <2>5. QED
    BY <1>6, <2>2, <2>3, <2>4 DEF CreationStep
<1>7. ASSUME NEW d \in Drivers, KillCreation(d) PROVE Vetted'
  BY <1>4, <1>5, <1>7 DEF KillCreation
<1>8. QED
  BY <1>1, <1>3, <1>6, <1>7, RegistryLeavesMakings

\* The manifest grows by what a creation had chosen, at the commit it should have.
LEMMA ManifestGrows ==
  ASSUME TypeOK, Vetted, [Next]_allVars, NEW m \in manifest'
  PROVE  \/ m \in manifest
         \/ /\ m.pick.dated => Classify(m.pick.vetted).status = "accepted"
            /\ m.given # "nothing" =>
                 m.sha = IF m.given = "commit" THEN "pinned" ELSE "none"
<1>1. CASE UNCHANGED creation
  BY <1>1 DEF creation
<1>2. ASSUME NEW d \in Drivers, InsertManifest(d), m \notin manifest
      PROVE  /\ m.pick.dated => Classify(m.pick.vetted).status = "accepted"
             /\ m.given # "nothing" =>
                  m.sha = IF m.given = "commit" THEN "pinned" ELSE "none"
  <2>1. PICK t \in Todo(d) : \E sha \in Shas(d, t.pick) :
          m = [run |-> making[d].rid, pick |-> t.pick, sha |-> sha,
               position |-> making[d].next, given |-> making[d].pins[t.pick.name]]
    BY <1>2 DEF InsertManifest
  <2>2. t.pick \in making[d].picked
    BY TodoTyped DEF Vetted, Sound
  <2>3. /\ m.pick = t.pick /\ m.given = making[d].pins[t.pick.name]
        /\ m.sha \in Shas(d, t.pick)
    BY <2>1
  <2>4. m.given \in Given
    BY <2>3, TodoTyped DEF TypeOK, Makings, Picks
  <2>5. QED
    BY <2>2, <2>3, <2>4 DEF Vetted, Sound, Shas, Given
<1>3. ASSUME NEW d \in Drivers, Select(d) \/ KillCreation(d)
      PROVE  UNCHANGED manifest
  BY <1>3 DEF Select, KillCreation
<1>4. ASSUME NEW d \in Drivers, CreationStep(d), ~InsertManifest(d)
      PROVE  UNCHANGED manifest
  BY <1>4 DEF CreationStep, InsertRun, Newest, Refused, ReturnRun, LeaveCreation
<1>5. QED
  BY <1>1, <1>2, <1>3, <1>4, RegistryLeavesMakings

\* At first nothing has been created.
LEMMA CreationStart ==
  CreationInit => Vetted /\ PinsAreHonoured /\ ManifestIsVetted
BY DEF CreationInit, Unmade, Vetted, Sound, PinsAreHonoured, ManifestIsVetted

\* A commit that --manifest gives is the one evaluated, for every manifest.
THEOREM PinsHonoured == Spec => []PinsAreHonoured
<1>1. TypeOK /\ Vetted /\ PinsAreHonoured /\ [Next]_allVars => PinsAreHonoured'
  BY ManifestGrows DEF PinsAreHonoured
<1>2. QED
  BY <1>1, CreationStart, VettedNext, RowsUnique, ClassificationsWhole, TypeCorrect,
     PTL DEF Spec

\* Nothing is evaluated that the classifier did not accept, unless it was seeded,
\* whatever was refreshed and reclassified meanwhile.
THEOREM EvaluatedIsVetted == Spec => []ManifestIsVetted
<1>1. TypeOK /\ Vetted /\ ManifestIsVetted /\ [Next]_allVars => ManifestIsVetted'
  BY ManifestGrows DEF ManifestIsVetted
<1>2. QED
  BY <1>1, CreationStart, VettedNext, RowsUnique, ClassificationsWhole, TypeCorrect,
     PTL DEF Spec

-----------------------------------------------------------------------------
(* A creation that no other overlaps.                                       *)

CreatesAlone ==
  \A d \in Drivers : making[d].alone => \A e \in Drivers \ {d} : making[e].pc = "idle"

\* The rows of manifests are of runs there are, and so are the runs creations take.
Filed == /\ \A m \in manifest : m.run <= runs
         /\ \A d \in Drivers : making[d].rid <= runs

\* Before the first row nothing has been dealt with; what a creation has written is of
\* its selection, and with what is left it is all of it, in gapless positions.
OwnRows(d) == {m \in manifest : m.run = making[d].own}
WrittenSoFar(d) ==
  /\ making[d].rid = making[d].own
  /\ \A m \in OwnRows(d) :
       m.pick \in making[d].picked /\ m.position \in 0..(making[d].next - 1)
  /\ \A p \in making[d].picked :
       \/ \E m \in OwnRows(d) : m.pick = p
       \/ p \in making[d].rest
       \/ \E i \in DOMAIN making[d].first : p \in making[d].first[i]
  /\ \A n \in 0..(making[d].next - 1) : \E m \in OwnRows(d) : m.position = n
Creating ==
  \A d \in Drivers :
    /\ making[d].pc \in {"insert", "newest"} => making[d].next = 0 /\ AllLeft(making[d])
    /\ making[d].pc = "newest" /\ making[d].alone =>
         making[d].own = runs /\ OwnRows(d) = {}
    /\ making[d].pc \in {"rows", "returned"} /\ making[d].alone => WrittenSoFar(d)
    /\ making[d].pc = "returned" => AllDone(d)

\* A creation that overlaps no other stays the only one.
LEMMA CreatesAloneNext == TypeOK /\ CreatesAlone /\ [Next]_allVars => CreatesAlone'
<1> SUFFICES ASSUME TypeOK, CreatesAlone, [Next]_allVars PROVE CreatesAlone'
  OBVIOUS
<1>1. CASE UNCHANGED creation
  BY <1>1 DEF CreatesAlone, creation
<1>2. ASSUME NEW d \in Drivers, Select(d) PROVE CreatesAlone'
  <2>1. PICK include, pins, S :
          making' = [e \in Drivers |-> IF e = d THEN Selection(d, include, pins, S)
                                       ELSE [making[e] EXCEPT !.alone = FALSE]]
    BY <1>2 DEF Select
  <2>2. making'[d] = Selection(d, include, pins, S)
    BY <2>1
  <2>3. making'[d].alone => \A e \in Drivers \ {d} : making[e].pc = "idle"
    BY <2>2 DEF Selection, Unmade
  <2>4. \A e \in Drivers \ {d} : making'[e].alone = FALSE /\ making'[e].pc = making[e].pc
    BY <2>1 DEF TypeOK, Makings
  <2>5. QED
    BY <2>3, <2>4 DEF CreatesAlone
<1>3. ASSUME NEW d \in Drivers, making[d].pc # "idle",
             making'[d].alone => making[d].alone,
             \A e \in Drivers \ {d} : making'[e] = making[e]
      PROVE  CreatesAlone'
  BY <1>3 DEF CreatesAlone
<1>4. Unmade.alone = FALSE
  BY DEF Unmade
<1>5. ASSUME NEW d \in Drivers, CreationStep(d) PROVE CreatesAlone'
  <2>1. CASE InsertRun(d) \/ Newest(d) \/ Refused(d) \/ ReturnRun(d)
    <3>1. making[d].pc # "idle"
      BY <2>1 DEF InsertRun, Newest, Refused, ReturnRun
    <3>2. QED
      BY <1>3, <2>1, <3>1, StepIs
  <2>2. CASE InsertManifest(d)
    <3>1. PICK t \in Todo(d) : Make(d, Left(d, t))
      BY <2>2 DEF InsertManifest
    <3>2. making'[d].alone = making[d].alone
      BY <3>1, MadeIs, LeftIs
    <3>3. QED
      BY <1>3, <2>2, <3>1, <3>2, MadeIs DEF InsertManifest
  <2>3. CASE LeaveCreation(d)
    BY <1>3, <1>4, <2>3, MadeIs DEF LeaveCreation
  <2>4. QED
    BY <1>5, <2>1, <2>2, <2>3 DEF CreationStep
<1>6. ASSUME NEW d \in Drivers, KillCreation(d) PROVE CreatesAlone'
  BY <1>3, <1>4, <1>6, MadeIs DEF KillCreation
<1>7. QED
  BY <1>1, <1>2, <1>5, <1>6, RegistryLeavesMakings

\* Rows are filed under runs that exist, and no creation holds the id of one that does not.
LEMMA FiledNext == TypeOK /\ Filed /\ [Next]_allVars => Filed'
<1> SUFFICES ASSUME TypeOK, Filed, [Next]_allVars
             PROVE  Filed'
  OBVIOUS
<1>1. CASE UNCHANGED creation
  BY <1>1 DEF Filed, creation
<1>2. ASSUME NEW d \in Drivers, Select(d) PROVE Filed'
  <2>1. PICK include, pins, S :
          making' = [e \in Drivers |-> IF e = d THEN Selection(d, include, pins, S)
                                       ELSE [making[e] EXCEPT !.alone = FALSE]]
    BY <1>2 DEF Select
  <2>2. making'[d].rid = 0
    BY <2>1 DEF Selection, Unmade
  <2>3. \A e \in Drivers \ {d} : making'[e].rid = making[e].rid
    BY <2>1 DEF TypeOK, Makings
  <2>4. UNCHANGED <<runs, manifest>>
    BY <1>2 DEF Select
  <2>5. QED
    BY <2>2, <2>3, <2>4 DEF Filed, TypeOK
<1>3. ASSUME NEW d \in Drivers, CreationStep(d) PROVE Filed'
  <2>1. making[d].rid \in Nat /\ runs \in Nat
    BY DEF TypeOK, Makings
  <2>2. CASE InsertRun(d)
    <3>1. \A e \in Drivers : making'[e].rid = making[e].rid /\ making[e].rid \in Nat
      BY <2>2, StepIs DEF TypeOK, Makings
    <3>2. \A m \in manifest : m.run \in Nat
      BY DEF TypeOK, Manifested
    <3>3. runs' = runs + 1 /\ manifest' = manifest
      BY <2>2 DEF InsertRun
    <3>4. QED
      BY <2>1, <3>1, <3>2, <3>3 DEF Filed
  <2>3. CASE Newest(d)
    <3>1. making'[d].rid = runs /\ \A e \in Drivers \ {d} : making'[e] = making[e]
      BY <2>3, StepIs
    <3>2. runs' = runs /\ manifest' = manifest
      BY <2>3 DEF Newest
    <3>3. QED
      BY <2>1, <3>1, <3>2 DEF Filed
  <2>4. CASE Refused(d) \/ ReturnRun(d)
    <3>1. \A e \in Drivers : making'[e].rid = making[e].rid
      BY <2>4, StepIs
    <3>2. QED
      BY <2>4, <3>1 DEF Filed, Refused, ReturnRun
  <2>5. CASE InsertManifest(d)
    <3>1. PICK t \in Todo(d) :
            /\ \E sha : manifest' = manifest \cup
                 {[run |-> making[d].rid, pick |-> t.pick, sha |-> sha,
                   position |-> making[d].next, given |-> making[d].pins[t.pick.name]]}
            /\ Make(d, Left(d, t))
      BY <2>5 DEF InsertManifest
    <3>2. \A e \in Drivers : making'[e].rid = making[e].rid
      BY <3>1, MadeIs, LeftIs
    <3>3. \A m \in manifest' : m \in manifest \/ m.run = making[d].rid
      BY <3>1
    <3>4. runs' = runs
      BY <2>5 DEF InsertManifest
    <3>5. QED
      BY <3>2, <3>3, <3>4 DEF Filed
  <2>6. CASE LeaveCreation(d)
    BY <2>1, <2>6, MadeIs DEF Filed, LeaveCreation, Unmade
  <2>7. QED
    BY <1>3, <2>2, <2>3, <2>4, <2>5, <2>6 DEF CreationStep
<1>4. ASSUME NEW d \in Drivers, KillCreation(d) PROVE Filed'
  BY <1>4, MadeIs DEF Filed, KillCreation, Unmade, TypeOK
<1>5. QED
  BY <1>1, <1>2, <1>3, <1>4, RegistryLeavesMakings

\* What concerns a creation that did not act
Fellow(d) ==
  /\ making[d].pc \in {"insert", "newest"} => making[d].next = 0 /\ AllLeft(making[d])
  /\ making[d].pc = "returned" => AllDone(d)

\* A creation that acts leaves no other alone.
LEMMA OthersCreate ==
  ASSUME TypeOK, CreatesAlone, Creating, NEW d \in Drivers, making[d].pc # "idle",
         NEW e \in Drivers \ {d}, making'[e] = making[e]
  PROVE  ~making'[e].alone /\ Fellow(e)'
BY DEF CreatesAlone, Creating, Fellow, AllDone, AllLeft

\* One row more written is one less to do.
LEMMA InsertCreating ==
  ASSUME TypeOK, Vetted, Creating, NEW d \in Drivers, InsertManifest(d),
         making[d].alone
  PROVE  making'[d].alone /\ making'[d].pc = "rows" /\ WrittenSoFar(d)'
<1>1. making[d].pc = "rows" /\ WrittenSoFar(d) /\ making[d].next \in Nat
  BY DEF Creating, InsertManifest, TypeOK, Makings
<1>2. PICK t \in Todo(d) :
        /\ \E sha : manifest' = manifest \cup
             {[run |-> making[d].rid, pick |-> t.pick, sha |-> sha,
               position |-> making[d].next, given |-> making[d].pins[t.pick.name]]}
        /\ Make(d, Left(d, t))
  BY DEF InsertManifest
<1>3. PICK new : /\ manifest' = manifest \cup {new}
                 /\ new.run = making[d].own /\ new.pick = t.pick
                 /\ new.position = making[d].next
  <2>1. making[d].rid = making[d].own
    BY <1>1 DEF WrittenSoFar
  <2>2. PICK sha : manifest' = manifest \cup
             {[run |-> making[d].rid, pick |-> t.pick, sha |-> sha,
               position |-> making[d].next, given |-> making[d].pins[t.pick.name]]}
    BY <1>2
  <2> DEFINE n == [run |-> making[d].rid, pick |-> t.pick, sha |-> sha,
                   position |-> making[d].next, given |-> making[d].pins[t.pick.name]]
  <2>3. n.run = making[d].rid /\ n.pick = t.pick /\ n.position = making[d].next
    OBVIOUS
  <2>4. manifest' = manifest \cup {n}
    BY <2>2
  <2> HIDE DEF n
  <2>5. QED
    BY <2>1, <2>3, <2>4
<1> DEFINE k == making[d]
           m == making'[d]
<1>4. /\ m.pc = k.pc /\ m.picked = k.picked /\ m.own = k.own /\ m.rid = k.rid
      /\ m.alone = k.alone /\ m.next = k.next + 1 /\ k.rest \subseteq m.rest \cup {t.pick}
      /\ DOMAIN m.first = DOMAIN k.first
      /\ \A i \in DOMAIN m.first : m.first[i] = IF i = t.at THEN {} ELSE k.first[i]
  BY <1>2, LeftIs
<1>5. OwnRows(d)' = OwnRows(d) \cup {new}
  BY <1>3, <1>4 DEF OwnRows
<1>6. t.pick \in k.picked
  BY <1>2, TodoTyped DEF Vetted, Sound
<1>7. \A x \in OwnRows(d)' : x.pick \in m.picked /\ x.position \in 0..(m.next - 1)
  <2>1. \A x \in OwnRows(d) : x.pick \in k.picked /\ x.position \in 0..(k.next - 1)
    BY <1>1 DEF WrittenSoFar
  <2>2. 0..(k.next - 1) \subseteq 0..(m.next - 1) /\ k.next \in 0..(m.next - 1)
    BY <1>1, <1>4
  <2>3. QED
    BY <1>3, <1>4, <1>5, <1>6, <2>1, <2>2
<1>8. \A p \in m.picked :
        \/ \E x \in OwnRows(d)' : x.pick = p
        \/ p \in m.rest
        \/ \E i \in DOMAIN m.first : p \in m.first[i]
  <2> SUFFICES ASSUME NEW p \in k.picked, p # t.pick
               PROVE  \/ \E x \in OwnRows(d) : x.pick = p
                      \/ p \in m.rest
                      \/ \E i \in DOMAIN m.first : p \in m.first[i]
    BY <1>3, <1>4, <1>5
  <2>1. \/ \E x \in OwnRows(d) : x.pick = p
        \/ p \in k.rest
        \/ \E i \in DOMAIN k.first : p \in k.first[i]
    BY <1>1 DEF WrittenSoFar
  <2>2. CASE p \in k.rest
    BY <1>4, <2>2
  <2>3. ASSUME NEW i \in DOMAIN k.first, p \in k.first[i]
        PROVE  p \in m.first[i] /\ i \in DOMAIN m.first
    <3>1. i # t.at
      <4>1. \/ t.at \in DOMAIN k.first /\ t.pick \in k.first[t.at]
            \/ Filled(k.first) = {}
        BY TodoTyped
      <4>2. Filled(k.first) # {}
        BY <2>3 DEF Filled
      <4>3. \A q, r \in k.first[i] : q = r
        BY <2>3 DEF Vetted, Sound
      <4>4. QED
        BY <2>3, <4>1, <4>2, <4>3
    <3>2. QED
      BY <1>4, <2>3, <3>1
  <2>4. QED
    BY <2>1, <2>2, <2>3
<1>9. \A n \in 0..(m.next - 1) : \E x \in OwnRows(d)' : x.position = n
  <2>1. \A n \in 0..(k.next - 1) : \E x \in OwnRows(d) : x.position = n
    BY <1>1 DEF WrittenSoFar
  <2>2. \A n \in 0..(m.next - 1) : n \in 0..(k.next - 1) \/ n = k.next
    BY <1>1, <1>4
  <2>3. QED
    BY <1>3, <1>5, <2>1, <2>2
<1>10. m.rid = m.own
  BY <1>1, <1>4 DEF WrittenSoFar
<1>11. QED
  BY <1>1, <1>4, <1>7, <1>8, <1>9, <1>10 DEF WrittenSoFar

\* A creation that is alone has written exactly what it no longer has to do.
LEMMA CreatingNext ==
  TypeOK /\ Vetted /\ Filed /\ CreatesAlone /\ Creating /\ OneRowEach /\ ClassifiedAsAWhole
    /\ [Next]_allVars => Creating'
<1> SUFFICES ASSUME TypeOK, Vetted, Filed, CreatesAlone, Creating, OneRowEach,
                    ClassifiedAsAWhole, [Next]_allVars
             PROVE  Creating'
  OBVIOUS
<1>1. CASE UNCHANGED creation
  BY <1>1 DEF Creating, AllLeft, OwnRows, WrittenSoFar, AllDone, creation
<1>2. ASSUME NEW d \in Drivers, Select(d) PROVE Creating'
  <2>1. PICK include, pins, S :
          /\ include \in Includes /\ pins \in Pinnings
          /\ S \in SUBSET Others(include)
          /\ making' = [e \in Drivers |-> IF e = d THEN Selection(d, include, pins, S)
                                          ELSE [making[e] EXCEPT !.alone = FALSE]]
    BY <1>2 DEF Select
  <2>2. S \in SUBSET Others(include) /\ making'[d] = Selection(d, include, pins, S)
    BY <2>1
  <2>3. making'[d].pc = "insert" /\ making'[d].next = 0 /\ AllLeft(making'[d])
    BY <2>1, <2>2, SelectionVetted
  <2>4. \A e \in Drivers \ {d} :
          /\ ~making'[e].alone /\ making'[e].pc = making[e].pc
          /\ making'[e].next = making[e].next /\ making'[e].first = making[e].first
          /\ making'[e].rest = making[e].rest /\ making'[e].picked = making[e].picked
    BY <2>1 DEF TypeOK, Makings
  <2>5. \A e \in Drivers \ {d} : Fellow(e)'
    BY <2>4 DEF Creating, Fellow, AllLeft, AllDone
  <2>6. QED
    BY <2>3, <2>4, <2>5 DEF Creating, Fellow
<1>3. ASSUME NEW d \in Drivers, making[d].pc # "idle",
             \A e \in Drivers \ {d} : making'[e] = making[e],
             Fellow(d)',
             making'[d].pc = "newest" /\ making'[d].alone =>
               (making[d].own = runs /\ OwnRows(d) = {})',
             making'[d].pc \in {"rows", "returned"} /\ making'[d].alone =>
               WrittenSoFar(d)'
      PROVE  Creating'
  <2>1. \A e \in Drivers \ {d} : ~making'[e].alone /\ Fellow(e)'
    BY <1>3, OthersCreate
  <2>2. QED
    BY <1>3, <2>1 DEF Creating, Fellow
<1>4. ASSUME NEW d \in Drivers, InsertRun(d) PROVE Creating'
  <2>1. making[d].pc = "insert" /\ runs' = runs + 1 /\ manifest' = manifest
    BY <1>4 DEF InsertRun
  <2>2. making'[d].pc = "newest" /\ Fellow(d)'
    BY <1>4, <2>1, StepIs DEF Creating, Fellow, AllLeft
  <2>3. (making[d].own = runs /\ OwnRows(d) = {})'
    <3>1. making'[d].own = runs + 1
      BY <1>4, StepIs
    <3>2. \A m \in manifest : m.run \in Nat /\ m.run <= runs /\ runs \in Nat
      BY DEF Filed, TypeOK, Manifested
    <3>3. QED
      BY <2>1, <3>1, <3>2 DEF OwnRows
  <2>4. QED
    BY <1>3, <1>4, <2>1, <2>2, <2>3, StepIs
<1>5. ASSUME NEW d \in Drivers, Newest(d) PROVE Creating'
  <2>1. making[d].pc = "newest" /\ runs' = runs /\ manifest' = manifest
    BY <1>5 DEF Newest
  <2>2. making[d].next = 0 /\ AllLeft(making[d])
    BY <2>1 DEF Creating
  <2>3. making'[d].pc = "rows" /\ Fellow(d)'
    BY <1>5, StepIs DEF Fellow
  <2>4. ASSUME making'[d].alone PROVE WrittenSoFar(d)'
    <3>1. making[d].own = runs /\ OwnRows(d) = {}
      BY <1>5, <2>1, <2>4, StepIs DEF Creating
    <3>2. OwnRows(d)' = {} /\ making'[d].rid = making'[d].own /\ making'[d].next = 0
      BY <1>5, <2>1, <2>2, <3>1, StepIs DEF OwnRows
    <3>3. AllLeft(making'[d])
      BY <1>5, <2>2, StepIs DEF AllLeft
    <3>4. QED
      BY <3>2, <3>3 DEF WrittenSoFar, AllLeft
  <2>5. QED
    BY <1>3, <1>5, <2>1, <2>3, <2>4, StepIs
<1>6. ASSUME NEW d \in Drivers, InsertManifest(d) PROVE Creating'
  <2>1. PICK t \in Todo(d) : Make(d, Left(d, t))
    BY <1>6 DEF InsertManifest
  <2>2. making[d].pc = "rows" /\ \A e \in Drivers \ {d} : making'[e] = making[e]
    BY <1>6, <2>1, MadeIs DEF InsertManifest
  <2>3. making'[d].pc = "rows" /\ making'[d].alone = making[d].alone
    BY <2>1, <2>2, MadeIs, LeftIs
  <2>4. Fellow(d)'
    BY <2>3 DEF Fellow
  <2>5. making'[d].alone => WrittenSoFar(d)'
    BY <1>6, <2>3, InsertCreating
  <2>6. QED
    BY <1>3, <2>2, <2>3, <2>4, <2>5
<1>7. ASSUME NEW d \in Drivers, ReturnRun(d) PROVE Creating'
  <2>1. making[d].pc = "rows" /\ AllDone(d) /\ manifest' = manifest
    BY <1>7 DEF ReturnRun
  <2>2. making'[d].pc = "returned" /\ Fellow(d)'
    BY <1>7, <2>1, StepIs DEF Fellow, AllDone
  <2>3. ASSUME making'[d].alone PROVE WrittenSoFar(d)'
    <3>1. WrittenSoFar(d)
      BY <1>7, <2>1, <2>3, StepIs DEF Creating
    <3>2. OwnRows(d)' = OwnRows(d)
      BY <1>7, <2>1, StepIs DEF OwnRows
    <3>3. QED
      BY <1>7, <3>1, <3>2, StepIs DEF WrittenSoFar
  <2>4. QED
    BY <1>3, <1>7, <2>1, <2>2, <2>3, StepIs
<1>8. ASSUME NEW d \in Drivers, Refused(d) \/ LeaveCreation(d) \/ KillCreation(d)
      PROVE  Creating'
  <2>1. making[d].pc # "idle" /\ \A e \in Drivers \ {d} : making'[e] = making[e]
    BY <1>8, MadeIs DEF Refused, LeaveCreation, KillCreation
  <2>2. making'[d].pc \in {"raised", "idle"}
    BY <1>8, MadeIs, StepIs DEF LeaveCreation, KillCreation, Unmade
  <2>3. QED
    BY <1>3, <2>1, <2>2 DEF Fellow
<1>9. QED
  BY <1>1, <1>2, <1>4, <1>5, <1>6, <1>7, <1>8, RegistryLeavesMakings DEF CreationStep

\* With nothing left to do, the manifest is whole.
LEMMA WholeWhenReturned == TypeOK /\ Creating => ReturnedManifestIsWhole
<1> SUFFICES ASSUME TypeOK, Creating, NEW d \in Drivers, making[d].pc = "returned",
                    making[d].alone
             PROVE  /\ making[d].rid = making[d].own
                    /\ {m.pick : m \in OwnRows(d)} = making[d].picked
                    /\ {m.position : m \in OwnRows(d)} = 0..(making[d].next - 1)
  BY DEF ReturnedManifestIsWhole, OwnRows
<1>1. WrittenSoFar(d) /\ AllDone(d)
  BY DEF Creating
<1>2. making[d].rest = {} /\ \A i \in DOMAIN making[d].first : making[d].first[i] = {}
  BY <1>1 DEF AllDone, Filled
<1>3. QED
  BY <1>1, <1>2 DEF WrittenSoFar

\* A creation no other overlapped returns its own run, with all of its selection, in
\* gapless positions, for every selection, registry and interleaving with commands.
THEOREM ReturnedWhole == Spec => []ReturnedManifestIsWhole
<1>1. CreationInit => CreatesAlone /\ Filed /\ Creating
  BY DEF CreationInit, Unmade, CreatesAlone, Filed, Creating
<1>2. QED
  BY <1>1, CreationStart, CreatesAloneNext, FiledNext, VettedNext, CreatingNext,
     WholeWhenReturned, RowsUnique, ClassificationsWhole, TypeCorrect, PTL DEF Spec

-----------------------------------------------------------------------------
(* The properties of the registry, each from its parts.                     *)

\* A repository is found once, and none that was found is lost.
THEOREM FoundOnceHolds == Spec => []FoundOnce
<1>1. OneRowEach /\ DiscoveryIsComplete => FoundOnce
  BY DEF FoundOnce
<1>2. QED
  BY <1>1, RowsUnique, DiscoveryComplete, PTL

\* Classifications are whole, and fresh after a reclassification.
THEOREM ClassificationsSound == Spec => []ClassificationsHold
<1>1. ClassifiedAsAWhole /\ FreshWhenReclassified => ClassificationsHold
  BY DEF ClassificationsHold
<1>2. QED
  BY <1>1, ClassificationsWhole, ReclassifiedFresh, PTL

\* The gold set is recorded as a whole, and once.
THEOREM GoldSound == Spec => []GoldIsWhole
<1>1. GoldOnce /\ GoldAllOrNone => GoldIsWhole
  BY DEF GoldIsWhole
<1>2. QED
  BY <1>1, GoldNotRepeated, GoldWhole, PTL

\* What a run evaluates is what was pinned and what was accepted.
THEOREM ManifestSound == Spec => []ManifestIsSound
<1>1. PinsAreHonoured /\ ManifestIsVetted => ManifestIsSound
  BY DEF ManifestIsSound
<1>2. QED
  BY <1>1, PinsHonoured, EvaluatedIsVetted, PTL
=============================================================================
