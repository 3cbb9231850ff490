----------------------------- MODULE LegalStore -----------------------------
(***************************************************************************)
(* The stored text of one law, and the scripts that write it:              *)
(*                                                                         *)
(*   ingest_one           (legal/ingest.py) downloads the page once,       *)
(*                        parses it and replaces what is stored            *)
(*   ingest_frameworks    loads the same page from disk with everything    *)
(*                        else of its catalogue, in one transaction        *)
(*   classify_detection   asks a language model how each stored article    *)
(*                        can be verified, batch by batch                  *)
(*                                                                         *)
(* They are run by hand, by anyone, at any time, on one SQLite file: a     *)
(* transaction that has written keeps the others from writing, and they    *)
(* fail after five seconds.  A key of law_articles is one more than the    *)
(* greatest in the table, so that a deleted one may be given again.        *)
(*                                                                         *)
(* Abstracted: the other laws and the frameworks of the catalogues (one    *)
(* number, the greatest key they use); the columns of a law that no script *)
(* reads; the log review_actions, which nothing reads.                     *)
(***************************************************************************)
EXTENDS LegalText

CONSTANTS
  Editions,   \* the pages EUR-Lex may serve for the law
  BatchSize,  \* --batch-size
  Cuts,       \* bound: where a page may be cut off
  MaxStarts,  \* bound: scripts started
  MaxFaults   \* bound: kills, and writes that found the file locked

ASSUME StoreAssumption ==
  /\ BatchSize \in Nat \ {0}
  /\ Cuts \cup {MaxStarts, MaxFaults} \subseteq Nat

\* What the pages consist of.
PageBlocks == UNION {ToSet(page) : page \in Editions}
Kinds == {"article_marker", "article_title", "paragraph", "annex_marker", "annex_title"}

\* No two articles of an edition have the same number.
NumberedOnce(page) ==
  \A i, j \in DOMAIN page :
    page[i].kind = "article_marker" /\ page[j].kind = "article_marker"
      /\ page[i].num = page[j].num => i = j

ASSUME EditionsAssumption ==
  /\ Editions \subseteq Seq(PageBlocks)
  /\ \A b \in PageBlocks :
       /\ b.kind \in Kinds
       /\ b.kind = "paragraph" => Signals(b.words) \subseteq {"model", "documentation", "behaviour"}
  /\ \A page \in Editions : NumberedOnce(page)

VARIABLES
  raw,    \* the page on disk, if any
  store,  \* what is stored of the law
  others, \* the greatest key of law_articles that another law uses
  lock,   \* who has written in a transaction that is open
  imp,    \* ingest_one
  fwk,    \* ingest_frameworks
  cls,    \* classify_detection_methods
  starts, \* ghost: scripts started
  faults  \* ghost: kills, and writes that found the file locked

\* A challenge page, or a page cut off, is a page like any other.
Challenge == << >>
Truncations(page) == {SubSeq(page, 1, k) : k \in {k \in Cuts : k < Len(page)}}
Pages == Editions \cup {Challenge} \cup UNION {Truncations(p) : p \in Editions}
\* What each page is parsed to.
Parsed == [page \in Pages |-> ParseLaw(page)]
NoPage == <<[kind |-> "none"]>>

\* number is the column article_number: ingest_one stores the number alone,
\* ingest_frameworks the number and the labels of the path.
NoVerdict == [text |-> << >>, answered |-> FALSE, stale |-> FALSE]
Article(id, number, a) ==
  [id |-> id, number |-> number, num |-> a.num, path |-> a.path, title |-> a.title,
   text |-> a.text, verdict |-> NoVerdict]
NoLaw == [known |-> FALSE, articles |-> {}, recitals |-> {}, annexes |-> {}, chunks |-> << >>]

Idle == [pc |-> "idle", page |-> << >>]
FwkIdle == [pc |-> "idle", page |-> << >>, replace |-> FALSE, known |-> FALSE]
\* stale (ghost): was the law stored anew since the items were read?
ClsIdle == [pc |-> "idle", todo |-> << >>, size |-> 1, all |-> FALSE, stale |-> FALSE]

StoreInit ==
  /\ raw = NoPage /\ store = NoLaw /\ others = 0 /\ lock = "free"
  /\ imp = Idle /\ fwk = FwkIdle /\ cls = ClsIdle
  /\ starts = 0 /\ faults = 0

Begin == starts < MaxStarts /\ starts' = starts + 1 /\ faults' = faults
Fault == faults < MaxFaults /\ faults' = faults + 1 /\ starts' = starts
Calm == UNCHANGED <<starts, faults>>

-----------------------------------------------------------------------------
(* ingest_one *)

Kept(law) == Worded(law.articles)
PathOf(a) == <<a.num, a.path>>
Paths(articles) == [i \in DOMAIN articles |-> PathOf(articles[i])]
Nums(recitals) == [i \in DOMAIN recitals |-> recitals[i].num]
Codes(annexes) == [i \in DOMAIN annexes |-> annexes[i].code]
\* The unique constraints of the tables of a law.
Unique(law) ==
  /\ IsInjective(Paths(Kept(law)))
  /\ IsInjective(Nums(Worded(law.recitals)))
  /\ IsInjective(Codes(law.annexes))

Greatest(S) == CHOOSE i \in S : \A j \in S : j <= i
\* defect: the keys of other laws are not looked at
OwnNextId(rows) == 1 + Greatest({0} \cup {r.id : r \in rows})
NextId(rows) == 1 + Greatest({0, others} \cup {r.id : r \in rows})

\* The rows of a law next to articles that stay.
LawRows(law, staying) ==
  [known |-> TRUE,
   articles |-> staying \cup
     {Article(NextId(staying) + k - 1, <<Kept(law)[k].num, << >>>>, Kept(law)[k])
        : k \in DOMAIN Kept(law)},
   recitals |-> ToSet(Worded(law.recitals)),
   annexes |-> ToSet(law.annexes),
   chunks |-> ChunkLaw(law)]
\* defect: the articles stored before stay
Appended(law) == LawRows(law, store.articles)
\* What was stored of the law is deleted.
Ingested(law) == LawRows(law, {})

Overtake == IF cls.pc = "idle" THEN cls ELSE [cls EXCEPT !.stale = TRUE]

\* A page on disk is not downloaded again, unless forced.
StartIngest(force) ==
  /\ imp.pc = "idle" /\ Begin
  /\ imp' = IF raw # NoPage /\ ~force THEN [pc |-> "parsed", page |-> raw]
            ELSE [pc |-> "download", page |-> << >>]
  /\ UNCHANGED <<raw, store, others, lock, fwk, cls>>

\* The edition of the day, or the page of the firewall, which is a success too.
Download(page) ==
  /\ imp.pc = "download" /\ page \in Editions \cup {Challenge}
  /\ raw' = page /\ imp' = [pc |-> "parsed", page |-> page]
  /\ Calm /\ UNCHANGED <<store, others, lock, fwk, cls>>

DownloadFails ==
  /\ imp.pc = "download" /\ imp' = Idle
  /\ Calm /\ UNCHANGED <<raw, store, others, lock, fwk, cls>>

KilledWriting(page) ==
  /\ imp.pc = "download" /\ page \in UNION {Truncations(p) : p \in Editions}
  /\ raw' = page /\ imp' = Idle
  /\ Fault /\ UNCHANGED <<store, others, lock, fwk, cls>>

StoreLaw ==
  LET law == Parsed[imp.page] IN
  /\ imp.pc = "parsed" /\ lock = "free" /\ Unique(law)
  /\ store' = Ingested(law) /\ imp' = Idle /\ cls' = Overtake
  /\ Calm /\ UNCHANGED <<raw, others, lock, fwk>>

\* IntegrityError: the transaction is rolled back.
LawRefused ==
  /\ imp.pc = "parsed" /\ lock = "free" /\ ~Unique(Parsed[imp.page])
  /\ imp' = Idle
  /\ Calm /\ UNCHANGED <<raw, store, others, lock, fwk, cls>>

LockedOut ==
  /\ imp.pc = "parsed" /\ lock # "free" /\ imp' = Idle
  /\ Fault /\ UNCHANGED <<raw, store, others, lock, fwk, cls>>

\* ingest_one of another law.
IngestOther ==
  /\ lock = "free" /\ Begin
  /\ others' = NextId(store.articles)
  /\ UNCHANGED <<raw, store, lock, imp, fwk, cls>>

Ingest ==
  \/ \E force \in BOOLEAN : StartIngest(force)
  \/ \E page \in Pages : Download(page) \/ KilledWriting(page)
  \/ DownloadFails \/ StoreLaw \/ LawRefused \/ LockedOut \/ IngestOther

-----------------------------------------------------------------------------
(* ingest_frameworks *)

\* Of those that go by the same key, the first.
Firsts(seq, keys) == Only(seq, {i \in DOMAIN keys : \A j \in 1..(i - 1) : keys[j] # keys[i]})
FirstArticles(law) == Firsts(law.articles, Paths(law.articles))
\* A recital that is passed over does not count as seen.
Recited(law) ==
  Only(law.recitals, {i \in DOMAIN law.recitals :
                        ~Short(law.recitals[i].text) /\ ~Citation(law.recitals[i].text)})
FirstRecitals(law) == Firsts(Recited(law), Nums(Recited(law)))
FirstAnnexes(law) == Firsts(law.annexes, Codes(law.annexes))

\* The chunks are those of the last ingest_one.
Merged(law, base) ==
  LET new == FirstArticles(law) IN
  [known |-> TRUE,
   articles |-> base.articles \cup
     {Article(NextId(base.articles) + k - 1, <<new[k].num, new[k].path>>, new[k])
        : k \in DOMAIN new},
   recitals |-> base.recitals \cup ToSet(FirstRecitals(law)),
   annexes |-> base.annexes \cup ToSet(FirstAnnexes(law)),
   chunks |-> store.chunks]

\* Does something of the law go by a key that is taken?
Clash(law, base) ==
  \/ \E a \in ToSet(FirstArticles(law)), r \in base.articles : PathOf(a) = PathOf(r)
  \/ \E r \in ToSet(FirstRecitals(law)), s \in base.recitals : r.num = s.num
  \/ \E a \in ToSet(FirstAnnexes(law)), b \in base.annexes : a.code = b.code

\* What either script stores of a law.
ByIngestOne(law) ==
  [articles |-> ToSet(Kept(law)), recitals |-> ToSet(Worded(law.recitals)),
   annexes |-> ToSet(law.annexes)]
ByFrameworks(law) ==
  [articles |-> ToSet(FirstArticles(law)), recitals |-> ToSet(FirstRecitals(law)),
   annexes |-> ToSet(FirstAnnexes(law))]
Void(what) == what.articles = {} /\ what.recitals = {} /\ what.annexes = {}

\* All pages of the law begin alike: of two that anything is stored of, something
\* has the same key - the first recital, or where there is none the first
\* article - so that they can never be stored side by side.
ASSUME OpeningAssumption ==
  \A p, q \in Pages :
    LET law == Parsed[q] IN
    \A what \in {ByIngestOne(Parsed[p]), ByFrameworks(Parsed[p])} :
      Void(what) \/ Void(ByFrameworks(law)) \/ Clash(law, what)

\* Without a page the law is skipped.  What was stored is deleted at once,
\* unless --no-replace; the rest waits for the commit.
StartFrameworks(replace) ==
  /\ fwk.pc = "idle" /\ raw # NoPage /\ Begin
  /\ replace /\ store.known => lock = "free"
  /\ lock' = IF replace /\ store.known THEN "frameworks" ELSE lock
  /\ fwk' = [pc |-> "session", page |-> raw, replace |-> replace, known |-> store.known]
  /\ UNCHANGED <<raw, store, others, imp, cls>>

\* What the new rows are added to.
Base == IF fwk.replace /\ fwk.known THEN NoLaw ELSE store
\* A law that was not known is inserted itself.
Commits == (fwk.known \/ ~store.known) /\ ~Clash(Parsed[fwk.page], Base)

StoreFrameworks ==
  /\ fwk.pc = "session" /\ lock \in {"free", "frameworks"} /\ Commits
  /\ store' = Merged(Parsed[fwk.page], Base)
  /\ fwk' = FwkIdle /\ lock' = "free" /\ cls' = Overtake
  /\ Calm /\ UNCHANGED <<raw, others, imp>>

\* One law that cannot be written takes the whole run with it.
FrameworksRefused ==
  /\ fwk.pc = "session" /\ lock \in {"free", "frameworks"} /\ ~Commits
  /\ fwk' = FwkIdle /\ lock' = "free"
  /\ Calm /\ UNCHANGED <<raw, store, others, imp, cls>>

FrameworksLockedOut ==
  /\ fwk.pc = "session" /\ lock \notin {"free", "frameworks"}
  /\ fwk' = FwkIdle
  /\ Fault /\ UNCHANGED <<raw, store, others, lock, imp, cls>>

Frameworks ==
  \/ \E replace \in BOOLEAN : StartFrameworks(replace)
  \/ StoreFrameworks \/ FrameworksRefused \/ FrameworksLockedOut

-----------------------------------------------------------------------------
(* classify_detection_methods *)

ById(rows) ==
  LET ids == InOrder({r.id : r \in rows}) IN
  [k \in DOMAIN ids |-> CHOOSE r \in rows : r.id = ids[k]]
Items(rows) ==
  LET ordered == ById(rows) IN
  [k \in DOMAIN ordered |-> [id |-> ordered[k].id, text |-> ordered[k].text]]
Unclassified == {r \in store.articles : r.verdict = NoVerdict /\ ~Short(r.text)}

Ended == {"idle", "done"}
\* --full reads what has no verdict; --limit takes the first of it.
StartFull(limit) ==
  /\ cls.pc \in Ended /\ limit \in {1, Cardinality(Unclassified)} /\ Begin
  /\ Unclassified # {}
  /\ cls' = [pc |-> "run", todo |-> SubSeq(Items(Unclassified), 1, limit), size |-> BatchSize,
             all |-> limit = Cardinality(Unclassified), stale |-> FALSE]
  /\ UNCHANGED <<raw, store, others, lock, imp, fwk>>

\* --test reads what its list names, and writes it at the end.
StartTest(rows) ==
  /\ cls.pc \in Ended /\ rows \subseteq store.articles /\ rows # {} /\ Begin
  /\ cls' = [pc |-> "run", todo |-> Items(rows), size |-> Cardinality(rows),
             all |-> FALSE, stale |-> FALSE]
  /\ UNCHANGED <<raw, store, others, lock, imp, fwk>>

BatchLength == IF cls.size < Len(cls.todo) THEN cls.size ELSE Len(cls.todo)
Batch == {cls.todo[k] : k \in 1..BatchLength}
Found == {i.id : i \in Batch} \subseteq {r.id : r \in store.articles}

\* defect: a verdict goes to the article after its own too
Judged(rows, items, answered) ==
  {IF \E i \in items : i.id \in {r.id, r.id - 1}
   THEN [r EXCEPT !.verdict =
           [text |-> (CHOOSE i \in items : i.id \in {r.id, r.id - 1}).text,
            answered |-> r.id \in answered, stale |-> cls.stale]]
   ELSE r : r \in rows}
\* defect: a question that fails leaves the article as it is
AnsweredOnly(rows, items, answered) ==
  {IF \E i \in items : i.id = r.id /\ r.id \in answered
   THEN [r EXCEPT !.verdict = [text |-> (CHOOSE i \in items : i.id = r.id).text,
                               answered |-> TRUE, stale |-> cls.stale]]
   ELSE r : r \in rows}
\* A question that fails is an answer: process, without confidence.
Classified(rows, items, answered) ==
  {IF \E i \in items : i.id = r.id
   THEN [r EXCEPT !.verdict = [text |-> (CHOOSE i \in items : i.id = r.id).text,
                               answered |-> r.id \in answered, stale |-> cls.stale]]
   ELSE r : r \in rows}

\* Rows are found by their keys, and the batch is committed.
ClassifyBatch(answered) ==
  /\ cls.pc = "run" /\ lock = "free" /\ Found
  /\ answered \subseteq {i.id : i \in Batch}
  /\ store' = [store EXCEPT !.articles = Classified(@, Batch, answered)]
  /\ cls' = IF BatchLength = Len(cls.todo) THEN [cls EXCEPT !.pc = "done", !.todo = << >>]
            ELSE [cls EXCEPT !.todo = SubSeq(@, BatchLength + 1, Len(@))]
  /\ Calm /\ UNCHANGED <<raw, others, lock, imp, fwk>>

\* A row that is gone ends the run.
RowGone ==
  /\ cls.pc = "run" /\ ~Found /\ cls' = ClsIdle
  /\ Calm /\ UNCHANGED <<raw, store, others, lock, imp, fwk>>

ClassifyLockedOut ==
  /\ cls.pc = "run" /\ lock # "free" /\ Found /\ cls' = ClsIdle
  /\ Fault /\ UNCHANGED <<raw, store, others, lock, imp, fwk>>

Classify ==
  \/ \E limit \in 1..Cardinality(store.articles) : StartFull(limit)
  \/ \E rows \in SUBSET store.articles : StartTest(rows)
  \/ \E answered \in SUBSET {i.id : i \in Batch} : ClassifyBatch(answered)
  \/ RowGone \/ ClassifyLockedOut

KillWriter ==
  /\ Fault /\ UNCHANGED <<raw, store, others>>
  /\ \/ imp.pc # "idle" /\ imp' = Idle /\ UNCHANGED <<lock, fwk, cls>>
     \/ fwk.pc # "idle" /\ fwk' = FwkIdle /\ UNCHANGED <<imp, cls>>
        /\ lock' = IF lock = "frameworks" THEN "free" ELSE lock
     \/ cls.pc = "run" /\ cls' = ClsIdle /\ UNCHANGED <<lock, imp, fwk>>

StoreNext == Ingest \/ Frameworks \/ Classify \/ KillWriter

-----------------------------------------------------------------------------
(* Properties *)

StoreTypeOK ==
  /\ raw \in Pages \cup {NoPage} /\ others \in Nat
  /\ store.known \in BOOLEAN /\ lock \in {"free", "frameworks", "assess"}
  /\ \A r \in store.articles : r.id \in Nat \ {0, others}
  /\ imp.pc \in {"idle", "download", "parsed"} /\ imp.page \in Pages
  /\ fwk.pc \in {"idle", "session"} /\ fwk.page \in Pages
  /\ lock = "frameworks" => fwk.pc = "session" /\ fwk.replace
  /\ cls.pc \in {"idle", "run", "done"} /\ (cls.pc = "run") = (cls.todo # << >>)
  /\ starts \in 0..MaxStarts /\ faults \in 0..MaxFaults

\* However downloads, loads and kills are ordered, what is stored of the law
\* is one page: its articles, recitals and annexes never come from two, and
\* no two articles have the same key or the same path, no two recitals the same
\* number.  Its recitals are all that have a text, or, after ingest_frameworks,
\* all but the short ones and the citations.
LawIsOnePage ==
  store.known =>
    /\ \A r, s \in store.articles : r.id = s.id \/ PathOf(r) = PathOf(s) => r = s
    /\ \A r, s \in store.recitals : r.num = s.num => r = s
    /\ \E page \in Pages :
         LET law == Parsed[page] IN
         /\ {PathOf(r) : r \in store.articles} \in
              {{PathOf(a) : a \in ToSet(Kept(law))}, {PathOf(a) : a \in ToSet(law.articles)}}
         /\ \A r \in store.articles :
              \E a \in ToSet(law.articles) : PathOf(a) = PathOf(r) /\ a.text = r.text
         /\ store.recitals \subseteq ToSet(law.recitals)
         /\ {r.num : r \in store.recitals} \in
              {{r.num : r \in ToSet(Worded(law.recitals))},
               {r.num : r \in ToSet(Recited(law))}}
         /\ {a.code : a \in store.annexes} = {a.code : a \in ToSet(law.annexes)}

\* The words of a page reach the articles they stand in, and the chunks of an
\* article carry its text, in order and once: a paragraph belongs to the last
\* article marker before it, if no annex was opened since.
WordsOf(text) == Only(text, {i \in DOMAIN text : text[i].words # ""})
Markers(page, k) == {i \in 1..k : page[i].kind \in {"article_marker", "annex_marker"}}
InArticle(page, k) ==
  /\ page[k].kind = "paragraph" /\ Markers(page, k) # {}
  /\ page[Greatest(Markers(page, k))].kind = "article_marker"
ArticlesCarryThePage ==
  imp.pc = "parsed" =>
    LET page == imp.page
        law == Parsed[page]
        chunks == ChunkLaw(law)
        carrying == Only(chunks, {i \in DOMAIN chunks : chunks[i].kind = "article_paragraph"})
        texts == Joined([k \in 1..Len(law.articles) |-> law.articles[k].text])
    IN /\ texts = Only(page, {k \in DOMAIN page : InArticle(page, k)})
       /\ WordsOf(texts) = WordsOf(Joined([k \in 1..Len(carrying) |-> carrying[k].text]))

\* A verdict of the language model is about the text it stands next to, unless
\* the law was stored anew while the run was under way: then a key may stand
\* for another article.
VerdictsAreOwn ==
  \A r \in store.articles :
    r.verdict # NoVerdict /\ ~r.verdict.stale => r.verdict.text = r.text

\* A run of --full that ends without --limit, and during which the law was not
\* stored anew, leaves no article unclassified but those with a short text,
\* whatever runs were killed before it.
FullRunIsComplete ==
  cls.pc = "done" /\ cls.all /\ ~cls.stale => Unclassified = {}
=============================================================================
