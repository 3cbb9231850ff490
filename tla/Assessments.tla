---------------------------- MODULE Assessments ----------------------------
(***************************************************************************)
(* What is made of the stored articles of the law: the registry of         *)
(* assessments, one row for each obligation, that people review, and the   *)
(* notes of an Obsidian vault.                                             *)
(*                                                                         *)
(*   article_runtime_pipeline  assesses articles, in one transaction, and  *)
(*                             writes the section of each in the note of   *)
(*                             the law as it goes                          *)
(*   sync_article_notes        writes a note for each article, from the    *)
(*                             articles and then the registry as it finds  *)
(*                             them                                        *)
(*                                                                         *)
(* Composed with the scripts of LegalStore, on the same database.          *)
(*                                                                         *)
(* Abstracted: a note is read and written at once, but for a kill, which   *)
(* leaves what was written of it; of a note of an article, its blocks and  *)
(* what people wrote between them, and of the note of the law the blocks   *)
(* that have their end; layout, and the columns that are computed from the *)
(* class; --dry-run, which writes nothing, and --celex, which chooses      *)
(* another note for the same articles.                                     *)
(***************************************************************************)
EXTENDS LegalStore

CONSTANTS
  Numbers,     \* what the numbers of articles begin with
  Sections,    \* the sections of the note of the law, by number
  MaxReviews   \* bound: decisions and edits of people

ASSUME AssessmentsAssumption ==
  /\ Numbers \subseteq Nat /\ Sections \subseteq Numbers /\ MaxReviews \in Nat

VARIABLES
  registry, \* article_runtime_assessments, in the order of insertion
  lawNote,  \* section of the note of the law -> its Runtime Testability block
  notes,    \* file of the note of an article -> its parts, in order
  asr,      \* article_runtime_pipeline
  syn,      \* sync_article_notes
  reviews,  \* ghost: decisions and edits of people
  unsaved,  \* ghost: sections written by a run that has not committed
  edited,   \* ghost: notes in which a person has written
  torn      \* ghost: notes that a kill cut off, until somebody finds one tidy

vars == <<raw, store, others, lock, imp, fwk, cls, starts, faults,
          registry, lawNote, notes, asr, syn, reviews, unsaved, edited, torn>>
assessVars == <<registry, lawNote, notes, asr, syn, reviews, unsaved, edited, torn>>

\* The leading integer of a number: 5 for article 5a.
Bare(a) == a.num[1]
AsrIdle == [pc |-> "idle", todo |-> << >>, read |-> {}, work |-> << >>]
SynIdle == [pc |-> "idle", articles |-> << >>, rows |-> << >>, left |-> 0]

Init ==
  /\ StoreInit
  /\ registry = << >> /\ lawNote = [s \in Sections |-> << >>] /\ notes = << >>
  /\ asr = AsrIdle /\ syn = SynIdle
  /\ reviews = 0 /\ unsaved = {} /\ edited = {} /\ torn = {}

-----------------------------------------------------------------------------
(* article_runtime_pipeline *)

Line(a, id, text, class) ==
  [key |-> <<a.number, <<Bare(a), id>>>>, text |-> text, class |-> class]
\* One line for each obligation; one for an article that cannot be parsed.
Lines(a) ==
  LET obligations == ParseArticle(a.text) IN
  IF Unparsable(a.text)
  THEN <<Line(a, <<0, "parse_error", 1>>, a.text, "UNCLEAR")>>
  ELSE [k \in 1..Len(obligations) |->
          Line(a, AtomicId(obligations, k), obligations[k].text,
               ClassifyAtomic(a.title, obligations[k].text))]

At(rows, key) == {i \in DOMAIN rows : rows[i].key = key}
\* defect: an update proposes anew
ProposedAnew(old, first) == "proposed"
\* A reviewed row is to be reviewed again if it differs from the first row.
StatusAfter(old, first) ==
  IF old.status # "proposed" /\ old.class # first.class THEN "needs_review" ELSE old.status

Row(line, status) ==
  [key |-> line.key, text |-> line.text, class |-> line.class, status |-> status]
\* defect: a row that is there is left as it is
InsertOrIgnore(rows, line) ==
  IF At(rows, line.key) = {} THEN Append(rows, Row(line, "proposed")) ELSE rows
Upsert(rows, line) ==
  IF At(rows, line.key) = {} THEN Append(rows, Row(line, "proposed"))
  ELSE [i \in DOMAIN rows |->
          IF i \in At(rows, line.key) THEN Row(line, StatusAfter(rows[i], rows[1]))
          ELSE rows[i]]

\* The lines of an article, one upsert after the other.
Upserted(rows, lines) ==
  LET after[k \in 0..Len(lines)] == IF k = 0 THEN rows ELSE Upsert(after[k - 1], lines[k])
  IN after[Len(lines)]

StartAssess(from, to) ==
  LET rows == {r \in store.articles : Bare(r) \in from..to} IN
  /\ asr.pc \in Ended /\ store.known /\ rows # {} /\ Begin
  /\ asr' = [pc |-> "run", todo |-> ById(rows), read |-> rows, work |-> << >>]
  /\ UNCHANGED <<raw, store, others, lock, imp, fwk, cls, registry, lawNote, notes, syn,
                 reviews, unsaved, edited, torn>>

\* The block of an article replaces that of its section, if it has one.
Blocks(a) ==
  LET lines == Lines(a) IN
  [s \in DOMAIN lawNote |->
     IF s = Bare(a)
     THEN [k \in 1..Len(lines) |-> [id |-> lines[k].key[2], class |-> lines[k].class]]
     ELSE lawNote[s]]

\* The first upsert opens the transaction, and nobody else writes until its end.
AssessArticle ==
  LET a == Head(asr.todo) IN
  /\ asr.pc = "run" /\ asr.todo # << >> /\ lock \in {"free", "assess"}
  /\ asr' = [asr EXCEPT !.todo = Tail(@),
               !.work = Upserted(IF lock = "assess" THEN @ ELSE registry, Lines(a))]
  /\ lawNote' = Blocks(a) /\ lock' = "assess"
  /\ unsaved' = unsaved \cup ({Bare(a)} \cap DOMAIN lawNote)
  /\ Calm /\ UNCHANGED <<raw, store, others, imp, fwk, cls, registry, notes, syn,
                         reviews, edited, torn>>

CommitAssess ==
  /\ asr.pc = "run" /\ asr.todo = << >>
  /\ registry' = asr.work /\ lock' = "free"
  /\ asr' = [asr EXCEPT !.pc = "done", !.work = << >>]
  /\ unsaved' = unsaved \ {Bare(a) : a \in asr.read}
  /\ Calm /\ UNCHANGED <<raw, store, others, imp, fwk, cls, lawNote, notes, syn,
                         reviews, edited, torn>>

AssessLockedOut ==
  /\ asr.pc = "run" /\ lock \notin {"free", "assess"} /\ asr' = AsrIdle
  /\ Fault /\ UNCHANGED <<raw, store, others, lock, imp, fwk, cls, registry, lawNote, notes,
                          syn, reviews, unsaved, edited, torn>>

\* The sections up to one of them, which may have lost the end of its block: the
\* next run writes a block after it, and the run after that replaces both.
CutOff(note, last, open) ==
  [s \in {t \in DOMAIN note : t <= last} |-> IF s = last /\ open THEN << >> ELSE note[s]]
\* Between two articles, or while the note of the law is written.
KillAssess ==
  /\ asr.pc = "run" /\ asr' = AsrIdle
  /\ lock' = IF lock = "assess" THEN "free" ELSE lock
  /\ \/ UNCHANGED <<lawNote, unsaved>>
     \/ LET a == Head(asr.todo) IN
        /\ asr.todo # << >> /\ lock \in {"free", "assess"}
        /\ Bare(a) \in DOMAIN lawNote
        /\ \E last \in {0} \cup DOMAIN lawNote, open \in BOOLEAN :
             lawNote' = CutOff(Blocks(a), last, open)
        /\ unsaved' = unsaved \cup {Bare(a)}
  /\ Fault /\ UNCHANGED <<raw, store, others, imp, fwk, cls, registry, notes, syn,
                          reviews, edited, torn>>

\* A person decides on a row.
Review(i, status) ==
  /\ lock = "free" /\ reviews < MaxReviews /\ i \in DOMAIN registry
  /\ registry[i].status \in {"proposed", "needs_review"}
  /\ registry' = [registry EXCEPT ![i].status = status] /\ reviews' = reviews + 1
  /\ Calm /\ UNCHANGED <<raw, store, others, lock, imp, fwk, cls, lawNote, notes, asr, syn,
                         unsaved, edited, torn>>

Assess ==
  \/ \E from, to \in Numbers : StartAssess(from, to)
  \/ AssessArticle \/ CommitAssess \/ AssessLockedOut \/ KillAssess
  \/ \E i \in DOMAIN registry, status \in {"confirmed", "rejected"} : Review(i, status)

-----------------------------------------------------------------------------
(* sync_article_notes *)

StartSync ==
  /\ syn.pc \in Ended /\ store.articles # {} /\ Begin
  /\ syn' = [pc |-> "read", articles |-> ById(store.articles), rows |-> << >>, left |-> 0]
  /\ UNCHANGED <<raw, store, others, lock, imp, fwk, cls, registry, lawNote, notes, asr,
                 reviews, unsaved, edited, torn>>

ReadRegistry ==
  /\ syn.pc = "read"
  /\ syn' = [syn EXCEPT !.pc = "write", !.rows = registry, !.left = Len(syn.articles)]
  /\ Calm /\ UNCHANGED <<raw, store, others, lock, imp, fwk, cls, registry, lawNote, notes,
                         asr, reviews, unsaved, edited, torn>>

\* defect: an article takes the rows of its own number only
RowsOfNumber(a, rows) == Only(rows, {i \in DOMAIN rows : rows[i].key[1] = a.number})
\* By the leading integer of the number.
RowsOf(a, rows) == Only(rows, {i \in DOMAIN rows : rows[i].key[1][1][1] = Bare(a)})

File(a) == <<Bare(a), a.title>>

\* A block stands between a marker of its start and one of its end, which is
\* missing if it is not closed.
Part(kind, body) == [kind |-> kind, body |-> body, closed |-> TRUE]
Person == Part("person", << >>)
Parts(note, kind) == {k \in DOMAIN note : note[k].kind = kind}
Closed(note, kind) == {k \in Parts(note, kind) : note[k].closed}
\* _replace_or_append_block: from the first start to the first end after it.
Replaced(note, new) ==
  IF Closed(note, new.kind) = {} THEN Append(note, new)
  ELSE SubSeq(note, 1, InOrder(Parts(note, new.kind))[1] - 1) \o <<new>>
       \o SubSeq(note, InOrder(Closed(note, new.kind))[1] + 1, Len(note))

Body(a, rows) == <<Part("text", a.text), Part("rt", RowsOf(a, rows))>>
\* defect: what is outside of the blocks is written anew too
Overwritten(old, a, rows) == Body(a, rows)
\* The two blocks are replaced, or appended; the rest is kept.
Updated(old, a, rows) == Replaced(Replaced(old, Body(a, rows)[1]), Body(a, rows)[2])
Existing(f) == IF f \in DOMAIN notes THEN notes[f] ELSE << >>
WithNote(f, note) == [g \in DOMAIN notes \cup {f} |-> IF g = f THEN note ELSE notes[g]]

Current == syn.articles[Len(syn.articles) - syn.left + 1]
Written == Updated(Existing(File(Current)), Current, syn.rows)
WriteNote ==
  /\ syn.pc = "write" /\ syn.left > 0
  /\ notes' = WithNote(File(Current), Written)
  /\ syn' = [syn EXCEPT !.left = @ - 1, !.pc = IF syn.left = 1 THEN "done" ELSE @]
  /\ Calm /\ UNCHANGED <<raw, store, others, lock, imp, fwk, cls, registry, lawNote, asr,
                         reviews, unsaved, edited, torn>>

\* The first parts of a note, and maybe the start of the next, without its end.
Begun(part) == {[part EXCEPT !.closed = FALSE, !.body = SubSeq(@, 1, n)] : n \in 0..Len(part.body)}
Broken(note) ==
  {SubSeq(note, 1, k) : k \in 0..(Len(note) - 1)} \cup
  UNION {{Append(SubSeq(note, 1, k - 1), part) : part \in Begun(note[k])}
           : k \in DOMAIN note \ Parts(note, "person")}
\* Between two notes, or while one is written.
KillSync ==
  /\ syn.pc \in {"read", "write"} /\ syn' = SynIdle
  /\ \/ UNCHANGED <<notes, torn>>
     \/ /\ syn.pc = "write" /\ syn.left > 0
        /\ \E note \in Broken(Written) : notes' = WithNote(File(Current), note)
        /\ torn' = torn \cup {File(Current)}
  /\ Fault /\ UNCHANGED <<raw, store, others, lock, imp, fwk, cls, registry, lawNote, asr,
                          reviews, unsaved, edited>>

\* No block of a tidy note is without its end, or there twice.
Tidy(note) ==
  /\ \A k \in DOMAIN note : note[k].closed
  /\ \A j, k \in DOMAIN note : note[j].kind = note[k].kind => j = k
\* A person writes in a note, before or after a block.
Edit(f, k) ==
  /\ reviews < MaxReviews /\ k \in 0..Len(notes[f]) /\ Parts(notes[f], "person") = {}
  /\ notes' = [notes EXCEPT ![f] = SubSeq(@, 1, k) \o <<Person>> \o SubSeq(@, k + 1, Len(@))]
  /\ reviews' = reviews + 1
  /\ edited' = edited \cup {f} /\ torn' = IF Tidy(notes[f]) THEN torn \ {f} ELSE torn
  /\ Calm /\ UNCHANGED <<raw, store, others, lock, imp, fwk, cls, registry, lawNote, asr,
                         syn, unsaved>>

Sync ==
  \/ StartSync \/ ReadRegistry \/ WriteNote \/ KillSync
  \/ \E f \in DOMAIN notes : \E k \in 0..Len(notes[f]) : Edit(f, k)

StoreStep == StoreNext /\ UNCHANGED assessVars
Next == StoreStep \/ Assess \/ Sync
Spec == Init /\ [][Next]_vars

-----------------------------------------------------------------------------
(* Properties *)

TypeOK ==
  /\ StoreTypeOK
  /\ \A i \in DOMAIN registry :
       /\ registry[i].class \in Classes
       /\ registry[i].status \in {"proposed", "confirmed", "rejected", "needs_review"}
  /\ DOMAIN lawNote \subseteq Sections /\ unsaved \subseteq Numbers
  /\ asr.pc \in {"idle", "run", "done"} /\ (lock = "assess" => asr.pc = "run")
  /\ syn.pc \in {"idle", "read", "write", "done"} /\ syn.left \in 0..Len(syn.articles)
  /\ edited \subseteq DOMAIN notes /\ torn \subseteq DOMAIN notes
  /\ reviews \in 0..MaxReviews

\* The registry has one row for each obligation of an assessed article, with
\* the text and the class of that obligation, though points of a paragraph may
\* bear the same label: no obligation takes the place of another.
OneRowPerObligation ==
  /\ \A i, j \in DOMAIN registry : registry[i].key = registry[j].key => i = j
  /\ asr.pc = "done" =>
       \A a \in asr.read :
         LET lines == Lines(a) IN
         \A k \in DOMAIN lines : \E i \in DOMAIN registry :
           /\ registry[i].key = lines[k].key /\ registry[i].text = lines[k].text
           /\ registry[i].class = lines[k].class

\* The obligations of the article being assessed carry its text, in order and
\* once, from its first numbered paragraph on.
ObligationsCarryTheArticle ==
  asr.todo # << >> /\ ~Unparsable(Head(asr.todo).text) =>
    LET text == Head(asr.todo).text
        obligations == ParseArticle(text)
        carried == Joined([k \in 1..Len(obligations) |-> obligations[k].text])
    IN \E k \in 1..Len(text) :
         /\ WordsOf(carried) = WordsOf(SubSeq(text, k, Len(text)))
         /\ \A j \in 1..(k - 1) : j \in Marks(text) => text[j].words = ""

\* Rows of the registry stay, and only people decide: a run of the pipeline
\* neither confirms nor rejects, nor proposes anew what was reviewed, nor sends
\* to review what was not.
ReviewsAreKept ==
  \A i \in DOMAIN registry :
    /\ i \in DOMAIN registry' /\ registry'[i].key = registry[i].key
    /\ registry'[i].status # registry[i].status =>
         \/ reviews' = reviews + 1
         \/ /\ registry[i].status \in {"confirmed", "rejected"}
            /\ registry'[i].status = "needs_review"

\* Every line of the note of the law is a row of the registry with that class,
\* but for sections that a run wrote before it was killed or refused: the note
\* is written before the commit.
LawNoteFollowsRegistry ==
  \A s \in DOMAIN lawNote \ unsaved : \A k \in DOMAIN lawNote[s] :
    \E i \in DOMAIN registry :
      registry[i].key[2] = lawNote[s][k].id /\ registry[i].class = lawNote[s][k].class

\* After a run of sync_article_notes every article it read has a note with a
\* block that shows every row, of those the run read, for the number of the
\* article, which is stored in one of two ways; and no other block, unless a
\* kill had cut off the note.
NotesProjectRegistry ==
  syn.pc = "done" =>
    \A n \in DOMAIN syn.articles :
      LET a == syn.articles[n]
          right == {r \in ToSet(syn.rows) : r.key[2][1] = Bare(a)}
          shown == {ToSet(notes[File(a)][k].body) : k \in Parts(notes[File(a)], "rt")}
      IN /\ File(a) \in DOMAIN notes /\ right \in shown
         /\ File(a) \notin torn => shown = {right}

\* What a person wrote in a tidy note of an article stays there, whatever is
\* synchronised and in whatever order, until a kill cuts off the note.
PersonsTextIsKept ==
  \A f \in edited \ torn : f \in DOMAIN notes /\ Parts(notes[f], "person") # {}

\* "Human-written content outside the markers is preserved"; where the marker of
\* an end is missing, a fresh block is appended "so we don't mangle human
\* content": what a person wrote is lost by no step but a kill.
HumanContentIsPreserved ==
  [][faults' = faults =>
       \A f \in DOMAIN notes :
         Parts(notes[f], "person") # {} => Parts(notes'[f], "person") # {}]_vars

\* What article_runtime_pipeline.py:138 says of a re-run: the status is
\* preserved, and becomes needs_review only if the output of the classifier
\* changed.
UnchangedStaysReviewed ==
  [][asr'.pc = "done" /\ asr.pc = "run" =>
       \A i \in DOMAIN registry :
         registry[i].status # "proposed" /\ registry'[i].class = registry[i].class =>
           registry'[i].status = registry[i].status]_vars

\* What is stored of the law is one page of it, word for word.
LawIsItsPage == LawIsOnePage /\ ArticlesCarryThePage

\* A verdict of the language model is about the text next to it, and a full run
\* leaves no text without one.
VerdictsHold == VerdictsAreOwn /\ FullRunIsComplete

\* The obligations of an article are its text, each with a row of its own.
ObligationsAreTheArticle == OneRowPerObligation /\ ObligationsCarryTheArticle

\* Both kinds of notes show what the registry says.
NotesShowRegistry == LawNoteFollowsRegistry /\ NotesProjectRegistry

\* What people decided of a row, or wrote in a note, no script takes back.
PersonsWorkIsKept == [][PersonsTextIsKept' /\ ReviewsAreKept]_vars
=============================================================================
