----------------------------- MODULE LegalText -----------------------------
(***************************************************************************)
(* The text of a law, from the blocks of its EUR-Lex page to the           *)
(* obligations of an article and their classification: the pure functions  *)
(* of src/compliance/legal (parser, chunker) and of                        *)
(* src/compliance/requirements (legal_text_parser, article_classifier).    *)
(*                                                                         *)
(* A page is a sequence of blocks.  A paragraph may open with the number   *)
(* of a paragraph ("2. "), then with a label in parentheses, and ends in   *)
(* some punctuation; the rest of it is its words.  A text is a sequence of *)
(* paragraphs, so that one can say which of them a function keeps.         *)
(*                                                                         *)
(* Abstracted: the classes of HTML elements that make a block; numbers and *)
(* labels within a paragraph (a paragraph is cut where one occurs); which  *)
(* words are a signal (Signals, Kind), and how long a text is (Short,      *)
(* Citation).                                                              *)
(***************************************************************************)
EXTENDS Integers, Sequences, FiniteSets, SequencesExt

CONSTANTS
  Signals(_), \* "model", "documentation" and "behaviour", as the words signal
  Kind(_),    \* what the title of an article says of it
  Short(_),   \* is a text shorter than 50 characters?
  Citation(_) \* is it a reference to the Official Journal, and little else?

ASSUME ShortAssumption == Short(<< >>)

\* The labels that number a recital, and those that are letters.
Digits == {"1", "2", "3"}
Letters == {"a", "b", "i"}

Marker(n, t) == [kind |-> "article_marker", num |-> n, title |-> t]
Title(t) == [kind |-> "article_title", title |-> t]
Paragraph(mark, label, words, end) ==
  [kind |-> "paragraph", mark |-> mark, label |-> label, words |-> words, end |-> end]
Annex(c) == [kind |-> "annex_marker", code |-> c]
AnnexTitle(t) == [kind |-> "annex_title", title |-> t]

\* A set of positions, in order: the k-th has k positions up to it.
InOrder(S) ==
  [k \in 1..Cardinality(S) |-> CHOOSE i \in S : Cardinality({j \in S : j <= i}) = k]
\* What a sequence has at these positions.
Only(seq, S) == [k \in 1..Cardinality(S) |-> seq[InOrder(S)[k]]]
\* A text cut before each position of cuts; what is before the first one is
\* left out.
Cut(text, cuts) ==
  LET at == InOrder(cuts) IN
  [k \in 1..Cardinality(cuts) |->
     SubSeq(text, at[k], IF k = Cardinality(cuts) THEN Len(text) ELSE at[k + 1] - 1)]
Before(text, cuts) ==
  IF cuts = {} THEN text ELSE SubSeq(text, 1, InOrder(cuts)[1] - 1)
Joined(texts) == FlattenSeq(texts)

-----------------------------------------------------------------------------
(* parser.py *)

\* The article and the annex being read are the last ones.
Unread == [articles |-> << >>, recitals |-> << >>, annexes |-> << >>, within |-> FALSE]

OpenArticle(law, b) ==
  [law EXCEPT !.within = TRUE,
     !.articles = Append(@, [num |-> b.num, path |-> << >>, title |-> b.title, text |-> << >>])]

NameArticle(law, b) ==
  IF law.articles = << >> \/ Last(law.articles).title # "" THEN law
  ELSE [law EXCEPT !.articles[Len(law.articles)].title = b.title]

\* Outside of the articles, so also after the title of an annex.
AddRecital(law, b) ==
  IF b.label \in Digits /\ b.mark = 0
  THEN [law EXCEPT !.recitals = Append(@, [num |-> b.label, text |-> <<b>>])]
  ELSE IF law.recitals = << >> THEN law
  ELSE [law EXCEPT !.recitals[Len(law.recitals)].text = Append(@, b)]

AddToArticle(law, b) ==
  LET n == Len(law.articles) IN
  [law EXCEPT !.articles[n].text = Append(@, b),
              !.articles[n].path = IF b.label = "" \/ b.mark # 0 THEN @ ELSE Append(@, b.label)]

OpenAnnex(law, b) ==
  [law EXCEPT !.within = FALSE,
     !.annexes = Append(@, [code |-> b.code, title |-> "", text |-> << >>])]

NameAnnex(law, b) ==
  IF law.annexes = << >> THEN law
  ELSE [law EXCEPT !.annexes[Len(law.annexes)].title = b.title]

Read(law, b) ==
  CASE b.kind = "article_marker" -> OpenArticle(law, b)
    [] b.kind = "article_title" -> NameArticle(law, b)
    [] b.kind = "paragraph" /\ ~law.within -> AddRecital(law, b)
    [] b.kind = "paragraph" /\ law.within -> AddToArticle(law, b)
    [] b.kind = "annex_marker" -> OpenAnnex(law, b)
    [] b.kind = "annex_title" -> NameAnnex(law, b)

ParseLaw(page) ==
  LET law[k \in 0..Len(page)] == IF k = 0 THEN Unread ELSE Read(law[k - 1], page[k])
  IN law[Len(page)]

-----------------------------------------------------------------------------
(* chunker.py *)

Labelled(text) == {i \in DOMAIN text : text[i].label # ""}

\* defect: what stands before the first label is no segment
LabelledSegments(text) ==
  LET cuts == Labelled(text)
      path(k) == [j \in 1..k |-> text[InOrder(cuts)[j]].label]
  IN [k \in 1..Cardinality(cuts) |-> [path |-> path(k), text |-> Cut(text, cuts)[k]]]
\* Each segment goes by all the labels up to its own.
Segments(text) ==
  LET cuts == Labelled(text)
      path(k) == [j \in 1..k |-> text[InOrder(cuts)[j]].label]
      pieces == Cut(text, cuts)
  IN (IF Before(text, cuts) = << >> THEN << >>
      ELSE <<[path |-> << >>, text |-> Before(text, cuts)]>>)
     \o [k \in 1..Len(pieces) |-> [path |-> path(k), text |-> pieces[k]]]

\* A segment whose label is all it has is not made a chunk.
Blank(text) == \A i \in DOMAIN text : text[i].words = ""
\* Those of a sequence that have a text.
Worded(seq) == Only(seq, {i \in DOMAIN seq : ~Blank(seq[i].text)})

Chunk(kind, of, path, text) == [kind |-> kind, of |-> of, path |-> path, text |-> text]
ArticleChunks(a) ==
  LET segments == Worded(Segments(a.text)) IN
  [k \in 1..Len(segments) |->
     Chunk("article_paragraph", a.num, segments[k].path, segments[k].text)]

\* An annex has no text of its own: it is a chunk if it has a title.
ChunkLaw(law) ==
  LET recitals == Worded(law.recitals)
      annexes == Only(law.annexes, {i \in DOMAIN law.annexes : law.annexes[i].title # ""})
  IN
  [k \in 1..Len(recitals) |-> Chunk("recital", <<recitals[k].num>>, << >>, recitals[k].text)]
  \o Joined([k \in 1..Len(law.articles) |-> ArticleChunks(law.articles[k])])
  \o [k \in 1..Len(annexes) |->
        Chunk("annex", <<annexes[k].code>>, << >>, annexes[k].text)]

-----------------------------------------------------------------------------
(* legal_text_parser.py *)

Boundary(text, i) == i = 1 \/ text[i - 1].end = "."
Marks(text) == {i \in DOMAIN text : text[i].mark # 0 /\ Boundary(text, i)}

\* Paragraphs that do not count 1, 2, ... are one paragraph; what stands
\* before the first of those that do is dropped.
SplitParagraphs(text) ==
  LET cut == Cut(text, Marks(text))
      bodies == Only(cut, {k \in DOMAIN cut : ~Blank(cut[k])})
  IN
  IF text = << >> THEN << >>
  ELSE IF bodies = << >> \/ \E k \in DOMAIN bodies : bodies[k][1].mark # k THEN <<text>>
  ELSE bodies

\* defect: the lead-in of a list of points belongs to none of them
WithoutLeadIn(body, cuts) == Cut(body, cuts)
\* The first point takes the lead-in.
WithLeadIn(body, cuts) ==
  LET points == Cut(body, cuts) IN [points EXCEPT ![1] = Before(body, cuts) \o @]

PointLabels(body) ==
  {i \in DOMAIN body : body[i].label \in Letters /\ i > 1 /\ body[i - 1].end \in {";", ":"}}
Point(n, label, text) == [paragraph |-> n, point |-> label, text |-> text]
SplitPoints(n, body) ==
  LET cuts == PointLabels(body) IN
  IF cuts = {} THEN <<Point(n, "", body)>>
  ELSE [k \in 1..Cardinality(cuts) |->
          Point(n, body[InOrder(cuts)[k]].label, WithLeadIn(body, cuts)[k])]

EmptyPoint(text) ==
  \E k \in DOMAIN SplitParagraphs(text) :
    LET body == SplitParagraphs(text)[k] IN
    \E j \in DOMAIN Cut(body, PointLabels(body)) : Blank(Cut(body, PointLabels(body))[j])

\* ParseError: a point without a body, or nothing at all.
Unparsable(text) == text = << >> \/ EmptyPoint(text)
ParseArticle(text) ==
  LET paragraphs == SplitParagraphs(text) IN
  Joined([n \in 1..Len(paragraphs) |-> SplitPoints(n, paragraphs[n])])

\* defect: obligations of the same place have the same id
SamePlaceId(obligations, k) == <<obligations[k].paragraph, obligations[k].point, 1>>
\* The k-th id of the article: the n-th of its place is marked n.
AtomicId(obligations, k) ==
  LET o == obligations[k] IN
  <<o.paragraph, o.point,
    Cardinality({j \in 1..k : obligations[j].paragraph = o.paragraph
                              /\ obligations[j].point = o.point})>>

-----------------------------------------------------------------------------
(* article_classifier.py *)

Classes == {"NOT_AGENT_SYSTEM_RELEVANT", "APPLICABILITY_ONLY", "PARTIALLY_RUNTIME_TESTABLE",
            "UNCLEAR", "MODEL_LEVEL", "PROCESS_OR_DOCUMENTATION", "RUNTIME_TESTABLE"}

\* What the title alone decides.
ByTitle == [definitions |-> "NOT_AGENT_SYSTEM_RELEVANT", scope |-> "APPLICABILITY_ONLY",
            prohibited |-> "PARTIALLY_RUNTIME_TESTABLE"]
BySignals(signals) ==
  CASE {"model", "behaviour"} \subseteq signals -> "UNCLEAR"
    [] "model" \in signals /\ "behaviour" \notin signals -> "MODEL_LEVEL"
    [] "documentation" \in signals /\ "model" \notin signals -> "PROCESS_OR_DOCUMENTATION"
    [] signals = {"behaviour"} -> "RUNTIME_TESTABLE"
    [] signals = {} -> "UNCLEAR"
AllSignals(text) == UNION {Signals(text[i].words) : i \in DOMAIN text}
ClassifyAtomic(title, text) ==
  IF Kind(title) \in DOMAIN ByTitle THEN ByTitle[Kind(title)] ELSE BySignals(AllSignals(text))
=============================================================================
