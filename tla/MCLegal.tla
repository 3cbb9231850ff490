------------------------------ MODULE MCLegal ------------------------------
(* An instance of Assessments for TLC. *)
EXTENDS Assessments

\* The words of the pages, by what they signal.
MCSignals(w) ==
  CASE w = "log" -> {"behaviour"}
    [] w = "file" -> {"documentation", "behaviour"}
    [] w = "data" -> {"model"}
    [] OTHER -> {}
MCKind(t) == IF t = "Practices" THEN "prohibited" ELSE "other"

P(mark, label, words, end) == Paragraph(mark, label, words, end)

\* Words of less than 50 characters, and those of a reference.
MCShort(text) == \A i \in DOMAIN text : text[i].words \in {"", "none", "intro", "item"}
MCCitation(text) == text # << >> /\ text[1].words = "journal"

\* A first edition: the number of its recital is a block of its own; points with
\* a label that comes twice; an article with a short text.
First == <<P(0, "1", "", ""), P(0, "", "whereas", "."), P(0, "2", "journal", "."),
  Marker(<<12, "">>, ""), Title("Records"), P(1, "", "shall", ":"), P(0, "a", "log", ";"),
  P(0, "a", "file", "."), P(2, "", "data", "."),
  Marker(<<5, "">>, "Scope"), P(0, "", "none", ".")>>
\* A second: another title, one obligation changed, an article inserted; a text
\* before its first number.
Second == <<P(0, "1", "whereas", "."),
  Marker(<<12, "">>, "Logs"), P(0, "", "intro", "."), P(1, "", "data", "."), P(2, "", "file", "."),
  Marker(<<5, "a">>, "Practices"), P(0, "", "none", "."),
  Annex("I"), AnnexTitle("List")>>
\* A third: the items of an annex count like recitals, one of them like one
\* that was too short; a point is empty.
Third == <<P(0, "1", "whereas", "."), P(0, "2", "item", "."),
  Marker(<<12, "">>, "Records"), P(1, "", "log", ":"), P(0, "a", "", ";"),
  Annex("I"), P(0, "1", "item", "."), P(0, "2", "data", ".")>>

MCEditions == {First, Second, Third}
=============================================================================
