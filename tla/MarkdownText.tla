------------------------------ MODULE MarkdownText ------------------------------
(***************************************************************************)
(* Sections of Markdown files (structure_adapters.cpp).  A line that, with *)
(* the spaces around it removed, is one or more "#", a space and a title   *)
(* is a heading of that level, also inside a code block; other lines have  *)
(* level 0.  A document says whether its last line is terminated; one that *)
(* is not has at least one character.                                      *)
(***************************************************************************)
EXTENDS Integers, Sequences, SequencesExt

MdLine(level, words) == [level |-> level, words |-> words]
MdDoc(lines, ended)  == [lines |-> lines, ended |-> ended]
MdEmpty              == MdDoc(<<>>, TRUE)

\* What a line reads like when it is no longer at the start of one
Raw(l) == [k \in 1..l.level |-> "#"] \o l.words

Upto(d, n) == MdDoc(SubSeq(d.lines, 1, n), n < Len(d.lines) \/ d.ended)
From(d, n) == MdDoc(SubSeq(d.lines, n, Len(d.lines)), d.ended)

\* One text after the other: without a line end in between, two lines become one.
Concat(a, b) ==
  IF a.lines = <<>> THEN b
  ELSE IF b.lines = <<>> THEN a
  ELSE IF a.ended THEN MdDoc(a.lines \o b.lines, b.ended)
  ELSE MdDoc(Front(a.lines)
               \o <<[Last(a.lines) EXCEPT !.words = @ \o Raw(Head(b.lines))]>>
               \o Tail(b.lines),
             b.ended)

\* markdown_normalize_body: one line end is added to a text that does not end in one
NormalizeBody(body) == [body EXCEPT !.ended = TRUE]

\* The line of the heading; 0 for none
Heading(d, level, title) ==
  LET found == {i \in DOMAIN d.lines : d.lines[i] = MdLine(level, title)}
  IN  IF found = {} THEN 0 ELSE Min(found)

\* Mutant: the section ends at a heading of its own level only.
SectionEndSameLevel(d, i) ==
  Min({j \in i + 1..Len(d.lines) : d.lines[j].level = d.lines[i].level}
        \cup {Len(d.lines) + 1})

\* find_markdown_section_range: the line after the section that line i begins
SectionEnd(d, i) ==
  Min({j \in i + 1..Len(d.lines) : d.lines[j].level \in 1..d.lines[i].level}
        \cup {Len(d.lines) + 1})

MdNone == MdDoc(<<>>, FALSE)

\* markdown_replace_section, markdown_insert_after_heading and markdown_upsert_section;
\* MdNone is the answer when there is no such heading
ReplaceSection(d, level, title, body) ==
  LET i == Heading(d, level, title)
  IN  IF i = 0 THEN MdNone
      ELSE Concat(Concat(Upto(d, i), NormalizeBody(body)), From(d, SectionEnd(d, i)))

InsertAfterHeading(d, level, title, body) ==
  LET i == Heading(d, level, title)
  IN  IF i = 0 THEN MdNone
      ELSE Concat(Concat(Upto(d, i), NormalizeBody(body)), From(d, i + 1))

\* Mutant: a heading that is appended may end up on the last line.
UpsertUnended(d, level, title, body) ==
  IF Heading(d, level, title) # 0 THEN ReplaceSection(d, level, title, body)
  ELSE Concat(Concat(d, MdDoc(<<MdLine(level, title)>>, TRUE)), NormalizeBody(body))

UpsertSection(d, level, title, body) ==
  IF Heading(d, level, title) # 0 THEN ReplaceSection(d, level, title, body)
  ELSE Concat(Concat([d EXCEPT !.ended = TRUE], MdDoc(<<MdLine(level, title)>>, TRUE)),
              NormalizeBody(body))
=============================================================================
