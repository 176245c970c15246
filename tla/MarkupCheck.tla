------------------------------ MODULE MarkupCheck ------------------------------
(***************************************************************************)
(* Drives the Markdown and HTML adapters over small documents: Markdown    *)
(* files that grow line by line, HTML files that grow tag by tag, and the  *)
(* attributes of a tag, with every edit of MdEdits, HtmlEdits, AttrEdits.  *)
(***************************************************************************)
EXTENDS MarkdownText, HtmlText, FiniteSets

CONSTANTS
  MdLines, MdEdits,            \* lines of Markdown, and sections, titles and bodies
  HtmlTags, HtmlEdits,         \* tags and texts of HTML, and selectors
  VoidTags,                    \* tags that HTML never closes
  AttrTexts, AttrEdits,        \* texts around an attribute, and names and values
  MaxLines, MaxTags            \* bounds: lengths of documents

VARIABLES form, subject, change

structureVars == <<form, subject, change>>

MdLineSet == [level: Nat, words: Seq(STRING)]
MdDocSet  == [lines: Seq(MdLineSet), ended: BOOLEAN]
MdEditSet == [level: Nat \ {0}, title: Seq(STRING), body: MdDocSet]

\* Documents that stand for a text: a last line without a line end is not empty.
IsText(d) == d.ended \/ d.lines = <<>> \/ Last(d.lines) # MdLine(0, <<>>)

\* What the tags that are open are said to be when a document is not nested
NotNested == <<"not nested">>

TagNames == STRING \ ToSet(NotNested)
Kinds    == {"open", "close", "empty", "text"}
UnitSet  == [unit: {"name", "word"}, word: STRING] \cup {Quote}
TagSet   == [kind: Kinds, seen: Kinds, tag: TagNames, attrs: Seq(UnitSet)]

\* What a value may consist of: the quote ends it.
ValueSet == Seq({u \in UnitSet : u # Quote})

\* The text of a tag around an attribute, which may be there or not
AttrTextSet == [before: Seq(UnitSet), present: BOOLEAN, value: ValueSet, after: Seq(UnitSet)]
AttrEditSet == [name: STRING, value: ValueSet]

ASSUME MarkupAssumption ==
  /\ MdLines \subseteq MdLineSet /\ MdEdits \subseteq MdEditSet
  /\ HtmlTags \subseteq TagSet
  /\ AttrTexts \subseteq AttrTextSet /\ AttrEdits \subseteq AttrEditSet

MarkupInit ==
  \/ form = "markdown" /\ subject \in {MdEmpty, MdDoc(<<>>, FALSE)} /\ change \in MdEdits
  \/ form = "html" /\ subject = <<>> /\ change \in HtmlEdits
  \/ form = "attrs" /\ subject \in AttrTexts /\ change \in AttrEdits

\* What one more tag makes of the tags that are open
NestStep(stack, t) ==
  IF stack = NotNested THEN NotNested
  ELSE IF t.kind = "open" /\ t.tag \notin VoidTags THEN Append(stack, t.tag)
  ELSE IF t.kind # "close" THEN stack
  ELSE IF stack # <<>> /\ Last(stack) = t.tag THEN Front(stack)
  ELSE NotNested

\* The tags that are open at the end of a document, or NotNested
Nesting(html) == FoldLeft(NestStep, <<>>, html)

WellFormed(html) == Nesting(html) = <<>>

MarkupGrow ==
  /\ \/ /\ form = "markdown" /\ Len(subject.lines) < MaxLines
        /\ \E l \in MdLines : subject' = [subject EXCEPT !.lines = Append(@, l)]
     \/ /\ form = "html" /\ Len(subject) < MaxTags
        /\ \E t \in HtmlTags : /\ Nesting(Append(subject, t)) # NotNested
                               /\ subject' = Append(subject, t)
  /\ UNCHANGED <<form, change>>

MarkupSpec == MarkupInit /\ [][MarkupGrow]_structureVars

(***************************************************************************)
(* Markdown                                                                *)
(***************************************************************************)

\* The headings of a document, each with what follows it up to the next heading
Outline(d) ==
  LET heads == {i \in DOMAIN d.lines : d.lines[i].level > 0}
      next(i) == Min({j \in heads : j > i} \cup {Len(d.lines) + 1})
  IN  {<<d.lines[i], SubSeq(d.lines, i + 1, next(i) - 1)>> : i \in heads}

\* A heading, with every line that no heading of its level or above separates from it
SectionLines(d, level, title) ==
  LET i == Heading(d, level, title)
      inside(j) == \A k \in i + 1..j : d.lines[k].level = 0 \/ d.lines[k].level > level
  IN  IF i = 0 THEN <<>>
      ELSE SubSeq(d.lines, i, Max({j \in i..Len(d.lines) : inside(j)}))

\* An edit of a section leaves every other section as it is, and what it puts in is
\* found again under its heading: to replace or upsert it once more changes nothing
\* (markdown_replace_section, markdown_upsert_section, markdown_insert_after_heading).
\* A heading on a last line without a line end is excepted: the body is appended to its
\* title, unless the heading is new.
SectionEditIsLocal ==
  form = "markdown" /\ IsText(subject) /\ IsText(change.body) =>
    LET c == change
        i == Heading(subject, c.level, c.title)
        unended == i = Len(subject.lines) /\ ~subject.ended
        replaced == ReplaceSection(subject, c.level, c.title, c.body)
        upserted == UpsertSection(subject, c.level, c.title, c.body)
        inserted == InsertAfterHeading(subject, c.level, c.title, c.body)
        inside == IF i = 0 THEN {}
                  ELSE Outline(MdDoc(SectionLines(subject, c.level, c.title), TRUE))
        plain == \A k \in DOMAIN c.body.lines : c.body.lines[k].level = 0
    IN  /\ i # 0 => upserted = replaced
        /\ plain /\ ~(i # 0 /\ unended) =>
             /\ SectionLines(upserted, c.level, c.title)
                  = <<MdLine(c.level, c.title)>> \o c.body.lines
             /\ Outline(subject) \ inside \subseteq Outline(upserted)
             /\ UpsertSection(upserted, c.level, c.title, c.body) = upserted
        /\ i # 0 /\ ~unended /\ plain =>
             /\ Len(inserted.lines) = Len(subject.lines) + Len(c.body.lines)
             /\ \A s \in Outline(subject) \ Outline(inserted) : s[1] = MdLine(c.level, c.title)

(***************************************************************************)
(* HTML                                                                    *)
(***************************************************************************)

\* The node that starts at tag i, by nesting
NodeEnd(html, i) == Min({j \in i..Len(html) : WellFormed(SubSeq(html, i, j))})

\* Tags that are counted as opened and never closed
Unclosed(html, tag) ==
  \E j \in DOMAIN html : /\ Opens(html[j], tag)
                         /\ \/ html[j].kind = "empty"
                            \/ html[j].tag \in VoidTags

\* A part of the file that looks to the search like such a tag and is something else
Disguised(html, tag) ==
  \E j \in DOMAIN html : html[j].seen # html[j].kind /\ StartsWith(html[j].tag, tag)

NodeIsWhole ==
  LET r   == FindNode(subject, change)
      new == <<Tag("text", "text", "", <<>>)>>
      matching == {i \in DOMAIN subject : Selected(subject[i], change)}
      first == Min(matching)
      element == subject[first].kind = "open"
  IN  /\ matching = {} => r = NoRange
      /\ /\ matching # {}
         /\ ~Disguised(subject, subject[first].tag)
         /\ ~(element /\ Unclosed(subject, subject[first].tag))
         => /\ r = <<first, NodeEnd(subject, first)>>
            /\ WellFormed(ReplaceNode(subject, change, new))
            /\ WellFormed(InsertAfterNode(subject, change, new))

NeverMentions(text, name) == \A k \in DOMAIN text : ~Mentions(text[k], name)

AttributeEditIsLocal ==
  LET c == change
      old == IF subject.present THEN AttrText(c.name, subject.value) ELSE <<>>
      new == AttrsSet(subject.before \o old \o subject.after, c.name, c.value)
  IN  NeverMentions(subject.before, c.name) =>
        /\ subject.present =>
             new = subject.before \o AttrText(c.name, c.value) \o subject.after
        /\ ~subject.present /\ NeverMentions(subject.after, c.name) =>
             new = subject.before \o subject.after \o AttrText(c.name, c.value)

\* An HTML edit changes the node the selector names and nothing else.  What is replaced,
\* or inserted after, is a whole node, the one whose tag the selector matches first, so a
\* well-formed file stays well-formed; excepted are files with an element without an end
\* tag whose name begins like the node's, or with such a tag in a comment or in the value
\* of an attribute.  An attribute that is set reads as it was set, and the text of the tag
\* around it stays; excepted are tags on which the attribute has no quotes, or on which
\* its name and "=" come earlier, in the value of another attribute (href="/?id=1") or at
\* the end of another's name (html_replace_node, html_insert_after_node,
\* html_set_attribute).
HtmlEditIsLocal ==
  /\ form = "html" /\ WellFormed(subject) => NodeIsWhole
  /\ form = "attrs" => AttributeEditIsLocal
=============================================================================
