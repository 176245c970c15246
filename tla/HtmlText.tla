-------------------------------- MODULE HtmlText --------------------------------
(***************************************************************************)
(* Nodes of HTML files (find_html_node_range and the html_* edits of       *)
(* structure_adapters.cpp).  A document is a sequence of tags and texts,   *)
(* but the code searches its characters for "<" and a name: a tag is also  *)
(* taken for every other whose name it begins with, and what is written in *)
(* a comment or in the value of an attribute is taken for a tag.  The text *)
(* of a tag is a sequence of units, searched for a name and "=": inside a  *)
(* value, and at the end of a longer name, too.                            *)
(***************************************************************************)
EXTENDS Integers, Sequences, SequencesExt, FiniteSets

CONSTANTS
  LongerTags,    \* pairs of names: the first is longer and begins with the second
  LongerNames    \* pairs of names: the first is longer and ends with the second

\* kind: what a part of the file is in HTML, "open", "close", "empty" (<b/>) or "text".
\* seen: what its characters look like to the search.  <b> in a comment is a text seen as
\* "open", <b title="x>"/> is an empty tag seen as "open".
Tag(kind, seen, tag, attrs) == [kind |-> kind, seen |-> seen, tag |-> tag, attrs |-> attrs]

\* The units of a tag's text: a name with its "=", a quote, or anything else
Named(name) == [unit |-> "name", word |-> name]
Quote       == [unit |-> "quote", word |-> "quote"]
Word(word)  == [unit |-> "word", word |-> word]

\* name="value"
AttrText(name, value) == <<Named(name), Quote>> \o value \o <<Quote>>

StartsWith(tag, prefix) == tag = prefix \/ <<tag, prefix>> \in LongerTags
EndsWith(name, suffix)  == name = suffix \/ <<name, suffix>> \in LongerNames

\* The search for name and "=" stops at the unit.
Mentions(u, name) == u.unit = "name" /\ EndsWith(u.word, name)

\* A selector is a name, or a name and the units that follow it.
Selected(t, sel) ==
  /\ t.seen \in {"open", "empty"}
  /\ IF sel.attrs = <<>> THEN StartsWith(t.tag, sel.tag)
     ELSE t.tag = sel.tag /\ IsPrefix(sel.attrs, t.attrs)

\* Tags the search counts up and down for
Opens(t, tag)  == t.seen \in {"open", "empty"} /\ StartsWith(t.tag, tag)
Closes(t, tag) == t.seen = "close" /\ StartsWith(t.tag, tag)

Depth(html, tag, i, j) ==
  Cardinality({k \in i..j : Opens(html[k], tag)}) - Cardinality({k \in i..j : Closes(html[k], tag)})

NoRange == <<0, 0>>

\* Mutant: the node ends at the first closing tag.
FindNodeShallow(html, sel) ==
  LET found == {i \in DOMAIN html : Selected(html[i], sel)}
      i     == Min(found)
      ends  == {j \in i + 1..Len(html) : Closes(html[j], html[i].tag)}
  IN  IF found = {} \/ ends = {} THEN NoRange ELSE <<i, Min(ends)>>

\* find_html_node_range: the first tag the selector matches, up to where as many tags
\* have been closed as opened
FindNode(html, sel) ==
  LET found == {i \in DOMAIN html : Selected(html[i], sel)}
      i     == Min(found)
      tag   == html[i].tag
      ends  == {j \in i + 1..Len(html) : Closes(html[j], tag) /\ Depth(html, tag, i, j) = 0}
  IN  IF found = {} THEN NoRange
      ELSE IF html[i].seen = "empty" THEN <<i, i>>
      ELSE IF ends = {} THEN NoRange
      ELSE <<i, Min(ends)>>

Part(html, from, to) == SubSeq(html, from, to)

\* html_replace_node, html_insert_after_node; <<>> when the selector finds nothing
ReplaceNode(html, sel, new) ==
  LET r == FindNode(html, sel)
  IN  IF r = NoRange THEN <<>>
      ELSE Part(html, 1, r[1] - 1) \o new \o Part(html, r[2] + 1, Len(html))

InsertAfterNode(html, sel, new) ==
  LET r == FindNode(html, sel)
  IN  IF r = NoRange THEN <<>>
      ELSE Part(html, 1, r[2]) \o new \o Part(html, r[2] + 1, Len(html))

\* Mutant: the attribute is always added.
AttrsAppended(text, name, value) == text \o AttrText(name, value)

\* html_set_attribute on the text of a tag: what is between the next two quotes after the
\* name is replaced; <<>> when there are no two
AttrsSet(text, name, value) ==
  LET named  == {k \in DOMAIN text : Mentions(text[k], name)}
      quotes == {k \in Min(named)..Len(text) : text[k] = Quote}
      open   == Min(quotes)
      closes == quotes \ {open}
  IN  IF named = {} THEN text \o AttrText(name, value)
      ELSE IF quotes = {} \/ closes = {} THEN <<>>
      ELSE SubSeq(text, 1, open) \o value \o SubSeq(text, Min(closes), Len(text))

SetAttribute(html, sel, name, value) ==
  LET r   == FindNode(html, sel)
      new == AttrsSet(html[r[1]].attrs, name, value)
  IN  IF r = NoRange \/ new = <<>> THEN <<>> ELSE [html EXCEPT ![r[1]].attrs = new]
=============================================================================
