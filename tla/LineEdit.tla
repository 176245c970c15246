------------------------------- MODULE LineEdit -------------------------------
(***************************************************************************)
(* The text algorithms of the session service                              *)
(* (libs/bridge_core/src/session_service.cpp): splitting a document into   *)
(* lines, locating a selector's candidates, applying a staged change to a  *)
(* content, and deciding whether a change still fits a drifted content.    *)
(*                                                                         *)
(* A content is a sequence of symbols.  NL is '\n' and CR is '\r'; every   *)
(* other symbol stands for a piece of text the algorithms only compare.    *)
(* Offsets are the C++ offsets plus one.                                   *)
(***************************************************************************)
EXTENDS Naturals, SequencesExt

CONSTANTS NL, CR

ASSUME LineBreaksDiffer == NL # CR

(***************************************************************************)
(* Lines                                                                   *)
(***************************************************************************)

EndsWithNewline(d) == d # <<>> /\ Last(d) = NL

\* The loop of make_document_from_content: a CR is skipped, an NL ends the line that is
\* being read, any other symbol goes to its end.
ReadSymbol(lines, c) ==
  CASE c = CR -> lines
    [] c = NL -> Append(lines, <<>>)
    [] OTHER  -> Append(Front(lines), Append(Last(lines), c))

ReadLines(d) == FoldLeft(ReadSymbol, <<<<>>>>, d)

\* make_document_from_content(d).lines: what is being read at the end is a line only if
\* it holds something or the content does not end in NL.
Lines(d) ==
  LET read == ReadLines(d)
  IN  IF Last(read) = <<>> /\ (d = <<>> \/ Last(d) = NL) THEN Front(read) ELSE read

JoinLines(lines, trailing) ==
  FlattenSeq([i \in DOMAIN lines |->
                IF i < Len(lines) \/ trailing THEN Append(lines[i], NL)
                                              ELSE lines[i]])

ValidRange(first, last, d) ==
  first # 0 /\ last # 0 /\ first <= last /\ last <= Len(Lines(d))

\* slice_range_text
RangeText(d, first, last) ==
  IF ValidRange(first, last, d)
  THEN JoinLines(SubSeq(Lines(d), first, last), FALSE) ELSE <<>>

(***************************************************************************)
(* Selectors                                                               *)
(***************************************************************************)

OccursAt(d, q, i) == i + Len(q) <= Len(d) + 1 /\ SubSeq(d, i, i + Len(q) - 1) = q

\* An empty anchor constrains nothing.  The anchor before may start anywhere up
\* to the match itself (rfind), the anchor after anywhere past its end (find).
AnchorsAllow(d, sel, i) ==
  /\ \/ sel.anchor_before = <<>>
     \/ \E j \in 1..i : OccursAt(d, sel.anchor_before, j)
  /\ \/ sel.anchor_after = <<>>
     \/ \E j \in i + Len(sel.query)..Len(d) : OccursAt(d, sel.anchor_after, j)

\* Mutant: the scan resumes one symbol on, so that overlapping matches are offered.
LocateOverlapping(d, sel) ==
  LET hits == {i \in DOMAIN d : OccursAt(d, sel.query, i) /\ AnchorsAllow(d, sel, i)}
  IN  IF sel.query = <<>> THEN <<>> ELSE SetToSortSeq(hits, <)

\* Start offsets of the candidates, in scanning order: the scan resumes at the
\* end of every match, also of one the anchors reject.
LocateCandidates(d, sel) ==
  LET scan[pos \in 1..Len(d) + 1] ==
        LET hits == {i \in pos..Len(d) : OccursAt(d, sel.query, i)}
        IN  IF hits = {} THEN <<>>
            ELSE LET i == Min(hits)
                 IN  (IF AnchorsAllow(d, sel, i) THEN <<i>> ELSE <<>>)
                       \o scan[i + Len(sel.query)]
  IN  IF sel.query = <<>> THEN <<>> ELSE scan[1]

Resolvable(d, sel) == sel.occurrence \in 1..Len(LocateCandidates(d, sel))

\* resolve_candidate, where Resolvable holds
ResolveCandidate(d, sel) ==
  LET found == LocateCandidates(d, sel)
  IN  IF sel.from_end THEN found[Len(found) - sel.occurrence + 1]
                      ELSE found[sel.occurrence]

(***************************************************************************)
(* Applying a change                                                       *)
(***************************************************************************)

BlockOps   == {"replace_block", "insert_before", "insert_after", "delete_block"}
Operations == BlockOps \cup {"replace_range", "replace_content"}

\* The conditions under which apply_change_to_content returns true
CanApply(c, d) ==
  \/ c.operation = "replace_content"
  \/ c.operation = "replace_range" /\ ValidRange(c.line_start, c.line_end, d)
  \/ c.operation \in BlockOps /\ Resolvable(d, c.selector)

\* Mutant: the last line of the range is kept.
ReplaceAllButLast(c, d) ==
  LET old == Lines(d)
  IN  JoinLines(SubSeq(old, 1, c.line_start - 1) \o Lines(c.new_content)
                  \o SubSeq(old, c.line_end, Len(old)),
                EndsWithNewline(d) \/ EndsWithNewline(c.new_content))

ReplaceRange(c, d) ==
  LET old == Lines(d)
  IN  JoinLines(SubSeq(old, 1, c.line_start - 1) \o Lines(c.new_content)
                  \o SubSeq(old, c.line_end + 1, Len(old)),
                EndsWithNewline(d) \/ EndsWithNewline(c.new_content))

ReplaceBlock(c, d) ==
  LET start == ResolveCandidate(d, c.selector)
      end   == start + Len(c.selector.query)
      upto(i) == SubSeq(d, 1, i - 1)
      from(i) == SubSeq(d, i, Len(d))
  IN  CASE c.operation = "replace_block" -> upto(start) \o c.new_content \o from(end)
        [] c.operation = "insert_before" -> upto(start) \o c.new_content \o from(start)
        [] c.operation = "insert_after"  -> upto(end) \o c.new_content \o from(end)
        [] c.operation = "delete_block"  -> upto(start) \o from(end)

\* apply_change_to_content, where CanApply holds
ApplyChange(c, d) ==
  CASE c.operation = "replace_content" -> c.new_content
    [] c.operation = "replace_range"   -> ReplaceRange(c, d)
    [] OTHER                           -> ReplaceBlock(c, d)

(***************************************************************************)
(* Rebasing a change                                                       *)
(***************************************************************************)

TargetText(c, d) ==
  LET start == ResolveCandidate(d, c.selector)
  IN  SubSeq(d, start, start + Len(c.selector.query) - 1)

\* Mutant: a range is compared without asking whether the content has its lines.
CanRebaseAnyRange(c, d) ==
  \/ c.operation = "replace_content"
  \/ /\ c.operation = "replace_range"
     /\ RangeText(d, c.line_start, c.line_end) = c.expected_content
  \/ c.operation \in BlockOps /\ Resolvable(d, c.selector)

\* change_can_rebase_on_content
CanRebase(c, d) ==
  \/ /\ c.operation = "replace_content"
     /\ c.expected_content = <<>> \/ d = c.expected_content
  \/ /\ c.operation = "replace_range"
     /\ ValidRange(c.line_start, c.line_end, d)
     /\ RangeText(d, c.line_start, c.line_end) = c.expected_content
  \/ /\ c.operation \in BlockOps
     /\ Resolvable(d, c.selector)
     /\ c.expected_content = <<>> \/ TargetText(c, d) = c.expected_content

(***************************************************************************)
(* Staging an edit: what edit_replace_range, edit_replace_block,           *)
(* edit_insert_before, edit_insert_after, edit_delete_block and            *)
(* edit_replace_content accept on the content of the file as it is on      *)
(* disk, and the expected content they record.  A whole-file rewrite that  *)
(* names no expected content expects the file's own.                       *)
(***************************************************************************)
CanStage(e, d) == CanApply(e, d)

\* Mutant: a range expects its first line only.
ExpectedFirstLine(e, d) ==
  CASE e.operation = "replace_content" -> d
    [] e.operation = "replace_range"   -> RangeText(d, e.line_start, e.line_start)
    [] OTHER                           -> TargetText(e, d)

ExpectedContent(e, d) ==
  CASE e.operation = "replace_content" ->
         IF e.expected_content = <<>> THEN d ELSE e.expected_content
    [] e.operation = "replace_range" -> RangeText(d, e.line_start, e.line_end)
    [] OTHER -> TargetText(e, d)

Stage(e, d) == [e EXCEPT !.expected_content = ExpectedContent(e, d)]
=============================================================================
