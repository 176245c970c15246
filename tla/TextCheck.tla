------------------------------- MODULE TextCheck -------------------------------
(***************************************************************************)
(* Drives the text algorithms of the session service and the text codec of *)
(* the patch service over every file of Starts grown by at most MaxLength  *)
(* symbols, one at a time, and every edit of Edits.                        *)
(***************************************************************************)
EXTENDS TextCodec, FiniteSets

CONSTANTS Symbols, Starts, Edits, MaxLength

Character == Symbols \cup {NL, CR, Bom}

Selector == [query: Seq(Character), anchor_before: Seq(Character),
             anchor_after: Seq(Character), occurrence: Nat, from_end: BOOLEAN]

Change == [operation: Operations, line_start: Nat, line_end: Nat, selector: Selector,
           expected_content: Seq(Character), new_content: Seq(Character)]

ASSUME TextAssumption == Starts \subseteq Seq(Character) /\ Edits \subseteq Change

VARIABLES doc, edit

Init == doc \in Starts /\ edit \in Edits

Grow == /\ Len(FileText(doc)) < MaxLength
        /\ \E c \in Symbols : doc' = Append(doc, c)
        /\ UNCHANGED edit

Spec == Init /\ [][Grow]_<<doc, edit>>

(***************************************************************************)
(* Selecting, staging, rebasing and applying                               *)
(***************************************************************************)

Matches(d, q) == {i \in DOMAIN d : q # <<>> /\ OccursAt(d, q, i)}

\* The occurrences a reader would number: disjoint ones such that every
\* occurrence starts inside a numbered one.  There is exactly one such set.
Numbered(d, q) ==
  CHOOSE S \in SUBSET Matches(d, q) :
    /\ \A i, j \in S : i < j => i + Len(q) <= j
    /\ \A m \in Matches(d, q) : \E i \in S : m \in i..i + Len(q) - 1

\* The candidates of a selector are the numbered occurrences its anchors allow,
\* in document order: overlapping occurrences are never offered twice, and a
\* rejected occurrence still hides those overlapping it (locate_candidates).
CandidatesAreNumbered ==
  edit.operation \in BlockOps =>
    LET sel == edit.selector
        found == LocateCandidates(doc, sel)
    IN  /\ ToSet(found) = {i \in Numbered(doc, sel.query) : AnchorsAllow(doc, sel, i)}
        /\ \A i, j \in DOMAIN found : i < j => found[i] < found[j]

\* What replacing a range is asked for: the lines before it, the lines of the
\* replacement, the lines after it.
WantedLines ==
  LET old == Lines(doc)
      put == Lines(edit.new_content)
      len == edit.line_start - 1 + Len(put) + Len(old) - edit.line_end
  IN  [k \in 1..len |->
         IF k < edit.line_start THEN old[k]
         ELSE IF k < edit.line_start + Len(put) THEN put[k - edit.line_start + 1]
         ELSE old[k - Len(put) + edit.line_end - edit.line_start + 1]]

\* Replacing a range changes exactly the lines of the range, whatever mixture of
\* empty lines, CRs and missing final newlines the document and the replacement
\* have; at worst an empty line at the very end of the result is lost
\* (apply_change_to_content with replace_range).
RangeReplacementKeepsText ==
  edit.operation = "replace_range" /\ CanApply(edit, doc) =>
    LET new == Lines(ApplyChange(edit, doc))
    IN  \/ new = WantedLines
        \/ new = Front(WantedLines) /\ Last(WantedLines) = <<>>

\* Staging, rebasing and applying agree on what an edit can be applied to.  A change
\* accepted for rebasing can be applied, so recovery_check never reports
\* "rebase_required" for a file whose plan session_commit would then refuse; and a
\* change rebases on the very content it was staged on, so an untouched file is never
\* the cause of a conflict (edit_* against change_can_rebase_on_content).
StagingAgrees ==
  /\ CanRebase(edit, doc) => CanApply(edit, doc)
  /\ CanStage(edit, doc) /\ edit.expected_content = <<>> => CanRebase(Stage(edit, doc), doc)

(***************************************************************************)
(* Bytes and text                                                          *)
(***************************************************************************)

Written == Rewrite(doc, edit.new_content)

BackupKeepsText ==
  /\ FileBom(doc) => FileBom(Backup(doc))
  /\ WithoutCr(Backup(doc)) = WithoutCr(doc)

StyleIsKept ==
  /\ FileBom(doc) => FileBom(Written)
  /\ \A i \in DOMAIN Written :
       Written[i] = NL => (FileCrlf(doc) <=> i > 1 /\ Written[i - 1] = CR)
  /\ ~FileCrlf(doc) => CR \notin ToSet(Written)

\* What backups and rewrites keep of the bytes of a file (read_text_file, encode_text).
\* A rollback gives back the file up to its line ends: the same byte order mark and,
\* CRs aside, the same text.  A rewrite leaves the style of the file: its mark stays, a
\* file with CRLF line ends has no bare line end afterwards, and a file without gets no
\* CR.  And a file the bridge wrote itself is restored to the byte.
BytesAreKept == BackupKeepsText /\ StyleIsKept /\ Backup(Written) = Written
=============================================================================
