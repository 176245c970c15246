------------------------------ MODULE MCSession ------------------------------
(* Instances of SessionService: two files, block edits whose target can move   *)
(* or double, line edits that need not fit what editors leave, whole-file      *)
(* rewrites.                                                                   *)
EXTENDS SessionService, TLC

CONSTANTS x, y, t1, t2

MCSymmetry == Permutations(Thread)

NoSelector == [query |-> <<>>, anchor_before |-> <<>>, anchor_after |-> <<>>,
               occurrence |-> 1, from_end |-> FALSE]

First(query) == [NoSelector EXCEPT !.query = query]

Edit(op, first, last, sel, new) ==
  [operation |-> op, line_start |-> first, line_end |-> last, selector |-> sel,
   expected_content |-> <<>>, new_content |-> new]

AddY      == Edit("insert_after", 0, 0, First(<<x>>), <<y>>)
FirstLine == Edit("replace_range", 1, 1, NoSelector, <<y>>)
NewText   == Edit("replace_content", 0, 0, NoSelector, <<y>>)

DeleteY   == Edit("delete_block", 0, 0, First(<<y>>), <<>>)

JustX     == <<x>>
AnX       == {<<y, x>>}
XThenY    == <<x, NL, y>>
YBeforeX  == {<<y, x, NL, y>>}
OneFile   == <<"a">>
TwoFiles  == <<"a", "b">>
AppendY   == {<<y>>}
Inserts   == {AddY}
Mixed     == {DeleteY, FirstLine}
Creating  == {AddY, NewText}

ASSUME MCPlainEdits == PlainEdits
=============================================================================
