--------------------------------- MODULE MCText ---------------------------------
(* Bounds for TextCheck: files of up to four symbols, with and without a mark,   *)
(* selectors whose queries overlap themselves, anchors, both counting directions, *)
(* ranges in and out of the file, replacements that mix line ends.               *)
EXTENDS TextCheck, StructureCheck

CONSTANTS x, y

MCSymbols == {x, y, NL, CR}

MCStarts == {<<>>, <<Bom>>}

NoSelector == [query |-> <<>>, anchor_before |-> <<>>, anchor_after |-> <<>>,
               occurrence |-> 1, from_end |-> FALSE]

Selectors == [query: {<<>>, <<x>>, <<x, x>>, <<x, y>>},
              anchor_before: {<<>>, <<y>>}, anchor_after: {<<>>, <<y>>},
              occurrence: 0..2, from_end: BOOLEAN]

Edit(op, first, last, sel, expected, new) ==
  [operation |-> op, line_start |-> first, line_end |-> last, selector |-> sel,
   expected_content |-> expected, new_content |-> new]

BlockEdits == {Edit(op, 0, 0, sel, <<>>, <<y>>) : op \in BlockOps, sel \in Selectors}

RangeEdits ==
  {Edit("replace_range", first, last, NoSelector, expected, new) :
     first \in 0..3, last \in 0..3, expected \in {<<>>, <<x>>},
     new \in {<<>>, <<y>>, <<NL>>, <<CR>>, <<x, NL, y>>, <<y, NL, NL>>}}

ContentEdits ==
  {Edit("replace_content", 0, 0, NoSelector, expected, new) :
     expected \in {<<>>, <<x>>},
     new \in {<<y>>, <<x, CR, NL, x>>, <<CR, CR, NL>>, <<Bom, x>>}}

MCEdits == BlockEdits \cup RangeEdits \cup ContentEdits

(* Markdown: two titles, three levels, bodies with and without an empty line and a  *)
(* last line end, one with a heading of its own.                                     *)
MCMdLines == {MdLine(0, <<"p">>), MdLine(1, <<"A">>), MdLine(2, <<"A">>), MdLine(2, <<"B">>)}

MCMdBodies == {MdDoc(lines, ended) :
                 lines \in {<<>>, <<MdLine(0, <<"q">>)>>, <<MdLine(0, <<"q">>), MdLine(0, <<>>)>>,
                            <<MdLine(1, <<"B">>)>>},
                 ended \in BOOLEAN}

MCMdEdits == [level: {1, 2}, title: {<<"A">>, <<"B">>}, body: {b \in MCMdBodies : IsText(b)}]

(* JSON: every mark, a number, strings with an escaped quote, line feed and backslash *)
(* and with a code point.                                                             *)
MCJsonTokens == {Mark(c) : c \in {"{", "}", "[", "]", ",", ":"}}
  \cup {Token("literal", <<"1">>)}
  \cup {Token("string", raw) : raw \in {<<"k">>, <<"\\", "\"">>, <<"\\", "n", "\\", "\\">>,
                                        <<"\\", "u">>}}

(* YAML: keys on three levels, entries with one word and two, items, and the lines    *)
(* that the adapter has no place for.                                                 *)
MCYamlLines == {Line(i, FALSE, <<"k">>, TRUE) : i \in {0, 2}}
  \cup {Line(i, FALSE, <<"k", "v">>, FALSE) : i \in {0, 2, 4}}
  \cup {Line(0, FALSE, <<"u", "v", "w">>, FALSE), BlankLine}
  \cup {Line(i, TRUE, <<"v">>, FALSE) : i \in {0, 2, 4}}
  \cup {Line(2, TRUE, <<"k">>, TRUE), Line(0, FALSE, <<"# note">>, FALSE)}

(* Trees of maps, lists and scalars, two levels of them and two entries with one key. *)
Leaves == {Scalar(<<"1">>), List(<<>>), List(<<Item(Scalar(<<"1">>))>>),
           Map(<<Member(<<"a">>, Scalar(<<"2">>))>>)}

Entries == {<<>>} \cup {<<Member(k, n)>> : k \in {<<"a">>, <<"b">>}, n \in Leaves}

MCTrees == {Map(e \o f) : e \in Entries, f \in Entries}
  \cup {Map(<<Member(<<"a">>, Map(e \o f))>> \o g) : e, f \in Entries, g \in {<<>>, <<Member(<<"b">>, Scalar(<<"3">>))>>}}
  \cup Leaves

Paths == {<<>>} \cup [1..1 -> {<<"a">>, <<"b">>}] \cup [1..2 -> {<<"a">>, <<"b">>}]
           \cup {<<<<"a">>, <<"b">>, <<"a">>>>}

MCTreeEdits == [op: {"replace_value", "upsert_key", "append_item"}, path: Paths,
                value: {Scalar(<<"9">>), Map(<<Member(<<"b">>, Scalar(<<"9">>))>>)}]

(* HTML: elements within their own kind, one whose name begins like another's, one     *)
(* that is never closed, one that closes itself, and one that is written in a comment. *)
Class == AttrText("class", <<Word("c")>>)

Plain(kind, t, attrs) == Tag(kind, kind, t, attrs)

MCHtmlTags == {Plain(kind, t, <<>>) : kind \in {"open", "close"}, t \in {"b", "body"}}
  \cup {Plain("open", "b", Class), Plain("open", "br", <<>>), Plain("empty", "b", <<>>),
        Tag("text", "open", "b", <<>>), Tag("text", "close", "body", <<>>)}

MCHtmlEdits == {Plain("open", "b", <<>>), Plain("open", "b", Class), Plain("open", "body", <<>>)}

MCLongerTags == {<<"body", "b">>, <<"br", "b">>}

MCLongerNames == {<<"data-id", "id">>}

(* Attributes: with the name at the end of another's, in another's value, without      *)
(* quotes, and one with no name of the edits.                                          *)
MCValues == {<<>>, <<Word("1")>>, <<Word("/?"), Named("id"), Word("1")>>}

MCAttrs == {AttrText(n, v) : n \in {"id", "data-id", "class"}, v \in MCValues}
  \cup {<<Named("id"), Word("1")>>}

MCAround == {<<>>} \cup MCAttrs \cup {a \o b : a, b \in MCAttrs}

MCAttrTexts == [before: MCAround, present: BOOLEAN, value: MCValues,
                after: {<<>>} \cup MCAttrs]

MCAttrEdits == [name: {"id", "class"}, value: {<<Word("2")>>, <<Named("id"), Word("2")>>}]

(* One of the two drivers runs, the other rests.                                      *)
AtRest == edit = Edit("replace_content", 0, 0, NoSelector, <<>>, <<>>)

MCInit ==
  \/ Init /\ form = "text" /\ subject = <<>> /\ change = <<>>
  \/ StructureInit /\ doc = <<>> /\ AtRest

MCNext ==
  \/ form = "text" /\ Grow /\ UNCHANGED structureVars
  \/ form # "text" /\ StructureGrow /\ UNCHANGED <<doc, edit>>

MCSpec == MCInit /\ [][MCNext]_<<doc, edit, form, subject, change>>
=============================================================================
