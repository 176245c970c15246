-------------------------------- MODULE YamlText --------------------------------
(***************************************************************************)
(* YAML files as the adapter reads and writes them (yaml_parse_* and       *)
(* yaml_serialize of structure_adapters.cpp).  A line is its indentation,  *)
(* whether it starts with "- ", its words as colons separate them, and     *)
(* whether a colon ends it:                                                *)
(*   "k: v"  words <<"k", "v">>     "k:"     words <<"k">>, open           *)
(*   "- v"   dash, words <<"v">>    "- k:"   dash, words <<"k">>, open     *)
(*   "# no colon", "---", "-"       one word, neither dash nor open        *)
(***************************************************************************)
EXTENDS DataTree

Line(indent, dash, words, open) ==
  [indent |-> indent, dash |-> dash, words |-> words, open |-> open]

BlankLine == Line(0, FALSE, <<>>, FALSE)

IsBlank(l) == ~l.dash /\ l.words = <<>>
HasKey(l)  == ~l.dash /\ (l.open \/ Len(l.words) > 1)

\* The first line from pos on that is not blank; one past the end for none
NextLine(lines, pos) ==
  Min({i \in pos..Len(lines) : ~IsBlank(lines[i])} \cup {Len(lines) + 1})

Parsed(node, pos) == [node |-> node, pos |-> pos]

RECURSIVE ParseArray(_, _, _, _), ParseMap(_, _, _, _), ParseBlock(_, _, _)

\* Mutant: a map takes in the map around it.
ParseMapGreedy(lines, from, indent, members) ==
  LET pos == NextLine(lines, from)
      l   == lines[pos]
  IN  IF pos > Len(lines) \/ ~HasKey(l) THEN Parsed(Map(members), pos)
      ELSE LET value == IF Len(l.words) > 1 THEN Parsed(Scalar(Tail(l.words)), pos + 1)
                                            ELSE ParseBlock(lines, pos + 1, indent + 2)
           IN  ParseMap(lines, value.pos, indent,
                        Append(members, Member(<<Head(l.words)>>, value.node)))

\* yaml_parse_array: an item that is a map may have one key only, on its own line.
ParseArray(lines, from, indent, items) ==
  LET pos == NextLine(lines, from)
      l   == lines[pos]
  IN  IF pos > Len(lines) \/ l.indent < indent \/ ~l.dash THEN Parsed(List(items), pos)
      ELSE LET block == ParseBlock(lines, pos + 1, indent + 2)
               value == CASE l.words = <<>> -> block
                          [] l.open  -> Parsed(Map(<<Member(l.words, block.node)>>), block.pos)
                          [] OTHER   -> Parsed(Scalar(l.words), pos + 1)
           IN  ParseArray(lines, value.pos, indent, Append(items, Item(value.node)))

\* yaml_parse_map: it ends at a line of a list and at a line without a colon; lines that
\* are indented deeper than its first belong to it all the same.
ParseMap(lines, from, indent, members) ==
  LET pos == NextLine(lines, from)
      l   == lines[pos]
  IN  IF pos > Len(lines) \/ l.indent < indent \/ ~HasKey(l) THEN Parsed(Map(members), pos)
      ELSE LET value == IF Len(l.words) > 1 THEN Parsed(Scalar(Tail(l.words)), pos + 1)
                                            ELSE ParseBlock(lines, pos + 1, indent + 2)
           IN  ParseMap(lines, value.pos, indent,
                        Append(members, Member(<<Head(l.words)>>, value.node)))

\* yaml_parse_block
ParseBlock(lines, from, indent) ==
  LET pos == NextLine(lines, from)
      l   == lines[pos]
  IN  IF pos > Len(lines) \/ l.indent < indent THEN Parsed(Map(<<>>), pos)
      ELSE IF l.dash THEN ParseArray(lines, pos, l.indent, <<>>)
      ELSE ParseMap(lines, pos, l.indent, <<>>)

\* parse_yaml: what is left where the outermost block ends is not looked at.
ParseYaml(lines) == ParseBlock(lines, 1, 0).node

RECURSIVE YamlLines(_, _)

\* yaml_serialize: a scalar is written with its key or its dash, and so is a map of one
\* scalar in a list; other items of a list come below a lone "-".
YamlLines(node, indent) ==
  LET oneScalar(n) == n.kind = "map" /\ Len(n.items) = 1 /\ n.items[1].node.kind = "scalar"
      member(m) ==
        IF m.node.kind = "scalar"
        THEN <<Line(indent, FALSE, m.key \o m.node.value, m.node.value = <<>>)>>
        ELSE <<Line(indent, FALSE, m.key, TRUE)>> \o YamlLines(m.node, indent + 2)
      item(n) ==
        CASE n.kind = "scalar" -> <<Line(indent, TRUE, n.value, FALSE)>>
          [] oneScalar(n) -> <<Line(indent, TRUE, n.items[1].key \o n.items[1].node.value, FALSE)>>
          [] OTHER -> <<Line(indent, FALSE, <<"-">>, FALSE)>> \o YamlLines(n, indent + 2)
  IN  IF node.kind = "scalar" THEN <<Line(0, FALSE, node.value, FALSE)>>
      ELSE IF node.items = <<>> THEN <<BlankLine>>
      ELSE FlattenSeq([i \in DOMAIN node.items |->
             IF node.kind = "map" THEN member(node.items[i]) ELSE item(node.items[i].node)])

\* yaml_replace_value, yaml_upsert_key, yaml_append_item, which put in scalars only: the
\* new lines of the file, or <<>> when the request is refused
YamlEdit(lines, op, path, value) ==
  LET next == Edited(ParseYaml(lines), op, path, Scalar(value))
  IN  IF next = NoNode THEN <<>> ELSE YamlLines(next, 0)
=============================================================================
