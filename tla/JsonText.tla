-------------------------------- MODULE JsonText --------------------------------
(***************************************************************************)
(* JSON files as the adapter reads and writes them (JsonParser and         *)
(* json_serialize of structure_adapters.cpp).  A text is a sequence of     *)
(* tokens: spaces between tokens are skipped on reading and laid out anew  *)
(* on writing.  A token is a mark, a literal (number, true, false, null)   *)
(* or a string with its characters as they stand between the quotes.       *)
(***************************************************************************)
EXTENDS DataTree

Token(t, raw) == [t |-> t, raw |-> raw]
Mark(c)       == Token(c, <<>>)
TokenAt(text, pos, t) == pos \in DOMAIN text /\ text[pos].t = t

\* A character that is not printable, by the letter that names it after a backslash
Control(c) == "<" \o c \o ">"

\* Mutant: an escaped quote is a backslash.
UnescapedByName(c) == IF c \in {"b", "f", "n", "r", "t"} THEN Control(c) ELSE "\\"

\* The character that an escape stands for: \uXXXX is not known and leaves its "u".
Unescaped(c) == IF c \in {"b", "f", "n", "r", "t"} THEN Control(c) ELSE c

\* parse_string_raw
Unescape(raw) ==
  LET step(acc, c) ==
        IF acc.escaped      THEN [out |-> Append(acc.out, Unescaped(c)), escaped |-> FALSE]
        ELSE IF c = "\\"    THEN [acc EXCEPT !.escaped = TRUE]
        ELSE [acc EXCEPT !.out = Append(@, c)]
  IN  FoldLeft(step, [out |-> <<>>, escaped |-> FALSE], raw).out

\* json_escape; backspaces and form feeds are written as they are
EscapedSymbol(c) ==
  CASE c \in {"\\", "\""} -> <<"\\", c>>
    [] c = Control("n")   -> <<"\\", "n">>
    [] c = Control("r")   -> <<"\\", "r">>
    [] c = Control("t")   -> <<"\\", "t">>
    [] OTHER              -> <<c>>

Escape(value) == FlattenSeq([i \in DOMAIN value |-> EscapedSymbol(value[i])])

Read(node, pos) == [node |-> node, pos |-> pos]
Failed          == Read(NoNode, 0)

RECURSIVE ParseValue(_, _), ParseMembers(_, _, _), ParseItems(_, _, _), JsonTokens(_)

ParseValue(text, pos) ==
  CASE TokenAt(text, pos, "{") ->
         IF TokenAt(text, pos + 1, "}") THEN Read(Map(<<>>), pos + 2)
                                        ELSE ParseMembers(text, pos + 1, <<>>)
    [] TokenAt(text, pos, "[") ->
         IF TokenAt(text, pos + 1, "]") THEN Read(List(<<>>), pos + 2)
                                        ELSE ParseItems(text, pos + 1, <<>>)
    [] TokenAt(text, pos, "string")  -> Read(Text(Unescape(text[pos].raw)), pos + 1)
    [] TokenAt(text, pos, "literal") -> Read(Scalar(text[pos].raw), pos + 1)
    [] OTHER -> Failed

\* parse_object and parse_array, after the opening mark
ParseMembers(text, pos, members) ==
  IF ~(TokenAt(text, pos, "string") /\ TokenAt(text, pos + 1, ":")) THEN Failed
  ELSE LET v   == ParseValue(text, pos + 2)
           all == Append(members, Member(Unescape(text[pos].raw), v.node))
       IN  IF v.node = NoNode THEN Failed
           ELSE IF TokenAt(text, v.pos, "}") THEN Read(Map(all), v.pos + 1)
           ELSE IF TokenAt(text, v.pos, ",") THEN ParseMembers(text, v.pos + 1, all)
           ELSE Failed

ParseItems(text, pos, items) ==
  LET v   == ParseValue(text, pos)
      all == Append(items, Item(v.node))
  IN  IF v.node = NoNode THEN Failed
      ELSE IF TokenAt(text, v.pos, "]") THEN Read(List(all), v.pos + 1)
      ELSE IF TokenAt(text, v.pos, ",") THEN ParseItems(text, v.pos + 1, all)
      ELSE Failed

\* parse_json; NoNode when it throws
ParseJson(text) ==
  LET v == ParseValue(text, 1) IN IF v.pos = Len(text) + 1 THEN v.node ELSE NoNode

StringToken(value) == Token("string", Escape(value))

\* json_serialize
JsonTokens(node) ==
  LET n == Len(node.items)
      comma(i) == IF i = n THEN <<>> ELSE <<Mark(",")>>
      part(i)  == JsonTokens(node.items[i].node) \o comma(i)
  IN  CASE node.kind = "scalar" -> <<Token("literal", node.value)>>
        [] node.kind = "string" -> <<StringToken(node.value)>>
        [] node.kind = "list"   ->
             <<Mark("[")>> \o FlattenSeq([i \in 1..n |-> part(i)]) \o <<Mark("]")>>
        [] node.kind = "map"    ->
             <<Mark("{")>>
               \o FlattenSeq([i \in 1..n |->
                    <<StringToken(node.items[i].key), Mark(":")>> \o part(i)])
               \o <<Mark("}")>>

\* json_replace_value, json_upsert_key, json_append_array_item: the new text of the
\* file, or <<>> when the request is refused
JsonEdit(text, op, path, value) ==
  LET root == ParseJson(text)
      new  == ParseJson(value)
      next == IF NoNode \in {root, new} THEN NoNode ELSE Edited(root, op, path, new)
  IN  IF next = NoNode THEN <<>> ELSE JsonTokens(next)
=============================================================================
