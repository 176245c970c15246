------------------------------ MODULE StructureCheck ------------------------------
(***************************************************************************)
(* Drives the structure adapters over small documents: what MarkupCheck    *)
(* does, JSON texts that grow token by token, YAML files that grow line by *)
(* line, and JSON and YAML trees, with every edit of TreeEdits.            *)
(***************************************************************************)
EXTENDS JsonText, YamlText, MarkupCheck

CONSTANTS
  Trees, TreeEdits,            \* trees of keys and scalars, and paths and values
  JsonTokenSet,                \* tokens of JSON texts
  YamlLineSet,                 \* lines of YAML
  MaxTokens                    \* bound: tokens of a JSON text

StructureInit ==
  \/ MarkupInit
  \/ form = "json" /\ subject = <<>> /\ change = <<>>
  \/ form = "yaml" /\ subject = <<>> /\ change = <<>>
  \/ form = "tree" /\ subject \in Trees /\ change \in TreeEdits

StructureGrow ==
  \/ MarkupGrow
  \/ /\ \/ /\ form = "json" /\ Len(subject) < MaxTokens
           /\ \E t \in JsonTokenSet : subject' = Append(subject, t)
        \/ /\ form = "yaml" /\ Len(subject) < MaxLines
           /\ \E l \in YamlLineSet : subject' = Append(subject, l)
     /\ UNCHANGED <<form, change>>

(***************************************************************************)
(* JSON                                                                    *)
(***************************************************************************)

\* The strings of a text as JSON means them: an escape is one character, whichever
Meaning(raw) ==
  LET step(acc, c) ==
        IF acc.escaped THEN
          [out |-> Append(acc.out, IF c \in {"b", "f", "n", "r", "t"} THEN Control(c)
                                   ELSE IF c = "u" THEN "\\u" ELSE c), escaped |-> FALSE]
        ELSE IF c = "\\" THEN [acc EXCEPT !.escaped = TRUE]
        ELSE [acc EXCEPT !.out = Append(@, c)]
  IN  FoldLeft(step, [out |-> <<>>, escaped |-> FALSE], raw).out

TextMeaning(text) == [i \in DOMAIN text |-> Token(text[i].t, Meaning(text[i].raw))]

HasCodePoint(text) == \E i \in DOMAIN text : \E k \in DOMAIN text[i].raw :
  text[i].raw[k] = "u" /\ k > 1 /\ text[i].raw[k - 1] = "\\"

\* Reading a file and writing it again changes no value of it: the same marks, literals
\* and strings are there, spaces and the spelling of escapes aside (parse_json,
\* json_serialize).  Strings with \uXXXX are excepted: they lose the backslash.
JsonIsKept ==
  form = "json" =>
    LET root == ParseJson(subject)
    IN  root # NoNode /\ ~HasCodePoint(subject) =>
          /\ TextMeaning(JsonTokens(root)) = TextMeaning(subject)
          /\ ParseJson(JsonTokens(root)) = root

(***************************************************************************)
(* Edits at key paths                                                      *)
(***************************************************************************)

RECURSIVE PathsOf(_)

PathsOf(node) ==
  {<<>>} \cup IF node.kind # "map" THEN {}
              ELSE UNION {{<<m.key>> \o p : p \in PathsOf(m.node)} : m \in ToSet(node.items)}

KeysAt(root, path) ==
  LET node == Find(root, path) IN [i \in DOMAIN node.items |-> node.items[i].key]

\* An edit at a key path does what it says there and nothing elsewhere: every value at
\* any other path stays, keys keep their order, a new one comes last, and a request is
\* refused only for a path that is empty, leads nowhere, or leads to no list
\* (json_replace_value, json_upsert_key, json_append_array_item and their YAML twins).
\* What is no map and lies on the way of an upsert is overwritten.
EditIsLocal(root, op, path, new) ==
  LET next   == Edited(root, op, path, new)
      before == Find(root, path)
      apart(q) == ~IsPrefix(q, path) /\ ~IsPrefix(path, q)
  IN  IF next = NoNode
      THEN \/ op = "replace_value" /\ before = NoNode
           \/ op = "upsert_key" /\ path = <<>>
           \/ op = "append_item" /\ before.kind # "list"
      ELSE /\ Find(next, path) =
                IF op # "append_item" THEN new
                ELSE List((IF before = NoNode THEN <<>> ELSE before.items) \o <<Item(new)>>)
           /\ \A q \in PathsOf(root) : apart(q) => Find(next, q) = Find(root, q)
           /\ \A q \in PathsOf(root) : IsStrictPrefix(q, path) /\ Find(root, q).kind = "map"
                => IsPrefix(KeysAt(root, q), KeysAt(next, q))
           /\ \A q \in PathsOf(next) \ PathsOf(root) : IsPrefix(q, path) \/ IsPrefix(path, q)

\* The same of the files: what is written and read again is the edited tree.
TreeEditIsLocal ==
  form = "tree" =>
    LET c == change
        next == Edited(subject, c.op, c.path, c.value)
        text == JsonTokens(subject)
    IN  /\ EditIsLocal(subject, c.op, c.path, c.value)
        /\ ParseJson(text) = subject
        /\ JsonEdit(text, c.op, c.path, JsonTokens(c.value)) =
             IF next = NoNode THEN <<>> ELSE JsonTokens(next)

(***************************************************************************)
(* YAML                                                                    *)
(***************************************************************************)

\* Trees the adapter can write so that it reads them back: lists of scalars that are
\* not empty, below maps.
RECURSIVE YamlPlain(_)

YamlPlain(node) ==
  CASE node.kind = "scalar" -> node.value # <<>>
    [] node.kind = "list"   -> /\ node.items # <<>>
                               /\ \A m \in ToSet(node.items) : /\ m.node.kind = "scalar"
                                                               /\ m.node.value # <<>>
    [] node.kind = "map"    -> \A m \in ToSet(node.items) : YamlPlain(m.node)
    [] OTHER -> FALSE

Content(lines) ==
  LET full == SelectSeq(lines, LAMBDA l : ~IsBlank(l))
  IN  [i \in DOMAIN full |-> [full[i] EXCEPT !.indent = 0]]

\* Files in which every line is an entry or an item with a scalar and none is indented
\* less than the first, lists are indented deeper than their keys, and nothing comes
\* below an item
YamlSafe(lines) ==
  LET full == SelectSeq(lines, LAMBDA l : ~IsBlank(l))
  IN  \A i \in DOMAIN full :
        LET l == full[i]
        IN  /\ HasKey(l) \/ (l.dash /\ ~l.open /\ l.words # <<>>)
            /\ full[1].indent <= l.indent
            /\ i > 1 => LET k == full[i - 1]
                        IN  IF l.dash THEN \/ k.dash /\ k.indent = l.indent
                                           \/ k.open /\ k.indent < l.indent
                            ELSE k.dash => l.indent < k.indent

\* No edit of a YAML file loses a line of it, as long as it is made of entries and of
\* lists of scalars that are indented deeper than their keys; and trees that it can
\* write come back as they are, with the edit made (parse_yaml, yaml_serialize,
\* yaml_upsert_key).
YamlIsKept ==
  /\ form = "yaml" /\ YamlSafe(subject) =>
       Content(YamlLines(ParseYaml(subject), 0)) = Content(subject)
  /\ form = "tree" /\ subject.kind # "scalar" /\ YamlPlain(subject)
        /\ change.value.kind = "scalar" =>
       LET c == change
           lines == YamlLines(subject, 0)
           next == Edited(subject, c.op, c.path, c.value)
       IN  /\ ParseYaml(lines) = subject
           /\ YamlEdit(lines, c.op, c.path, c.value.value) =
                IF next = NoNode THEN <<>> ELSE YamlLines(next, 0)

\* An upsert leaves every line of the file that is not its own
\* (docs/12-controlled-editing-task.md: common YAML changes can be made structurally).
YamlKeepsLines ==
  form = "yaml" =>
    LET next == YamlEdit(subject, "upsert_key", <<<<"new">>>>, <<"v">>)
    IN  IsPrefix(Content(subject), Content(next))
=============================================================================
