-------------------------------- MODULE DataTree --------------------------------
(***************************************************************************)
(* The trees that the JSON and YAML adapters edit (JsonNode and YamlNode   *)
(* of libs/bridge_core/src/structure_adapters.cpp), and what an edit at a  *)
(* key path does to one.  The two have the same operations in the code, a  *)
(* copy each.  An entry of a map has a key, an item of a list none.        *)
(***************************************************************************)
EXTENDS Integers, Sequences, SequencesExt

NoKey == <<>>

Node(kind, value, items) == [kind |-> kind, value |-> value, items |-> items]

Scalar(v)  == Node("scalar", v, <<>>)
Text(v)    == Node("string", v, <<>>)
Map(items) == Node("map", <<>>, items)
List(items) == Node("list", <<>>, items)
NoNode     == Node("none", <<>>, <<>>)

Member(key, node) == [key |-> key, node |-> node]
Item(node) == Member(NoKey, node)

\* json_object_get, yaml_map_get: the first entry with the key; 0 for none
Entry(node, key) ==
  LET found == {i \in DOMAIN node.items : node.kind = "map" /\ node.items[i].key = key}
  IN  IF found = {} THEN 0 ELSE Min(found)

RECURSIVE Find(_, _), Put(_, _, _), Ensure(_, _, _)

\* json_find_path, yaml_find_path: lists have no keys, so a path ends above them.
Find(node, path) ==
  IF path = <<>> THEN node
  ELSE LET i == Entry(node, Head(path))
       IN  IF i = 0 THEN NoNode ELSE Find(node.items[i].node, Tail(path))

Put(node, path, new) ==
  IF path = <<>> THEN new
  ELSE LET i == Entry(node, Head(path))
       IN  [node EXCEPT !.items[i].node = Put(@, Tail(path), new)]

\* Mutant: what lies on the way is made anew even when it is a map.
EnsureAnew(node, path, new) ==
  LET put == IF Len(path) = 1 THEN new ELSE Ensure(Map(<<>>), Tail(path), new)
      i   == Entry(node, Head(path))
  IN  IF i = 0 THEN [Map(<<>>) EXCEPT !.items = Append(@, Member(Head(path), put))]
      ELSE [node EXCEPT !.items[i].node = put]

\* json_ensure_object_path, yaml_ensure_map_path and the assignment that follows them:
\* whatever lies on the way and is no map becomes one, and loses what it held.
Ensure(node, path, new) ==
  LET here == IF node.kind = "map" THEN node ELSE Map(<<>>)
      i    == Entry(here, Head(path))
      next == IF i = 0 THEN Map(<<>>) ELSE here.items[i].node
      put  == IF Len(path) = 1 THEN new ELSE Ensure(next, Tail(path), new)
  IN  IF i = 0 THEN [here EXCEPT !.items = Append(@, Member(Head(path), put))]
      ELSE [here EXCEPT !.items[i].node = put]

(***************************************************************************)
(* The three edits; NoNode is the answer to a request that is refused.     *)
(***************************************************************************)
ReplaceValue(root, path, new) ==
  IF Find(root, path) = NoNode THEN NoNode ELSE Put(root, path, new)

UpsertKey(root, path, new) == IF path = <<>> THEN NoNode ELSE Ensure(root, path, new)

AppendItem(root, path, new) ==
  LET found  == Find(root, path)
      target == IF found = NoNode THEN List(<<>>) ELSE found
      grown  == [target EXCEPT !.items = Append(@, Item(new))]
  IN  IF target.kind # "list" THEN NoNode
      ELSE IF found = NoNode THEN Ensure(root, path, grown)
      ELSE Put(root, path, grown)

Edited(root, op, path, new) ==
  CASE op = "replace_value" -> ReplaceValue(root, path, new)
    [] op = "upsert_key"    -> UpsertKey(root, path, new)
    [] op = "append_item"   -> AppendItem(root, path, new)
=============================================================================
