-------------------------------- MODULE FileOps --------------------------------
(***************************************************************************)
(* Operations on whole files and directories: fs_write and fs_mkdir of     *)
(* libs/bridge_core/src/file_service.cpp, fs_move, fs_copy and fs_rename   *)
(* of file_ops_extra.cpp, behind the path policy of path_policy.cpp.       *)
(*                                                                         *)
(* The workspace is a tree of directories and files, read and written by   *)
(* the daemon's threads without a lock.  A step is what a handler does up  *)
(* to and including its next write, or up to the point where it reads      *)
(* again what another handler may have written; removing and copying a     *)
(* directory write entry by entry.  A request that is refused before its   *)
(* first write has no effect and is left out.                              *)
(***************************************************************************)
EXTENDS Naturals, SequencesExt, FiniteSets

CONSTANTS
  Path,          \* sequences of names, with all their prefixes; how deep is a bound
  TempName,      \* the name of a file -> the name of its temporary file
  Deny,          \* deny_paths
  Thread,        \* request handlers
  InitialFiles,  \* the files at first: path -> text
  InitialDirs,   \* the directories at first
  MaxRequests,   \* bound: requests
  MaxCrashes     \* bound: crashes of the daemon

ASSUME FileOpsAssumption ==
  /\ Path \subseteq Seq(UNION {ToSet(p) : p \in Path})
  /\ \A p \in Path : p # <<>> /\ \A n \in 1..Len(p) : SubSeq(p, 1, n) \in Path
  /\ DOMAIN InitialFiles \cup InitialDirs \cup Deny \subseteq Path
  /\ MaxRequests \in Nat /\ MaxCrashes \in Nat

VARIABLES
  tree,        \* Path -> what is there
  pc,          \* Thread -> where the request being served stands
  local,       \* Thread -> the request
  answer,      \* Thread -> how its last request was answered
  requests,    \* requests so far; a write's text is its number
  crashes,     \* crashes so far
  aux_before   \* Thread -> the tree when the request it is serving came in

vars == <<tree, pc, local, answer, requests, crashes, aux_before>>

Labels == {"idle", "create_parents", "check_target", "remove", "place", "copy_entry",
           "write_temp", "remove_old"}

None       == [kind |-> "none", text |-> 0]
Dir        == [kind |-> "dir", text |-> 0]
File(text) == [kind |-> "file", text |-> text]

\* todo: the entries still to be removed or copied
Blank == [op |-> "mkdir", path |-> <<>>, target |-> <<>>, overwrite |-> FALSE,
          existed |-> FALSE, text |-> 0, todo |-> {}]

(***************************************************************************)
(* Paths and the tree                                                      *)
(***************************************************************************)

\* The paths clients name
Named == {p \in Path : Last(p) \in DOMAIN TempName}

Temp(p) == Append(Front(p), TempName[Last(p)])

\* starts_with_path_segment, and p itself
Under(p) == {r \in Path : IsPrefix(p, r)}

Ancestors(p) == {SubSeq(p, 1, n) : n \in 1..Len(p) - 1}

\* The workspace's root is always there.
InDirectory(p) == \A a \in Ancestors(p) : tree[a] = Dir

Exists(p)   == tree[p] # None
NoParent(p) == Len(p) > 1 /\ ~Exists(Front(p))
Present(p)  == {r \in Under(p) : Exists(r)}
Empty(p)    == Present(p) \subseteq {p}

\* Where an entry r at or below p is found when p is put at q
Shift(r, p, q) == q \o SubSeq(r, Len(p) + 1, Len(r))

\* resolve_under_workspace with deny_paths
Denied(p) == \E d \in Deny : IsPrefix(d, p)

\* The workspace is a tree at first, and clients do not name temporary files.
ASSUME WorkspaceAssumption ==
  /\ DOMAIN InitialFiles \cap InitialDirs = {}
  /\ \A p \in DOMAIN InitialFiles \cup InitialDirs : Ancestors(p) \subseteq InitialDirs
  /\ \A p \in Named : ~Denied(p) => Temp(p) \in Path \ Named

\* What rename(2) does and when it fails; a path deeper than Path is too long.
CanRename(p, q) ==
  /\ Exists(p) /\ InDirectory(q) /\ ~IsPrefix(p, q)
  /\ \A r \in Present(p) : Shift(r, p, q) \in Path
  /\ \/ ~Exists(q)
     \/ tree[p] # Dir /\ tree[q] # Dir
     \/ tree[p] = Dir /\ tree[q] = Dir /\ Empty(q)

\* The tree f with what is at p put at q
Transferred(f, p, q, keep) ==
  [r \in Path |->
     IF IsPrefix(q, r)
       THEN IF Shift(r, q, p) \in Path THEN f[Shift(r, q, p)] ELSE None
     ELSE IF IsPrefix(p, r) /\ ~keep THEN None
     ELSE f[r]]

\* create_directories; the directories it makes appear in one step
WithParents(f, p) == [r \in Path |-> IF r \in Ancestors(p) THEN Dir ELSE f[r]]

CanCreateParents(p) == \A a \in Ancestors(p) : tree[a] \in {None, Dir}

Init ==
  /\ tree = [p \in Path |-> IF p \in DOMAIN InitialFiles THEN File(InitialFiles[p])
                            ELSE IF p \in InitialDirs THEN Dir ELSE None]
  /\ pc = [t \in Thread |-> "idle"]
  /\ local = [t \in Thread |-> Blank]
  /\ answer = [t \in Thread |-> "none"]
  /\ requests = 0 /\ crashes = 0
  /\ aux_before = [t \in Thread |-> <<>>]

At(t, l)   == pc[t] = l
Goto(t, l) == pc' = [pc EXCEPT ![t] = l] /\ UNCHANGED <<answer, requests, crashes, aux_before>>

Start(t, l, request) ==
  /\ At(t, "idle")
  /\ requests < MaxRequests
  /\ pc' = [pc EXCEPT ![t] = l]
  /\ local' = [local EXCEPT ![t] = request]
  /\ requests' = requests + 1
  /\ answer' = [answer EXCEPT ![t] = "none"]
  /\ aux_before' = [aux_before EXCEPT ![t] = tree]
  /\ UNCHANGED <<tree, crashes>>

\* The request ends; the error paths leave the tree as the steps before have left it.
Answer(t, a) ==
  /\ pc' = [pc EXCEPT ![t] = "idle"]
  /\ local' = [local EXCEPT ![t] = Blank]
  /\ answer' = [answer EXCEPT ![t] = a]
  /\ aux_before' = [aux_before EXCEPT ![t] = <<>>]
  /\ UNCHANGED <<requests, crashes>>

Fail(t) == Answer(t, "error") /\ UNCHANGED tree

(***************************************************************************)
(* fs_move, fs_copy, fs_rename                                             *)
(***************************************************************************)

\* What is asked of the source and the target before anything is written
Valid(op, p, q) ==
  /\ p # q
  /\ ~Denied(p) /\ ~Denied(q)
  /\ Exists(p)
  /\ IF op = "rename" THEN Front(p) = Front(q) ELSE tree[p] = Dir => ~IsPrefix(p, q)

\* Directories are copied with "recursive"; without, the request is refused.  A
\* rename stays in its directory and looks for no parent.
Transfer(t) ==
  \E op \in {"move", "copy", "rename"}, p \in Named, q \in Named, overwrite \in BOOLEAN :
    /\ Valid(op, p, q)
    /\ LET request == [Blank EXCEPT !.op = op, !.path = p, !.target = q,
                                    !.overwrite = overwrite]
       IN  \/ (op = "rename" \/ InDirectory(q)) /\ Start(t, "check_target", request)
           \/ op # "rename" /\ NoParent(q) /\ Start(t, "create_parents", request)

CreateParents(t) ==
  /\ At(t, "create_parents")
  /\ IF CanCreateParents(local[t].target)
     THEN /\ tree' = WithParents(tree, local[t].target)
          /\ Goto(t, IF local[t].op = "write" THEN "write_temp" ELSE "check_target")
          /\ UNCHANGED local
     ELSE Fail(t)

\* Mutants: the source is removed in place of the target; a target is removed without
\* being asked to; a directory that is there is not removed first.
CheckTargetSource(t) ==
  LET q == local[t].target
  IN  /\ At(t, "check_target")
      /\ IF ~Exists(q) THEN Goto(t, "place") /\ UNCHANGED <<local, tree>>
         ELSE IF local[t].overwrite
         THEN /\ Goto(t, "remove")
              /\ local' = [local EXCEPT ![t].todo = Present(local[t].path)]
              /\ UNCHANGED tree
         ELSE Fail(t)

CheckTargetBlindly(t) ==
  /\ At(t, "check_target")
  /\ IF Exists(local[t].target)
     THEN Goto(t, "remove") /\ local' = [local EXCEPT ![t].todo = Present(local[t].target)]
     ELSE Goto(t, "place") /\ UNCHANGED local
  /\ UNCHANGED tree

CheckTargetMerging(t) ==
  LET q == local[t].target
  IN  /\ At(t, "check_target")
      /\ IF ~Exists(q) \/ tree[q] = Dir THEN Goto(t, "place") /\ UNCHANGED <<local, tree>>
         ELSE IF local[t].overwrite
         THEN /\ Goto(t, "remove")
              /\ local' = [local EXCEPT ![t].todo = Present(q)]
              /\ UNCHANGED tree
         ELSE Fail(t)

CheckTarget(t) ==
  LET q == local[t].target
  IN  /\ At(t, "check_target")
      /\ IF ~Exists(q) THEN Goto(t, "place") /\ UNCHANGED <<local, tree>>
         ELSE IF local[t].overwrite
         THEN /\ Goto(t, "remove")
              /\ local' = [local EXCEPT ![t].todo = Present(q)]
              /\ UNCHANGED tree
         ELSE Fail(t)

\* remove_existing_path: a directory's entries first, then the directory, which must
\* have got no new ones.
RemoveEntry(t) ==
  LET todo == local[t].todo
  IN  /\ At(t, "remove")
      /\ \E r \in todo :
           /\ \A s \in todo \ {r} : ~IsPrefix(r, s)
           /\ IF Empty(r)
              THEN /\ tree' = [tree EXCEPT ![r] = None]
                   /\ local' = [local EXCEPT ![t].todo = todo \ {r}]
                   /\ Goto(t, IF todo = {r} THEN "place" ELSE "remove")
              ELSE Fail(t)

PlaceTransfer(t) ==
  LET l == local[t]
  IN  /\ At(t, "place") /\ l.op \in {"move", "rename"}
      /\ IF CanRename(l.path, l.target)
         THEN tree' = Transferred(tree, l.path, l.target, FALSE) /\ Answer(t, "ok")
         ELSE Fail(t)

\* The source is listed ...
PlaceCopy(t) ==
  LET l == local[t]
  IN  /\ At(t, "place") /\ l.op = "copy"
      /\ IF Exists(l.path)
         THEN /\ Goto(t, "copy_entry")
              /\ local' = [local EXCEPT ![t].todo = Present(l.path)]
              /\ UNCHANGED tree
         ELSE Fail(t)

\* ... and its entries are copied, a directory before what it holds.  A file is never
\* copied over another, a directory may be there already.
CopyEntry(t) ==
  LET l == local[t]
  IN  /\ At(t, "copy_entry")
      /\ \E r \in l.todo :
           /\ \A s \in l.todo \ {r} : ~IsPrefix(s, r)
           /\ LET q == Shift(r, l.path, l.target)
              IN  IF /\ Exists(r) /\ q \in Path /\ InDirectory(q)
                     /\ ~Exists(q) \/ (tree[r] = Dir /\ tree[q] = Dir)
                  THEN /\ tree' = [tree EXCEPT ![q] = tree[r]]
                       /\ IF l.todo = {r} THEN Answer(t, "ok")
                          ELSE /\ Goto(t, "copy_entry")
                               /\ local' = [local EXCEPT ![t].todo = @ \ {r}]
                  ELSE Fail(t)

(***************************************************************************)
(* fs_write, fs_mkdir                                                      *)
(***************************************************************************)

Write(t) ==
  \E p \in Named, overwrite \in BOOLEAN :
    /\ ~Denied(p)
    /\ tree[p] # Dir
    /\ Exists(p) => overwrite
    /\ LET request == [Blank EXCEPT !.op = "write", !.target = p, !.overwrite = overwrite,
                                    !.existed = Exists(p), !.text = requests + 1]
       IN  \/ InDirectory(p) /\ Start(t, "write_temp", request)
           \/ NoParent(p) /\ Start(t, "create_parents", request)

WriteTemp(t) ==
  LET l == local[t]
      temp == Temp(l.target)
  IN  /\ At(t, "write_temp")
      /\ IF InDirectory(temp) /\ tree[temp] # Dir
         THEN /\ tree' = [tree EXCEPT ![temp] = File(l.text)]
              /\ Goto(t, IF l.existed THEN "remove_old" ELSE "place")
              /\ UNCHANGED local
         ELSE Fail(t)

\* When the old file cannot be removed the temporary file is.
RemoveOld(t) ==
  LET q == local[t].target
  IN  /\ At(t, "remove_old")
      /\ IF Empty(q)
         THEN tree' = [tree EXCEPT ![q] = None] /\ Goto(t, "place") /\ UNCHANGED local
         ELSE tree' = [tree EXCEPT ![Temp(q)] = None] /\ Answer(t, "error")

PlaceWrite(t) ==
  LET q == local[t].target
  IN  /\ At(t, "place") /\ local[t].op = "write"
      /\ IF CanRename(Temp(q), q)
         THEN tree' = Transferred(tree, Temp(q), q, FALSE) /\ Answer(t, "ok")
         ELSE /\ tree' = [tree EXCEPT ![Temp(q)] = IF @ = Dir /\ ~Empty(Temp(q)) THEN @ ELSE None]
              /\ Answer(t, "error")

\* With create_parents, or in a directory that is there
Mkdir(t) ==
  \E p \in Named :
    /\ At(t, "idle")
    /\ requests < MaxRequests
    /\ ~Denied(p)
    /\ ~Exists(p)
    /\ CanCreateParents(p)
    /\ tree' = [WithParents(tree, p) EXCEPT ![p] = Dir]
    /\ requests' = requests + 1
    /\ answer' = [answer EXCEPT ![t] = "ok"]
    /\ UNCHANGED <<pc, local, crashes, aux_before>>

\* The daemon dies; the tree stays as it is, temporary files included.
Crash ==
  /\ crashes < MaxCrashes
  /\ crashes' = crashes + 1
  /\ pc' = [t \in Thread |-> "idle"]
  /\ local' = [t \in Thread |-> Blank]
  /\ answer' = [t \in Thread |-> "none"]
  /\ aux_before' = [t \in Thread |-> <<>>]
  /\ UNCHANGED <<tree, requests>>

Step(t) == \/ CreateParents(t) \/ CheckTarget(t) \/ RemoveEntry(t) \/ PlaceTransfer(t)
           \/ PlaceCopy(t) \/ CopyEntry(t) \/ WriteTemp(t) \/ RemoveOld(t) \/ PlaceWrite(t)

Next == (\E t \in Thread : Transfer(t) \/ Write(t) \/ Mkdir(t) \/ Step(t)) \/ Crash

Spec == Init /\ [][Next]_vars

(***************************************************************************)
(* Properties                                                              *)
(***************************************************************************)

\* A text is gone from the workspace only because a request that may overwrite took it
\* away, from its target or from below: every other request, and whatever it fails at,
\* leaves all texts somewhere.
TextsSurvive ==
  [][\A p \in Named :
       tree[p].kind = "file" /\ (\A q \in Path : tree'[q] # tree[p]) =>
         \E t \in Thread : /\ ~At(t, "idle") /\ local[t].overwrite
                           /\ IsPrefix(local[t].target, p)]_vars

\* A move, copy or rename that has not succeeded, and may fail or die where it is, still
\* has its source as it was -- unless its target is a directory that holds the source,
\* which is removed together with it.
SourceSurvives ==
  \A t \in Thread :
    LET l == local[t]
    IN  /\ ~At(t, "idle") /\ l.op \in {"move", "copy", "rename"}
        /\ ~IsPrefix(l.target, l.path)
        => \A r \in Under(l.path) : tree[r] = aux_before[t][r]

\* The tree that the request l is to turn the tree f into
Wanted(f, l) ==
  LET g == WithParents(f, l.target)
  IN  CASE l.op = "copy"             -> Transferred(g, l.path, l.target, TRUE)
        [] l.op \in {"move", "rename"} -> Transferred(g, l.path, l.target, FALSE)
        [] l.op = "write"            -> [g EXCEPT ![l.target] = File(l.text),
                                                  ![Temp(l.target)] = None]

Succeeds(t) == ~At(t, "idle") /\ pc'[t] = "idle" /\ answer'[t] = "ok"

\* A request that is answered with success has done exactly what it was asked to, as if
\* in one step: what was at the target is gone, what is there now is the source as it was
\* when the request came in, and nothing else has changed.
AsIfAtOnce ==
  [][\A t \in Thread : Succeeds(t) => tree' = Wanted(aux_before[t], local[t])]_vars
=============================================================================
