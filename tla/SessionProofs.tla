---------------------------- MODULE SessionProofs ----------------------------
(***************************************************************************)
(* Proofs about SessionService, for every number of files, edits, editors  *)
(* and crashes.  Type correctness, the record of a committed session and   *)
(* what a commit writes over hold for every number of request handlers;    *)
(* the rest needs requests to be served one at a time.                     *)
(***************************************************************************)
EXTENDS SessionService, TextLemmas

(***************************************************************************)
(* Type correctness                                                        *)
(***************************************************************************)

\* What a record update of a handler's local state leaves
LEMMA LocalUpdate ==
  ASSUME NEW l, LocalOK(l), NEW v
  PROVE  /\ [l EXCEPT !.plan = v] = [entries |-> l.entries, plan |-> v,
              base |-> l.base, written |-> l.written, draft |-> l.draft]
         /\ [l EXCEPT !.base = v] = [entries |-> l.entries, plan |-> l.plan,
              base |-> v, written |-> l.written, draft |-> l.draft]
         /\ [l EXCEPT !.written = v] = [entries |-> l.entries, plan |-> l.plan,
              base |-> l.base, written |-> v, draft |-> l.draft]
         /\ [l EXCEPT !.draft = v] = [entries |-> l.entries, plan |-> l.plan,
              base |-> l.base, written |-> l.written, draft |-> v]
         /\ [l EXCEPT !.entries = v] = [entries |-> v, plan |-> l.plan,
              base |-> l.base, written |-> l.written, draft |-> l.draft]
  BY DEF LocalOK

LEMMA RebasedChange ==
  ASSUME NEW c, ChangeOK(c), NEW b, NEW own
  PROVE  [c EXCEPT !.base = b, !.aux_own = own] =
           [ordinal |-> c.ordinal, id |-> c.id, path |-> c.path, edit |-> c.edit,
            base |-> b, aux_own |-> own]
  <1> DEFINE d == [c EXCEPT !.base = b]
             e == [ordinal |-> c.ordinal, id |-> c.id, path |-> c.path, edit |-> c.edit,
                   base |-> b, aux_own |-> c.aux_own]
  <1>1. d = e
    BY DEF ChangeOK
  <1>2. [c EXCEPT !.base = b, !.aux_own = own] = [d EXCEPT !.aux_own = own]
    BY DEF ChangeOK
  <1>3. [e EXCEPT !.aux_own = own] =
          [ordinal |-> c.ordinal, id |-> c.id, path |-> c.path, edit |-> c.edit,
           base |-> b, aux_own |-> own]
    OBVIOUS
  <1> QED
    BY <1>1, <1>2, <1>3

LEMMA BlankOK == LocalOK(Blank)
  BY FS_EmptySet DEF LocalOK, Blank

LEMMA TypeInit == Init => TypeOK
  <1> SUFFICES ASSUME Init PROVE TypeOK
    OBVIOUS
  <1> QED
    BY BlankOK, FS_EmptySet
    DEF Init, TypeOK, FileOK, States, Closed, Labels, At

\* TypeOK in two parts: what all actors share, and what the handlers keep
GlobalsOK ==
  /\ file = [p \in Path |-> file[p]] /\ \A p \in Path : FileOK(file[p])
  /\ state \in States
  /\ IsFiniteSet(changes) /\ \A c \in changes : ChangeOK(c)
  /\ record \in [exists : BOOLEAN, files : {record.files}]
  /\ nextId \in Nat /\ crashes \in Nat

ControlOK ==
  /\ pc \in [Thread -> Labels]
  /\ seen \in [Thread -> States \ Closed]
  /\ aux_found = [t \in Thread |-> aux_found[t]]
  /\ local = [t \in Thread |-> local[t]] /\ \A t \in Thread : LocalOK(local[t])
  /\ \A t \in Thread : At(t, "adapter_stage") => local[t].draft.path \in Path

LEMMA TypeSplit == TypeOK <=> GlobalsOK /\ ControlOK
  BY DEF TypeOK, GlobalsOK, ControlOK

LEMMA StartControl ==
  ASSUME ControlOK, NEW t \in Thread, NEW l \in Labels \ {"adapter_stage"}, NEW S,
         IsFiniteSet(S), \A c \in S : ChangeOK(c), Start(t, l, S),
         state \in States \ Closed
  PROVE  ControlOK'
  <1> DEFINE fresh == [Blank EXCEPT !.entries = S]
  <1>1. fresh = [entries |-> S, plan |-> Blank.plan, base |-> Blank.base,
                 written |-> Blank.written, draft |-> Blank.draft]
    BY BlankOK, LocalUpdate
  <1>2. LocalOK(fresh)
    BY <1>1 DEF LocalOK
  <1>3. local' = [u \in Thread |-> IF u = t THEN fresh ELSE local[u]]
    BY DEF Start, ControlOK
  <1> QED
    BY <1>2, <1>3 DEF Start, ControlOK, At

LEMMA FinishControl ==
  ASSUME ControlOK, NEW t \in Thread, Finish(t)
  PROVE  ControlOK'
  <1>1. local' = [u \in Thread |-> IF u = t THEN Blank ELSE local[u]]
    BY DEF Finish, ControlOK
  <1> QED
    BY <1>1, BlankOK DEF Finish, ControlOK, At, Labels, States, Closed

LEMMA GotoControl ==
  ASSUME ControlOK, NEW t \in Thread, NEW l \in Labels, Goto(t, l), NEW new,
         LocalOK(new), l = "adapter_stage" => new.draft.path \in Path,
         local' = [local EXCEPT ![t] = new]
  PROVE  ControlOK'
  <1>1. local' = [u \in Thread |-> IF u = t THEN new ELSE local[u]]
    BY DEF ControlOK
  <1> QED
    BY <1>1 DEF Goto, ControlOK, At

LEMMA SameLocalControl ==
  ASSUME ControlOK, NEW t \in Thread, NEW l \in Labels \ {"adapter_stage"}, Goto(t, l),
         UNCHANGED local
  PROVE  ControlOK'
  BY DEF Goto, ControlOK, At

LEMMA SaveStateGlobals ==
  ASSUME GlobalsOK, NEW s \in States, SaveState(s)
  PROVE  GlobalsOK'
  BY DEF GlobalsOK, SaveState

LEMMA SameGlobals ==
  ASSUME GlobalsOK, UNCHANGED globals
  PROVE  GlobalsOK'
  BY DEF GlobalsOK, globals

LEMMA FingerprintOK ==
  ASSUME TypeOK, NEW p \in Path
  PROVE  /\ Fingerprint(p).mtime \in Nat
         /\ Fingerprint(p).mtime <= file[p].mtime
         /\ Fingerprint(p) \in [hash : {Fingerprint(p).hash}, mtime : Nat]
  BY DEF TypeOK, FileOK, Fingerprint, FingerprintOf

LEMMA FileUpdate ==
  ASSUME TypeOK, NEW p \in Path, NEW f, FileOK(f), file' = [file EXCEPT ![p] = f]
  PROVE  file' = [q \in Path |-> file'[q]] /\ \A q \in Path : FileOK(file'[q])
  BY DEF TypeOK

LEMMA NewFileOK ==
  ASSUME NEW f, FileOK(f), NEW d
  PROVE  FileOK(Save(f, d)) /\ FileOK(Absent(f))
  BY DEF FileOK, Save, Absent

LEMMA StagesType ==
  ASSUME TypeOK, NEW t \in Thread, NEW e, NEW p \in Path, NEW own \in BOOLEAN,
         Stages(t, e, p, own), state \notin Closed
  PROVE  TypeOK'
  <1> DEFINE c == NewChange(e, p, own)
  <1>1. ChangeOK(c)
    BY FingerprintOK, FS_CardinalityType DEF NewChange, ChangeOK, TypeOK
  <1>2. IsFiniteSet({c})
    BY FS_Singleton
  <1>3. ControlOK'
    BY <1>1, <1>2, TypeSplit, StartControl DEF Stages, GlobalsOK, Labels
  <1>4. GlobalsOK'
    BY DEF Stages, TypeOK, GlobalsOK
  <1> QED
    BY <1>3, <1>4 DEF TypeOK, GlobalsOK, ControlOK

LEMMA RequestType ==
  ASSUME TypeOK, NEW t \in Thread, Request(t)
  PROVE  TypeOK'
  <1> SUFFICES GlobalsOK' /\ ControlOK'
    BY DEF TypeOK, GlobalsOK, ControlOK
  <1>t. GlobalsOK /\ ControlOK
    BY TypeSplit
  <1>a. Active => state \in States \ Closed
    BY <1>t DEF Active, GlobalsOK
  <1>e. IsFiniteSet({})
    BY FS_EmptySet
  <1>1. CASE Begin(t)
    <2>1. "none" \in States \ Closed /\ "begin_save" \in Labels \ {"adapter_stage"}
      BY DEF States, Closed, Labels
    <2> QED
      BY <1>1, <1>t, <1>e, <2>1, StartControl, SameGlobals DEF Begin
  <1>2. CASE EditStage(t)
    <2>1. PICK e \in Edits, p \in Path : Active /\ Stages(t, Stage(e, file[p].content), p, TRUE)
      BY <1>2 DEF EditStage
    <2> QED
      BY <2>1, <1>a, StagesType, TypeSplit DEF TypeOK, GlobalsOK, ControlOK
  <1>3. CASE AdapterRead(t)
    <2>0. PICK p \in Path, text \in Appendices : \E d \in Materialized(p) :
            /\ Goto(t, "adapter_stage")
            /\ local' = [local EXCEPT ![t].draft = [path |-> p, read |-> d, next |-> d \o text]]
      BY <1>3 DEF AdapterRead
    <2>1. PICK d \in Materialized(p) :
            /\ Goto(t, "adapter_stage")
            /\ local' = [local EXCEPT ![t].draft = [path |-> p, read |-> d, next |-> d \o text]]
      BY <2>0
    <2> DEFINE draft == [path |-> p, read |-> d, next |-> d \o text]
               new == [local[t] EXCEPT !.draft = draft]
    <2>2. LocalOK(local[t])
      BY <1>t DEF ControlOK
    <2>3. new = [entries |-> local[t].entries, plan |-> local[t].plan,
                 base |-> local[t].base, written |-> local[t].written, draft |-> draft]
      BY <2>2, LocalUpdate
    <2>4. LocalOK(new) /\ new.draft.path \in Path
      BY <2>2, <2>3 DEF LocalOK
    <2>5. local' = [local EXCEPT ![t] = new]
      BY <2>1
    <2> QED
      BY <2>1, <2>4, <2>5, <1>3, <1>t, GotoControl, SameGlobals DEF AdapterRead, Labels
  <1>4. CASE Drop(t)
    <2>1. PICK S \in {{c} : c \in changes} \cup {ChangesOf(p) : p \in Touched}
                     \cup ({changes} \ {{}}) :
            Active /\ Start(t, "drop_remove", S) /\ UNCHANGED globals
      BY <1>4 DEF Drop
    <2>2. S \subseteq changes
      BY <2>1 DEF ChangesOf
    <2>3. IsFiniteSet(S) /\ \A c \in S : ChangeOK(c)
      BY <2>2, <1>t, FS_Subset DEF GlobalsOK
    <2> QED
      BY <2>1, <2>3, <1>t, <1>a, StartControl, SameGlobals DEF Labels
  <1>5. CASE Abort(t)
    <2>1. "aborted" \in States
      BY DEF States, Closed
    <2>2. ControlOK'
      BY <1>5, <1>t DEF Abort, locals, ControlOK, At
    <2> QED
      BY <1>5, <1>t, <2>1, <2>2, SaveStateGlobals DEF Abort
  <1>6. CASE Rebase(t)
    <2> DEFINE S == {c \in changes : RebaseRequired(c.path)}
    <2>1. IsFiniteSet(S) /\ \A c \in S : ChangeOK(c)
      BY <1>t, FS_Subset DEF GlobalsOK
    <2>2. Start(t, IF S = {} THEN "rebase_keep" ELSE "rebase_entry", S)
      BY <1>6 DEF Rebase
    <2> QED
      BY <2>1, <2>2, <1>6, <1>t, <1>a, StartControl, SameGlobals DEF Rebase, Labels
  <1>7. CASE Preview(t)
    BY <1>7, <1>t, <1>a, <1>e, StartControl, SameGlobals DEF Preview, Passes, Labels
  <1>8. CASE Commit(t)
    BY <1>8, <1>t, <1>a, <1>e, StartControl, SameGlobals DEF Commit, Passes, Labels
  <1> QED
    BY <1>1, <1>2, <1>3, <1>4, <1>5, <1>6, <1>7, <1>8 DEF Request

LEMMA StepType ==
  ASSUME TypeOK, NEW t \in Thread, Step(t)
  PROVE  TypeOK'
  <1> SUFFICES GlobalsOK' /\ ControlOK'
    BY DEF TypeOK, GlobalsOK, ControlOK
  <1>t. GlobalsOK /\ ControlOK
    BY TypeSplit
  <1>l. LocalOK(local[t]) /\ local[t] = local[t]
    BY <1>t DEF ControlOK
  <1>e. "created" \in States /\ "staged" \in States /\ "previewed" \in States
        /\ "validating" \in States /\ "writing" \in States /\ "verifying" \in States
        /\ "committed" \in States
    BY DEF States, Closed
  <1>s. seen[t] \in States
    BY <1>t DEF ControlOK
  <1>1. CASE BeginSave(t)
    BY <1>1, <1>t, <1>e, SaveStateGlobals, FinishControl DEF BeginSave
  <1>2. CASE AdapterStage(t)
    <2> DEFINE draft == local[t].draft
               e == Stage(WholeFile(draft.read, draft.next), file[draft.path].content)
               own == draft.read = file[draft.path].content
    <2>1. draft.path \in Path /\ own \in BOOLEAN
      BY <1>2, <1>t DEF AdapterStage, ControlOK
    <2>2. \/ Active /\ Stages(t, e, draft.path, own)
          \/ Finish(t) /\ UNCHANGED globals
      BY <1>2 DEF AdapterStage
    <2>3. CASE Active /\ Stages(t, e, draft.path, own)
      BY <2>1, <2>3, StagesType, TypeSplit DEF Active, TypeOK, GlobalsOK, ControlOK
    <2>4. CASE Finish(t) /\ UNCHANGED globals
      BY <2>4, <1>t, SameGlobals, FinishControl
    <2> QED
      BY <2>2, <2>3, <2>4
  <1>3. CASE StageWrite(t)
    <2>1. ControlOK'
      BY <1>3, <1>t, SameLocalControl DEF StageWrite, Labels
    <2>2. IsFiniteSet(changes') /\ \A c \in changes' : ChangeOK(c)
      BY <1>3, <1>l, <1>t, FS_Union DEF StageWrite, LocalOK, GlobalsOK
    <2> QED
      BY <1>3, <1>t, <2>1, <2>2 DEF StageWrite, GlobalsOK
  <1>4. CASE StageSave(t)
    BY <1>4, <1>t, <1>e, SaveStateGlobals, FinishControl DEF StageSave
  <1>5. CASE DropRemove(t)
    <2>1. PICK c \in local[t].entries :
            /\ changes' = {d \in changes : ~SameFile(c, d)}
            /\ local' = [local EXCEPT ![t].entries = @ \ {c}]
            /\ Goto(t, IF local[t].entries = {c} THEN "drop_save" ELSE "drop_remove")
      BY <1>5 DEF DropRemove
    <2> DEFINE S == local[t].entries \ {c}
               new == [local[t] EXCEPT !.entries = S]
    <2>2. new = [entries |-> S, plan |-> local[t].plan, base |-> local[t].base,
                 written |-> local[t].written, draft |-> local[t].draft]
      BY <1>l, LocalUpdate
    <2>3. LocalOK(new)
      BY <1>l, <2>2, FS_Subset DEF LocalOK
    <2>4. local' = [local EXCEPT ![t] = new]
      BY <2>1
    <2>5. ControlOK'
      BY <1>t, <2>1, <2>3, <2>4, GotoControl DEF Labels
    <2>6. changes' \subseteq changes
      BY <2>1
    <2>7. IsFiniteSet(changes')
      BY <2>6, <1>t, FS_Subset DEF GlobalsOK
    <2> QED
      BY <1>5, <1>t, <2>5, <2>6, <2>7 DEF DropRemove, GlobalsOK
  <1>6. CASE DropSave(t)
    BY <1>6, <1>t, <1>e, SaveStateGlobals, FinishControl DEF DropSave
  <1>7. CASE RebaseEntry(t)
    <2>1. PICK c \in local[t].entries :
            /\ changes' = {d \in changes : ~SameFile(c, d)}
                            \cup {[c EXCEPT !.base = Fingerprint(c.path),
                                            !.aux_own = IsFirst(c, ChangesOf(c.path))]}
            /\ local' = [local EXCEPT ![t].entries = @ \ {c}]
            /\ Goto(t, IF local[t].entries = {c} THEN "rebase_save" ELSE "rebase_entry")
      BY <1>7 DEF RebaseEntry
    <2> DEFINE S == local[t].entries \ {c}
               new == [local[t] EXCEPT !.entries = S]
               own == IsFirst(c, ChangesOf(c.path))
               rebased == [c EXCEPT !.base = Fingerprint(c.path), !.aux_own = own]
    <2>2. new = [entries |-> S, plan |-> local[t].plan, base |-> local[t].base,
                 written |-> local[t].written, draft |-> local[t].draft]
      BY <1>l, LocalUpdate
    <2>3. LocalOK(new)
      BY <1>l, <2>2, FS_Subset DEF LocalOK
    <2>4. local' = [local EXCEPT ![t] = new]
      BY <2>1
    <2>5. ControlOK'
      BY <1>t, <2>1, <2>3, <2>4, GotoControl DEF Labels
    <2>6. ChangeOK(c)
      BY <1>l DEF LocalOK
    <2>7. ChangeOK(rebased)
      <3>1. c.path \in Path
        BY <2>6 DEF ChangeOK
      <3>2. Fingerprint(c.path) \in [hash : {Fingerprint(c.path).hash}, mtime : Nat]
        BY <3>1, FingerprintOK
      <3>3. rebased = [ordinal |-> c.ordinal, id |-> c.id, path |-> c.path,
                       edit |-> c.edit, base |-> Fingerprint(c.path), aux_own |-> own]
        BY <2>6, RebasedChange
      <3>4. own \in BOOLEAN
        BY DEF IsFirst
      <3> HIDE DEF own
      <3> QED
        BY <2>6, <3>2, <3>3, <3>4 DEF ChangeOK
    <2>8. IsFiniteSet(changes')
      <3>1. IsFiniteSet({d \in changes : ~SameFile(c, d)})
        BY <1>t, FS_Subset DEF GlobalsOK
      <3>2. IsFiniteSet({rebased})
        BY FS_Singleton
      <3> QED
        BY <2>1, <3>1, <3>2, FS_Union
    <2> QED
      BY <1>7, <1>t, <2>1, <2>5, <2>7, <2>8 DEF RebaseEntry, GlobalsOK
  <1>8. CASE RebaseSave(t)
    BY <1>8, <1>t, <1>e, <1>s, SaveStateGlobals, FinishControl DEF RebaseSave
  <1>9. CASE PreviewPlan(t)
    <2>1. CASE Finish(t)
      BY <1>9, <1>t, <2>1, SameGlobals, FinishControl DEF PreviewPlan
    <2>2. CASE Goto(t, "preview_save") /\ local' = [local EXCEPT ![t].plan = Plan]
      <3> DEFINE new == [local[t] EXCEPT !.plan = Plan]
      <3>1. new = [entries |-> local[t].entries, plan |-> Plan, base |-> local[t].base,
                   written |-> local[t].written, draft |-> local[t].draft]
        BY <1>l, LocalUpdate
      <3>2. LocalOK(new)
        BY <1>l, <3>1 DEF LocalOK
      <3>3. local' = [local EXCEPT ![t] = new]
        BY <2>2
      <3> QED
        BY <1>9, <1>t, <2>2, <3>2, <3>3, GotoControl, SameGlobals DEF PreviewPlan, Labels
    <2> QED
      BY <1>9, <2>1, <2>2 DEF PreviewPlan
  <1>10. CASE PreviewSave(t)
    <2>1. state' \in States
      BY <1>10, <1>e, <1>s DEF PreviewSave
    <2>2. ControlOK'
      BY <1>10, <1>t, FinishControl DEF PreviewSave
    <2> QED
      BY <1>10, <1>t, <2>1, <2>2 DEF PreviewSave, GlobalsOK
  <1>11. CASE CommitPlan(t)
    <2>1. CASE Finish(t) /\ UNCHANGED globals
      BY <2>1, <1>t, SameGlobals, FinishControl
    <2>2. CASE /\ local' = [local EXCEPT ![t].plan = Plan]
               /\ Goto(t, IF Touched = {} THEN "commit_record" ELSE "commit_next")
               /\ SaveState("validating")
      <3> DEFINE new == [local[t] EXCEPT !.plan = Plan]
      <3>1. new = [entries |-> local[t].entries, plan |-> Plan, base |-> local[t].base,
                   written |-> local[t].written, draft |-> local[t].draft]
        BY <1>l, LocalUpdate
      <3>2. LocalOK(new)
        BY <1>l, <3>1 DEF LocalOK
      <3>3. local' = [local EXCEPT ![t] = new]
        BY <2>2
      <3>4. ControlOK'
        BY <1>t, <2>2, <3>2, <3>3, GotoControl DEF Labels
      <3> QED
        BY <1>t, <1>e, <2>2, <3>4, SaveStateGlobals
    <2> QED
      BY <1>11, <2>1, <2>2 DEF CommitPlan
  <1>12. CASE CommitNext(t)
    <2>g. GlobalsOK'
      BY <1>12, <1>t, <1>e, SaveStateGlobals DEF CommitNext
    <2>0. PICK p \in Path : \/ Finish(t)
                            \/ /\ Goto(t, "commit_apply")
                               /\ local' = [local EXCEPT ![t].base = <<file[p]>>]
      BY <1>12 DEF CommitNext
    <2>1. CASE Finish(t)
      BY <1>t, <2>1, <2>g, FinishControl
    <2>2. CASE Goto(t, "commit_apply") /\ local' = [local EXCEPT ![t].base = <<file[p]>>]
      <3> DEFINE new == [local[t] EXCEPT !.base = <<file[p]>>]
      <3>1. new = [entries |-> local[t].entries, plan |-> local[t].plan,
                   base |-> <<file[p]>>, written |-> local[t].written,
                   draft |-> local[t].draft]
        BY <1>l, LocalUpdate
      <3>2. LocalOK(new)
        BY <1>l, <3>1 DEF LocalOK
      <3>3. local' = [local EXCEPT ![t] = new]
        BY <2>2
      <3> QED
        BY <1>t, <2>g, <2>2, <3>2, <3>3, GotoControl DEF Labels
    <2> QED
      BY <2>0, <2>1, <2>2
  <1>13. CASE CommitWrite(t)
    <2>1. PICK p \in Path :
            /\ file' = [file EXCEPT
                          ![p] = Save(@, Rewrite(@.content, local[t].plan[p].content))]
            /\ local' = [local EXCEPT ![t].written = @ \cup {<<p, file'[p].content>>}]
            /\ Goto(t, "commit_verify")
      BY <1>13 DEF CommitWrite
    <2> DEFINE W == local[t].written \cup {<<p, file'[p].content>>}
               new == [local[t] EXCEPT !.written = W]
               f == Save(file[p], Rewrite(file[p].content, local[t].plan[p].content))
    <2>2. new = [entries |-> local[t].entries, plan |-> local[t].plan,
                 base |-> local[t].base, written |-> W, draft |-> local[t].draft]
      BY <1>l, LocalUpdate
    <2>3. LocalOK(new)
      BY <1>l, <2>2 DEF LocalOK
    <2>4. local' = [local EXCEPT ![t] = new]
      BY <2>1
    <2>5. ControlOK'
      BY <1>t, <2>1, <2>3, <2>4, GotoControl DEF Labels
    <2>6. FileOK(f) /\ file' = [file EXCEPT ![p] = f]
      BY <2>1, <1>t, NewFileOK DEF GlobalsOK
    <2>7. file' = [q \in Path |-> file'[q]] /\ \A q \in Path : FileOK(file'[q])
      BY <2>6, FileUpdate
    <2> QED
      BY <1>13, <1>t, <2>5, <2>7 DEF CommitWrite, GlobalsOK
  <1>14. CASE CommitMismatch(t)
    BY <1>14, <1>t, SameGlobals, FinishControl DEF CommitMismatch
  <1>15. CASE CommitVerify(t)
    <2>1. PICK p \in Path : LET rest == DOMAIN local[t].plan \ {p} IN
            /\ local' = [local EXCEPT ![t].plan = [q \in rest |-> @[q]]]
            /\ Goto(t, IF rest = {} THEN "commit_record" ELSE "commit_next")
      BY <1>15 DEF CommitVerify
    <2> DEFINE P == [q \in DOMAIN local[t].plan \ {p} |-> local[t].plan[q]]
               new == [local[t] EXCEPT !.plan = P]
    <2>2. new = [entries |-> local[t].entries, plan |-> P, base |-> local[t].base,
                 written |-> local[t].written, draft |-> local[t].draft]
      BY <1>l, LocalUpdate
    <2>3. LocalOK(new)
      BY <1>l, <2>2 DEF LocalOK
    <2>4. local' = [local EXCEPT ![t] = new]
      BY <2>1
    <2>5. ControlOK'
      BY <1>t, <2>1, <2>3, <2>4, GotoControl DEF Labels
    <2> QED
      BY <1>15, <1>t, <1>e, <2>5, SaveStateGlobals DEF CommitVerify
  <1>16. CASE CommitRecord(t)
    <2>1. ControlOK'
      BY <1>16, <1>t, SameLocalControl DEF CommitRecord, Labels
    <2> QED
      BY <1>16, <1>t, <2>1 DEF CommitRecord, GlobalsOK
  <1>17. CASE CommitClose(t)
    BY <1>17, <1>t, <1>e, SaveStateGlobals, FinishControl DEF CommitClose
  <1> QED
    BY <1>1, <1>2, <1>3, <1>4, <1>5, <1>6, <1>7, <1>8, <1>9, <1>10, <1>11, <1>12,
       <1>13, <1>14, <1>15, <1>16, <1>17 DEF Step

LEMMA OutsideType ==
  ASSUME TypeOK, OutsideEdit
  PROVE  TypeOK'
  <1>1. PICK p \in Path : \/ \E d \in OutsideContents : file' = [file EXCEPT ![p] = Save(@, d)]
                          \/ file' = [file EXCEPT ![p] = Absent(@)]
    BY DEF OutsideEdit
  <1>2. FileOK(file[p])
    BY DEF TypeOK
  <1>3. \E f : FileOK(f) /\ file' = [file EXCEPT ![p] = f]
    BY <1>1, <1>2, NewFileOK
  <1>4. file' = [q \in Path |-> file'[q]] /\ \A q \in Path : FileOK(file'[q])
    BY <1>3, FileUpdate
  <1> QED
    BY <1>4 DEF OutsideEdit, TypeOK, locals, At

LEMMA CrashType ==
  ASSUME TypeOK, Crash
  PROVE  TypeOK'
  <1>1. ControlOK'
    BY BlankOK DEF Crash, ControlOK, Labels, States, Closed, At
  <1>2. GlobalsOK'
    BY DEF Crash, TypeOK, GlobalsOK, States
  <1> QED
    BY <1>1, <1>2 DEF TypeOK, GlobalsOK, ControlOK

LEMMA TypeNext ==
  ASSUME TypeOK, [Next]_vars
  PROVE  TypeOK'
  <1>1. CASE UNCHANGED vars
    BY <1>1 DEF vars, TypeOK, At
  <1> QED
    BY <1>1, RequestType, StepType, OutsideType, CrashType DEF Next

\* Whatever the requests, their interleaving, the editors and the crashes, the
\* session directory and the handlers hold only what the code can write.
THEOREM TypeCorrect == Spec => []TypeOK
  <1>1. Init => TypeOK
    BY TypeInit
  <1>2. TypeOK /\ [Next]_vars => TypeOK'
    BY TypeNext
  <1> QED
    BY <1>1, <1>2, PTL DEF Spec

(***************************************************************************)
(* A committed session is recorded.  Handlers may interleave in any way:   *)
(* what makes it so is that a handler about to close the session has       *)
(* written the record, and that nothing ever removes it.                   *)
(***************************************************************************)
ClosersRecorded == \A t \in Thread : At(t, "commit_close") => record.exists

RecordInv == TypeOK /\ CommittedIsRecorded /\ ClosersRecorded

\* A request that arrives closes no session as committed and writes no record.
LEMMA RequestEffect ==
  ASSUME TypeOK, NEW t \in Thread, Request(t)
  PROVE  /\ record' = record
         /\ state' = "committed" => state = "committed"
         /\ \A u \in Thread : pc'[u] = "commit_close" => pc[u] = "commit_close"
  <1>t. pc \in [Thread -> Labels]
    BY DEF TypeOK
  <1>1. CASE Begin(t)
    BY <1>1, <1>t DEF Begin, Start, globals
  <1>2. CASE EditStage(t)
    BY <1>2, <1>t DEF EditStage, Stages, Start
  <1>3. CASE AdapterRead(t)
    BY <1>3, <1>t DEF AdapterRead, Goto, globals
  <1>4. CASE Drop(t)
    BY <1>4, <1>t DEF Drop, Start, globals
  <1>5. CASE Abort(t)
    BY <1>5, <1>t DEF Abort, SaveState, locals
  <1>6. CASE Rebase(t)
    BY <1>6, <1>t DEF Rebase, Start, globals
  <1>7. CASE Preview(t)
    BY <1>7, <1>t DEF Preview, Start, globals
  <1>8. CASE Commit(t)
    BY <1>8, <1>t DEF Commit, Start, globals
  <1> QED
    BY <1>1, <1>2, <1>3, <1>4, <1>5, <1>6, <1>7, <1>8 DEF Request

\* What a handler does next: only CommitClose commits, and only CommitRecord
\* leads to it.
LEMMA StepEffect ==
  ASSUME TypeOK, NEW t \in Thread, Step(t)
  PROVE  /\ record' = record \/ record'.exists
         /\ state' = "committed" => state = "committed" \/ At(t, "commit_close")
         /\ \A u \in Thread : pc'[u] = "commit_close" => pc[u] = "commit_close"
                                                          \/ record'.exists
  <1>t. pc \in [Thread -> Labels]
    BY DEF TypeOK
  <1>s. seen[t] # "committed"
    BY DEF TypeOK, Closed
  <1>1. CASE BeginSave(t) \/ StageSave(t) \/ DropSave(t) \/ RebaseSave(t)
    BY <1>1, <1>t, <1>s DEF BeginSave, StageSave, DropSave, RebaseSave, SaveState, Finish
  <1>2. CASE AdapterStage(t)
    BY <1>2, <1>t DEF AdapterStage, Stages, Start, Finish, globals
  <1>3. CASE StageWrite(t) \/ DropRemove(t) \/ RebaseEntry(t)
    BY <1>3, <1>t DEF StageWrite, DropRemove, RebaseEntry, Goto
  <1>4. CASE PreviewPlan(t)
    BY <1>4, <1>t DEF PreviewPlan, Goto, Finish, globals
  <1>5. CASE PreviewSave(t)
    BY <1>5, <1>t, <1>s DEF PreviewSave, Finish
  <1>6. CASE CommitPlan(t) \/ CommitNext(t) \/ CommitVerify(t)
    BY <1>6, <1>t DEF CommitPlan, CommitNext, CommitVerify, SaveState, Goto, Finish, globals
  <1>7. CASE CommitWrite(t) \/ CommitMismatch(t)
    BY <1>7, <1>t DEF CommitWrite, CommitMismatch, Goto, Finish, globals
  <1>8. CASE CommitRecord(t)
    BY <1>8, <1>t DEF CommitRecord, Goto
  <1>9. CASE CommitClose(t)
    BY <1>9, <1>t DEF CommitClose, SaveState, Finish
  <1> QED
    BY <1>1, <1>2, <1>3, <1>4, <1>5, <1>6, <1>7, <1>8, <1>9 DEF Step

LEMMA RecordNext ==
  ASSUME RecordInv, [Next]_vars
  PROVE  RecordInv'
  <1>t. TypeOK /\ TypeOK'
    BY TypeNext DEF RecordInv
  <1>1. CASE UNCHANGED vars
    BY <1>1, <1>t DEF vars, RecordInv, CommittedIsRecorded, ClosersRecorded, At
  <1>2. ASSUME NEW t \in Thread, Request(t)
        PROVE  CommittedIsRecorded' /\ ClosersRecorded'
    BY <1>2, <1>t, RequestEffect DEF RecordInv, CommittedIsRecorded, ClosersRecorded, At
  <1>3. ASSUME NEW t \in Thread, Step(t)
        PROVE  CommittedIsRecorded' /\ ClosersRecorded'
    BY <1>3, <1>t, StepEffect DEF RecordInv, CommittedIsRecorded, ClosersRecorded, At
  <1>4. CASE OutsideEdit
    BY <1>4, <1>t
    DEF RecordInv, OutsideEdit, locals, CommittedIsRecorded, ClosersRecorded, At
  <1>5. CASE Crash
    BY <1>5, <1>t DEF RecordInv, Crash, CommittedIsRecorded, ClosersRecorded, At
  <1> QED
    BY <1>1, <1>2, <1>3, <1>4, <1>5, <1>t DEF Next, RecordInv

\* CommittedIsRecorded, for any number of concurrent handlers and any crash:
\* session_commit writes commit.json before the state that says it did.
THEOREM CommitRecorded == Spec => []CommittedIsRecorded
  <1>1. Init => RecordInv
    BY TypeInit DEF Init, RecordInv, CommittedIsRecorded, ClosersRecorded, At
  <1>2. RecordInv /\ [Next]_vars => RecordInv'
    BY RecordNext
  <1>3. RecordInv => CommittedIsRecorded
    BY DEF RecordInv
  <1> QED
    BY <1>1, <1>2, <1>3, PTL DEF Spec

(***************************************************************************)
(* What SessionService guarantees when its requests are served one at a    *)
(* time, for every number of files, edits, editors and crashes.  With two  *)
(* handlers these guarantees are lost (README, section 3).                 *)
(***************************************************************************)
SingleHandler == \A t, u \in Thread : t = u

\* The path IsNext picks is the only one.
LEMMA NextIsUnique ==
  ASSUME NEW S, NEW p, NEW q, IsNext(p, S), IsNext(q, S)
  PROVE  p = q
  <1>1. PathSeq \in Seq(Path)
    BY SessionAssumption
  <1>2. PICK i \in DOMAIN PathSeq :
          p = PathSeq[i] /\ p \in S /\ \A j \in 1..i - 1 : PathSeq[j] \notin S
    BY DEF IsNext
  <1>3. PICK k \in DOMAIN PathSeq :
          q = PathSeq[k] /\ q \in S /\ \A j \in 1..k - 1 : PathSeq[j] \notin S
    BY DEF IsNext
  <1>4. i \in Nat \ {0} /\ k \in Nat \ {0}
    BY <1>1, <1>2, <1>3
  <1>5. ~(i < k) /\ ~(k < i)
    BY <1>2, <1>3, <1>4
  <1> QED
    BY <1>2, <1>3, <1>4, <1>5

(***************************************************************************)
(* A closed session is quiet, and the record of a committed one lists the  *)
(* files its changes touch.                                                *)
(***************************************************************************)
WrittenPaths(t) == {w[1] : w \in local[t].written}
PlanPaths(t)    == DOMAIN local[t].plan

Quiet == state \in Closed => \A t \in Thread : pc[t] \in {"idle", "adapter_stage"}

\* Where a commit stands: every path of the plan is either written or still planned.
CommitProgress(t) ==
  /\ At(t, "commit_plan") => local[t].written = {}
  /\ pc[t] \in {"commit_next", "commit_apply", "commit_verify"} =>
       WrittenPaths(t) \cup PlanPaths(t) = Touched
  /\ At(t, "commit_verify") =>
       \A p \in Path : IsNext(p, PlanPaths(t)) => p \in WrittenPaths(t)
  /\ At(t, "commit_record") => WrittenPaths(t) = Touched
  /\ At(t, "commit_close") => {r[1] : r \in record.files} = Touched

SoloInv ==
  TypeOK /\ Quiet /\ RecordMatchesChanges /\ \A t \in Thread : CommitProgress(t)

Committing == {"commit_plan", "commit_next", "commit_apply", "commit_verify",
               "commit_record", "commit_close"}

LEMMA FirstsOfUnion ==
  ASSUME NEW W, NEW p, NEW c
  PROVE  {w[1] : w \in W \cup {<<p, c>>}} = {w[1] : w \in W} \cup {p}
  <1> DEFINE more == W \cup {<<p, c>>}
  <1>1. <<p, c>>[1] = p
    OBVIOUS
  <1>2. ASSUME NEW q
        PROVE  (\E w \in more : q = w[1]) <=> (\E w \in W : q = w[1]) \/ q = p
    BY <1>1, Zenon
  <1> QED
    BY <1>2

LEMMA NotCommitting ==
  ASSUME NEW t \in Thread, pc'[t] \notin Committing
  PROVE  CommitProgress(t)'
  BY DEF Committing, CommitProgress, At

\* A request changes no staged change; whichever it is, it is answered at once or
\* finds the session open.
LEMMA RequestIsQuiet ==
  ASSUME TypeOK, NEW t \in Thread, Request(t)
  PROVE  /\ changes' = changes /\ file' = file /\ aux_applied' = aux_applied
         /\ state \in Closed => state' \in Closed /\ pc'[t] \in {"idle", "adapter_stage"}
         /\ state' \in Closed => state \in Closed \/ pc'[t] = "idle"
         /\ \/ pc'[t] \notin Committing
            \/ Commit(t) /\ pc'[t] = "commit_plan" /\ local'[t].written = {}
  <1>t. pc \in [Thread -> Labels] /\ local = [u \in Thread |-> local[u]]
    BY DEF TypeOK
  <1>a. Active => state \notin Closed
    BY DEF Active
  <1>c. "none" \notin Closed
    BY DEF Closed
  <1>1. CASE Begin(t)
    BY <1>1, <1>t, <1>c DEF Begin, Start, globals, Committing
  <1>2. CASE EditStage(t)
    BY <1>2, <1>t, <1>a DEF EditStage, Stages, Start, Committing
  <1>3. CASE AdapterRead(t)
    <2>1. Goto(t, "adapter_stage") /\ UNCHANGED globals
      BY <1>3 DEF AdapterRead
    <2>2. pc'[t] = "adapter_stage"
      BY <2>1, <1>t DEF Goto
    <2>3. state' \in Closed => state \in Closed
      BY <2>1 DEF globals
    <2> QED
      BY <2>1, <2>2, <2>3 DEF globals, Committing
  <1>4. CASE Drop(t)
    BY <1>4, <1>t, <1>a DEF Drop, Start, globals, Committing
  <1>5. CASE Abort(t)
    BY <1>5, <1>t DEF Abort, SaveState, locals, At, Committing, Closed
  <1>6. CASE Rebase(t)
    BY <1>6, <1>t, <1>a DEF Rebase, Start, globals, Committing
  <1>7. CASE Preview(t)
    BY <1>7, <1>t, <1>a DEF Preview, Passes, Start, globals, Committing
  <1>8. CASE Commit(t)
    <2>1. Start(t, "commit_plan", {}) /\ UNCHANGED globals /\ state \notin Closed
      BY <1>8, <1>a DEF Commit, Passes
    <2>2. local'[t] = [Blank EXCEPT !.entries = {}]
      BY <2>1, <1>t DEF Start
    <2>3. local'[t].written = {}
      BY <2>2 DEF Blank
    <2>4. pc'[t] = "commit_plan"
      BY <2>1, <1>t DEF Start
    <2> QED
      BY <1>8, <2>1, <2>3, <2>4 DEF globals
  <1> QED
    BY <1>1, <1>2, <1>3, <1>4, <1>5, <1>6, <1>7, <1>8 DEF Request

\* A step of a closed session only answers a structural edit; of the others only
\* CommitClose closes it.
LEMMA StepIsQuiet ==
  ASSUME TypeOK, Quiet, NEW t \in Thread, Step(t)
  PROVE  /\ state \in Closed => UNCHANGED globals /\ pc'[t] = "idle"
         /\ state' \in Closed => pc'[t] = "idle"
         /\ state' = "committed" => state = "committed" \/ CommitClose(t)
  <1>t. pc \in [Thread -> Labels] /\ seen[t] \notin Closed
    BY DEF TypeOK
  <1>q. state \in Closed => pc[t] \in {"idle", "adapter_stage"}
    BY DEF Quiet
  <1>1. CASE AdapterStage(t)
    <2>1. \/ Active /\ \E e, p, own : Stages(t, e, p, own)
          \/ Finish(t) /\ UNCHANGED globals
      BY <1>1 DEF AdapterStage
    <2>2. CASE Active /\ \E e, p, own : Stages(t, e, p, own)
      BY <2>2, <1>t DEF Active, Stages, Closed
    <2>3. CASE Finish(t) /\ UNCHANGED globals
      BY <2>3, <1>t DEF Finish, globals
    <2> QED
      BY <2>1, <2>2, <2>3
  <1>2. CASE BeginSave(t) \/ StageSave(t) \/ DropSave(t) \/ RebaseSave(t)
    BY <1>2, <1>t, <1>q
    DEF BeginSave, StageSave, DropSave, RebaseSave, SaveState, At, Closed
  <1>3. CASE StageWrite(t) \/ DropRemove(t) \/ RebaseEntry(t)
    BY <1>3, <1>t, <1>q DEF StageWrite, DropRemove, RebaseEntry, At, Closed
  <1>4. CASE PreviewPlan(t)
    BY <1>4, <1>t, <1>q DEF PreviewPlan, At, globals, Closed
  <1>5. CASE PreviewSave(t)
    BY <1>5, <1>t, <1>q DEF PreviewSave, At, Closed
  <1>6. CASE CommitPlan(t)
    <2>1. state' = state \/ state' = "validating"
      BY <1>6 DEF CommitPlan, SaveState, globals
    <2> QED
      BY <1>6, <1>t, <1>q, <2>1 DEF CommitPlan, At, Closed
  <1>7. CASE CommitNext(t) \/ CommitVerify(t)
    BY <1>7, <1>t, <1>q DEF CommitNext, CommitVerify, SaveState, At, Closed
  <1>8. CASE CommitWrite(t) \/ CommitMismatch(t) \/ CommitRecord(t)
    BY <1>8, <1>t, <1>q DEF CommitWrite, CommitMismatch, CommitRecord, At, globals, Closed
  <1>9. CASE CommitClose(t)
    BY <1>9, <1>t, <1>q DEF CommitClose, SaveState, Finish, At
  <1> QED
    BY <1>1, <1>2, <1>3, <1>4, <1>5, <1>6, <1>7, <1>8, <1>9 DEF Step

\* Every step of a commit leaves each path of the plan written or planned.
LEMMA StepProgress ==
  ASSUME TypeOK, NEW t \in Thread, CommitProgress(t), Step(t)
  PROVE  CommitProgress(t)'
  <1>t. pc \in [Thread -> Labels] /\ local = [u \in Thread |-> local[u]]
    BY DEF TypeOK
  <1>l. LocalOK(local[t])
    BY DEF TypeOK
  <1>1. CASE \/ BeginSave(t) \/ AdapterStage(t) \/ StageWrite(t) \/ StageSave(t)
             \/ DropRemove(t) \/ DropSave(t) \/ RebaseEntry(t) \/ RebaseSave(t)
             \/ PreviewPlan(t) \/ PreviewSave(t) \/ CommitMismatch(t) \/ CommitClose(t)
    <2>1. pc'[t] \notin Committing
      BY <1>1, <1>t
      DEF BeginSave, AdapterStage, StageWrite, StageSave, DropRemove, DropSave,
          RebaseEntry, RebaseSave, PreviewPlan, PreviewSave, CommitMismatch, CommitClose,
          Stages, Start, Finish, Goto, Committing
    <2> QED
      BY <2>1, NotCommitting
  <1>2. CASE CommitPlan(t)
    <2>1. CASE Finish(t)
      BY <2>1, <1>t, NotCommitting DEF Finish, Committing
    <2>2. CASE /\ local' = [local EXCEPT ![t].plan = Plan]
               /\ Goto(t, IF Touched = {} THEN "commit_record" ELSE "commit_next")
               /\ SaveState("validating")
      <3>1. local'[t] = [local[t] EXCEPT !.plan = Plan]
        BY <2>2, <1>t
      <3>2. local'[t].plan = Plan /\ local'[t].written = local[t].written
        BY <3>1, <1>l, LocalUpdate
      <3>3. local[t].written = {}
        BY <1>2 DEF CommitPlan, CommitProgress
      <3>4. WrittenPaths(t)' = {} /\ PlanPaths(t)' = Touched
        BY <3>2, <3>3 DEF WrittenPaths, PlanPaths, Plan
      <3>5. Touched' = Touched
        BY <2>2 DEF SaveState, Touched
      <3>6. pc'[t] = IF Touched = {} THEN "commit_record" ELSE "commit_next"
        BY <2>2, <1>t DEF Goto
      <3> QED
        BY <3>4, <3>5, <3>6 DEF CommitProgress, At
    <2> QED
      BY <1>2, <2>1, <2>2 DEF CommitPlan
  <1>3. CASE CommitNext(t)
    <2>1. PICK p \in Path : \/ Finish(t)
                            \/ /\ Goto(t, "commit_apply")
                               /\ local' = [local EXCEPT ![t].base = <<file[p]>>]
      BY <1>3 DEF CommitNext
    <2>2. CASE Finish(t)
      BY <2>2, <1>t, NotCommitting DEF Finish, Committing
    <2>3. CASE Goto(t, "commit_apply") /\ local' = [local EXCEPT ![t].base = <<file[p]>>]
      <3>1. local'[t] = [local[t] EXCEPT !.base = <<file[p]>>]
        BY <2>3, <1>t
      <3>2. local'[t].plan = local[t].plan /\ local'[t].written = local[t].written
        BY <3>1, <1>l, LocalUpdate
      <3>3. WrittenPaths(t)' \cup PlanPaths(t)' = Touched
        BY <3>2, <1>3 DEF WrittenPaths, PlanPaths, CommitNext, CommitProgress, At
      <3>4. Touched' = Touched
        BY <1>3 DEF CommitNext, SaveState, Touched
      <3>5. pc'[t] = "commit_apply"
        BY <2>3, <1>t DEF Goto
      <3> QED
        BY <3>3, <3>4, <3>5 DEF CommitProgress, At
    <2> QED
      BY <2>1, <2>2, <2>3
  <1>4. CASE CommitWrite(t)
    <2>1. PICK p \in Path :
            /\ IsNext(p, DOMAIN local[t].plan)
            /\ local' = [local EXCEPT ![t].written = @ \cup {<<p, file'[p].content>>}]
            /\ Goto(t, "commit_verify")
      BY <1>4 DEF CommitWrite
    <2>2. local'[t] = [local[t] EXCEPT !.written = local[t].written \cup {<<p, file'[p].content>>}]
      BY <2>1, <1>t
    <2>3. /\ local'[t].plan = local[t].plan
          /\ local'[t].written = local[t].written \cup {<<p, file'[p].content>>}
      BY <2>2, <1>l, LocalUpdate
    <2>4. PlanPaths(t)' = PlanPaths(t) /\ WrittenPaths(t)' = WrittenPaths(t) \cup {p}
      <3> DEFINE W == local[t].written
                 c == file'[p].content
      <3>1. {w[1] : w \in W \cup {<<p, c>>}} = {w[1] : w \in W} \cup {p}
        BY FirstsOfUnion
      <3>2. WrittenPaths(t)' = {w[1] : w \in W \cup {<<p, c>>}}
        BY <2>3 DEF WrittenPaths
      <3> QED
        BY <2>3, <3>1, <3>2 DEF PlanPaths, WrittenPaths
    <2>5. p \in PlanPaths(t)
      BY <2>1 DEF IsNext, PlanPaths
    <2>6. WrittenPaths(t) \cup PlanPaths(t) = Touched
      BY <1>4 DEF CommitWrite, CommitProgress, At
    <2>7. Touched' = Touched
      BY <1>4 DEF CommitWrite, Touched
    <2>8. \A q \in Path : IsNext(q, PlanPaths(t)) => q = p
      BY <2>1, NextIsUnique DEF PlanPaths
    <2>9. pc'[t] = "commit_verify"
      BY <2>1, <1>t DEF Goto
    <2>10. \A q \in Path : IsNext(q, PlanPaths(t)') => q \in WrittenPaths(t)'
      BY <2>4, <2>8
    <2> QED
      BY <2>4, <2>5, <2>6, <2>7, <2>9, <2>10 DEF CommitProgress, At, IsNext
  <1>5. CASE CommitVerify(t)
    <2>1. PICK p \in Path :
            /\ IsNext(p, DOMAIN local[t].plan)
            /\ local' = [local EXCEPT ![t].plan = [q \in DOMAIN local[t].plan \ {p} |-> @[q]]]
            /\ Goto(t, IF DOMAIN local[t].plan \ {p} = {} THEN "commit_record"
                                                         ELSE "commit_next")
      BY <1>5 DEF CommitVerify
    <2> DEFINE rest == [q \in DOMAIN local[t].plan \ {p} |-> local[t].plan[q]]
    <2>2. local'[t] = [local[t] EXCEPT !.plan = rest]
      BY <2>1, <1>t
    <2>3. local'[t].plan = rest /\ local'[t].written = local[t].written
      BY <2>2, <1>l, LocalUpdate
    <2>4. PlanPaths(t)' = PlanPaths(t) \ {p} /\ WrittenPaths(t)' = WrittenPaths(t)
      BY <2>3 DEF PlanPaths, WrittenPaths
    <2>5. p \in WrittenPaths(t)
      BY <2>1, <1>5 DEF CommitVerify, CommitProgress, PlanPaths
    <2>6. WrittenPaths(t)' \cup PlanPaths(t)' = Touched
      BY <2>4, <2>5, <1>5 DEF CommitVerify, CommitProgress, At
    <2>7. Touched' = Touched
      BY <1>5 DEF CommitVerify, SaveState, Touched
    <2>8. pc'[t] = IF PlanPaths(t)' = {} THEN "commit_record" ELSE "commit_next"
      BY <2>1, <2>4, <1>t DEF Goto, PlanPaths
    <2> QED
      BY <2>6, <2>7, <2>8 DEF CommitProgress, At
  <1>6. CASE CommitRecord(t)
    <2>1. pc'[t] = "commit_close"
      BY <1>6, <1>t DEF CommitRecord, Goto
    <2>2. record'.files = local[t].written /\ WrittenPaths(t) = Touched
      BY <1>6 DEF CommitRecord, CommitProgress
    <2>3. Touched' = Touched
      BY <1>6 DEF CommitRecord, Touched
    <2> QED
      BY <2>1, <2>2, <2>3 DEF CommitProgress, WrittenPaths, At
  <1> QED
    BY <1>1, <1>2, <1>3, <1>4, <1>5, <1>6 DEF Step

LEMMA SoloInit == Init => SoloInv
  <1> SUFFICES ASSUME Init PROVE SoloInv
    OBVIOUS
  <1>1. TypeOK
    BY TypeInit
  <1>2. \A t \in Thread : CommitProgress(t)
    BY DEF Init, CommitProgress, At
  <1> QED
    BY <1>1, <1>2 DEF Init, SoloInv, Quiet, RecordMatchesChanges, Closed

LEMMA SoloNext ==
  ASSUME SingleHandler, SoloInv, [Next]_vars
  PROVE  SoloInv'
  <1>t. TypeOK /\ TypeOK'
    BY TypeNext DEF SoloInv
  <1>1. CASE UNCHANGED vars
    <2>1. \A t \in Thread : CommitProgress(t)'
      BY <1>1 DEF vars, SoloInv, CommitProgress, At, Touched, WrittenPaths, PlanPaths
    <2> QED
      BY <1>1, <1>t, <2>1 DEF vars, SoloInv, Quiet, RecordMatchesChanges, Touched
  <1>2. ASSUME NEW t \in Thread, Request(t)
        PROVE  SoloInv'
    <2>1. changes' = changes /\ record' = record
      BY <1>2, <1>t, RequestIsQuiet, RequestEffect
    <2>2. CommitProgress(t)'
      <3>1. CASE pc'[t] \notin Committing
        BY <3>1, NotCommitting
      <3>2. CASE pc'[t] = "commit_plan" /\ local'[t].written = {}
        BY <3>2 DEF CommitProgress, At
      <3> QED
        BY <1>2, <1>t, <3>1, <3>2, RequestIsQuiet
    <2>3. \A u \in Thread : CommitProgress(u)'
      BY <2>2 DEF SingleHandler
    <2>4. state' \in Closed => pc'[t] \in {"idle", "adapter_stage"}
      BY <1>2, <1>t, RequestIsQuiet
    <2>5. Quiet'
      BY <2>4 DEF Quiet, SingleHandler
    <2>6. RecordMatchesChanges'
      BY <1>2, <1>t, <2>1, RequestEffect DEF SoloInv, RecordMatchesChanges, Touched
    <2> QED
      BY <1>t, <2>3, <2>5, <2>6 DEF SoloInv
  <1>3. ASSUME NEW t \in Thread, Step(t)
        PROVE  SoloInv'
    <2>q. Quiet /\ CommitProgress(t) /\ RecordMatchesChanges
      BY DEF SoloInv
    <2>1. CommitProgress(t)'
      BY <1>3, <1>t, <2>q, StepProgress
    <2>2. \A u \in Thread : CommitProgress(u)'
      BY <2>1 DEF SingleHandler
    <2>3. state' \in Closed => pc'[t] = "idle"
      BY <1>3, <1>t, <2>q, StepIsQuiet
    <2>4. Quiet'
      BY <2>3 DEF Quiet, SingleHandler
    <2>5. RecordMatchesChanges'
      <3> SUFFICES ASSUME state' = "committed"
                   PROVE  {r[1] : r \in record'.files} = Touched'
        BY DEF RecordMatchesChanges
      <3>1. CASE state = "committed"
        BY <1>3, <1>t, <2>q, <3>1, StepIsQuiet
        DEF RecordMatchesChanges, globals, Touched, Closed
      <3>2. CASE CommitClose(t)
        BY <2>q, <3>2 DEF CommitClose, SaveState, CommitProgress, Touched
      <3> QED
        BY <1>3, <1>t, <2>q, <3>1, <3>2, StepIsQuiet
    <2> QED
      BY <1>t, <2>2, <2>4, <2>5 DEF SoloInv
  <1>4. CASE OutsideEdit
    <2>1. \A t \in Thread : CommitProgress(t)'
      BY <1>4
      DEF OutsideEdit, locals, SoloInv, CommitProgress, At, Touched, WrittenPaths, PlanPaths
    <2> QED
      BY <1>4, <1>t, <2>1
      DEF OutsideEdit, locals, SoloInv, Quiet, RecordMatchesChanges, Touched
  <1>5. CASE Crash
    <2>1. \A t \in Thread : pc'[t] = "idle"
      BY <1>5 DEF Crash
    <2>2. \A t \in Thread : CommitProgress(t)'
      BY <2>1 DEF CommitProgress, At
    <2> QED
      BY <1>5, <1>t, <2>1, <2>2 DEF Crash, SoloInv, Quiet, RecordMatchesChanges, Touched
  <1> QED
    BY <1>1, <1>2, <1>3, <1>4, <1>5 DEF Next

\* RecordMatchesChanges, as long as requests are served one at a time: crashes,
\* torn saves, editors and failed commits in between change nothing about it.
THEOREM RecordIsComplete ==
  ASSUME SingleHandler
  PROVE  Spec => []RecordMatchesChanges
  <1>1. SoloInv => RecordMatchesChanges
    BY DEF SoloInv
  <1> QED
    BY <1>1, SoloInit, SoloNext, PTL DEF Spec

\* A closed session stays as it is, as long as requests are served one at a time.
THEOREM ClosedIsFinal ==
  ASSUME SingleHandler
  PROVE  Spec => ClosedStaysClosed
  <1> DEFINE Unchanging ==
        (state \in Closed) =>
          /\ state' \in Closed \cup {"torn"}
          /\ changes' = changes /\ record' = record
          /\ \A t \in Thread, p \in Path : ~Writes(t, p)
  <1>1. ASSUME SoloInv, Next, state \in Closed
        PROVE  Unchanging
    <2>t. TypeOK /\ Quiet
      BY <1>1 DEF SoloInv
    <2>1. \A t \in Thread, p \in Path : ~Writes(t, p)
      BY <1>1, <2>t DEF Quiet, Writes, At
    <2>2. ASSUME NEW t \in Thread, Request(t)
          PROVE  state' \in Closed /\ changes' = changes /\ record' = record
      BY <1>1, <2>2, <2>t, RequestIsQuiet, RequestEffect
    <2>3. ASSUME NEW t \in Thread, Step(t)
          PROVE  UNCHANGED globals
      BY <1>1, <2>3, <2>t, StepIsQuiet
    <2>4. CASE OutsideEdit
      BY <1>1, <2>1, <2>4 DEF OutsideEdit
    <2>5. CASE Crash
      BY <1>1, <2>1, <2>5 DEF Crash
    <2> QED
      BY <1>1, <2>1, <2>2, <2>3, <2>4, <2>5 DEF Next, globals
  <1>2. SoloInv /\ [Next]_vars => [Unchanging]_vars
    BY <1>1
  <1> QED
    BY <1>2, SoloInit, SoloNext, PTL DEF Spec, ClosedStaysClosed

(***************************************************************************)
(* What a commit of a session writes, for every number of files, changes   *)
(* and editors, when requests are served one at a time: never twice under  *)
(* one base, never over a version nobody has shown, nothing but what its   *)
(* preview showed; and what the session's state, and its gate, say of its  *)
(* changes.                                                                *)
(*                                                                         *)
(* The proofs rest on one order.  Files only grow newer, and a write makes *)
(* a file newer than every base its changes have.  So the changes of a     *)
(* file that was written are no longer clean, and the gate of              *)
(* recovery_check lets nothing through that was applied.                   *)
(***************************************************************************)
Past(c) == c.base.mtime <= file[c.path].mtime

\* No change was staged on a version of its file that is still to come.
BasesPast == /\ \A c \in changes : Past(c)
             /\ \A t \in Thread : \A c \in local[t].entries : Past(c)

\* A file is newer than whatever was written to it.
AppliedPast ==
  \A a \in aux_applied : a[1] \in Path /\ a[3] \in Nat /\ a[3] < file[a[1]].mtime

Unapplied(p, S) ==
  FirstOf(S).base.mtime # 0 =>
    <<p, FirstOf(S).id, FirstOf(S).base.mtime>> \notin aux_applied

PlanPast(t) ==
  \A p \in PlanPaths(t) :
    p \in Path /\ \A c \in local[t].plan[p].items : ChangeOK(c) /\ c.path = p /\ Past(c)

\* What a commit is still to write was not written under the base it has.
PlanFresh(t) ==
  /\ At(t, "commit_plan") => \A p \in Touched : Unapplied(p, ChangesOf(p))
  /\ pc[t] \in {"commit_next", "commit_apply", "commit_verify"} => PlanPast(t)
  /\ pc[t] \in {"commit_next", "commit_apply"} =>
       \A p \in PlanPaths(t) : Unapplied(p, local[t].plan[p].items)
  /\ At(t, "commit_verify") =>
       \A p \in PlanPaths(t) : IsNext(p, PlanPaths(t)) \/ Unapplied(p, local[t].plan[p].items)

ApplyInv ==
  TypeOK /\ BasesPast /\ AppliedPast /\ \A t \in Thread : PlanFresh(t)

LEMMA NoPlan ==
  ASSUME NEW t \in Thread, pc'[t] \notin Committing
  PROVE  PlanFresh(t)'
  BY DEF Committing, PlanFresh, At

\* Files only grow newer, a request touches none, and a step only the one it commits.
LEMMA FilesGrow ==
  ASSUME TypeOK, [Next]_vars
  PROVE  \A p \in Path : /\ file'[p].mtime \in Nat /\ file[p].mtime <= file'[p].mtime
                         /\ file'[p] = file[p] \/ file[p].mtime < file'[p].mtime
  <1>t. \A p \in Path : file[p].mtime \in Nat
    BY DEF TypeOK, FileOK
  <1>f. file = [p \in Path |-> file[p]]
    BY DEF TypeOK
  <1>1. CASE file' = file
    BY <1>1, <1>t
  <1>2. ASSUME NEW p \in Path, NEW d,
               \/ file' = [file EXCEPT ![p] = Save(@, d)]
               \/ file' = [file EXCEPT ![p] = Absent(@)]
        PROVE  \A q \in Path : /\ file'[q].mtime \in Nat /\ file[q].mtime <= file'[q].mtime
                               /\ file'[q] = file[q] \/ file[q].mtime < file'[q].mtime
    BY <1>2, <1>t, <1>f DEF Save, Absent
  <1>3. ASSUME NEW t \in Thread, Request(t)
        PROVE  file' = file
    BY <1>3, RequestIsQuiet
  <1>4. ASSUME NEW t \in Thread, Step(t)
        PROVE  \/ file' = file
               \/ \E p \in Path : \E d : file' = [file EXCEPT ![p] = Save(@, d)]
    <2>1. CASE CommitWrite(t)
      <3>1. PICK p \in Path :
              file' = [file EXCEPT
                         ![p] = Save(@, Rewrite(@.content, local[t].plan[p].content))]
        BY <2>1 DEF CommitWrite
      <3>2. file' = [file EXCEPT
                       ![p] = Save(@, Rewrite(file[p].content, local[t].plan[p].content))]
        BY <3>1
      <3> QED
        BY <3>2
    <2>2. CASE ~CommitWrite(t)
      BY <1>4, <2>2
      DEF Step, BeginSave, AdapterStage, StageWrite, StageSave, DropRemove, DropSave,
          RebaseEntry, RebaseSave, PreviewPlan, PreviewSave, CommitPlan, CommitNext,
          CommitMismatch, CommitVerify, CommitRecord, CommitClose, SaveState, Stages, globals
    <2> QED
      BY <2>1, <2>2
  <1>5. CASE OutsideEdit
    BY <1>5, <1>2 DEF OutsideEdit
  <1>6. CASE Crash
    BY <1>6, <1>1 DEF Crash
  <1>7. CASE UNCHANGED vars
    BY <1>7, <1>1 DEF vars
  <1> QED
    BY <1>1, <1>2, <1>3, <1>4, <1>5, <1>6, <1>7 DEF Next

LEMMA PastStays ==
  ASSUME TypeOK, [Next]_vars, NEW c, ChangeOK(c), Past(c)
  PROVE  Past(c)'
  <1>1. c.path \in Path /\ c.base.mtime \in Nat
    BY DEF ChangeOK
  <1>2. file[c.path].mtime \in Nat
    BY <1>1 DEF TypeOK, FileOK
  <1> QED
    BY <1>1, <1>2, FilesGrow DEF Past

LEMMA AppliedStays ==
  ASSUME TypeOK, [Next]_vars, AppliedPast, aux_applied' = aux_applied
  PROVE  AppliedPast'
  <1>1. \A p \in Path : file[p].mtime \in Nat
    BY DEF TypeOK, FileOK
  <1> QED
    BY <1>1, FilesGrow DEF AppliedPast

\* The base that staging and rebasing give is never ahead of the file.
LEMMA FreshBase ==
  ASSUME TypeOK, NEW c, c.path \in Path, c.base = Fingerprint(c.path)
  PROVE  Past(c)
  BY FingerprintOK DEF Past

\* What is clean was not written under the base it has.
LEMMA CleanIsUnapplied ==
  ASSUME TypeOK, AppliedPast, NEW p \in Path, Clean(p)
  PROVE  Unapplied(p, ChangesOf(p))
  <1> DEFINE c == FirstOf(ChangesOf(p))
  <1>1. c.base = Fingerprint(p)
    BY DEF Clean
  <1>2. c.base.mtime = 0 \/ c.base.mtime = file[p].mtime
    BY <1>1 DEF Fingerprint, FingerprintOf
  <1>3. file[p].mtime \in Nat
    BY DEF TypeOK, FileOK
  <1>4. <<p, c.id, c.base.mtime>> \in aux_applied => c.base.mtime < file[p].mtime
    BY DEF AppliedPast
  <1> QED
    BY <1>2, <1>3, <1>4 DEF Unapplied

\* Starting a request leaves a handler with the given change files only.
LEMMA StartEntries ==
  ASSUME TypeOK, NEW t \in Thread, NEW l, NEW S, Start(t, l, S)
  PROVE  /\ local'[t].entries = S
         /\ \A u \in Thread \ {t} : local'[u] = local[u]
  <1>1. local = [u \in Thread |-> local[u]]
    BY DEF TypeOK
  <1>2. local'[t] = [Blank EXCEPT !.entries = S]
    BY <1>1 DEF Start
  <1>3. local'[t].entries = S
    BY <1>2 DEF Blank
  <1> QED
    BY <1>1, <1>3 DEF Start

LEMMA FinishEntries ==
  ASSUME TypeOK, NEW t \in Thread, Finish(t)
  PROVE  local'[t].entries = {}
  <1>1. local = [u \in Thread |-> local[u]]
    BY DEF TypeOK
  <1> QED
    BY <1>1 DEF Finish, Blank

LEMMA StagesPast ==
  ASSUME TypeOK, BasesPast, NEW t \in Thread, NEW e, NEW p \in Path, NEW own \in BOOLEAN,
         Stages(t, e, p, own)
  PROVE  \A c \in local'[t].entries : ChangeOK(c) /\ Past(c)
  <1>1. local'[t].entries = {NewChange(e, p, own)}
    BY StartEntries DEF Stages
  <1>2. NewChange(e, p, own).path = p /\ NewChange(e, p, own).base = Fingerprint(p)
    BY DEF NewChange
  <1>3. Past(NewChange(e, p, own))
    BY <1>2, FreshBase
  <1>4. ChangeOK(NewChange(e, p, own))
    BY FingerprintOK, FS_CardinalityType DEF NewChange, ChangeOK, TypeOK
  <1> QED
    BY <1>1, <1>3, <1>4

\* The change files a request starts with are past changes.
LEMMA RequestPast ==
  ASSUME TypeOK, BasesPast, NEW t \in Thread, Request(t)
  PROVE  \A c \in local'[t].entries : ChangeOK(c) /\ Past(c)
  <1>t. local = [u \in Thread |-> local[u]] /\ LocalOK(local[t])
    BY DEF TypeOK
  <1>c. \A c \in changes : ChangeOK(c) /\ Past(c)
    BY DEF TypeOK, BasesPast
  <1>e. \A c \in local[t].entries : ChangeOK(c) /\ Past(c)
    BY <1>t DEF BasesPast, LocalOK
  <1>1. CASE Begin(t) \/ Preview(t) \/ Commit(t)
    <2>1. local'[t].entries = {}
      BY <1>1, StartEntries DEF Begin, Preview, Commit
    <2> QED
      BY <2>1
  <1>2. CASE EditStage(t)
    <2>1. PICK e \in Edits, p \in Path : Stages(t, Stage(e, file[p].content), p, TRUE)
      BY <1>2 DEF EditStage
    <2> QED
      BY <2>1, StagesPast
  <1>3. CASE AdapterRead(t)
    <2>1. \E new : local' = [local EXCEPT ![t].draft = new]
      BY <1>3 DEF AdapterRead
    <2>2. PICK new : local' = [local EXCEPT ![t].draft = new]
      BY <2>1
    <2>3. local'[t] = [local[t] EXCEPT !.draft = new]
      BY <2>2, <1>t
    <2>4. local'[t].entries = local[t].entries
      BY <2>3, <1>t, LocalUpdate
    <2> QED
      BY <2>4, <1>e
  <1>4. CASE Drop(t)
    <2>1. PICK S \in {{c} : c \in changes} \cup {ChangesOf(p) : p \in Touched}
                     \cup ({changes} \ {{}}) :
            Start(t, "drop_remove", S)
      BY <1>4 DEF Drop
    <2>2. S \subseteq changes
      BY <2>1 DEF ChangesOf
    <2>3. local'[t].entries = S
      BY <2>1, StartEntries
    <2> QED
      BY <2>2, <2>3, <1>c
  <1>5. CASE Abort(t)
    BY <1>5, <1>e DEF Abort, locals
  <1>6. CASE Rebase(t)
    <2>1. local'[t].entries = {c \in changes : RebaseRequired(c.path)}
      BY <1>6, StartEntries DEF Rebase
    <2> QED
      BY <2>1, <1>c
  <1> QED
    BY <1>1, <1>2, <1>3, <1>4, <1>5, <1>6 DEF Request

LEMMA RequestFresh ==
  ASSUME SingleHandler, ApplyInv, NEW t \in Thread, Request(t)
  PROVE  ApplyInv'
  <1>t. TypeOK /\ TypeOK' /\ [Next]_vars /\ BasesPast /\ AppliedPast
    BY TypeNext DEF ApplyInv, Next
  <1>1. changes' = changes /\ file' = file /\ aux_applied' = aux_applied
    BY <1>t, RequestIsQuiet
  <1>2. AppliedPast'
    BY <1>1, <1>t, AppliedStays
  <1>3. \A c \in changes' : Past(c)'
    BY <1>1, <1>t, PastStays DEF TypeOK, BasesPast
  <1>4. \A c \in local'[t].entries : Past(c)'
    BY <1>t, RequestPast, PastStays
  <1>5. BasesPast'
    BY <1>3, <1>4 DEF BasesPast, SingleHandler
  <1>6. PlanFresh(t)'
    <2>1. CASE pc'[t] \notin Committing
      BY <2>1, NoPlan
    <2>2. CASE Commit(t) /\ pc'[t] = "commit_plan"
      <3>1. \A p \in Touched : p \in Path /\ Clean(p)
        BY <2>2, <1>t DEF Commit, Passes, Touched, TypeOK, ChangeOK
      <3>2. \A p \in Touched : Unapplied(p, ChangesOf(p))
        BY <3>1, <1>t, CleanIsUnapplied
      <3>3. \A p \in Touched' : Unapplied(p, ChangesOf(p))'
        BY <3>2, <1>1 DEF Touched, Unapplied, ChangesOf
      <3> QED
        BY <2>2, <3>3 DEF PlanFresh, At
    <2> QED
      BY <1>t, <2>1, <2>2, RequestIsQuiet
  <1>7. \A u \in Thread : PlanFresh(u)'
    BY <1>6 DEF SingleHandler
  <1> QED
    BY <1>t, <1>2, <1>5, <1>7 DEF ApplyInv

\* Every change in the session directory and every change a handler holds stays a
\* past one through each step.
LEMMA StepPast ==
  ASSUME TypeOK, BasesPast, NEW t \in Thread, Step(t)
  PROVE  /\ \A c \in changes' : ChangeOK(c) /\ Past(c)
         /\ \A c \in local'[t].entries : ChangeOK(c) /\ Past(c)
  <1>t. local = [u \in Thread |-> local[u]] /\ LocalOK(local[t])
    BY DEF TypeOK
  <1>c. \A c \in changes : ChangeOK(c) /\ Past(c)
    BY DEF TypeOK, BasesPast
  <1>e. \A c \in local[t].entries : ChangeOK(c) /\ Past(c)
    BY <1>t DEF BasesPast, LocalOK
  <1>f. Finish(t) => \A c \in local'[t].entries : ChangeOK(c) /\ Past(c)
    BY FinishEntries
  <1>k. ASSUME NEW v, \/ local' = [local EXCEPT ![t].plan = v]
                      \/ local' = [local EXCEPT ![t].base = v]
                      \/ local' = [local EXCEPT ![t].written = v]
        PROVE  local'[t].entries = local[t].entries
    <2>0. LocalOK(local[t])
      BY <1>t
    <2>1. CASE local' = [local EXCEPT ![t].plan = v]
      <3>1. local'[t] = [local[t] EXCEPT !.plan = v]
        BY <2>1, <1>t
      <3> QED
        BY <2>0, <3>1, LocalUpdate
    <2>2. CASE local' = [local EXCEPT ![t].base = v]
      <3>1. local'[t] = [local[t] EXCEPT !.base = v]
        BY <2>2, <1>t
      <3> QED
        BY <2>0, <3>1, LocalUpdate
    <2>3. CASE local' = [local EXCEPT ![t].written = v]
      <3>1. local'[t] = [local[t] EXCEPT !.written = v]
        BY <2>3, <1>t
      <3> QED
        BY <2>0, <3>1, LocalUpdate
    <2> QED
      BY <1>k, <2>1, <2>2, <2>3
  <1>r. ASSUME NEW c, local' = [local EXCEPT ![t].entries = @ \ {c}]
        PROVE  local'[t].entries = local[t].entries \ {c}
    <2>1. local'[t] = [local[t] EXCEPT !.entries = local[t].entries \ {c}]
      BY <1>r, <1>t
    <2> QED
      BY <2>1, <1>t, LocalUpdate
  <1>1. CASE BeginSave(t) \/ StageSave(t) \/ DropSave(t) \/ RebaseSave(t) \/ CommitClose(t)
    BY <1>1, <1>c, <1>f
    DEF BeginSave, StageSave, DropSave, RebaseSave, CommitClose, SaveState
  <1>2. CASE AdapterStage(t)
    <2>1. local[t].draft.path \in Path
      BY <1>2 DEF AdapterStage, TypeOK
    <2>2. \/ \E e : \E own \in BOOLEAN : Stages(t, e, local[t].draft.path, own)
          \/ Finish(t) /\ UNCHANGED globals
      BY <1>2 DEF AdapterStage
    <2>3. changes' = changes
      BY <2>2 DEF Stages, globals
    <2> QED
      BY <2>1, <2>2, <2>3, <1>c, <1>f, StagesPast
  <1>3. CASE StageWrite(t)
    BY <1>3, <1>c, <1>e DEF StageWrite
  <1>4. CASE DropRemove(t)
    <2>1. PICK c \in local[t].entries :
            changes' \subseteq changes /\ local' = [local EXCEPT ![t].entries = @ \ {c}]
      BY <1>4 DEF DropRemove
    <2> QED
      BY <2>1, <1>c, <1>e, <1>r
  <1>5. CASE RebaseEntry(t)
    <2>1. PICK c \in local[t].entries :
            /\ changes' = {d \in changes : ~SameFile(c, d)}
                            \cup {[c EXCEPT !.base = Fingerprint(c.path),
                                            !.aux_own = IsFirst(c, ChangesOf(c.path))]}
            /\ local' = [local EXCEPT ![t].entries = @ \ {c}]
      BY <1>5 DEF RebaseEntry
    <2> DEFINE own == IsFirst(c, ChangesOf(c.path))
               rebased == [c EXCEPT !.base = Fingerprint(c.path), !.aux_own = own]
    <2>2. ChangeOK(c) /\ c.path \in Path
      BY <2>1, <1>e DEF ChangeOK
    <2>3. rebased = [ordinal |-> c.ordinal, id |-> c.id, path |-> c.path,
                     edit |-> c.edit, base |-> Fingerprint(c.path), aux_own |-> own]
      BY <2>2, RebasedChange
    <2>4. own \in BOOLEAN
      BY DEF IsFirst
    <2>5. Past(rebased) /\ ChangeOK(rebased)
      <3> HIDE DEF own
      <3>1. Past(rebased)
        BY <2>2, <2>3, FreshBase
      <3>2. ChangeOK(rebased)
        BY <2>2, <2>3, <2>4, FingerprintOK DEF ChangeOK
      <3> QED
        BY <3>1, <3>2
    <2> QED
      BY <2>1, <2>5, <1>c, <1>e, <1>r
  <1>6. CASE PreviewPlan(t)
    BY <1>6, <1>c, <1>e, <1>f, <1>k DEF PreviewPlan, globals
  <1>7. CASE PreviewSave(t)
    BY <1>7, <1>c, <1>f DEF PreviewSave
  <1>8. CASE CommitPlan(t)
    <2>1. changes' = changes
      BY <1>8 DEF CommitPlan, SaveState, globals
    <2> QED
      BY <1>8, <2>1, <1>c, <1>e, <1>f, <1>k DEF CommitPlan
  <1>9. CASE CommitNext(t)
    BY <1>9, <1>c, <1>e, <1>f, <1>k DEF CommitNext, SaveState
  <1>10. CASE CommitWrite(t)
    <2>1. PICK v : local' = [local EXCEPT ![t].written = local[t].written \cup v]
      BY <1>10 DEF CommitWrite
    <2>2. local'[t].entries = local[t].entries
      BY <2>1, <1>k
    <2> QED
      BY <1>10, <2>2, <1>c, <1>e DEF CommitWrite
  <1>11. CASE CommitMismatch(t)
    BY <1>11, <1>c, <1>f DEF CommitMismatch, globals
  <1>12. CASE CommitVerify(t)
    <2>1. PICK p \in Path : LET rest == DOMAIN local[t].plan \ {p} IN
            local' = [local EXCEPT ![t].plan = [q \in rest |-> @[q]]]
      BY <1>12 DEF CommitVerify
    <2>2. local' = [local EXCEPT
                      ![t].plan = [q \in DOMAIN local[t].plan \ {p} |-> local[t].plan[q]]]
      BY <2>1
    <2>3. local'[t].entries = local[t].entries
      BY <2>2, <1>k
    <2> QED
      BY <1>12, <2>3, <1>c, <1>e DEF CommitVerify, SaveState
  <1>13. CASE CommitRecord(t)
    BY <1>13, <1>c, <1>e DEF CommitRecord
  <1> QED
    BY <1>1, <1>2, <1>3, <1>4, <1>5, <1>6, <1>7, <1>8, <1>9, <1>10, <1>11, <1>12, <1>13
    DEF Step

\* Every step of a commit keeps what is still to write fresh.
LEMMA StepFresh ==
  ASSUME ApplyInv, NEW t \in Thread, Step(t)
  PROVE  AppliedPast' /\ PlanFresh(t)'
  <1>t. TypeOK /\ TypeOK' /\ [Next]_vars /\ BasesPast /\ AppliedPast /\ PlanFresh(t)
    BY TypeNext DEF ApplyInv, Next
  <1>p. pc \in [Thread -> Labels] /\ local = [u \in Thread |-> local[u]] /\ LocalOK(local[t])
    BY <1>t DEF TypeOK
  <1>1. CASE \/ BeginSave(t) \/ AdapterStage(t) \/ StageWrite(t) \/ StageSave(t)
             \/ DropRemove(t) \/ DropSave(t) \/ RebaseEntry(t) \/ RebaseSave(t)
             \/ PreviewPlan(t) \/ PreviewSave(t) \/ CommitMismatch(t) \/ CommitRecord(t)
             \/ CommitClose(t)
    <2>1. pc'[t] \notin {"commit_plan", "commit_next", "commit_apply", "commit_verify"}
      BY <1>1, <1>p
      DEF BeginSave, AdapterStage, StageWrite, StageSave, DropRemove, DropSave,
          RebaseEntry, RebaseSave, PreviewPlan, PreviewSave, CommitMismatch, CommitRecord,
          CommitClose, Stages, Start, Finish, Goto
    <2>2. PlanFresh(t)'
      BY <2>1 DEF PlanFresh, At
    <2>3. aux_applied' = aux_applied
      BY <1>1
      DEF BeginSave, AdapterStage, StageWrite, StageSave, DropRemove, DropSave,
          RebaseEntry, RebaseSave, PreviewPlan, PreviewSave, CommitMismatch, CommitRecord,
          CommitClose, SaveState, Stages, globals
    <2> QED
      BY <1>t, <2>2, <2>3, AppliedStays
  <1>2. CASE CommitPlan(t)
    <2>0. AppliedPast'
      <3>1. aux_applied' = aux_applied
        BY <1>2 DEF CommitPlan, SaveState, globals
      <3> QED
        BY <1>t, <3>1, AppliedStays
    <2>1. CASE Finish(t)
      BY <2>0, <2>1, <1>p, NoPlan DEF Finish, Committing
    <2>2. CASE /\ local' = [local EXCEPT ![t].plan = Plan]
               /\ Goto(t, IF Touched = {} THEN "commit_record" ELSE "commit_next")
               /\ SaveState("validating")
      <3>1. local'[t] = [local[t] EXCEPT !.plan = Plan]
        BY <2>2, <1>p
      <3>2. local'[t].plan = Plan
        BY <3>1, <1>p, LocalUpdate
      <3>3. /\ PlanPaths(t)' = Touched
            /\ \A p \in Touched : local'[t].plan[p].items = ChangesOf(p)
        BY <3>2 DEF PlanPaths, Plan
      <3>4. \A p \in Touched : Unapplied(p, ChangesOf(p))
        BY <1>2, <1>t DEF CommitPlan, PlanFresh
      <3>5. \A p \in PlanPaths(t)' : Unapplied(p, local[t].plan[p].items)'
        BY <2>2, <3>3, <3>4 DEF SaveState, Unapplied
      <3>6. ASSUME NEW p \in Touched, NEW c \in ChangesOf(p)
            PROVE  p \in Path /\ ChangeOK(c) /\ c.path = p /\ Past(c)'
        BY <1>t, <3>6, PastStays DEF ChangesOf, TypeOK, BasesPast, ChangeOK
      <3>7. PlanPast(t)'
        BY <3>3, <3>6 DEF PlanPast, Touched, ChangesOf, TypeOK, ChangeOK
      <3>8. pc'[t] \notin {"commit_plan", "commit_verify"}
        BY <2>2, <1>p DEF Goto
      <3> QED
        BY <2>0, <3>5, <3>7, <3>8 DEF PlanFresh, At
    <2> QED
      BY <1>2, <2>1, <2>2 DEF CommitPlan
  <1>3. CASE CommitNext(t)
    <2>0. aux_applied' = aux_applied /\ AppliedPast'
      BY <1>3, <1>t, AppliedStays DEF CommitNext, SaveState
    <2>1. PICK p \in Path : \/ Finish(t)
                            \/ /\ Goto(t, "commit_apply")
                               /\ local' = [local EXCEPT ![t].base = <<file[p]>>]
      BY <1>3 DEF CommitNext
    <2>2. CASE Finish(t)
      BY <2>0, <2>2, <1>p, NoPlan DEF Finish, Committing
    <2>3. CASE Goto(t, "commit_apply") /\ local' = [local EXCEPT ![t].base = <<file[p]>>]
      <3>1. local'[t] = [local[t] EXCEPT !.base = <<file[p]>>]
        BY <2>3, <1>p
      <3>2. local'[t].plan = local[t].plan
        BY <3>1, <1>p, LocalUpdate
      <3>3. PlanPast(t) /\ \A q \in PlanPaths(t) : Unapplied(q, local[t].plan[q].items)
        BY <1>3, <1>t DEF CommitNext, PlanFresh, At
      <3>4. PlanPast(t)'
        BY <1>t, <3>2, <3>3, PastStays DEF PlanPast, PlanPaths
      <3>5. \A q \in PlanPaths(t)' : Unapplied(q, local[t].plan[q].items)'
        BY <2>0, <3>2, <3>3 DEF PlanPaths, Unapplied
      <3>6. pc'[t] = "commit_apply"
        BY <2>3, <1>p DEF Goto
      <3> QED
        BY <2>0, <3>4, <3>5, <3>6 DEF PlanFresh, At
    <2> QED
      BY <2>1, <2>2, <2>3
  <1>4. CASE CommitWrite(t)
    <2>1. PICK p \in Path :
            /\ IsNext(p, DOMAIN local[t].plan)
            /\ file' = [file EXCEPT
                          ![p] = Save(@, Rewrite(@.content, local[t].plan[p].content))]
            /\ local' = [local EXCEPT ![t].written = @ \cup {<<p, file'[p].content>>}]
            /\ Goto(t, "commit_verify")
            /\ aux_applied' = aux_applied \cup
                 {<<p, c.id, c.base.mtime>> : c \in local[t].plan[p].items}
      BY <1>4 DEF CommitWrite
    <2>2. local'[t] = [local[t] EXCEPT !.written = local[t].written \cup {<<p, file'[p].content>>}]
      BY <2>1, <1>p
    <2>3. local'[t].plan = local[t].plan
      BY <2>2, <1>p, LocalUpdate
    <2>4. PlanPast(t) /\ \A q \in PlanPaths(t) : Unapplied(q, local[t].plan[q].items)
      BY <1>4, <1>t DEF CommitWrite, PlanFresh, At
    <2>5. PlanPast(t)'
      BY <1>t, <2>3, <2>4, PastStays DEF PlanPast, PlanPaths
    <2>a. \A a : a \in aux_applied' => a \in aux_applied \/ a[1] = p
      BY <2>1
    <2>6. \A q \in PlanPaths(t)' : q = p \/ Unapplied(q, local[t].plan[q].items)'
      <3> SUFFICES ASSUME NEW q \in PlanPaths(t)', q # p
                   PROVE  Unapplied(q, local[t].plan[q].items)'
        OBVIOUS
      <3>1. q \in PlanPaths(t) /\ Unapplied(q, local[t].plan[q].items)
        BY <2>3, <2>4 DEF PlanPaths
      <3> QED
        BY <2>3, <2>a, <3>1 DEF Unapplied
    <2>7. IsNext(p, PlanPaths(t)')
      BY <2>1, <2>3 DEF PlanPaths
    <2>8. pc'[t] = "commit_verify"
      BY <2>1, <1>p DEF Goto
    <2>9. PlanFresh(t)'
      BY <2>5, <2>6, <2>7, <2>8 DEF PlanFresh, At
    <2>10. file[p].mtime \in Nat /\ file'[p].mtime = file[p].mtime + 1
      BY <1>t, <2>1 DEF TypeOK, FileOK, Save
    <2>11. ASSUME NEW a \in aux_applied
           PROVE  a[1] \in Path /\ a[3] \in Nat /\ a[3] < file'[a[1]].mtime
      BY <1>t, <2>11, FilesGrow DEF AppliedPast, TypeOK, FileOK
    <2>12. ASSUME NEW c \in local[t].plan[p].items
           PROVE  c.base.mtime \in Nat /\ c.base.mtime < file'[p].mtime
      <3>1. ChangeOK(c) /\ c.path = p /\ Past(c)
        BY <2>1, <2>4, <2>12 DEF PlanPast, PlanPaths, IsNext
      <3> QED
        BY <2>10, <3>1 DEF ChangeOK, Past
    <2>13. AppliedPast'
      BY <2>1, <2>11, <2>12 DEF AppliedPast
    <2> QED
      BY <2>9, <2>13
  <1>5. CASE CommitVerify(t)
    <2>0. aux_applied' = aux_applied /\ AppliedPast'
      BY <1>5, <1>t, AppliedStays DEF CommitVerify, SaveState
    <2>1. PICK p \in Path : LET rest == DOMAIN local[t].plan \ {p} IN
            /\ IsNext(p, DOMAIN local[t].plan)
            /\ local' = [local EXCEPT ![t].plan = [q \in rest |-> @[q]]]
            /\ Goto(t, IF rest = {} THEN "commit_record" ELSE "commit_next")
      BY <1>5 DEF CommitVerify
    <2> DEFINE rest == [q \in DOMAIN local[t].plan \ {p} |-> local[t].plan[q]]
    <2>2. local'[t] = [local[t] EXCEPT !.plan = rest]
      BY <2>1, <1>p
    <2>3. local'[t].plan = rest
      BY <2>2, <1>p, LocalUpdate
    <2>4. PlanPaths(t)' = PlanPaths(t) \ {p}
      BY <2>3 DEF PlanPaths
    <2>5. \A q \in PlanPaths(t)' : local'[t].plan[q] = local[t].plan[q]
      BY <2>3, <2>4 DEF PlanPaths
    <2>6. PlanPast(t) /\ \A q \in PlanPaths(t) :
                            IsNext(q, PlanPaths(t)) \/ Unapplied(q, local[t].plan[q].items)
      BY <1>5, <1>t DEF CommitVerify, PlanFresh, At
    <2>7. PlanPast(t)'
      BY <1>t, <2>4, <2>5, <2>6, PastStays DEF PlanPast
    <2>8. \A q \in PlanPaths(t)' : ~IsNext(q, PlanPaths(t))
      BY <2>1, <2>4, NextIsUnique DEF PlanPaths
    <2>9. \A q \in PlanPaths(t)' : Unapplied(q, local[t].plan[q].items)'
      BY <2>0, <2>4, <2>5, <2>6, <2>8 DEF Unapplied
    <2>10. pc'[t] \in {"commit_record", "commit_next"}
      BY <2>1, <1>p DEF Goto
    <2> QED
      BY <2>0, <2>7, <2>9, <2>10 DEF PlanFresh, At
  <1> QED
    BY <1>1, <1>2, <1>3, <1>4, <1>5 DEF Step

LEMMA ApplyNext ==
  ASSUME SingleHandler, ApplyInv, [Next]_vars
  PROVE  ApplyInv'
  <1>t. TypeOK /\ TypeOK' /\ BasesPast /\ AppliedPast
    BY TypeNext DEF ApplyInv
  <1>1. CASE UNCHANGED vars
    <2>1. UNCHANGED <<file, changes, aux_applied, pc, local>>
      BY <1>1 DEF vars, locals
    <2>2. BasesPast' /\ AppliedPast'
      BY <1>t, <2>1 DEF BasesPast, Past, AppliedPast
    <2>3. ASSUME NEW t \in Thread
          PROVE  PlanFresh(t)'
      <3>1. /\ PlanPast(t)' = PlanPast(t) /\ PlanPaths(t)' = PlanPaths(t) /\ Touched' = Touched
            /\ \A p \in Touched : ChangesOf(p)' = ChangesOf(p)
            /\ \A q, S : Unapplied(q, S)' = Unapplied(q, S)
        BY <2>1 DEF PlanPast, PlanPaths, Past, Touched, ChangesOf, Unapplied
      <3>2. PlanFresh(t) /\ pc'[t] = pc[t] /\ local'[t] = local[t]
        BY <2>1 DEF ApplyInv
      <3>3. \A p \in PlanPaths(t) :
              Unapplied(p, local[t].plan[p].items)' = Unapplied(p, local[t].plan[p].items)
        BY <2>1 DEF Unapplied
      <3>4. \A p \in Touched : Unapplied(p, ChangesOf(p))' = Unapplied(p, ChangesOf(p))
        BY <3>1
      <3> QED
        BY <3>1, <3>2, <3>3, <3>4 DEF PlanFresh, At
    <2> QED
      BY <1>t, <2>2, <2>3 DEF ApplyInv
  <1>2. ASSUME NEW t \in Thread, Request(t)
        PROVE  ApplyInv'
    BY <1>2, RequestFresh
  <1>3. ASSUME NEW t \in Thread, Step(t)
        PROVE  ApplyInv'
    <2>1. AppliedPast' /\ PlanFresh(t)'
      BY <1>3, StepFresh
    <2>2. /\ \A c \in changes' : ChangeOK(c) /\ Past(c)
          /\ \A c \in local'[t].entries : ChangeOK(c) /\ Past(c)
      BY <1>3, <1>t, StepPast
    <2>3. /\ \A c \in changes' : Past(c)'
          /\ \A c \in local'[t].entries : Past(c)'
      BY <1>t, <2>2, PastStays
    <2> QED
      BY <1>t, <2>1, <2>3 DEF ApplyInv, BasesPast, SingleHandler
  <1>4. CASE OutsideEdit
    <2>1. UNCHANGED <<changes, aux_applied, pc, local>>
      BY <1>4 DEF OutsideEdit, locals
    <2>2. AppliedPast'
      BY <1>t, <2>1, AppliedStays
    <2>3. BasesPast'
      BY <1>t, <2>1, PastStays DEF BasesPast, TypeOK, LocalOK
    <2>4. ASSUME NEW t \in Thread
          PROVE  PlanFresh(t)'
      <3>1. PlanPast(t) => PlanPast(t)'
        BY <1>t, <2>1, PastStays DEF PlanPast, PlanPaths
      <3>2. PlanFresh(t)
        BY DEF ApplyInv
      <3> QED
        BY <2>1, <3>1, <3>2 DEF PlanFresh, PlanPaths, Unapplied, Touched, ChangesOf, At
    <2> QED
      BY <1>t, <2>2, <2>3, <2>4 DEF ApplyInv
  <1>5. CASE Crash
    <2>1. /\ UNCHANGED <<file, changes, aux_applied>>
          /\ \A t \in Thread : pc'[t] = "idle" /\ local'[t].entries = {}
      BY <1>5 DEF Crash, Blank
    <2>2. AppliedPast'
      BY <1>t, <2>1, AppliedStays
    <2>3. BasesPast'
      BY <2>1, <1>t DEF BasesPast, Past
    <2>4. \A t \in Thread : PlanFresh(t)'
      BY <2>1 DEF PlanFresh, At
    <2> QED
      BY <1>t, <2>2, <2>3, <2>4 DEF ApplyInv
  <1> QED
    BY <1>1, <1>2, <1>3, <1>4, <1>5 DEF Next

\* AppliedOncePerBase, as long as requests are served one at a time: however many
\* commits failed, whatever crashed and whoever edited, a file's changes are written
\* again only under a new base.
THEOREM AppliedOnce ==
  ASSUME SingleHandler
  PROVE  Spec => AppliedOncePerBase
  <1> DEFINE Fresh ==
        \A t \in Thread, p \in Path : Writes(t, p) =>
          LET c == FirstOf(local[t].plan[p].items)
          IN  c.base.mtime # 0 => <<p, c.id, c.base.mtime>> \notin aux_applied
  <1>1. Init => ApplyInv
    <2> SUFFICES ASSUME Init PROVE ApplyInv
      OBVIOUS
    <2>1. \A t \in Thread : PlanFresh(t)
      BY DEF Init, PlanFresh, At
    <2>2. BasesPast /\ AppliedPast
      BY DEF Init, BasesPast, AppliedPast, Blank
    <2> QED
      BY <2>1, <2>2, TypeInit DEF ApplyInv
  <1>2. ApplyInv => Fresh
    BY DEF ApplyInv, PlanFresh, Writes, Unapplied, PlanPaths, IsNext, At
  <1>3. ApplyInv /\ [Next]_vars => [Fresh]_vars
    BY <1>2
  <1> QED
    BY <1>1, <1>3, ApplyNext, PTL DEF Spec, AppliedOncePerBase

(***************************************************************************)
(* What a commit is about to write was computed from the version of the    *)
(* file that its gate compared with the first change's base, for as long   *)
(* as the file stays what the commit came upon.                            *)
(***************************************************************************)
Writing == {"commit_next", "commit_apply", "commit_verify"}

FoundChanges(t, p) == {c \in aux_found[t].changes : c.path = p}

\* If f is the version of p that the request came upon, with the changes it came upon,
\* then the first of them is based on f and the plan was made from f.
MadeOf(t, p, f) ==
  /\ f.mtime = aux_found[t].version[p]
  /\ local[t].plan[p].items = FoundChanges(t, p)
  => /\ FirstOf(local[t].plan[p].items).base = FingerprintOf(f)
     /\ local[t].plan[p].content \in Applied(local[t].plan[p].items, f.content)

NoneNewer(t) == \A p \in Path : /\ aux_found[t].version[p] \in Nat
                                /\ aux_found[t].version[p] <= file[p].mtime

\* The gate found every file clean that is still what the request came upon.
GatePassed(t) ==
  \A p \in Path :
    file[p].mtime = aux_found[t].version[p] /\ FoundChanges(t, p) # {}
      => FirstOf(FoundChanges(t, p)).base = Fingerprint(p)

PlanStands(t) ==
  /\ At(t, "commit_plan") => NoneNewer(t) /\ GatePassed(t)
  /\ pc[t] \in Writing => /\ NoneNewer(t)
                          /\ \A p \in PlanPaths(t) : p \in Path /\ MadeOf(t, p, file[p])
  /\ At(t, "commit_apply") =>
       \A p \in PlanPaths(t) : IsNext(p, PlanPaths(t)) => MadeOf(t, p, local[t].base[1])

PlanInv == TypeOK /\ \A t \in Thread : PlanStands(t)

\* A plan that can be built holds an outcome of the changes to every file.
LEMMA PlanIsCurrent ==
  ASSUME PlanBuilds, NEW p \in Touched
  PROVE  /\ p \in DOMAIN Plan
         /\ Plan[p].items = ChangesOf(p)
         /\ Plan[p].content = CHOOSE d \in Planned(p) : TRUE
         /\ Plan[p].content \in Applied(ChangesOf(p), file[p].content)
  <1>1. /\ p \in DOMAIN Plan
        /\ Plan[p] = [items |-> ChangesOf(p), content |-> CHOOSE d \in Planned(p) : TRUE]
    BY DEF Plan
  <1>2. Planned(p) # {}
    BY DEF PlanBuilds
  <1>3. (CHOOSE d \in Planned(p) : TRUE) \in Planned(p)
    BY <1>2
  <1> QED
    BY <1>1, <1>3 DEF Planned

\* What the steps of a commit do to the plan
LEMMA CommitSteps ==
  ASSUME TypeOK, NEW t \in Thread, pc'[t] \in Writing, Step(t)
  PROVE  /\ seen' = seen /\ aux_found' = aux_found
         /\ changes' = changes /\ aux_previewed' = aux_previewed
         /\ \/ /\ At(t, "commit_plan") /\ pc'[t] = "commit_next" /\ PlanBuilds
               /\ local'[t].plan = Plan /\ file' = file
            \/ /\ At(t, "commit_next") /\ pc'[t] = "commit_apply"
               /\ local'[t].plan = local[t].plan /\ file' = file
               /\ \E p \in Path : IsNext(p, PlanPaths(t)) /\ local'[t].base = <<file[p]>>
            \/ /\ At(t, "commit_apply") /\ pc'[t] = "commit_verify"
               /\ local'[t].plan = local[t].plan
               /\ \E p \in Path :
                    /\ IsNext(p, PlanPaths(t))
                    /\ SameText(file[p], local[t].base[1])
                    /\ file'[p].content = Rewrite(file[p].content, local[t].plan[p].content)
                    /\ \A q \in Path \ {p} : file'[q] = file[q]
            \/ /\ At(t, "commit_verify") /\ pc'[t] = "commit_next" /\ file' = file
               /\ \E p \in Path :
                    /\ IsNext(p, PlanPaths(t))
                    /\ local'[t].plan = [q \in PlanPaths(t) \ {p} |-> local[t].plan[q]]
  <1>t. /\ pc \in [Thread -> Labels] /\ local = [u \in Thread |-> local[u]]
        /\ LocalOK(local[t]) /\ file = [p \in Path |-> file[p]]
    BY DEF TypeOK
  <1>1. CASE \/ BeginSave(t) \/ AdapterStage(t) \/ StageWrite(t) \/ StageSave(t)
             \/ DropRemove(t) \/ DropSave(t) \/ RebaseEntry(t) \/ RebaseSave(t)
             \/ PreviewPlan(t) \/ PreviewSave(t) \/ CommitMismatch(t) \/ CommitClose(t)
             \/ CommitRecord(t)
    BY <1>1, <1>t
    DEF BeginSave, AdapterStage, StageWrite, StageSave, DropRemove, DropSave,
        RebaseEntry, RebaseSave, PreviewPlan, PreviewSave, CommitMismatch, CommitClose,
        CommitRecord, Stages, Start, Finish, Goto, Writing
  <1>2. CASE CommitPlan(t)
    <2>1. /\ PlanBuilds /\ local' = [local EXCEPT ![t].plan = Plan]
          /\ Goto(t, IF Touched = {} THEN "commit_record" ELSE "commit_next")
          /\ SaveState("validating")
      BY <1>2, <1>t DEF CommitPlan, Finish, Writing
    <2>2. local'[t] = [local[t] EXCEPT !.plan = Plan]
      BY <2>1, <1>t
    <2>3. local'[t].plan = Plan
      BY <2>2, <1>t, LocalUpdate
    <2> QED
      BY <2>1, <2>3, <1>2, <1>t DEF CommitPlan, Goto, SaveState, Writing
  <1>3. CASE CommitNext(t)
    <2>1. PICK p \in Path : /\ IsNext(p, PlanPaths(t)) /\ Goto(t, "commit_apply")
                            /\ local' = [local EXCEPT ![t].base = <<file[p]>>]
      BY <1>3, <1>t DEF CommitNext, Finish, PlanPaths, Writing
    <2>2. local'[t] = [local[t] EXCEPT !.base = <<file[p]>>]
      BY <2>1, <1>t
    <2>3. local'[t].plan = local[t].plan /\ local'[t].base = <<file[p]>>
      BY <2>2, <1>t, LocalUpdate
    <2> QED
      BY <2>1, <2>3, <1>3, <1>t DEF CommitNext, Goto, SaveState, Writing
  <1>4. CASE CommitWrite(t)
    <2>1. PICK p \in Path :
            /\ IsNext(p, DOMAIN local[t].plan)
            /\ SameText(file[p], local[t].base[1])
            /\ file' = [file EXCEPT
                          ![p] = Save(@, Rewrite(@.content, local[t].plan[p].content))]
            /\ local' = [local EXCEPT ![t].written = @ \cup {<<p, file'[p].content>>}]
            /\ Goto(t, "commit_verify")
      BY <1>4 DEF CommitWrite
    <2>2. local'[t] = [local[t] EXCEPT
                         !.written = local[t].written \cup {<<p, file'[p].content>>}]
      BY <2>1, <1>t
    <2>3. local'[t].plan = local[t].plan
      BY <2>2, <1>t, LocalUpdate
    <2>4. file'[p] = Save(file[p], Rewrite(file[p].content, local[t].plan[p].content))
      BY <2>1, <1>t
    <2>5. file'[p].content = Rewrite(file[p].content, local[t].plan[p].content)
      BY <2>4 DEF Save
    <2>6. \A q \in Path \ {p} : file'[q] = file[q]
      BY <2>1, <1>t
    <2> QED
      BY <2>1, <2>3, <2>5, <2>6, <1>4, <1>t DEF CommitWrite, Goto, PlanPaths
  <1>5. CASE CommitVerify(t)
    <2>1. PICK p \in Path :
            /\ IsNext(p, DOMAIN local[t].plan)
            /\ local' = [local EXCEPT ![t].plan = [q \in DOMAIN local[t].plan \ {p} |-> @[q]]]
            /\ Goto(t, IF DOMAIN local[t].plan \ {p} = {} THEN "commit_record"
                                                         ELSE "commit_next")
      BY <1>5 DEF CommitVerify
    <2> DEFINE rest == [q \in DOMAIN local[t].plan \ {p} |-> local[t].plan[q]]
    <2>2. local'[t] = [local[t] EXCEPT !.plan = rest]
      BY <2>1, <1>t
    <2>3. local'[t].plan = rest
      BY <2>2, <1>t, LocalUpdate
    <2> QED
      BY <2>1, <2>3, <1>5, <1>t DEF CommitVerify, Goto, SaveState, PlanPaths, Writing
  <1> QED
    BY <1>1, <1>2, <1>3, <1>4, <1>5 DEF Step

\* What the other handlers do leaves a request alone.
LEMMA OthersApart ==
  ASSUME TypeOK, NEW t \in Thread, NEW u \in Thread \ {t}, Request(u) \/ Step(u)
  PROVE  pc'[t] = pc[t] /\ aux_found'[t] = aux_found[t] /\ local'[t] = local[t]
  <1>t. /\ pc \in [Thread -> Labels] /\ local = [v \in Thread |-> local[v]]
        /\ aux_found = [v \in Thread |-> aux_found[v]]
    BY DEF TypeOK
  <1>1. CASE Request(u)
    BY <1>1, <1>t
    DEF Request, Begin, EditStage, Stages, AdapterRead, Drop, Abort, Rebase, Preview, Commit,
        Start, Goto, locals
  <1>2. CASE Step(u)
    <2>1. CASE \/ BeginSave(u) \/ AdapterStage(u) \/ StageWrite(u) \/ StageSave(u)
               \/ DropRemove(u) \/ DropSave(u) \/ RebaseEntry(u) \/ RebaseSave(u)
               \/ PreviewPlan(u) \/ PreviewSave(u)
      BY <2>1, <1>t
      DEF BeginSave, AdapterStage, StageWrite, StageSave, DropRemove, DropSave, RebaseEntry,
          RebaseSave, PreviewPlan, PreviewSave, Stages, Start, Finish, Goto
    <2>2. CASE \/ CommitPlan(u) \/ CommitNext(u) \/ CommitWrite(u) \/ CommitMismatch(u)
               \/ CommitVerify(u) \/ CommitRecord(u) \/ CommitClose(u)
      BY <2>2, <1>t
      DEF CommitPlan, CommitNext, CommitWrite, CommitMismatch, CommitVerify, CommitRecord,
          CommitClose, Finish, Goto
    <2> QED
      BY <1>2, <2>1, <2>2 DEF Step
  <1> QED
    BY <1>1, <1>2

\* Files grow newer, so what holds of the versions a request came upon goes on holding.
LEMMA StandsOn ==
  ASSUME TypeOK, [Next]_vars, NEW t \in Thread, NoneNewer(t), aux_found'[t] = aux_found[t]
  PROVE  /\ NoneNewer(t)'
         /\ \A p \in Path : file'[p].mtime = aux_found[t].version[p] => file'[p] = file[p]
  <1>1. \A p \in Path : /\ file[p].mtime \in Nat /\ file'[p].mtime \in Nat
                        /\ file[p].mtime <= file'[p].mtime
                        /\ file'[p] = file[p] \/ file[p].mtime < file'[p].mtime
    BY FilesGrow DEF TypeOK, FileOK
  <1> QED
    BY <1>1 DEF NoneNewer

LEMMA OtherStands ==
  ASSUME TypeOK, [Next]_vars, NEW t \in Thread, PlanStands(t),
         pc'[t] = pc[t], aux_found'[t] = aux_found[t], local'[t] = local[t]
  PROVE  PlanStands(t)'
  <1>1. CASE pc[t] \notin {"commit_plan"} \cup Writing
    BY <1>1 DEF PlanStands, At, Writing
  <1>2. CASE pc[t] \in {"commit_plan"} \cup Writing
    <2>1. NoneNewer(t)
      BY <1>2 DEF PlanStands, At
    <2>2. /\ NoneNewer(t)'
          /\ \A p \in Path : file'[p].mtime = aux_found[t].version[p] => file'[p] = file[p]
      BY <2>1, StandsOn
    <2>3. GatePassed(t) => GatePassed(t)'
      BY <2>2 DEF GatePassed, FoundChanges, Fingerprint
    <2>4. \A p \in Path : MadeOf(t, p, file[p]) => MadeOf(t, p, file[p])'
      BY <2>2 DEF MadeOf, FoundChanges
    <2>5. PlanPaths(t)' = PlanPaths(t)
      BY DEF PlanPaths
    <2>6. \A p : MadeOf(t, p, local[t].base[1]) => MadeOf(t, p, local[t].base[1])'
      BY DEF MadeOf, FoundChanges
    <2> QED
      BY <2>2, <2>3, <2>4, <2>5, <2>6 DEF PlanStands, At
  <1> QED
    BY <1>1, <1>2

LEMMA StepStands ==
  ASSUME TypeOK, [Next]_vars, NEW t \in Thread, PlanStands(t), Step(t)
  PROVE  PlanStands(t)'
  <1> SUFFICES ASSUME pc'[t] \in {"commit_plan"} \cup Writing
               PROVE  PlanStands(t)'
    BY DEF PlanStands, At, Writing
  <1>t. /\ pc \in [Thread -> Labels] /\ local = [u \in Thread |-> local[u]]
        /\ LocalOK(local[t])
    BY DEF TypeOK
  <1>1. pc'[t] \in Writing
    BY <1>t
    DEF Step, BeginSave, AdapterStage, StageWrite, StageSave, DropRemove, DropSave, RebaseEntry,
        RebaseSave, PreviewPlan, PreviewSave, CommitPlan, CommitNext, CommitWrite,
        CommitMismatch, CommitVerify, CommitRecord, CommitClose, Stages, Start, Finish, Goto,
        Writing
  <1>2. /\ aux_found' = aux_found
        /\ pc[t] \in {"commit_plan"} \cup Writing
    BY <1>1, CommitSteps DEF At, Writing
  <1>3. NoneNewer(t)
    BY <1>2 DEF PlanStands, At
  <1>4. /\ NoneNewer(t)'
        /\ \A p \in Path : file'[p].mtime = aux_found[t].version[p] => file'[p] = file[p]
    BY <1>2, <1>3, StandsOn
  <1>5. CASE /\ At(t, "commit_plan") /\ pc'[t] = "commit_next" /\ PlanBuilds
             /\ local'[t].plan = Plan /\ file' = file
    <2>1. ASSUME NEW p \in PlanPaths(t)'
          PROVE  p \in Path /\ MadeOf(t, p, file[p])'
      <3>1. p \in Touched /\ p \in Path
        BY <1>5, <2>1 DEF PlanPaths, Plan, Touched, TypeOK, ChangeOK
      <3>2. /\ local'[t].plan[p].items = ChangesOf(p) /\ ChangesOf(p) # {}
            /\ local'[t].plan[p].content \in Applied(ChangesOf(p), file[p].content)
        BY <1>5, <3>1, PlanIsCurrent DEF Touched, ChangesOf
      <3>3. ChangesOf(p) = FoundChanges(t, p) /\ file[p].mtime = aux_found[t].version[p]
              => FirstOf(ChangesOf(p)).base = FingerprintOf(file[p])
        BY <1>5, <3>1, <3>2 DEF PlanStands, GatePassed, Fingerprint
      <3> QED
        BY <1>2, <1>5, <3>1, <3>2, <3>3 DEF MadeOf, FoundChanges
    <2> QED
      BY <1>4, <1>5, <2>1 DEF PlanStands, At
  <1>6. CASE /\ At(t, "commit_next") /\ pc'[t] = "commit_apply"
             /\ local'[t].plan = local[t].plan /\ file' = file
             /\ \E p \in Path : IsNext(p, PlanPaths(t)) /\ local'[t].base = <<file[p]>>
    <2>1. PICK q \in Path : IsNext(q, PlanPaths(t)) /\ local'[t].base = <<file[q]>>
      BY <1>6
    <2>2. PlanPaths(t)' = PlanPaths(t)
      BY <1>6 DEF PlanPaths
    <2>3. \A p \in PlanPaths(t) : p \in Path /\ MadeOf(t, p, file[p])
      BY <1>6 DEF PlanStands, Writing, At
    <2>4. \A p \in PlanPaths(t) : p \in Path /\ MadeOf(t, p, file[p])'
      BY <1>2, <1>6, <2>3 DEF MadeOf, FoundChanges
    <2>5. ASSUME NEW p \in PlanPaths(t), IsNext(p, PlanPaths(t))
          PROVE  MadeOf(t, p, local[t].base[1])'
      <3>1. p = q
        BY <2>1, <2>5, NextIsUnique
      <3>2. local'[t].base[1] = file'[p]
        BY <1>6, <2>1, <3>1
      <3> QED
        BY <2>4, <3>2 DEF MadeOf
    <2> QED
      BY <1>4, <1>6, <2>2, <2>4, <2>5 DEF PlanStands, At
  <1>7. CASE /\ At(t, "commit_apply") /\ pc'[t] = "commit_verify"
             /\ local'[t].plan = local[t].plan
    <2>1. \A p \in PlanPaths(t) : p \in Path /\ MadeOf(t, p, file[p])
      BY <1>7 DEF PlanStands, Writing, At
    <2>2. \A p \in PlanPaths(t) : p \in Path /\ MadeOf(t, p, file[p])'
      BY <1>2, <1>4, <1>7, <2>1 DEF MadeOf, FoundChanges
    <2> QED
      BY <1>4, <1>7, <2>2 DEF PlanStands, PlanPaths, At
  <1>8. CASE /\ At(t, "commit_verify") /\ pc'[t] = "commit_next" /\ file' = file
             /\ \E p \in Path :
                  local'[t].plan = [q \in PlanPaths(t) \ {p} |-> local[t].plan[q]]
    <2>1. PICK q \in Path : local'[t].plan = [r \in PlanPaths(t) \ {q} |-> local[t].plan[r]]
      BY <1>8
    <2>2. ASSUME NEW p \in PlanPaths(t)'
          PROVE  p \in Path /\ MadeOf(t, p, file[p])'
      <3>1. p \in PlanPaths(t) /\ local'[t].plan[p] = local[t].plan[p]
        BY <2>1, <2>2 DEF PlanPaths
      <3>2. p \in Path /\ MadeOf(t, p, file[p])
        BY <1>8, <3>1 DEF PlanStands, Writing, At
      <3> QED
        BY <1>2, <1>8, <3>1, <3>2 DEF MadeOf, FoundChanges
    <2> QED
      BY <1>4, <1>8, <2>2 DEF PlanStands, At
  <1> QED
    BY <1>1, <1>5, <1>6, <1>7, <1>8, CommitSteps

\* A commit that comes in finds the files as they are, and those with changes clean.
LEMMA RequestStands ==
  ASSUME TypeOK, NEW t \in Thread, Request(t)
  PROVE  PlanStands(t)'
  <1>1. CASE pc'[t] \notin Committing
    BY <1>1 DEF PlanStands, At, Committing, Writing
  <1>2. CASE Commit(t) /\ pc'[t] = "commit_plan"
    <2>1. /\ aux_found' = [aux_found EXCEPT
                             ![t] = [version |-> [p \in Path |-> file[p].mtime],
                                     changes |-> changes]]
          /\ \A p \in Touched : Clean(p)
          /\ file' = file
      BY <1>2 DEF Commit, Passes, Start, globals
    <2>2. aux_found'[t] = [version |-> [p \in Path |-> file[p].mtime], changes |-> changes]
      BY <2>1 DEF TypeOK
    <2>3. NoneNewer(t)'
      BY <2>1, <2>2 DEF NoneNewer, TypeOK, FileOK
    <2>4. \A p : FoundChanges(t, p)' = ChangesOf(p)
      BY <2>2 DEF FoundChanges, ChangesOf
    <2>5. ASSUME NEW p \in Path, FoundChanges(t, p)' # {}
          PROVE  FirstOf(FoundChanges(t, p)').base = Fingerprint(p)'
      <3>1. p \in Touched
        BY <2>4, <2>5 DEF Touched, ChangesOf
      <3>2. FirstOf(ChangesOf(p)).base = Fingerprint(p)
        BY <2>1, <3>1 DEF Clean
      <3>3. Fingerprint(p)' = Fingerprint(p)
        BY <2>1 DEF Fingerprint
      <3> QED
        BY <2>4, <3>2, <3>3
    <2>6. GatePassed(t)'
      BY <2>5 DEF GatePassed
    <2> QED
      BY <1>2, <2>3, <2>6 DEF PlanStands, At, Writing
  <1> QED
    BY <1>1, <1>2, RequestIsQuiet

LEMMA PlanNext == PlanInv /\ [Next]_vars => PlanInv'
  <1> SUFFICES ASSUME PlanInv, [Next]_vars, NEW t \in Thread
               PROVE  PlanStands(t)'
    BY TypeNext DEF PlanInv
  <1>t. TypeOK /\ PlanStands(t)
    BY DEF PlanInv
  <1>1. ASSUME NEW u \in Thread, Request(u)
        PROVE  PlanStands(t)'
    BY <1>1, <1>t, RequestStands, OthersApart, OtherStands
  <1>2. ASSUME NEW u \in Thread, Step(u)
        PROVE  PlanStands(t)'
    BY <1>2, <1>t, StepStands, OthersApart, OtherStands
  <1>3. CASE OutsideEdit \/ UNCHANGED vars
    BY <1>3, <1>t, OtherStands DEF OutsideEdit, locals, vars
  <1>4. CASE Crash
    BY <1>4 DEF Crash, PlanStands, At, Writing
  <1> QED
    BY <1>1, <1>2, <1>3, <1>4 DEF Next

\* Whoever edits, and however many handlers serve the session: a commit is made from the
\* version of the file that its changes are based on and that it replaces, unless the file
\* or its changes were altered between the commit's gate and its patch_preview.
THEOREM EarlierEditsAreKept == Spec => EarlierEditsSurvive
  <1> DEFINE Survive ==
        \A t \in Thread, p \in Path : Writes(t, p) =>
          LET read  == local[t].base[1]
              items == local[t].plan[p].items
          IN  \/ read.mtime # aux_found[t].version[p]
              \/ items # {c \in aux_found[t].changes : c.path = p}
              \/ /\ FirstOf(items).base = FingerprintOf(read)
                 /\ SameText(file[p], read)
                 /\ \E d \in Applied(items, read.content) :
                      file'[p].content = Rewrite(file[p].content, d)
  <1>1. Init => PlanInv
    BY TypeInit DEF Init, PlanInv, PlanStands, At, Writing
  <1>2. ASSUME PlanInv, Next, NEW t \in Thread, NEW p \in Path, Writes(t, p),
               local[t].base[1].mtime = aux_found[t].version[p],
               local[t].plan[p].items = {c \in aux_found[t].changes : c.path = p}
        PROVE  /\ FirstOf(local[t].plan[p].items).base = FingerprintOf(local[t].base[1])
               /\ SameText(file[p], local[t].base[1])
               /\ \E d \in Applied(local[t].plan[p].items, local[t].base[1].content) :
                    file'[p].content = Rewrite(file[p].content, d)
    <2>t. TypeOK /\ PlanStands(t)
      BY <1>2 DEF PlanInv
    <2>1. Step(t)
      <3>1. ~OutsideEdit /\ ~Crash
        BY <1>2 DEF Writes, OutsideEdit, Crash, locals, At
      <3>2. ~Request(t)
        BY <1>2, <2>t, RequestIsQuiet DEF Writes, Committing
      <3>3. \A u \in Thread \ {t} : ~(Request(u) \/ Step(u))
        BY <1>2, <2>t, OthersApart DEF Writes, At
      <3> QED
        BY <1>2, <3>1, <3>2, <3>3 DEF Next
    <2>2. PICK q \in Path :
            /\ IsNext(q, PlanPaths(t))
            /\ SameText(file[q], local[t].base[1])
            /\ file'[q].content = Rewrite(file[q].content, local[t].plan[q].content)
      BY <1>2, <2>t, <2>1, CommitSteps DEF Writes, Writing, At
    <2>3. q = p /\ p \in PlanPaths(t)
      BY <1>2, <2>2, NextIsUnique DEF Writes, PlanPaths, IsNext
    <2>4. MadeOf(t, p, local[t].base[1])
      BY <1>2, <2>t, <2>2, <2>3 DEF PlanStands, Writes
    <2> QED
      BY <1>2, <2>2, <2>3, <2>4 DEF MadeOf, FoundChanges
  <1>3. PlanInv /\ [Next]_vars => [Survive]_vars
    BY <1>2
  <1> QED
    BY <1>1, <1>3, PlanNext, PTL DEF Spec, EarlierEditsSurvive

(***************************************************************************)
(* The state tells whether anything is staged, as long as the daemon does  *)
(* not die between a change's file and session.json.                       *)
(***************************************************************************)
Matches == /\ state \in {"none", "created"} => changes = {}
           /\ state \in {"staged", "previewed"} => changes # {}

\* Between its two writes a request may leave the state behind the changes.
Unsettled == {"stage_save", "drop_remove", "drop_save"}

\* What a handler knows of the session it is working on
KnowsState(t) ==
  /\ At(t, "begin_save") => state = "none"
  /\ At(t, "stage_write") => local[t].entries # {}
  /\ pc[t] \in {"stage_save", "rebase_entry", "rebase_save"} => changes # {}
  /\ pc[t] \in {"preview_plan", "preview_save", "commit_plan", "rebase_keep"} =>
       seen[t] = state
  /\ At(t, "preview_save") => DOMAIN local[t].plan = Touched

MatchInv ==
  /\ TypeOK
  /\ (\A t \in Thread : pc[t] \notin Unsettled) => Matches
  /\ \A t \in Thread : KnowsState(t)

LEMMA RequestMatches ==
  ASSUME SingleHandler, MatchInv, NEW t \in Thread, Request(t)
  PROVE  KnowsState(t)' /\ (pc'[t] \notin Unsettled => Matches')
  <1>t. /\ TypeOK /\ pc \in [Thread -> Labels] /\ seen = [u \in Thread |-> seen[u]]
        /\ KnowsState(t)
    BY DEF MatchInv, TypeOK
  <1>m. At(t, "idle") => Matches
    BY DEF MatchInv, SingleHandler, At, Unsettled
  <1>s. ASSUME NEW l, NEW S, Start(t, l, S)
        PROVE  pc'[t] = l /\ seen'[t] = state /\ local'[t].entries = S
    BY <1>s, <1>t, StartEntries DEF Start
  <1>1. CASE Begin(t)
    BY <1>1, <1>m, <1>s DEF Begin, globals, KnowsState, At, Matches
  <1>2. CASE EditStage(t)
    <2>1. PICK e, p, own : Stages(t, e, p, own)
      BY <1>2 DEF EditStage
    <2> QED
      BY <1>2, <2>1, <1>m, <1>s DEF EditStage, Stages, KnowsState, At, Matches
  <1>3. CASE AdapterRead(t)
    <2>1. At(t, "idle") /\ pc'[t] = "adapter_stage" /\ UNCHANGED globals
      BY <1>3, <1>t DEF AdapterRead, Goto
    <2> QED
      BY <2>1, <1>m DEF globals, KnowsState, At, Matches
  <1>4. CASE Drop(t)
    <2>1. pc'[t] = "drop_remove"
      BY <1>4, <1>s DEF Drop
    <2> QED
      BY <2>1 DEF KnowsState, At, Unsettled
  <1>5. CASE Abort(t)
    BY <1>5 DEF Abort, SaveState, locals, KnowsState, At, Matches
  <1>6. CASE Rebase(t)
    <2> DEFINE S == {c \in changes : RebaseRequired(c.path)}
    <2>1. Start(t, IF S = {} THEN "rebase_keep" ELSE "rebase_entry", S)
      BY <1>6 DEF Rebase
    <2> QED
      BY <1>6, <2>1, <1>m, <1>s DEF Rebase, globals, KnowsState, At, Matches
  <1>7. CASE Preview(t) \/ Commit(t)
    BY <1>7, <1>m, <1>s DEF Preview, Commit, globals, KnowsState, At, Matches
  <1> QED
    BY <1>1, <1>2, <1>3, <1>4, <1>5, <1>6, <1>7 DEF Request

LEMMA StepMatches ==
  ASSUME SingleHandler, MatchInv, NEW t \in Thread, Step(t)
  PROVE  KnowsState(t)' /\ (pc'[t] \notin Unsettled => Matches')
  <1>t. /\ TypeOK /\ pc \in [Thread -> Labels] /\ seen = [u \in Thread |-> seen[u]]
        /\ local = [u \in Thread |-> local[u]] /\ LocalOK(local[t]) /\ KnowsState(t)
    BY DEF MatchInv, TypeOK
  <1>m. pc[t] \notin Unsettled => Matches
    BY DEF MatchInv, SingleHandler
  <1>f. Finish(t) => KnowsState(t)' /\ pc'[t] = "idle"
    BY <1>t DEF Finish, KnowsState, At
  <1>1. CASE BeginSave(t)
    BY <1>1, <1>t, <1>m, <1>f DEF BeginSave, SaveState, KnowsState, At, Matches, Unsettled
  <1>2. CASE AdapterStage(t)
    <2>1. CASE Finish(t) /\ UNCHANGED globals
      BY <1>2, <2>1, <1>m, <1>f DEF AdapterStage, globals, At, Matches, Unsettled
    <2>2. CASE Active /\ \E e, p, own : Stages(t, e, p, own)
      <3>1. PICK e, p, own : Stages(t, e, p, own)
        BY <2>2
      <3>2. pc'[t] = "stage_write" /\ local'[t].entries = {NewChange(e, p, own)}
        BY <3>1, <1>t, StartEntries DEF Stages, Start
      <3> QED
        BY <1>2, <3>1, <3>2, <1>m DEF AdapterStage, Stages, KnowsState, At, Matches, Unsettled
    <2> QED
      BY <1>2, <2>1, <2>2 DEF AdapterStage
  <1>3. CASE StageWrite(t)
    <2>1. changes' # {} /\ pc'[t] = "stage_save"
      BY <1>3, <1>t DEF StageWrite, Goto, KnowsState
    <2> QED
      BY <2>1 DEF KnowsState, At, Unsettled
  <1>4. CASE StageSave(t) \/ DropSave(t)
    BY <1>4, <1>t, <1>f DEF StageSave, DropSave, SaveState, KnowsState, At, Matches
  <1>5. CASE DropRemove(t)
    <2>1. pc'[t] \in {"drop_save", "drop_remove"}
      BY <1>5, <1>t DEF DropRemove, Goto
    <2> QED
      BY <2>1 DEF KnowsState, At, Unsettled
  <1>6. CASE RebaseEntry(t)
    <2>1. pc'[t] \in {"rebase_save", "rebase_entry"} /\ changes' # {} /\ state' = state
      BY <1>6, <1>t DEF RebaseEntry, Goto
    <2>2. changes # {} /\ Matches
      BY <1>6, <1>t, <1>m DEF RebaseEntry, KnowsState, At, Unsettled
    <2> QED
      BY <2>1, <2>2 DEF KnowsState, At, Matches
  <1>7. CASE RebaseSave(t)
    BY <1>7, <1>t, <1>m, <1>f DEF RebaseSave, SaveState, KnowsState, At, Matches, Unsettled
  <1>8. CASE PreviewPlan(t)
    <2>1. CASE Finish(t)
      BY <1>8, <2>1, <1>m, <1>f DEF PreviewPlan, globals, At, Matches, Unsettled
    <2>2. CASE Goto(t, "preview_save") /\ local' = [local EXCEPT ![t].plan = Plan]
      <3>1. local'[t] = [local[t] EXCEPT !.plan = Plan]
        BY <2>2, <1>t
      <3>2. local'[t].plan = Plan
        BY <3>1, <1>t, LocalUpdate
      <3>3. DOMAIN local'[t].plan = Touched'
        BY <3>2, <1>8 DEF PreviewPlan, globals, Plan, Touched
      <3>4. pc'[t] = "preview_save" /\ seen'[t] = seen[t]
        BY <2>2, <1>t DEF Goto
      <3> QED
        BY <1>8, <3>3, <3>4, <1>t, <1>m
        DEF PreviewPlan, globals, KnowsState, At, Matches, Unsettled
    <2> QED
      BY <1>8, <2>1, <2>2 DEF PreviewPlan
  <1>9. CASE PreviewSave(t)
    <2>1. DOMAIN local[t].plan = Touched /\ seen[t] = state /\ Matches
      BY <1>9, <1>t, <1>m DEF PreviewSave, KnowsState, At, Unsettled
    <2>2. state' = IF Touched = {} THEN state ELSE "previewed"
      BY <1>9, <2>1 DEF PreviewSave
    <2>3. Touched # {} => changes # {}
      BY DEF Touched
    <2> QED
      BY <1>9, <2>1, <2>2, <2>3, <1>f DEF PreviewSave, Matches
  <1>10. CASE CommitPlan(t)
    <2>1. CASE Finish(t) /\ UNCHANGED globals
      BY <1>10, <2>1, <1>m, <1>f DEF CommitPlan, globals, At, Matches, Unsettled
    <2>2. CASE /\ Goto(t, IF Touched = {} THEN "commit_record" ELSE "commit_next")
               /\ SaveState("validating")
      <3>1. pc'[t] \in {"commit_record", "commit_next"}
        BY <2>2, <1>t DEF Goto
      <3> QED
        BY <2>2, <3>1 DEF SaveState, KnowsState, At, Matches
    <2> QED
      BY <1>10, <2>1, <2>2 DEF CommitPlan
  <1>11. CASE CommitNext(t) \/ CommitVerify(t) \/ CommitClose(t)
    <2>1. pc'[t] \in {"idle", "commit_apply", "commit_next", "commit_record"}
      BY <1>11, <1>t, <1>f DEF CommitNext, CommitVerify, CommitClose, Goto
    <2>2. state' \in {"writing", "verifying", "committed"}
      BY <1>11 DEF CommitNext, CommitVerify, CommitClose, SaveState
    <2> QED
      BY <2>1, <2>2 DEF KnowsState, At, Matches
  <1>12. CASE CommitWrite(t) \/ CommitRecord(t)
    <2>1. pc'[t] \in {"commit_verify", "commit_close"} /\ UNCHANGED <<state, changes>>
      BY <1>12, <1>t DEF CommitWrite, CommitRecord, Goto
    <2> QED
      BY <1>12, <2>1, <1>m DEF CommitWrite, CommitRecord, KnowsState, At, Matches, Unsettled
  <1>13. CASE CommitMismatch(t)
    BY <1>13, <1>m, <1>f DEF CommitMismatch, globals, At, Matches, Unsettled
  <1> QED
    BY <1>1, <1>2, <1>3, <1>4, <1>5, <1>6, <1>7, <1>8, <1>9, <1>10, <1>11, <1>12, <1>13
    DEF Step

LEMMA MatchNext ==
  ASSUME SingleHandler, MaxCrashes = 0, MatchInv, [Next]_vars
  PROVE  MatchInv'
  <1>t. TypeOK /\ TypeOK'
    BY TypeNext DEF MatchInv
  <1>1. CASE UNCHANGED vars \/ OutsideEdit
    <2>1. UNCHANGED <<state, changes, pc, seen, local>>
      BY <1>1 DEF vars, OutsideEdit, locals
    <2> QED
      BY <2>1, <1>t DEF MatchInv, Matches, KnowsState, Touched, At
  <1>2. ASSUME NEW t \in Thread, Request(t) \/ Step(t)
        PROVE  MatchInv'
    <2>1. KnowsState(t)' /\ (pc'[t] \notin Unsettled => Matches')
      BY <1>2, RequestMatches, StepMatches
    <2> QED
      BY <2>1, <1>t DEF MatchInv, SingleHandler
  <1>3. ~Crash
    BY <1>t DEF Crash, TypeOK
  <1> QED
    BY <1>1, <1>2, <1>3 DEF Next

\* The state of a session at rest tells whether anything is staged, whatever sequence of
\* adds, drops, rebases, previews and failed commits has led there and whatever editors
\* did meanwhile, as long as requests are served one at a time and none dies.
THEOREM StateIsTrue ==
  ASSUME SingleHandler, MaxCrashes = 0
  PROVE  Spec => []StateMatchesChanges
  <1>1. Init => MatchInv
    BY TypeInit DEF Init, MatchInv, Matches, KnowsState, At
  <1>2. MatchInv => StateMatchesChanges
    BY DEF MatchInv, Matches, StateMatchesChanges, AllIdle, At, Unsettled
  <1> QED
    BY <1>1, <1>2, MatchNext, PTL DEF Spec

(***************************************************************************)
(* A commit writes what the preview showed.  The gate of both finds the    *)
(* first change of every file with the file's own fingerprint, so both     *)
(* plans are made on the content in that fingerprint.                      *)
(***************************************************************************)
PlannedText(S, d) == CHOOSE e \in Applied(S, d) : TRUE

\* What the preview of a session that is clean shows of the file p
Shown(p) == <<p, PlannedText(ChangesOf(p), FirstOf(ChangesOf(p)).base.hash)>>

\* While these requests work on the changes, the state still is that of before.
Editing == Unsettled \cup {"rebase_entry", "rebase_save"}

AllShown == \A p \in Touched : Shown(p) \in aux_previewed

\* A commit of a previewed session, from its gate to its last file
CommitShown(t) ==
  /\ pc[t] \in {"preview_plan", "commit_plan"} => \A p \in Touched : Clean(p)
  /\ pc[t] \in {"preview_plan", "preview_save", "commit_plan", "rebase_keep"} =>
       seen[t] = state
  /\ At(t, "preview_save") =>
       /\ DOMAIN local[t].plan = Touched
       /\ \A p \in Touched : <<p, local[t].plan[p].content>> = Shown(p)
  /\ pc[t] \in Writing /\ seen[t] = "previewed" =>
       \A p \in PlanPaths(t) : <<p, local[t].plan[p].content>> \in aux_previewed

ShownInv ==
  /\ TypeOK
  /\ (\A t \in Thread : pc[t] \notin Editing) => (state = "previewed" => AllShown)
  /\ \A t \in Thread : CommitShown(t)

\* The plan of a clean session is what its preview shows.
LEMMA PlanIsShown ==
  ASSUME PlanBuilds, NEW p \in Touched, Clean(p)
  PROVE  <<p, Plan[p].content>> = Shown(p)
  <1>1. Plan[p].content = CHOOSE d \in Planned(p) : TRUE
    BY PlanIsCurrent
  <1>2. FirstOf(ChangesOf(p)).base.hash = file[p].content
    BY DEF Clean, Fingerprint, FingerprintOf
  <1>3. Plan[p].content = PlannedText(ChangesOf(p), file[p].content)
    BY <1>1 DEF Planned, PlannedText
  <1> QED
    BY <1>2, <1>3 DEF Shown

LEMMA ShownStays ==
  ASSUME changes' = changes
  PROVE  Touched' = Touched /\ \A p : Shown(p)' = Shown(p)
  BY DEF Touched, Shown, ChangesOf

LEMMA AllShownStays ==
  ASSUME changes' = changes, aux_previewed' = aux_previewed, AllShown
  PROVE  AllShown'
  BY ShownStays DEF AllShown

LEMMA RequestShown ==
  ASSUME SingleHandler, ShownInv, NEW t \in Thread, Request(t)
  PROVE  CommitShown(t)' /\ (pc'[t] \notin Editing => (state' = "previewed" => AllShown'))
  <1>t. /\ TypeOK /\ pc \in [Thread -> Labels] /\ seen = [u \in Thread |-> seen[u]]
        /\ CommitShown(t) /\ At(t, "idle")
    BY DEF ShownInv, TypeOK, Request, Begin, EditStage, AdapterRead, Drop, Abort, Rebase,
           Preview, Commit
  <1>m. state = "previewed" => AllShown
    BY <1>t DEF ShownInv, SingleHandler, At, Editing, Unsettled
  <1>c. changes' = changes /\ file' = file
    BY <1>t, RequestIsQuiet
  <1>a. aux_previewed' = aux_previewed /\ state' \in {state, "aborted"}
    BY DEF Request, Begin, EditStage, AdapterRead, Drop, Abort, Rebase, Preview, Commit,
           Stages, SaveState, globals
  <1>b. state' = "previewed" => AllShown'
    BY <1>a, <1>c, <1>m, AllShownStays
  <1>s. ASSUME NEW l, NEW S, Start(t, l, S)
        PROVE  pc'[t] = l /\ seen'[t] = state
    BY <1>s, <1>t DEF Start
  <1>1. CASE Begin(t) \/ EditStage(t) \/ AdapterRead(t) \/ Drop(t) \/ Abort(t)
    <2>1. pc'[t] \in {"begin_save", "stage_write", "adapter_stage", "drop_remove", "idle"}
      BY <1>1, <1>t, <1>s
      DEF Begin, EditStage, AdapterRead, Drop, Abort, Stages, Goto, locals, At
    <2> QED
      BY <2>1, <1>b DEF CommitShown, At, Writing
  <1>2. CASE Rebase(t)
    <2> DEFINE S == {c \in changes : RebaseRequired(c.path)}
    <2>1. Start(t, IF S = {} THEN "rebase_keep" ELSE "rebase_entry", S)
      BY <1>2 DEF Rebase
    <2>2. pc'[t] \in {"rebase_keep", "rebase_entry"} /\ seen'[t] = state /\ state' = state
      BY <1>2, <2>1, <1>s DEF Rebase, globals
    <2> QED
      BY <2>2, <1>b DEF CommitShown, At, Writing
  <1>3. CASE Preview(t) \/ Commit(t)
    <2>1. pc'[t] \in {"preview_plan", "commit_plan"} /\ seen'[t] = state /\ state' = state
      BY <1>3, <1>s DEF Preview, Commit, globals
    <2>2. \A p \in Touched : Clean(p)
      BY <1>3 DEF Preview, Commit, Passes
    <2>3. \A p \in Touched' : Clean(p)'
      BY <2>2, <1>c DEF Touched, Clean, ChangesOf, Fingerprint, FingerprintOf
    <2> QED
      BY <2>1, <2>3, <1>b DEF CommitShown, At, Writing
  <1> QED
    BY <1>1, <1>2, <1>3 DEF Request

LEMMA StepShown ==
  ASSUME SingleHandler, ShownInv, NEW t \in Thread, Step(t)
  PROVE  CommitShown(t)' /\ (pc'[t] \notin Editing => (state' = "previewed" => AllShown'))
  <1>t. /\ TypeOK /\ pc \in [Thread -> Labels] /\ seen = [u \in Thread |-> seen[u]]
        /\ local = [u \in Thread |-> local[u]] /\ LocalOK(local[t]) /\ CommitShown(t)
    BY DEF ShownInv, TypeOK
  <1>m. pc[t] \notin Editing /\ state = "previewed" => AllShown
    BY DEF ShownInv, SingleHandler
  <1>f. Finish(t) => CommitShown(t)' /\ pc'[t] = "idle"
    BY <1>t DEF Finish, CommitShown, At, Writing
  <1>u. pc[t] \notin Editing /\ UNCHANGED <<state, changes, aux_previewed>> =>
          (state' = "previewed" => AllShown')
    BY <1>m, AllShownStays
  <1>1. CASE BeginSave(t) \/ StageSave(t) \/ DropSave(t)
    BY <1>1, <1>f DEF BeginSave, StageSave, DropSave, SaveState
  <1>2. CASE AdapterStage(t)
    <2>1. UNCHANGED <<state, changes, aux_previewed>> /\ pc[t] \notin Editing
      BY <1>2 DEF AdapterStage, Stages, globals, At, Editing, Unsettled
    <2>2. CASE Finish(t)
      BY <2>1, <2>2, <1>f, <1>u
    <2>3. CASE \E e, p, own : Stages(t, e, p, own)
      <3>1. pc'[t] = "stage_write"
        BY <2>3, <1>t DEF Stages, Start
      <3> QED
        BY <2>1, <3>1, <1>u DEF CommitShown, At, Writing
    <2> QED
      BY <1>2, <2>2, <2>3 DEF AdapterStage
  <1>3. CASE StageWrite(t) \/ DropRemove(t) \/ RebaseEntry(t)
    <2>1. pc'[t] \in {"stage_save", "drop_save", "drop_remove", "rebase_save", "rebase_entry"}
      BY <1>3, <1>t DEF StageWrite, DropRemove, RebaseEntry, Goto
    <2> QED
      BY <2>1 DEF CommitShown, At, Writing, Editing, Unsettled
  <1>4. CASE RebaseSave(t)
    <2>1. CASE At(t, "rebase_save") /\ state' = "staged"
      BY <1>4, <2>1, <1>f DEF RebaseSave
    <2>2. CASE At(t, "rebase_keep") /\ SaveState(seen[t])
      BY <1>4, <2>2, <1>f, <1>t, <1>u
      DEF RebaseSave, SaveState, CommitShown, At, Editing, Unsettled
    <2> QED
      BY <1>4, <2>1, <2>2 DEF RebaseSave, SaveState
  <1>5. CASE PreviewPlan(t)
    <2>1. UNCHANGED <<state, changes, aux_previewed, file>> /\ pc[t] \notin Editing
      BY <1>5 DEF PreviewPlan, globals, At, Editing, Unsettled
    <2>2. CASE Finish(t)
      BY <2>1, <2>2, <1>f, <1>u
    <2>3. CASE PlanBuilds /\ Goto(t, "preview_save") /\ local' = [local EXCEPT ![t].plan = Plan]
      <3>1. local'[t] = [local[t] EXCEPT !.plan = Plan]
        BY <2>3, <1>t
      <3>2. local'[t].plan = Plan
        BY <3>1, <1>t, LocalUpdate
      <3>3. \A p \in Touched : Clean(p)
        BY <1>5, <1>t DEF PreviewPlan, CommitShown, At
      <3>4. \A p \in Touched : <<p, Plan[p].content>> = Shown(p)
        BY <2>3, <3>3, PlanIsShown
      <3>5. \A p \in Touched' : <<p, local'[t].plan[p].content>> = Shown(p)'
        BY <2>1, <3>2, <3>4, ShownStays
      <3>6. DOMAIN local'[t].plan = Touched'
        BY <2>1, <3>2, ShownStays DEF Plan
      <3>7. pc'[t] = "preview_save" /\ seen'[t] = seen[t] /\ seen[t] = state
        BY <1>5, <2>3, <1>t DEF PreviewPlan, Goto, CommitShown, At
      <3> QED
        BY <2>1, <3>5, <3>6, <3>7, <1>u DEF CommitShown, At, Writing
    <2> QED
      BY <1>5, <2>2, <2>3 DEF PreviewPlan
  <1>6. CASE PreviewSave(t)
    <2>1. /\ DOMAIN local[t].plan = Touched
          /\ \A p \in Touched : <<p, local[t].plan[p].content>> = Shown(p)
      BY <1>6, <1>t DEF PreviewSave, CommitShown
    <2>2. aux_previewed' = {<<p, local[t].plan[p].content>> : p \in DOMAIN local[t].plan}
      BY <1>6 DEF PreviewSave
    <2>3. \A p \in Touched : <<p, local[t].plan[p].content>> \in aux_previewed'
      BY <2>1, <2>2
    <2>4. \A p \in Touched : Shown(p) \in aux_previewed'
      BY <2>1, <2>3
    <2>5. AllShown'
      BY <1>6, <2>4, ShownStays DEF PreviewSave, AllShown
    <2> QED
      BY <1>6, <2>5, <1>f DEF PreviewSave
  <1>7. CASE CommitMismatch(t)
    BY <1>7, <1>f, <1>u DEF CommitMismatch, globals, At, Editing, Unsettled
  <1>8. CASE CommitClose(t)
    BY <1>8, <1>f DEF CommitClose, SaveState
  <1>9. CASE CommitRecord(t)
    <2>1. pc'[t] = "commit_close" /\ pc[t] = "commit_record"
      BY <1>9, <1>t DEF CommitRecord, Goto, At
    <2> QED
      BY <1>9, <2>1, <1>u DEF CommitRecord, CommitShown, At, Writing, Editing, Unsettled
  <1>10. CASE (CommitPlan(t) \/ CommitNext(t) \/ CommitVerify(t)) /\ pc'[t] \notin Writing
    <2>1. CASE Finish(t) /\ UNCHANGED globals
      BY <1>10, <2>1, <1>f, <1>u
      DEF CommitPlan, CommitNext, CommitVerify, globals, At, Editing, Unsettled
    <2>2. CASE Finish(t) /\ SaveState("writing")
      BY <2>2, <1>f DEF SaveState
    <2>3. CASE pc'[t] = "commit_record" /\ state' \in {"validating", "verifying"}
      BY <2>3 DEF CommitShown, At, Writing
    <2> QED
      BY <1>10, <1>t, <2>1, <2>2, <2>3
      DEF CommitPlan, CommitNext, CommitVerify, SaveState, Goto, Writing
  <1>11. CASE /\ CommitPlan(t) \/ CommitNext(t) \/ CommitVerify(t) \/ CommitWrite(t)
              /\ pc'[t] \in Writing
    <2>1. state' = "previewed" => UNCHANGED <<state, changes, aux_previewed>>
      BY <1>11 DEF CommitPlan, CommitNext, CommitVerify, CommitWrite, SaveState, globals
    <2>2. pc[t] \notin Editing
      BY <1>11
      DEF CommitPlan, CommitNext, CommitVerify, CommitWrite, At, Editing, Unsettled
    <2>3. seen' = seen /\ aux_previewed' = aux_previewed
      BY <1>11, <1>t, CommitSteps
    <2>4. ASSUME seen[t] = "previewed", NEW p \in PlanPaths(t)'
          PROVE  <<p, local'[t].plan[p].content>> \in aux_previewed
      <3>1. CASE At(t, "commit_plan") /\ PlanBuilds /\ local'[t].plan = Plan
        <4>1. p \in Touched
          BY <3>1 DEF PlanPaths, Plan
        <4>2. Clean(p) /\ state = "previewed"
          BY <2>4, <3>1, <4>1, <1>t DEF CommitShown, At
        <4>3. Shown(p) \in aux_previewed
          BY <4>1, <4>2, <2>2, <1>m DEF AllShown
        <4> QED
          BY <3>1, <4>1, <4>2, <4>3, PlanIsShown
      <3>2. CASE pc[t] \in Writing /\ local'[t].plan = local[t].plan
        BY <2>4, <3>2, <1>t DEF CommitShown, PlanPaths
      <3>3. CASE /\ pc[t] \in Writing
                 /\ \E q \in Path :
                      local'[t].plan = [r \in PlanPaths(t) \ {q} |-> local[t].plan[r]]
        <4>1. p \in PlanPaths(t) /\ local'[t].plan[p] = local[t].plan[p]
          BY <3>3 DEF PlanPaths
        <4> QED
          BY <2>4, <3>3, <4>1, <1>t DEF CommitShown
      <3> QED
        BY <1>11, <1>t, <3>1, <3>2, <3>3, CommitSteps DEF At, Writing
    <2> QED
      BY <1>11, <2>1, <2>2, <2>3, <2>4, <1>u DEF CommitShown, At, Writing
  <1>12. CASE CommitWrite(t)
    <2>1. pc'[t] = "commit_verify"
      BY <1>12, <1>t DEF CommitWrite, Goto
    <2> QED
      BY <1>11, <1>12, <2>1 DEF Writing
  <1> QED
    BY <1>1, <1>2, <1>3, <1>4, <1>5, <1>6, <1>7, <1>8, <1>9, <1>10, <1>11, <1>12 DEF Step

LEMMA ShownNext ==
  ASSUME SingleHandler, EditorsWait, MaxCrashes = 0, ShownInv, [Next]_vars
  PROVE  ShownInv'
  <1>t. TypeOK /\ TypeOK'
    BY TypeNext DEF ShownInv
  <1>1. CASE UNCHANGED vars
    <2>1. /\ Touched' = Touched /\ \A p : Shown(p)' = Shown(p) /\ Clean(p)' = Clean(p)
      BY <1>1, ShownStays DEF vars, Clean, ChangesOf, Fingerprint, FingerprintOf
    <2> QED
      BY <1>1, <2>1, <1>t DEF vars, ShownInv, AllShown, CommitShown, PlanPaths, At
  <1>2. ASSUME NEW t \in Thread, Request(t) \/ Step(t)
        PROVE  ShownInv'
    <2>1. CommitShown(t)' /\ (pc'[t] \notin Editing => (state' = "previewed" => AllShown'))
      BY <1>2, RequestShown, StepShown
    <2> QED
      BY <2>1, <1>t DEF ShownInv, SingleHandler
  <1>3. CASE OutsideEdit
    <2>1. \A t \in Thread : pc'[t] = "idle" /\ pc[t] = "idle"
      BY <1>3 DEF OutsideEdit, locals, At
    <2>2. \A t \in Thread : CommitShown(t)'
      BY <2>1 DEF CommitShown, At, Writing
    <2>3. state = "previewed" => AllShown
      BY <2>1 DEF ShownInv, Editing, Unsettled
    <2>4. UNCHANGED <<state, changes, aux_previewed>>
      BY <1>3 DEF OutsideEdit
    <2> QED
      BY <1>t, <2>2, <2>3, <2>4, AllShownStays DEF ShownInv
  <1>4. ~Crash
    BY <1>t DEF Crash, TypeOK
  <1> QED
    BY <1>1, <1>2, <1>3, <1>4 DEF Next

\* A session committed as it was previewed writes what the preview showed, as long as
\* requests are served one at a time, none dies, and editors leave the files alone
\* meanwhile; between preview and commit they may do what they like.
THEOREM PreviewIsWritten ==
  ASSUME SingleHandler, EditorsWait, MaxCrashes = 0
  PROVE  Spec => CommitWritesThePreview
  <1> DEFINE AsShown ==
        \A t \in Thread, p \in Path : Writes(t, p) /\ seen[t] = "previewed" =>
          <<p, local[t].plan[p].content>> \in aux_previewed
  <1>1. Init => ShownInv
    BY TypeInit DEF Init, ShownInv, CommitShown, At, Writing
  <1>2. ShownInv => AsShown
    BY DEF ShownInv, CommitShown, Writes, At, Writing, IsNext, PlanPaths
  <1>3. ShownInv /\ [Next]_vars => [AsShown]_vars
    BY <1>2
  <1> QED
    BY <1>1, <1>3, ShownNext, PTL DEF Spec, CommitWritesThePreview

(***************************************************************************)
(* The gate compares only the first change of a file.  That is enough as   *)
(* long as changes are read in the order they were staged in: of two such  *)
(* changes the later one was staged, or rebased, on a version of the file  *)
(* that is at least as new.                                                *)
(***************************************************************************)
\* The staged changes, with the one a handler is about to write
Held(t) == changes \cup (IF At(t, "stage_write") THEN local[t].entries ELSE {})

\* The changes a rebase has not come to yet
Late(t) == IF At(t, "rebase_entry") THEN local[t].entries ELSE {}

\* Ids tell changes apart, and none has yet the one that the next change will get.
Numbered(t) == /\ \A c \in Held(t) : c.id < nextId
               /\ \A c, d \in Held(t) : c.id = d.id => c = d

\* A rebase has come to the first changes of a file when it is not through with it.
Rebasing(t) ==
  /\ Late(t) \subseteq changes
  /\ \A c \in Late(t), d \in changes : c.path = d.path => d \in Late(t) \/ Before(d, c)

Reread(c, d) == c.path = d.path /\ c.id < d.id /\ Before(c, d)

\* A change that was staged after a current one, and is read after it, is current.
Ordered(t) ==
  \A c, d \in Held(t) :
    Reread(c, d) /\ file[c.path].exists /\ Current(c) => Current(d) \/ d \in Late(t)

OrderOK(t) == Numbered(t) /\ Rebasing(t) /\ (crashes = 0 => Ordered(t))

OrderInv == ApplyInv /\ \A t \in Thread : OrderOK(t)

\* The first of some changes with ids of their own.  (Those before a change are a finite
\* set: one with no smaller such set belongs to the first.)
LEMMA FirstOfFinite ==
  ASSUME NEW S, S # {}, IsFiniteSet(S),
         \A c \in S : c.ordinal \in Nat /\ c.id \in Nat,
         \A c, d \in S : c.id = d.id => c = d
  PROVE  FirstOf(S) \in S /\ IsFirst(FirstOf(S), S)
  <1> DEFINE Ahead(x) == {y \in S : Before(y, x)}
             Aheads   == {Ahead(x) : x \in S}
  <1>o. /\ \A x \in S : ~Before(x, x)
        /\ \A x, y \in S : x # y => Before(x, y) \/ Before(y, x)
        /\ \A x, y, z \in S : Before(z, y) /\ Before(y, x) => Before(z, x)
    BY DEF Before
  <1>1. Aheads \subseteq FiniteSubsetsOf(S) /\ Aheads # {}
    <2>1. \A x \in S : Ahead(x) \in SUBSET S
      OBVIOUS
    <2>2. \A x \in S : IsFiniteSet(Ahead(x))
      BY <2>1, FS_Subset
    <2>3. \A x \in S : Ahead(x) \in FiniteSubsetsOf(S)
      BY <2>1, <2>2 DEF FiniteSubsetsOf
    <2> HIDE DEF Ahead
    <2> QED
      BY <2>3
  <1>2. PICK A \in Aheads : \A B \in Aheads : ~(<<B, A>> \in StrictSubsetOrdering(S))
    <2> HIDE DEF Aheads
    <2> QED
      BY <1>1, FS_StrictSubsetOrderingWellFounded, WFMin
  <1>3. PICK x \in S : A = Ahead(x)
    OBVIOUS
  <1>4. ASSUME NEW y \in Ahead(x)
        PROVE  FALSE
    <2>1. Ahead(y) \subseteq Ahead(x) /\ y \notin Ahead(y) /\ y \in S
      BY <1>o, <1>4
    <2>2. <<Ahead(y), Ahead(x)>> \in StrictSubsetOrdering(S)
      BY <2>1, <1>4 DEF StrictSubsetOrdering
    <2> QED
      BY <2>1, <2>2, <1>2, <1>3
  <1>5. IsFirst(x, S)
    BY <1>4, <1>o DEF IsFirst
  <1> QED
    BY <1>5 DEF FirstOf

LEMMA HeldPast ==
  ASSUME TypeOK, BasesPast, NEW t \in Thread
  PROVE  \A c \in Held(t) : ChangeOK(c) /\ Past(c)
  BY DEF TypeOK, BasesPast, Held, LocalOK

\* Losing changes keeps the order, and so does a file that is replaced: none of its
\* changes is current then.
LEMMA OrderStays ==
  ASSUME TypeOK, BasesPast, NEW t \in Thread, OrderOK(t),
         Held(t)' \subseteq Held(t), Late(t)' = Late(t),
         Late(t) = {} \/ changes' = changes,
         nextId' = nextId, crashes' = crashes,
         \A p \in Path : file'[p] = file[p] \/
                         (file'[p].exists => file[p].mtime < file'[p].mtime)
  PROVE  OrderOK(t)'
  <1>1. Numbered(t)' /\ Rebasing(t)'
    BY DEF OrderOK, Numbered, Rebasing
  <1>2. ASSUME Ordered(t)
        PROVE  Ordered(t)'
    <2> SUFFICES ASSUME NEW c \in Held(t)', NEW d \in Held(t)',
                        Reread(c, d), file'[c.path].exists, Current(c)'
                 PROVE  Current(d)' \/ d \in Late(t)
      BY DEF Ordered, Reread
    <2>1. c \in Held(t) /\ d \in Held(t) /\ c.path \in Path /\ d.path = c.path
      BY HeldPast DEF Reread, ChangeOK
    <2>2. file[c.path].mtime \in Nat /\ c.base.mtime \in Nat /\ Past(c)
      BY <2>1, HeldPast DEF TypeOK, FileOK, ChangeOK
    <2>3. c.base.mtime = file'[c.path].mtime
      BY DEF Current, Fingerprint, FingerprintOf
    <2>4. file'[c.path] = file[c.path]
      BY <2>1, <2>2, <2>3 DEF Past
    <2>5. Current(c) /\ file[c.path].exists /\ (Current(d) => Current(d)')
      BY <2>1, <2>4 DEF Current, Fingerprint, FingerprintOf
    <2> QED
      BY <2>1, <2>5, <1>2 DEF Ordered
  <1> QED
    BY <1>1, <1>2 DEF OrderOK

\* The labels at which a handler holds changes to write
Carrying == {"stage_write", "rebase_entry"}

LEMMA NotCarrying ==
  ASSUME NEW t \in Thread, pc[t] \notin Carrying
  PROVE  Held(t) = changes /\ Late(t) = {}
  BY DEF Carrying, Held, Late, At

\* A new change has the highest id, and is current.
LEMMA StagesOrdered ==
  ASSUME TypeOK, TypeOK', NEW t \in Thread, OrderOK(t), pc[t] \notin Carrying,
         NEW e, NEW p \in Path, NEW own, Stages(t, e, p, own)
  PROVE  OrderOK(t)'
  <1> DEFINE new == NewChange(e, p, own)
  <1>t. pc \in [Thread -> Labels] /\ nextId \in Nat
    BY DEF TypeOK
  <1>1. /\ pc'[t] = "stage_write" /\ nextId' = nextId + 1
        /\ UNCHANGED <<file, changes, crashes>>
    BY <1>t DEF Stages, Start
  <1>2. local'[t].entries = {new}
    BY StartEntries DEF Stages
  <1>3. Held(t)' = changes \cup {new} /\ Late(t)' = {}
    BY <1>1, <1>2 DEF Held, Late, At
  <1>4. Held(t) = changes /\ Late(t) = {}
    BY NotCarrying
  <1>5. new.id = nextId /\ new.path = p /\ new.base = Fingerprint(p)
    BY DEF NewChange
  <1>6. \A c \in changes : c.id \in Nat /\ c.id < nextId
    BY <1>4 DEF TypeOK, ChangeOK, OrderOK, Numbered
  <1> HIDE DEF new
  <1>7. Numbered(t)'
    BY <1>t, <1>1, <1>3, <1>4, <1>5, <1>6 DEF OrderOK, Numbered
  <1>8. Rebasing(t)'
    BY <1>3 DEF Rebasing
  <1>9. ASSUME Ordered(t)
        PROVE  Ordered(t)'
    <2>1. \A c : Current(c)' = Current(c)
      BY <1>1 DEF Current, Fingerprint, FingerprintOf
    <2>2. Current(new)
      BY <1>5 DEF Current
    <2>3. \A d \in changes : ~Reread(new, d)
      BY <1>t, <1>5, <1>6 DEF Reread
    <2>4. \A c : file'[c.path].exists = file[c.path].exists
      BY <1>1
    <2> QED
      BY <1>9, <1>3, <1>4, <2>1, <2>2, <2>3, <2>4 DEF Ordered, Reread
  <1> QED
    BY <1>1, <1>7, <1>8, <1>9 DEF OrderOK

\* What every handler does but those that stage or rebase: it may remove changes.
LEMMA ShrinkingOrdered ==
  ASSUME TypeOK, BasesPast, NEW t \in Thread, OrderOK(t),
         pc[t] \notin Carrying, pc'[t] \notin Carrying,
         changes' \subseteq changes, nextId' = nextId, crashes' = crashes,
         \A p \in Path : file'[p] = file[p] \/
                         (file'[p].exists => file[p].mtime < file'[p].mtime)
  PROVE  OrderOK(t)'
  <1>1. Held(t) = changes /\ Late(t) = {}
    BY NotCarrying
  <1>2. Held(t)' = changes' /\ Late(t)' = {}
    BY DEF Carrying, Held, Late, At
  <1> QED
    BY <1>1, <1>2, OrderStays

LEMMA RequestOrdered ==
  ASSUME TypeOK, TypeOK', BasesPast, NEW t \in Thread, OrderOK(t), Request(t)
  PROVE  OrderOK(t)'
  <1>t. pc \in [Thread -> Labels]
    BY DEF TypeOK
  <1>q. changes' = changes /\ file' = file
    BY RequestIsQuiet
  <1>s. ASSUME pc[t] \notin Carrying, pc'[t] \notin Carrying,
               nextId' = nextId, crashes' = crashes
        PROVE  OrderOK(t)'
    BY <1>s, <1>q, ShrinkingOrdered
  <1>i. pc[t] \notin Carrying
    BY DEF Request, Begin, EditStage, AdapterRead, Drop, Abort, Rebase, Preview, Commit,
           At, Carrying
  <1>1. CASE Begin(t) \/ Drop(t) \/ Preview(t) \/ Commit(t)
    BY <1>1, <1>t, <1>i, <1>s DEF Begin, Drop, Preview, Commit, Start, globals, Carrying
  <1>2. CASE EditStage(t)
    <2>1. PICK e \in Edits, p \in Path : Stages(t, Stage(e, file[p].content), p, TRUE)
      BY <1>2 DEF EditStage
    <2> QED
      BY <2>1, <1>i, StagesOrdered
  <1>3. CASE AdapterRead(t)
    <2>1. pc'[t] = "adapter_stage" /\ UNCHANGED globals
      BY <1>3, <1>t DEF AdapterRead, Goto
    <2> QED
      BY <2>1, <1>i, <1>s DEF globals, Carrying
  <1>4. CASE Abort(t)
    BY <1>4, <1>i, <1>s DEF Abort, SaveState, locals
  <1>5. CASE Rebase(t)
    <2> DEFINE S == {c \in changes : RebaseRequired(c.path)}
    <2>1. /\ Start(t, IF S = {} THEN "rebase_keep" ELSE "rebase_entry", S)
          /\ UNCHANGED globals
      BY <1>5 DEF Rebase
    <2>2. /\ pc'[t] = (IF S = {} THEN "rebase_keep" ELSE "rebase_entry")
          /\ local'[t].entries = S
      BY <2>1, <1>t, StartEntries DEF Start
    <2>3. Held(t)' = changes /\ Late(t)' = S
      BY <2>1, <2>2 DEF Held, Late, At, globals
    <2>4. Held(t) = changes /\ Late(t) = {}
      BY <1>i, NotCarrying
    <2>5. Numbered(t)'
      BY <2>1, <2>3, <2>4 DEF OrderOK, Numbered, globals
    <2>6. Rebasing(t)'
      BY <1>q, <2>3 DEF Rebasing
    <2>7. Ordered(t) => Ordered(t)'
      BY <1>q, <2>3, <2>4 DEF Ordered, Reread, Current, Fingerprint, FingerprintOf
    <2> QED
      BY <2>1, <2>5, <2>6, <2>7 DEF OrderOK, globals
  <1> QED
    BY <1>1, <1>2, <1>3, <1>4, <1>5 DEF Request

\* The change that a rebase has come to becomes current.  Those of its file that are read
\* after it are still to come.
LEMMA RebaseOrdered ==
  ASSUME TypeOK, BasesPast, NEW t \in Thread, OrderOK(t), RebaseEntry(t)
  PROVE  OrderOK(t)'
  <1>t. /\ pc \in [Thread -> Labels] /\ pc[t] = "rebase_entry"
        /\ local = [u \in Thread |-> local[u]] /\ LocalOK(local[t])
    BY DEF RebaseEntry, At, TypeOK
  <1>h. Held(t) = changes /\ Late(t) = local[t].entries
    BY <1>t DEF Held, Late, At
  <1>1. PICK c \in local[t].entries :
          /\ IsFirst(c, local[t].entries)
          /\ changes' = {d \in changes : ~SameFile(c, d)}
                          \cup {[c EXCEPT !.base = Fingerprint(c.path),
                                          !.aux_own = IsFirst(c, ChangesOf(c.path))]}
          /\ local' = [local EXCEPT ![t].entries = @ \ {c}]
          /\ Goto(t, IF local[t].entries = {c} THEN "rebase_save" ELSE "rebase_entry")
    BY DEF RebaseEntry
  <1> DEFINE own == IsFirst(c, ChangesOf(c.path))
             rebased == [c EXCEPT !.base = Fingerprint(c.path), !.aux_own = own]
             rest == local[t].entries \ {c}
  <1>2. UNCHANGED <<file, nextId, crashes>>
    BY DEF RebaseEntry
  <1>c. ChangeOK(c) /\ c \in changes
    BY <1>1, <1>t, <1>h DEF LocalOK, OrderOK, Rebasing
  <1>3. rebased = [ordinal |-> c.ordinal, id |-> c.id, path |-> c.path,
                   edit |-> c.edit, base |-> Fingerprint(c.path), aux_own |-> own]
    BY <1>c, RebasedChange DEF ChangeOK
  <1>4. /\ rebased.ordinal = c.ordinal /\ rebased.id = c.id /\ rebased.path = c.path
        /\ Current(rebased)
    BY <1>3 DEF Current
  <1>5. changes' = (changes \ {c}) \cup {rebased}
    BY <1>1, <1>h, <1>c DEF OrderOK, Numbered, SameFile
  <1>6. local'[t].entries = rest
    <2>1. local'[t] = [local[t] EXCEPT !.entries = rest]
      BY <1>1, <1>t
    <2> QED
      BY <2>1, <1>t, LocalUpdate
  <1>7. Held(t)' = changes' /\ Late(t)' = rest
    BY <1>1, <1>6, <1>t DEF Goto, Held, Late, At
  <1>n. \A d \in changes : d.ordinal \in Nat /\ d.id \in Nat
    BY DEF TypeOK, ChangeOK
  <1> HIDE DEF rebased
  <1>8. Numbered(t)'
    BY <1>2, <1>4, <1>5, <1>7, <1>h, <1>c DEF OrderOK, Numbered
  <1>9. Rebasing(t)'
    <2>1. rest \subseteq changes'
      BY <1>5, <1>h DEF OrderOK, Rebasing
    <2>2. ASSUME NEW x \in rest, NEW d \in changes', x.path = d.path
          PROVE  d \in rest \/ Before(d, x)
      <3>1. CASE d \in changes /\ d # c
        BY <3>1, <2>2, <1>h DEF OrderOK, Rebasing
      <3>2. CASE d = rebased
        BY <3>2, <1>1, <1>4 DEF IsFirst, Before
      <3> QED
        BY <3>1, <3>2, <1>5
    <2> QED
      BY <2>1, <2>2, <1>7 DEF Rebasing
  <1>10. ASSUME Ordered(t)
         PROVE  Ordered(t)'
    <2>1. \A d : Current(d)' = Current(d)
      BY <1>2 DEF Current, Fingerprint, FingerprintOf
    <2>2. ASSUME NEW a \in changes', NEW b \in changes',
                 Reread(a, b), file[a.path].exists, Current(a)
          PROVE  Current(b) \/ b \in rest
      <3>1. CASE b = rebased
        BY <3>1, <1>4
      <3>2. CASE b \in changes /\ b # c /\ a \in changes
        BY <3>2, <2>2, <1>10, <1>h DEF Ordered
      <3>3. CASE b \in changes /\ b # c /\ a = rebased
        <4>1. Before(c, b) /\ c.path = b.path
          BY <3>3, <2>2, <1>4 DEF Reread, Before
        <4>2. ~Before(b, c)
          BY <4>1, <3>3, <1>c, <1>n DEF Before
        <4> QED
          BY <4>1, <4>2, <3>3, <1>h DEF OrderOK, Rebasing
      <3> QED
        BY <3>1, <3>2, <3>3, <1>5
    <2>3. \A p : file'[p].exists = file[p].exists
      BY <1>2
    <2> QED
      BY <1>7, <2>1, <2>2, <2>3 DEF Ordered, Reread
  <1> QED
    BY <1>2, <1>8, <1>9, <1>10 DEF OrderOK

LEMMA StepOrdered ==
  ASSUME TypeOK, TypeOK', BasesPast, NEW t \in Thread, OrderOK(t), Step(t)
  PROVE  OrderOK(t)'
  <1>t. pc \in [Thread -> Labels]
    BY DEF TypeOK
  <1>f. Finish(t) => pc'[t] = "idle"
    BY <1>t DEF Finish
  <1>s. ASSUME pc[t] \notin Carrying, pc'[t] \notin Carrying, file' = file,
               changes' \subseteq changes, nextId' = nextId, crashes' = crashes
        PROVE  OrderOK(t)'
    BY <1>s, ShrinkingOrdered
  <1>1. CASE \/ BeginSave(t) \/ StageSave(t) \/ DropSave(t) \/ RebaseSave(t)
             \/ CommitNext(t) \/ CommitVerify(t) \/ CommitClose(t)
    <2>1. pc[t] \notin Carrying /\ pc'[t] \notin Carrying
      BY <1>1, <1>t, <1>f
      DEF BeginSave, StageSave, DropSave, RebaseSave, CommitNext, CommitVerify, CommitClose,
          Goto, At, Carrying
    <2>2. UNCHANGED <<file, changes, nextId, crashes>>
      BY <1>1 DEF BeginSave, StageSave, DropSave, RebaseSave, CommitNext, CommitVerify,
                  CommitClose, SaveState
    <2> QED
      BY <2>1, <2>2, <1>s
  <1>2. CASE PreviewPlan(t) \/ PreviewSave(t) \/ CommitPlan(t) \/ CommitMismatch(t)
             \/ CommitRecord(t)
    <2>1. pc[t] \notin Carrying /\ pc'[t] \notin Carrying
      BY <1>2, <1>t, <1>f
      DEF PreviewPlan, PreviewSave, CommitPlan, CommitMismatch, CommitRecord, Goto, At,
          Carrying
    <2>2. UNCHANGED <<file, changes, nextId, crashes>>
      BY <1>2 DEF PreviewPlan, PreviewSave, CommitPlan, CommitMismatch, CommitRecord,
                  SaveState, globals
    <2> QED
      BY <2>1, <2>2, <1>s
  <1>3. CASE AdapterStage(t)
    <2>1. pc[t] \notin Carrying /\ local[t].draft.path \in Path
      BY <1>3 DEF AdapterStage, TypeOK, At, Carrying
    <2>2. CASE Finish(t) /\ UNCHANGED globals
      BY <2>1, <2>2, <1>f, <1>s DEF globals, Carrying
    <2>3. CASE \E e, own : Stages(t, e, local[t].draft.path, own)
      BY <2>1, <2>3, StagesOrdered
    <2> QED
      BY <1>3, <2>2, <2>3 DEF AdapterStage
  <1>4. CASE StageWrite(t)
    <2>1. /\ pc[t] = "stage_write" /\ pc'[t] = "stage_save"
          /\ changes' = changes \cup local[t].entries
          /\ UNCHANGED <<file, nextId, crashes>>
      BY <1>4, <1>t DEF StageWrite, Goto, At
    <2>2. Held(t)' = Held(t) /\ Late(t)' = {} /\ Late(t) = {}
      BY <2>1 DEF Held, Late, At
    <2> QED
      BY <2>1, <2>2, OrderStays
  <1>5. CASE DropRemove(t)
    <2>1. pc[t] = "drop_remove" /\ pc'[t] \in {"drop_save", "drop_remove"}
      BY <1>5, <1>t DEF DropRemove, Goto, At
    <2>2. changes' \subseteq changes /\ UNCHANGED <<file, nextId, crashes>>
      BY <1>5 DEF DropRemove
    <2> QED
      BY <2>1, <2>2, <1>s DEF Carrying
  <1>6. CASE RebaseEntry(t)
    BY <1>6, RebaseOrdered
  <1>7. CASE CommitWrite(t)
    <2>1. /\ pc[t] = "commit_apply" /\ pc'[t] = "commit_verify"
          /\ UNCHANGED <<changes, nextId, crashes>>
      BY <1>7, <1>t DEF CommitWrite, Goto, At
    <2>2. PICK p \in Path :
            file' = [file EXCEPT ![p] = Save(@, Rewrite(@.content, local[t].plan[p].content))]
      BY <1>7 DEF CommitWrite
    <2>3. file' = [file EXCEPT
                     ![p] = Save(@, Rewrite(file[p].content, local[t].plan[p].content))]
      BY <2>2
    <2>4. \A q \in Path : file'[q] = file[q] \/ file[q].mtime < file'[q].mtime
      BY <2>3 DEF Save, TypeOK, FileOK
    <2> QED
      BY <2>1, <2>4, ShrinkingOrdered DEF Carrying
  <1> QED
    BY <1>1, <1>2, <1>3, <1>4, <1>5, <1>6, <1>7 DEF Step

LEMMA OrderNext ==
  ASSUME SingleHandler, OrderInv, [Next]_vars
  PROVE  OrderInv'
  <1>t. TypeOK /\ TypeOK' /\ BasesPast /\ ApplyInv'
    BY ApplyNext DEF OrderInv, ApplyInv
  <1>o. \A t \in Thread : OrderOK(t)
    BY DEF OrderInv
  <1>1. CASE UNCHANGED vars
    <2>1. UNCHANGED <<file, changes, pc, local, nextId, crashes>>
      BY <1>1 DEF vars, locals
    <2>2. \A t \in Thread : Held(t)' = Held(t) /\ Late(t)' = Late(t)
      BY <2>1 DEF Held, Late, At
    <2> QED
      BY <2>1, <2>2, <1>t, <1>o, OrderStays DEF OrderInv
  <1>2. ASSUME NEW t \in Thread, Request(t) \/ Step(t)
        PROVE  OrderInv'
    <2>1. OrderOK(t)'
      BY <1>2, <1>t, <1>o, RequestOrdered, StepOrdered
    <2> QED
      BY <2>1, <1>t DEF OrderInv, SingleHandler
  <1>3. CASE OutsideEdit
    <2>1. UNCHANGED <<changes, pc, local, nextId, crashes>>
      BY <1>3 DEF OutsideEdit, locals
    <2>2. \A t \in Thread : Held(t)' = Held(t) /\ Late(t)' = Late(t)
      BY <2>1 DEF Held, Late, At
    <2>3. \A q \in Path : file'[q] = file[q] \/ file[q].mtime < file'[q].mtime
      BY <1>3, <1>t DEF OutsideEdit, Save, Absent, TypeOK, FileOK
    <2> QED
      BY <2>1, <2>2, <2>3, <1>t, <1>o, OrderStays DEF OrderInv
  <1>4. CASE Crash
    <2>1. /\ UNCHANGED <<changes, nextId>> /\ crashes' # 0
          /\ \A t \in Thread : pc'[t] = "idle"
      BY <1>4, <1>t DEF Crash, TypeOK
    <2>2. ASSUME NEW t \in Thread
          PROVE  OrderOK(t)'
      <3>1. Held(t)' = changes /\ Late(t)' = {} /\ changes \subseteq Held(t)
        BY <2>1 DEF Held, Late, At
      <3>2. Numbered(t)'
        BY <2>1, <3>1, <1>o DEF OrderOK, Numbered
      <3> QED
        BY <2>1, <3>1, <3>2 DEF OrderOK, Rebasing
    <2> QED
      BY <2>2, <1>t DEF OrderInv
  <1> QED
    BY <1>1, <1>2, <1>3, <1>4 DEF Next

LEMMA OrderInit == Init => OrderInv
  <1> SUFFICES ASSUME Init PROVE OrderInv
    OBVIOUS
  <1>1. \A t \in Thread : PlanFresh(t)
    BY DEF Init, PlanFresh, At
  <1>2. BasesPast /\ AppliedPast
    BY DEF Init, BasesPast, AppliedPast, Blank
  <1>3. \A t \in Thread : Held(t) = {} /\ Late(t) = {}
    BY DEF Init, Held, Late, At
  <1>4. \A t \in Thread : OrderOK(t)
    BY <1>3 DEF OrderOK, Numbered, Rebasing, Ordered
  <1> QED
    BY <1>1, <1>2, <1>4, TypeInit DEF OrderInv, ApplyInv

\* What the gate of session_preview and session_commit lets through has no change that was
\* staged on another version of its file, whatever was staged, dropped, rebased or half
\* committed before and whatever editors did, as long as requests are served one at a time.
\* What the property excepts is excepted here too: a rebase that a crash tore, a missing
\* file, and a change that took the ordinal of a dropped one and is read too early.
THEOREM CleanIsCurrent ==
  ASSUME SingleHandler
  PROVE  Spec => CleanMeansAllCurrent
  <1> DEFINE AllCurrent ==
        (\E t \in Thread : PassesGate(t)) =>
          \A c \in changes :
            \/ Current(c)
            \/ crashes > 0
            \/ ~file[c.path].exists
            \/ \E d, e \in ChangesOf(c.path) : d.id < e.id /\ d.ordinal > e.ordinal
  <1>2. ASSUME OrderInv, Next, NEW t \in Thread, PassesGate(t)
        PROVE  Passes
    <2>t. TypeOK /\ pc \in [Thread -> Labels]
      BY <1>2 DEF OrderInv, ApplyInv, TypeOK
    <2>1. CASE OutsideEdit \/ Crash
      BY <1>2, <2>1 DEF OutsideEdit, Crash, locals, PassesGate, At
    <2>2. ASSUME NEW u \in Thread, Request(u) \/ Step(u)
          PROVE  Passes
      <3>1. u = t /\ pc[t] = "idle" /\ pc'[t] \in {"commit_plan", "preview_plan"}
        BY <1>2 DEF SingleHandler, PassesGate, At
      <3>2. ~Step(t)
        BY <3>1 DEF Step, BeginSave, AdapterStage, StageWrite, StageSave, DropRemove, DropSave,
             RebaseEntry, RebaseSave, PreviewPlan, PreviewSave, CommitPlan, CommitNext,
             CommitWrite, CommitMismatch, CommitVerify, CommitRecord, CommitClose, At
      <3>3. Preview(t) \/ Commit(t)
        BY <2>2, <3>1, <3>2, <2>t
        DEF Request, Begin, EditStage, Stages, AdapterRead, Drop, Abort, Rebase, Start, Goto,
            locals
      <3> QED
        BY <3>3 DEF Preview, Commit
    <2> QED
      BY <1>2, <2>1, <2>2 DEF Next
  <1>3. ASSUME OrderInv, Passes, NEW t \in Thread, pc[t] = "idle", NEW c \in changes,
               crashes = 0, file[c.path].exists
        PROVE  \/ Current(c)
               \/ \E d, e \in ChangesOf(c.path) : d.id < e.id /\ d.ordinal > e.ordinal
    <2> DEFINE p == c.path
               first == FirstOf(ChangesOf(p))
    <2>1. Held(t) = changes /\ Late(t) = {} /\ OrderOK(t)
      BY <1>3, NotCarrying DEF Carrying, OrderInv
    <2>2. /\ c \in ChangesOf(p) /\ IsFiniteSet(ChangesOf(p)) /\ ChangesOf(p) \subseteq changes
          /\ \A d \in ChangesOf(p) : d.ordinal \in Nat /\ d.id \in Nat /\ d.path = p
      <3>1. ChangesOf(p) \subseteq changes
        BY DEF ChangesOf
      <3>2. IsFiniteSet(ChangesOf(p))
        BY <1>3, <3>1, FS_Subset DEF OrderInv, ApplyInv, TypeOK
      <3> QED
        BY <1>3, <3>1, <3>2 DEF ChangesOf, OrderInv, ApplyInv, TypeOK, ChangeOK
    <2>3. \A d, e \in ChangesOf(p) : d.id = e.id => d = e
      BY <2>1, <2>2 DEF OrderOK, Numbered
    <2>4. first \in ChangesOf(p) /\ IsFirst(first, ChangesOf(p))
      <3> HIDE DEF p
      <3> QED
        BY <2>2, <2>3, FirstOfFinite
    <2>5. Current(first) /\ first.path = p
      BY <1>3, <2>2, <2>4 DEF Passes, Touched, Clean, Current
    <2>6. CASE c = first
      BY <2>5, <2>6
    <2>7. CASE c # first /\ first.id < c.id
      <3>1. Reread(first, c)
        BY <2>2, <2>4, <2>5, <2>7 DEF Reread, IsFirst
      <3> QED
        BY <1>3, <2>1, <2>2, <2>4, <2>5, <3>1 DEF OrderOK, Ordered
    <2>8. CASE c # first /\ ~(first.id < c.id)
      <3> HIDE DEF first, p
      <3>1. c.id < first.id
        BY <2>2, <2>3, <2>4, <2>8
      <3>2. Before(first, c)
        BY <2>2, <2>4, <2>8 DEF IsFirst
      <3>3. c.ordinal > first.ordinal
        BY <2>2, <2>4, <3>1, <3>2 DEF Before
      <3> QED
        BY <2>2, <2>4, <3>1, <3>3 DEF p
    <2> QED
      BY <2>6, <2>7, <2>8
  <1>4. OrderInv /\ [Next]_vars => [AllCurrent]_vars
    <2> SUFFICES ASSUME OrderInv, Next, NEW t \in Thread, PassesGate(t), NEW c \in changes,
                        ~(crashes > 0), file[c.path].exists
                 PROVE  \/ Current(c)
                        \/ \E d, e \in ChangesOf(c.path) :
                             d.id < e.id /\ d.ordinal > e.ordinal
      OBVIOUS
    <2>1. crashes = 0
      BY DEF OrderInv, ApplyInv, TypeOK
    <2>2. Passes /\ pc[t] = "idle"
      BY <1>2 DEF PassesGate, At
    <2> QED
      BY <2>1, <2>2, <1>3
  <1> QED
    BY <1>4, OrderInit, OrderNext, PTL DEF Spec, CleanMeansAllCurrent

(***************************************************************************)
(* A change that is the only one of its file lands where it was staged.    *)
(* It fits the text its base names; the gate finds its base current; and   *)
(* nobody else writes until the commit is through with the file.           *)
(***************************************************************************)
\* Some changes that the order of their files tells apart
Sortable(S) == /\ IsFiniteSet(S)
               /\ \A c \in S : c.ordinal \in Nat /\ c.id \in Nat
               /\ \A c, d \in S : c.id = d.id => c = d

LEMMA LastOfFinite ==
  ASSUME NEW S, S # {}, Sortable(S)
  PROVE  LastOf(S) \in S /\ \A d \in S \ {LastOf(S)} : Before(d, LastOf(S))
  <1> DEFINE Behind(x) == {y \in S : Before(x, y)}
             Behinds   == {Behind(x) : x \in S}
  <1>o. /\ IsFiniteSet(S)
        /\ \A x \in S : ~Before(x, x)
        /\ \A x, y \in S : x # y => Before(x, y) \/ Before(y, x)
        /\ \A x, y, z \in S : Before(x, y) /\ Before(y, z) => Before(x, z)
    BY DEF Before, Sortable
  <1>1. Behinds \subseteq FiniteSubsetsOf(S) /\ Behinds # {}
    <2>1. \A x \in S : Behind(x) \in SUBSET S
      OBVIOUS
    <2>2. \A x \in S : IsFiniteSet(Behind(x))
      BY <2>1, <1>o, FS_Subset
    <2>3. \A x \in S : Behind(x) \in FiniteSubsetsOf(S)
      BY <2>1, <2>2 DEF FiniteSubsetsOf
    <2> HIDE DEF Behind
    <2> QED
      BY <2>3
  <1>2. PICK A \in Behinds : \A B \in Behinds : ~(<<B, A>> \in StrictSubsetOrdering(S))
    <2> HIDE DEF Behinds
    <2> QED
      BY <1>1, FS_StrictSubsetOrderingWellFounded, WFMin
  <1>3. PICK x \in S : A = Behind(x)
    OBVIOUS
  <1>4. ASSUME NEW y \in Behind(x)
        PROVE  FALSE
    <2>1. Behind(y) \subseteq Behind(x) /\ y \notin Behind(y) /\ y \in S
      BY <1>o, <1>4
    <2>2. <<Behind(y), Behind(x)>> \in StrictSubsetOrdering(S)
      BY <2>1, <1>4 DEF StrictSubsetOrdering
    <2> QED
      BY <2>1, <2>2, <1>2, <1>3
  <1>5. \A d \in S \ {x} : Before(d, x)
    BY <1>4, <1>o
  <1> QED
    BY <1>5 DEF LastOf

\* The function Replay chooses: what the changes T make of the content d
ReplayStep(d, f, T) ==
  IF T = {} THEN {d}
  ELSE LET c == LastOf(T)
       IN  {ApplyChange(c.edit, e) : e \in {e \in f[T \ {c}] : RebasesOn(c.edit, e)}}

Replays(S, d, f) == f = [T \in SUBSET S |-> ReplayStep(d, f, T)]

Replayed(S, d) == CHOOSE f : Replays(S, d, f)

LEMMA ReplayIs ==
  ASSUME NEW S, NEW d
  PROVE  Replay(S, d, RebasesOn) = Replayed(S, d)[S]
  BY DEF Replay, Replayed, Replays, ReplayStep

LEMMA ReplayExists ==
  ASSUME NEW S, Sortable(S), NEW d
  PROVE  \A T \in SUBSET S : Replayed(S, d)[T] = ReplayStep(d, Replayed(S, d), T)
  <1> DEFINE Good(f, k) == /\ f = [T \in SUBSET S |-> f[T]]
                           /\ \A T \in SUBSET S :
                                Cardinality(T) <= k => f[T] = ReplayStep(d, f, T)
             K == {k \in Nat : \E f : Good(f, k)}
  <1>c. \A T \in SUBSET S : IsFiniteSet(T) /\ Cardinality(T) \in Nat
    BY FS_Subset, FS_CardinalityType DEF Sortable
  <1>0. \A T \in SUBSET S : T # {} =>
          /\ LastOf(T) \in T
          /\ Cardinality(T \ {LastOf(T)}) = Cardinality(T) - 1
    <2> SUFFICES ASSUME NEW T \in SUBSET S, T # {}
                 PROVE  /\ LastOf(T) \in T
                        /\ Cardinality(T \ {LastOf(T)}) = Cardinality(T) - 1
      OBVIOUS
    <2>1. Sortable(T)
      BY <1>c DEF Sortable
    <2>2. LastOf(T) \in T
      BY <2>1, LastOfFinite
    <2> QED
      BY <1>c, <2>2, FS_RemoveElement
  <1>1. 0 \in K
    <2> DEFINE f == [T \in SUBSET S |-> {d}]
    <2>1. \A T \in SUBSET S : Cardinality(T) <= 0 => T = {}
      BY <1>c, FS_EmptySet
    <2>2. \A T \in SUBSET S : Cardinality(T) <= 0 => f[T] = ReplayStep(d, f, T)
      BY <2>1 DEF ReplayStep
    <2>3. f = [T \in SUBSET S |-> f[T]]
      OBVIOUS
    <2> HIDE DEF f
    <2>4. Good(f, 0)
      BY <2>2, <2>3
    <2> HIDE DEF Good
    <2> QED
      BY <2>4
  <1>2. ASSUME NEW k \in Nat, k \in K
        PROVE  k + 1 \in K
    <2>1. PICK f : Good(f, k)
      <3> HIDE DEF Good
      <3> QED
        BY <1>2
    <2> DEFINE g == [T \in SUBSET S |-> IF Cardinality(T) <= k THEN f[T] ELSE ReplayStep(d, f, T)]
    <2>2. /\ g = [T \in SUBSET S |-> g[T]]
          /\ \A T \in SUBSET S : g[T] = IF Cardinality(T) <= k THEN f[T] ELSE ReplayStep(d, f, T)
      OBVIOUS
    <2> HIDE DEF g
    <2>3. ASSUME NEW T \in SUBSET S, Cardinality(T) <= k + 1
          PROVE  g[T] = ReplayStep(d, g, T)
      <3>1. g[T] = ReplayStep(d, f, T)
        BY <2>1, <2>2
      <3>2. CASE T = {}
        BY <3>1, <3>2 DEF ReplayStep
      <3>3. CASE T # {}
        <4>1. T \ {LastOf(T)} \in SUBSET S /\ Cardinality(T \ {LastOf(T)}) <= k
          BY <1>c, <1>0, <2>3, <3>3
        <4>2. g[T \ {LastOf(T)}] = f[T \ {LastOf(T)}]
          BY <2>2, <4>1
        <4> QED
          BY <3>1, <3>3, <4>2 DEF ReplayStep
      <3> QED
        BY <3>2, <3>3
    <2>4. Good(g, k + 1)
      BY <2>2, <2>3
    <2> HIDE DEF Good
    <2> QED
      BY <2>4
  <1>3. PICK f : Good(f, Cardinality(S))
    <2>1. Nat \subseteq K
      <3> HIDE DEF K
      <3> QED
        BY <1>1, <1>2, SetInduction
    <2> HIDE DEF Good
    <2> QED
      BY <1>c, <2>1
  <1>4. \A T \in SUBSET S : Cardinality(T) <= Cardinality(S)
    BY FS_Subset DEF Sortable
  <1>5. f = [T \in SUBSET S |-> f[T]] /\ \A T \in SUBSET S : f[T] = ReplayStep(d, f, T)
    BY <1>3, <1>4
  <1>6. f = [T \in SUBSET S |-> ReplayStep(d, f, T)]
    BY <1>5
  <1>7. Replays(S, d, f)
    BY <1>6 DEF Replays
  <1>8. PICK g : g = Replayed(S, d)
    OBVIOUS
  <1>9. Replays(S, d, g)
    BY <1>7, <1>8 DEF Replayed
  <1> DEFINE h == [T \in SUBSET S |-> ReplayStep(d, g, T)]
  <1>10. g = h
    BY <1>9 DEF Replays
  <1>11. \A T \in SUBSET S : h[T] = ReplayStep(d, g, T)
    OBVIOUS
  <1> HIDE DEF h
  <1> QED
    BY <1>8, <1>10, <1>11

\* If some changes apply, the first of them fits the content itself.
LEMMA FirstFits ==
  ASSUME NEW S, Sortable(S), NEW d, NEW c \in S, IsFirst(c, S),
         Replay(S, d, RebasesOn) # {}
  PROVE  RebasesOn(c.edit, d)
  <1>1. PICK f : f = Replayed(S, d)
    OBVIOUS
  <1>2. \A T \in SUBSET S : f[T] = ReplayStep(d, f, T)
    BY <1>1, ReplayExists
  <1>c. \A T \in SUBSET S : IsFiniteSet(T) /\ Cardinality(T) \in Nat
    BY FS_Subset, FS_CardinalityType DEF Sortable
  <1> DEFINE K == {k \in Nat : \A T \in SUBSET S :
                     Cardinality(T) = k /\ c \in T /\ f[T] # {} => RebasesOn(c.edit, d)}
  <1>3. 0 \in K
    BY <1>c, FS_EmptySet
  <1>4. ASSUME NEW k \in Nat, k \in K
        PROVE  k + 1 \in K
    <2> SUFFICES ASSUME NEW T \in SUBSET S, Cardinality(T) = k + 1, c \in T, f[T] # {}
                 PROVE  RebasesOn(c.edit, d)
      OBVIOUS
    <2>1. PICK l : l = LastOf(T)
      OBVIOUS
    <2>2. l \in T /\ \A e \in T \ {l} : Before(e, l)
      <3>1. Sortable(T) /\ T # {}
        BY <1>c DEF Sortable
      <3> QED
        BY <2>1, <3>1, LastOfFinite
    <2>3. PICK e \in f[T \ {l}] : RebasesOn(l.edit, e)
      <3>1. f[T] = ReplayStep(d, f, T) /\ T # {}
        BY <1>2
      <3> QED
        BY <2>1, <3>1 DEF ReplayStep
    <2>4. CASE l = c
      <3>1. T = {c}
        <4>1. ASSUME NEW x \in T \ {c}
              PROVE  FALSE
          <5>1. Before(x, c) /\ Before(c, x) /\ x \in S
            BY <2>2, <2>4, <4>1 DEF IsFirst
          <5>2. /\ x.ordinal \in Nat /\ x.id \in Nat /\ c.ordinal \in Nat /\ c.id \in Nat
            BY <5>1 DEF Sortable
          <5> QED
            BY <5>1, <5>2 DEF Before
        <4> QED
          BY <4>1
      <3>2. T \ {l} = {} /\ {} \in SUBSET S
        BY <2>4, <3>1
      <3>3. f[T \ {l}] = {d}
        BY <1>2, <3>2 DEF ReplayStep
      <3> QED
        BY <2>3, <2>4, <3>3
    <2>5. CASE l # c
      <3>1. T \ {l} \in SUBSET S /\ c \in T \ {l} /\ f[T \ {l}] # {}
        BY <2>3, <2>5
      <3>2. Cardinality(T \ {l}) = k
        <4>1. IsFiniteSet(T) /\ Cardinality(T) = k + 1 /\ l \in T
          BY <1>c, <2>2
        <4>2. Cardinality(T \ {l}) = Cardinality(T) - 1
          BY <4>1, FS_RemoveElement
        <4>3. k \in Nat
          OBVIOUS
        <4> QED
          BY <4>1, <4>2, <4>3
      <3>3. \A U \in SUBSET S :
              Cardinality(U) = k /\ c \in U /\ f[U] # {} => RebasesOn(c.edit, d)
        BY <1>4
      <3> QED
        BY <3>1, <3>2, <3>3
    <2> QED
      BY <2>4, <2>5
  <1>5. Nat \subseteq K
    <2> HIDE DEF K
    <2> QED
      BY <1>3, <1>4, SetInduction
  <1>6. f[S] # {} /\ Cardinality(S) \in K /\ S \in SUBSET S
    <2>1. Cardinality(S) \in K
      <3> HIDE DEF K
      <3> QED
        BY <1>5, <1>c
    <2> QED
      BY <1>1, <2>1, ReplayIs
  <1> QED
    BY <1>6

\* One change that fits a content applies to it.
LEMMA LoneApplies ==
  ASSUME NEW c, c.ordinal \in Nat, c.id \in Nat, NEW d, RebasesOn(c.edit, d)
  PROVE  Replay({c}, d, RebasesOn) # {}
  <1>1. Sortable({c})
    BY FS_Singleton DEF Sortable
  <1>2. PICK f : f = Replayed({c}, d)
    OBVIOUS
  <1>3. f[{}] = ReplayStep(d, f, {}) /\ f[{c}] = ReplayStep(d, f, {c})
    BY <1>1, <1>2, ReplayExists
  <1>4. LastOf({c}) = c
    BY <1>1, LastOfFinite
  <1>5. f[{}] = {d} /\ {c} \ {c} = {}
    BY <1>3 DEF ReplayStep
  <1>6. f[{c}] = {ApplyChange(c.edit, e) : e \in {e \in f[{}] : RebasesOn(c.edit, e)}}
    BY <1>3, <1>4, <1>5 DEF ReplayStep
  <1>7. d \in {e \in f[{}] : RebasesOn(c.edit, e)}
    BY <1>5
  <1>8. f[{c}] # {}
    BY <1>6, <1>7
  <1> QED
    BY <1>2, <1>8, ReplayIs

\* A change that was matched with its file's own text fits the text its base names.
Suits(c) == c.aux_own => RebasesOn(c.edit, c.base.hash)

\* The only change of a planned file fits the file as it is.
LonePlan(t, p) ==
  \A c \in local[t].plan[p].items :
    local[t].plan[p].items = {c} /\ c.aux_own => RebasesOn(c.edit, file[p].content)

PlanLands(t) ==
  pc[t] \in Writing =>
    \A p \in PlanPaths(t) :
      /\ p \in Path
      /\ \/ At(t, "commit_verify") /\ IsNext(p, PlanPaths(t))
         \/ LonePlan(t, p)

\* The first change of a file that is rebased fits the file; the gate found every file
\* that is going to be planned clean.
LandsOK(t) ==
  /\ At(t, "stage_write") => \A c \in local[t].entries : Suits(c)
  /\ At(t, "rebase_entry") =>
       \A c \in local[t].entries :
         IsFirst(c, ChangesOf(c.path)) => RebasesOn(c.edit, file[c.path].content)
  /\ At(t, "commit_plan") => \A p \in Touched : Clean(p)
  /\ PlanLands(t)

LandsInv == OrderInv /\ (\A c \in changes : Suits(c)) /\ \A t \in Thread : LandsOK(t)

LEMMA NotLanding ==
  ASSUME NEW t \in Thread,
         pc'[t] \notin {"stage_write", "rebase_entry", "commit_plan"} \cup Writing
  PROVE  LandsOK(t)'
  BY DEF LandsOK, PlanLands, At

\* Change files have names of their own.
LEMMA ChangesSortable ==
  ASSUME OrderInv, NEW t \in Thread, pc[t] # "stage_write", NEW p
  PROVE  Sortable(ChangesOf(p)) /\ ChangesOf(p) \subseteq changes
  <1>1. ChangesOf(p) \subseteq changes /\ changes \subseteq Held(t)
    BY DEF ChangesOf, Held
  <1>2. TypeOK /\ Numbered(t)
    BY DEF OrderInv, ApplyInv, OrderOK
  <1>3. IsFiniteSet(ChangesOf(p))
    BY <1>1, <1>2, FS_Subset DEF TypeOK
  <1>4. \A c \in changes : c.ordinal \in Nat /\ c.id \in Nat
    BY <1>2 DEF TypeOK, ChangeOK
  <1> QED
    BY <1>1, <1>2, <1>3, <1>4 DEF Sortable, Numbered

\* What is staged on a text fits it.
LEMMA StagesLands ==
  ASSUME TypeOK, NEW t \in Thread, NEW e, NEW p \in Path, NEW own,
         own => RebasesOn(e, file[p].content), Stages(t, e, p, own)
  PROVE  /\ \A c \in local'[t].entries : Suits(c)
         /\ pc'[t] = "stage_write" /\ changes' = changes /\ file' = file
  <1>1. local'[t].entries = {NewChange(e, p, own)}
    BY StartEntries DEF Stages
  <1>2. /\ NewChange(e, p, own).edit = e /\ NewChange(e, p, own).base.hash = file[p].content
        /\ NewChange(e, p, own).aux_own = own
    BY DEF NewChange, Fingerprint, FingerprintOf
  <1>3. pc'[t] = "stage_write" /\ changes' = changes /\ file' = file
    BY DEF Stages, Start, TypeOK
  <1> QED
    BY <1>1, <1>2, <1>3 DEF Suits

LEMMA RequestLands ==
  ASSUME LandsInv, PlainEdits, NEW t \in Thread, Request(t)
  PROVE  LandsOK(t)'
  <1>t. TypeOK /\ pc \in [Thread -> Labels]
    BY DEF LandsInv, OrderInv, ApplyInv, TypeOK
  <1>q. changes' = changes /\ file' = file
    BY <1>t, RequestIsQuiet
  <1>1. CASE Begin(t) \/ Drop(t) \/ Preview(t)
    <2>1. pc'[t] \in {"begin_save", "drop_remove", "preview_plan"}
      BY <1>1, <1>t DEF Begin, Drop, Preview, Start
    <2> QED
      BY <2>1, NotLanding DEF Writing
  <1>2. CASE EditStage(t)
    <2>1. PICK e \in Edits, p \in Path : /\ CanStage(e, file[p].content)
                                         /\ Stages(t, Stage(e, file[p].content), p, TRUE)
      BY <1>2 DEF EditStage
    <2>2. RebasesOn(Stage(e, file[p].content), file[p].content)
      BY <2>1, StagedFits DEF PlainEdits, RebasesOn
    <2>3. pc'[t] = "stage_write" /\ \A c \in local'[t].entries : Suits(c)
      BY <1>t, <2>1, <2>2, StagesLands
    <2> QED
      BY <2>3 DEF LandsOK, PlanLands, At, Writing, Suits
  <1>3. CASE AdapterRead(t)
    <2>1. pc'[t] = "adapter_stage"
      BY <1>3, <1>t DEF AdapterRead, Goto
    <2> QED
      BY <2>1, NotLanding DEF Writing
  <1>4. CASE Abort(t)
    <2>1. pc'[t] = "idle"
      BY <1>4 DEF Abort, locals, At
    <2> QED
      BY <2>1, NotLanding DEF Writing
  <1>5. CASE Rebase(t)
    <2> DEFINE S == {c \in changes : RebaseRequired(c.path)}
    <2>1. /\ Start(t, IF S = {} THEN "rebase_keep" ELSE "rebase_entry", S)
          /\ At(t, "idle")
      BY <1>5 DEF Rebase
    <2>2. local'[t].entries = S
      BY <2>1, <1>t, StartEntries
    <2>3. pc'[t] \in {"rebase_keep", "rebase_entry"}
      BY <2>1, <1>t DEF Start
    <2>4. ASSUME NEW c \in S, IsFirst(c, ChangesOf(c.path))
          PROVE  RebasesOn(c.edit, file[c.path].content)
      <3>1. Replay(ChangesOf(c.path), file[c.path].content, RebasesOn) # {}
        BY DEF RebaseRequired, Rebasable
      <3>2. Sortable(ChangesOf(c.path)) /\ c \in ChangesOf(c.path)
        BY <2>1, ChangesSortable DEF LandsInv, At, ChangesOf
      <3> QED
        BY <2>4, <3>1, <3>2, FirstFits
    <2>5. \A c \in local'[t].entries :
            IsFirst(c, ChangesOf(c.path)') => RebasesOn(c.edit, file'[c.path].content)
      BY <1>q, <2>2, <2>4 DEF ChangesOf
    <2> QED
      BY <2>3, <2>5 DEF LandsOK, PlanLands, At, Writing
  <1>6. CASE Commit(t)
    <2>1. pc'[t] = "commit_plan" /\ \A p \in Touched : Clean(p)
      BY <1>6, <1>t DEF Commit, Passes, Start
    <2>2. \A p \in Touched' : Clean(p)'
      BY <1>q, <2>1 DEF Touched, Clean, ChangesOf, Fingerprint, FingerprintOf
    <2> QED
      BY <2>1, <2>2 DEF LandsOK, PlanLands, At, Writing
  <1> QED
    BY <1>1, <1>2, <1>3, <1>4, <1>5, <1>6 DEF Request

\* The change a rebase has come to fits the file if it is the file's first; the first
\* changes that are still to come stay the first.
LEMMA RebaseLands ==
  ASSUME LandsInv, NEW t \in Thread, RebaseEntry(t)
  PROVE  LandsOK(t)' /\ \A c \in changes' : Suits(c)
  <1>i. TypeOK /\ OrderOK(t) /\ LandsOK(t) /\ \A c \in changes : Suits(c)
    BY DEF LandsInv, OrderInv, ApplyInv
  <1>t. /\ pc \in [Thread -> Labels] /\ pc[t] = "rebase_entry"
        /\ local = [u \in Thread |-> local[u]] /\ LocalOK(local[t])
    BY <1>i DEF RebaseEntry, At, TypeOK
  <1>h. Held(t) = changes /\ Late(t) = local[t].entries
    BY <1>t DEF Held, Late, At
  <1>1. PICK c \in local[t].entries :
          /\ changes' = {d \in changes : ~SameFile(c, d)}
                          \cup {[c EXCEPT !.base = Fingerprint(c.path),
                                          !.aux_own = IsFirst(c, ChangesOf(c.path))]}
          /\ local' = [local EXCEPT ![t].entries = @ \ {c}]
          /\ Goto(t, IF local[t].entries = {c} THEN "rebase_save" ELSE "rebase_entry")
    BY DEF RebaseEntry
  <1>2. PICK own : own = IsFirst(c, ChangesOf(c.path))
    OBVIOUS
  <1>3. PICK rebased : rebased = [c EXCEPT !.base = Fingerprint(c.path), !.aux_own = own]
    OBVIOUS
  <1>c. ChangeOK(c) /\ c \in changes
    BY <1>1, <1>t, <1>h, <1>i DEF LocalOK, OrderOK, Rebasing
  <1>4. /\ rebased.ordinal = c.ordinal /\ rebased.id = c.id /\ rebased.path = c.path
        /\ rebased.edit = c.edit /\ rebased.base = Fingerprint(c.path)
        /\ rebased.aux_own = own
    <2>1. rebased = [ordinal |-> c.ordinal, id |-> c.id, path |-> c.path,
                     edit |-> c.edit, base |-> Fingerprint(c.path), aux_own |-> own]
      BY <1>c, <1>3, RebasedChange
    <2> QED
      BY <2>1
  <1>5. changes' = (changes \ {c}) \cup {rebased}
    BY <1>1, <1>2, <1>3, <1>h, <1>c, <1>i DEF OrderOK, Numbered, SameFile
  <1>6. pc'[t] \in {"rebase_save", "rebase_entry"} /\ file' = file
    BY <1>1, <1>t DEF Goto, RebaseEntry
  <1>7. local'[t].entries = local[t].entries \ {c}
    <2>1. local'[t] = [local[t] EXCEPT !.entries = local[t].entries \ {c}]
      BY <1>1, <1>t
    <2> QED
      BY <2>1, <1>t, LocalUpdate
  <1>8. Suits(rebased)
    <2>1. own => RebasesOn(c.edit, file[c.path].content)
      BY <1>2, <1>i, <1>t DEF LandsOK, At
    <2> QED
      BY <2>1, <1>4 DEF Suits, Fingerprint, FingerprintOf
  <1>9. ASSUME NEW x \in local[t].entries \ {c}, IsFirst(x, ChangesOf(x.path)')
        PROVE  RebasesOn(x.edit, file[x.path].content)
    <2>1. x \in changes /\ x # c /\ x.id # c.id
      BY <1>9, <1>c, <1>h, <1>i DEF OrderOK, Rebasing, Numbered
    <2>2. ASSUME NEW d \in ChangesOf(x.path) \ {x}
          PROVE  Before(x, d)
      <3>1. d \in changes /\ d.path = x.path /\ d # x
        BY DEF ChangesOf
      <3>2. CASE d # c
        <4>1. d \in ChangesOf(x.path)'
          BY <1>5, <3>1, <3>2 DEF ChangesOf
        <4> QED
          BY <1>9, <3>1, <4>1 DEF IsFirst
      <3>3. CASE d = c
        <4>1. rebased \in ChangesOf(x.path)' /\ rebased # x
          BY <1>4, <1>5, <2>1, <3>1, <3>3 DEF ChangesOf
        <4>2. Before(x, rebased)
          BY <1>9, <4>1 DEF IsFirst
        <4> QED
          BY <1>4, <3>3, <4>2 DEF Before
      <3> QED
        BY <3>2, <3>3
    <2>3. IsFirst(x, ChangesOf(x.path))
      BY <2>2 DEF IsFirst
    <2> QED
      BY <1>i, <1>t, <1>9, <2>3 DEF LandsOK, At
  <1>10. \A x \in local'[t].entries :
           IsFirst(x, ChangesOf(x.path)') => RebasesOn(x.edit, file'[x.path].content)
    BY <1>6, <1>7, <1>9
  <1> QED
    BY <1>5, <1>6, <1>8, <1>10, <1>i DEF LandsOK, PlanLands, At, Writing

\* A plan that is made of clean files holds lone changes that fit them; writing one file
\* leaves the others.
LEMMA CommitLands ==
  ASSUME LandsInv, NEW t \in Thread, Step(t), pc'[t] \in Writing
  PROVE  PlanLands(t)'
  <1>i. /\ TypeOK /\ LandsOK(t) /\ PlanLands(t) /\ \A c \in changes : Suits(c)
    BY DEF LandsInv, OrderInv, ApplyInv, LandsOK
  <1> SUFFICES ASSUME NEW p \in PlanPaths(t)'
               PROVE  /\ p \in Path
                      /\ (At(t, "commit_verify")' /\ IsNext(p, PlanPaths(t)')) \/ LonePlan(t, p)'
    BY DEF PlanLands
  <1>1. CASE /\ At(t, "commit_plan") /\ PlanBuilds /\ local'[t].plan = Plan /\ file' = file
    <2>1. p \in Touched /\ p \in Path
      BY <1>1, <1>i DEF PlanPaths, Plan, Touched, TypeOK, ChangeOK
    <2>2. local'[t].plan[p].items = ChangesOf(p)
      BY <1>1, <2>1, PlanIsCurrent
    <2>3. ASSUME NEW c, ChangesOf(p) = {c}, c.aux_own
          PROVE  RebasesOn(c.edit, file[p].content)
      <3>1. FirstOf({c}) = c
        BY DEF FirstOf, IsFirst
      <3>2. c.base = Fingerprint(p)
        BY <1>1, <1>i, <2>1, <2>3, <3>1 DEF LandsOK, Clean
      <3>3. Suits(c)
        BY <1>i, <2>3 DEF ChangesOf
      <3> QED
        BY <2>3, <3>2, <3>3 DEF Suits, Fingerprint, FingerprintOf
    <2> QED
      BY <1>1, <2>1, <2>2, <2>3 DEF LonePlan
  <1>2. CASE /\ At(t, "commit_next") /\ local'[t].plan = local[t].plan /\ file' = file
    BY <1>2, <1>i DEF PlanLands, LonePlan, PlanPaths, Writing, At
  <1>3. CASE /\ At(t, "commit_apply") /\ pc'[t] = "commit_verify"
             /\ local'[t].plan = local[t].plan
             /\ \E q \in Path : /\ IsNext(q, PlanPaths(t))
                                /\ \A r \in Path \ {q} : file'[r] = file[r]
    <2>1. PICK q \in Path : /\ IsNext(q, PlanPaths(t))
                            /\ \A r \in Path \ {q} : file'[r] = file[r]
      BY <1>3
    <2>2. PlanPaths(t)' = PlanPaths(t)
      BY <1>3 DEF PlanPaths
    <2>3. p \in Path /\ LonePlan(t, p)
      BY <1>3, <1>i, <2>2 DEF PlanLands, Writing, At
    <2>4. p # q => LonePlan(t, p)'
      BY <1>3, <2>1, <2>3 DEF LonePlan
    <2> QED
      BY <1>3, <2>1, <2>2, <2>3, <2>4 DEF At
  <1>4. CASE /\ At(t, "commit_verify") /\ file' = file
             /\ \E q \in Path :
                  /\ IsNext(q, PlanPaths(t))
                  /\ local'[t].plan = [r \in PlanPaths(t) \ {q} |-> local[t].plan[r]]
    <2>1. PICK q \in Path :
                  /\ IsNext(q, PlanPaths(t))
                  /\ local'[t].plan = [r \in PlanPaths(t) \ {q} |-> local[t].plan[r]]
      BY <1>4
    <2>2. p \in PlanPaths(t) \ {q} /\ local'[t].plan[p] = local[t].plan[p]
      BY <2>1 DEF PlanPaths
    <2>3. ~IsNext(p, PlanPaths(t))
      BY <2>1, <2>2, NextIsUnique
    <2>4. p \in Path /\ LonePlan(t, p)
      BY <1>4, <1>i, <2>2, <2>3 DEF PlanLands, Writing, At
    <2> QED
      BY <1>4, <2>2, <2>4 DEF LonePlan
  <1> QED
    BY <1>1, <1>2, <1>3, <1>4, <1>i, CommitSteps

LEMMA StepLands ==
  ASSUME LandsInv, NEW t \in Thread, Step(t)
  PROVE  LandsOK(t)' /\ \A c \in changes' : Suits(c)
  <1>i. TypeOK /\ LandsOK(t) /\ \A c \in changes : Suits(c)
    BY DEF LandsInv, OrderInv, ApplyInv
  <1>t. pc \in [Thread -> Labels]
    BY <1>i DEF TypeOK
  <1>f. Finish(t) => pc'[t] = "idle"
    BY <1>t DEF Finish
  <1>1. CASE \/ BeginSave(t) \/ StageSave(t) \/ DropSave(t) \/ RebaseSave(t)
             \/ PreviewPlan(t) \/ PreviewSave(t) \/ CommitMismatch(t) \/ CommitRecord(t)
             \/ CommitClose(t)
    <2>1. pc'[t] \in {"idle", "preview_save", "commit_close"}
      BY <1>1, <1>t, <1>f
      DEF BeginSave, StageSave, DropSave, RebaseSave, PreviewPlan, PreviewSave,
          CommitMismatch, CommitRecord, CommitClose, Goto
    <2>2. changes' = changes
      BY <1>1 DEF BeginSave, StageSave, DropSave, RebaseSave, PreviewPlan, PreviewSave,
                  CommitMismatch, CommitRecord, CommitClose, SaveState, globals
    <2> QED
      BY <1>i, <2>1, <2>2, NotLanding DEF Writing
  <1>2. CASE CommitPlan(t) \/ CommitNext(t) \/ CommitWrite(t) \/ CommitVerify(t)
    <2>1. pc'[t] \in Writing \cup {"idle", "commit_record"}
      BY <1>2, <1>t, <1>f DEF CommitPlan, CommitNext, CommitWrite, CommitVerify, Goto, Writing
    <2>2. changes' = changes
      BY <1>2 DEF CommitPlan, CommitNext, CommitWrite, CommitVerify, SaveState, globals
    <2>3. CASE pc'[t] \in Writing
      <3>1. PlanLands(t)'
        BY <2>3, CommitLands
      <3> QED
        BY <1>i, <2>2, <2>3, <3>1 DEF LandsOK, At, Writing
    <2>4. CASE pc'[t] \notin Writing
      BY <1>i, <2>1, <2>2, <2>4, NotLanding
    <2> QED
      BY <2>3, <2>4
  <1>3. CASE AdapterStage(t)
    <2>1. At(t, "adapter_stage") /\ local[t].draft.path \in Path
      BY <1>3, <1>i DEF AdapterStage, TypeOK
    <2>2. CASE Finish(t) /\ UNCHANGED globals
      BY <2>2, <1>i, <1>f, NotLanding DEF globals, Writing
    <2>3. CASE ~(Finish(t) /\ UNCHANGED globals)
      <3>1. PICK read, next, present :
              /\ read = local[t].draft.read /\ next = local[t].draft.next
              /\ present = file[local[t].draft.path].content
        OBVIOUS
      <3>2. PICK e : e = WholeFile(read, next)
        OBVIOUS
      <3>3. Stages(t, Stage(e, present), local[t].draft.path, read = present)
        BY <1>3, <2>3, <3>1, <3>2 DEF AdapterStage
      <3>4. ASSUME read = present
            PROVE  RebasesOn(Stage(e, present), present)
        <4>1. /\ e \in [operation : {e.operation}, line_start : {e.line_start},
                        line_end : {e.line_end}, selector : {e.selector},
                        expected_content : {e.expected_content},
                        new_content : {e.new_content}]
              /\ e.operation = "replace_content" /\ e.expected_content = present
          BY <3>2, <3>4 DEF WholeFile
        <4>2. CanStage(e, present)
          BY <4>1 DEF CanStage, CanApply
        <4> QED
          BY <4>1, <4>2, StagedFits DEF RebasesOn
      <3>5. /\ \A c \in local'[t].entries : Suits(c)
            /\ pc'[t] = "stage_write" /\ changes' = changes
        BY <1>i, <2>1, <3>1, <3>3, <3>4, StagesLands
      <3> QED
        BY <1>i, <3>5 DEF LandsOK, PlanLands, At, Writing
    <2> QED
      BY <2>2, <2>3
  <1>4. CASE StageWrite(t)
    <2>1. /\ At(t, "stage_write") /\ pc'[t] = "stage_save"
          /\ changes' = changes \cup local[t].entries
      BY <1>4, <1>t DEF StageWrite, Goto
    <2> QED
      BY <1>i, <2>1, NotLanding DEF LandsOK, Writing
  <1>5. CASE DropRemove(t)
    <2>1. pc'[t] \in {"drop_save", "drop_remove"} /\ changes' \subseteq changes
      BY <1>5, <1>t DEF DropRemove, Goto
    <2> QED
      BY <1>i, <2>1, NotLanding DEF Writing
  <1>6. CASE RebaseEntry(t)
    BY <1>6, RebaseLands
  <1> QED
    BY <1>1, <1>2, <1>3, <1>4, <1>5, <1>6 DEF Step

LEMMA LandsNext ==
  ASSUME SingleHandler, EditorsWait, PlainEdits, LandsInv, [Next]_vars
  PROVE  LandsInv'
  <1>i. TypeOK /\ OrderInv' /\ \A c \in changes : Suits(c)
    BY OrderNext DEF LandsInv, OrderInv, ApplyInv
  <1>o. \A t \in Thread : LandsOK(t)
    BY DEF LandsInv
  <1>1. CASE UNCHANGED vars
    <2>1. \A t \in Thread : LandsOK(t)'
      BY <1>1, <1>o
      DEF vars, LandsOK, PlanLands, LonePlan, PlanPaths, ChangesOf, Touched, Clean,
          Fingerprint, FingerprintOf, At
    <2> QED
      BY <1>1, <1>i, <2>1 DEF LandsInv, vars, Suits
  <1>2. ASSUME NEW t \in Thread, Request(t)
        PROVE  LandsInv'
    <2>1. LandsOK(t)' /\ changes' = changes
      BY <1>2, <1>i, RequestLands, RequestIsQuiet
    <2> QED
      BY <1>i, <2>1 DEF LandsInv, SingleHandler, Suits
  <1>3. ASSUME NEW t \in Thread, Step(t)
        PROVE  LandsInv'
    <2>1. LandsOK(t)' /\ \A c \in changes' : Suits(c)
      BY <1>3, StepLands
    <2> QED
      BY <1>i, <2>1 DEF LandsInv, SingleHandler, Suits
  <1>4. CASE OutsideEdit \/ Crash
    <2>1. changes' = changes /\ \A t \in Thread : pc'[t] = "idle"
      BY <1>4 DEF OutsideEdit, Crash, locals, At
    <2>2. \A t \in Thread : LandsOK(t)'
      BY <2>1, NotLanding DEF Writing
    <2> QED
      BY <1>i, <2>1, <2>2 DEF LandsInv, Suits
  <1> QED
    BY <1>1, <1>2, <1>3, <1>4 DEF Next

\* The only change of a file, matched with the file's own text when it was staged or
\* rebased, fits the file that a commit writes it to: whatever was staged, dropped, rebased
\* or half committed before, as long as requests are served one at a time, editors leave
\* the files alone meanwhile, and whoever rewrites a whole file does not name a text of his
\* own that it should have (recovery_check, recovery_rebase, session_commit).
THEOREM LoneChangesLand ==
  ASSUME SingleHandler, EditorsWait, PlainEdits
  PROVE  Spec => LoneChangeLands
  <1> DEFINE Fits ==
        \A t \in Thread, p \in Path :
          /\ Writes(t, p)
          /\ \E c \in local[t].plan[p].items : local[t].plan[p].items = {c} /\ c.aux_own
          => Lands(t, p)
  <1>1. Init => LandsInv
    <2> SUFFICES ASSUME Init PROVE LandsInv
      OBVIOUS
    <2>1. OrderInv
      BY OrderInit
    <2>2. changes = {} /\ \A t \in Thread : pc[t] = "idle"
      BY DEF Init
    <2>3. \A t \in Thread : LandsOK(t)
      BY <2>2 DEF LandsOK, PlanLands, At, Writing
    <2> QED
      BY <2>1, <2>2, <2>3 DEF LandsInv
  <1>2. LandsInv => Fits
    <2> SUFFICES ASSUME LandsInv, NEW t \in Thread, NEW p \in Path, Writes(t, p),
                        NEW c \in local[t].plan[p].items,
                        local[t].plan[p].items = {c}, c.aux_own
                 PROVE  Lands(t, p)
      OBVIOUS
    <2>1. At(t, "commit_apply") /\ p \in PlanPaths(t)
      BY DEF Writes, IsNext, PlanPaths
    <2>2. RebasesOn(c.edit, file[p].content)
      BY <2>1 DEF LandsInv, LandsOK, PlanLands, LonePlan, Writing, At
    <2>3. ChangeOK(c)
      BY <2>1 DEF LandsInv, OrderInv, ApplyInv, PlanFresh, PlanPast, At
    <2> QED
      BY <2>2, <2>3, LoneApplies DEF Lands, ChangeOK
  <1>3. LandsInv /\ [Next]_vars => [Fits]_vars
    BY <1>2
  <1> QED
    BY <1>1, <1>3, LandsNext, PTL DEF Spec, LoneChangeLands
===============================================================================
