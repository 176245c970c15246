---------------------------- MODULE SessionService ----------------------------
(***************************************************************************)
(* One controlled-editing session of the bridge                            *)
(* (libs/bridge_core/src/session_service.cpp): edits are staged as files   *)
(* of .bridge/sessions/<id>/changes, checked against the workspace,        *)
(* previewed, rebased when a file has drifted, and committed file by file  *)
(* through patch_preview and patch_apply.                                  *)
(*                                                                         *)
(* Threads are the daemon's request handlers.  A handler alternates reads  *)
(* and writes of the session directory and of the workspace; a step of the *)
(* model is what it does up to and including its next write, or up to the  *)
(* point where something another actor writes is read again.  Nothing in   *)
(* the code keeps two handlers of one session apart.  Editors outside the  *)
(* bridge change the workspace at any time, and the daemon may die between *)
(* any two steps.                                                          *)
(***************************************************************************)
EXTENDS TextCodec, FiniteSets

CONSTANTS
  PathSeq,          \* the workspace's paths in the order std::map sorts them
  Refused,          \* those patch_preview refuses: denied by policy, or binary
  Thread,           \* request handlers
  InitialContent,   \* the content every file starts with
  Edits,            \* edits that clients stage
  Appendices,       \* texts that structural edits append to a file
  OutsideContents,  \* what editors outside the bridge save
  EditorsWait,      \* TRUE: editors leave files alone while a request is served
  OutsideDeletes,   \* TRUE: they also delete files
  MaxChanges,       \* bound: changes ever staged
  MaxMtime,         \* bound: modifications of a file before a request
  MaxCrashes        \* bound: crashes of the daemon

Path == ToSet(PathSeq)

ASSUME SessionAssumption ==
  /\ PathSeq \in Seq(Path) /\ IsInjective(PathSeq)
  /\ Refused \subseteq Path
  /\ EditorsWait \in BOOLEAN /\ OutsideDeletes \in BOOLEAN
  /\ MaxChanges \in Nat /\ MaxMtime \in Nat /\ MaxCrashes \in Nat

\* An edit has its parts.  Whoever rewrites a whole file names no text it expects.
PlainEdits ==
  \A e \in Edits :
    /\ e \in [operation : {e.operation}, line_start : {e.line_start},
              line_end : {e.line_end}, selector : {e.selector},
              expected_content : {e.expected_content}, new_content : {e.new_content}]
    /\ e.operation = "replace_content" => e.expected_content = <<>>

VARIABLES
  file,           \* Path -> the file's existence, content and mtime (a version)
  state,          \* "state" of session.json; "none" before session.begin
  changes,        \* the files of changes/, named by ordinal and change id
  record,         \* commit.json: whether it exists, the <<path, content>> it lists
  pc,             \* Thread -> where the request being served stands
  seen,           \* Thread -> the session's state when the request came in
  aux_found,      \* Thread -> the versions of the files and the changes it came upon
  local,          \* Thread -> what else the request keeps
  nextId,         \* make_change_id: ids are times, so they only grow
  crashes,        \* crashes so far
  aux_applied,    \* <<path, id, base mtime>> of the changes written to the workspace
  aux_previewed   \* <<path, content>> the last session.preview showed

locals  == <<pc, seen, aux_found, local>>
globals == <<file, state, changes, record, nextId, crashes, aux_applied, aux_previewed>>
vars    == <<file, state, changes, record, nextId, crashes, aux_applied,
             aux_previewed, pc, seen, aux_found, local>>

Closed == {"committed", "aborted"}

\* "torn" is the empty session.json a crash leaves when it hits write_text.
States == {"none", "created", "staged", "previewed", "validating", "writing",
           "verifying", "torn"} \cup Closed

Labels == {"idle", "begin_save", "adapter_stage", "stage_write", "stage_save",
           "drop_remove", "drop_save", "rebase_entry", "rebase_save", "rebase_keep",
           "preview_plan", "preview_save", "commit_plan", "commit_next",
           "commit_apply", "commit_verify", "commit_record", "commit_close"}

\* A path, the content of it a structural edit was computed on, and the new content
Draft == [path |-> "", read |-> <<>>, next |-> <<>>]

\* The change files still to work through, the files still to write, what patch_preview
\* read of the next one, what was written.
Blank == [entries |-> {}, plan |-> <<>>, base |-> <<>>, written |-> {}, draft |-> Draft]

Unfound == [version |-> [p \in Path |-> 0], changes |-> {}]

(***************************************************************************)
(* Files and staged changes                                                *)
(***************************************************************************)

\* A deleted file keeps its version, so that no mtime is ever seen twice.
Absent(f)  == [exists |-> FALSE, content |-> <<>>, mtime |-> f.mtime + 1]
Save(f, d) == [exists |-> TRUE, content |-> d, mtime |-> f.mtime + 1]

\* fingerprint_file; hashes stand for the contents they are computed from, and
\* 0 for the mtime "missing".
FingerprintOf(f) == [hash |-> f.content, mtime |-> IF f.exists THEN f.mtime ELSE 0]
Fingerprint(p)   == FingerprintOf(file[p])

Before(c, d) == c.ordinal < d.ordinal \/ (c.ordinal = d.ordinal /\ c.id < d.id)

\* load_changes sorts by file name: ordinal first, then change id.
IsFirst(c, S) == \A d \in S \ {c} : Before(c, d)
FirstOf(S)    == CHOOSE c \in S : IsFirst(c, S)
LastOf(S)     == CHOOSE c \in S : \A d \in S \ {c} : Before(d, c)

SameFile(c, d) == c.ordinal = d.ordinal /\ c.id = d.id

ChangesOf(p) == {c \in changes : c.path = p}
Touched      == {c.path : c \in changes}

\* The contents that applying the changes S in order to the content d leads to:
\* one, or none when some change does not fit what the earlier ones left.
Replay(S, d, Fits(_, _)) ==
  LET after[T \in SUBSET S] ==
        IF T = {} THEN {d}
        ELSE LET c == LastOf(T)
             IN  {ApplyChange(c.edit, e) :
                    e \in {e \in after[T \ {c}] : Fits(c.edit, e)}}
  IN  after[S]

\* What the changes S make of the content d, each by the code that plans a commit
Applied(S, d) == Replay(S, d, CanApply)

\* build_planned_files for one path
Planned(p) == Applied(ChangesOf(p), file[p].content)

PlanBuilds == \A p \in Touched : Planned(p) # {}

\* The planned files: what each is to hold and the changes that went into it
Plan == [p \in Touched |-> [items   |-> ChangesOf(p),
                            content |-> CHOOSE d \in Planned(p) : TRUE]]

\* The next of the paths S, in the order the plan is sorted by
IsNext(p, S) == \E i \in DOMAIN PathSeq :
                  p = PathSeq[i] /\ p \in S /\ \A j \in 1..i - 1 : PathSeq[j] \notin S

\* session_materialize_file; {} when the plan cannot be built
Materialized(p) == IF ~PlanBuilds THEN {}
                   ELSE IF p \in Touched THEN Planned(p) ELSE {file[p].content}

(***************************************************************************)
(* recovery_check: only the first change of a file says whether the file   *)
(* still is what it was staged on.                                         *)
(***************************************************************************)
\* Mutant: the last change of a file is compared instead.
CleanByLast(p) == LastOf(ChangesOf(p)).base = Fingerprint(p)

Clean(p) == FirstOf(ChangesOf(p)).base = Fingerprint(p)

RebasesOn(e, d) == CanRebase(e, d) /\ CanApply(e, d)

Rebasable(p) == Replay(ChangesOf(p), file[p].content, RebasesOn) # {}

RebaseRequired(p) == ~Clean(p) /\ Rebasable(p)
Conflict(p)       == ~Clean(p) /\ ~Rebasable(p)

\* Mutant: closed sessions pass as well.
ActiveIfBegun == state # "none"

\* ensure_active_session: an unreadable state is neither committed nor aborted.
Active == state \notin Closed \cup {"none"}

\* Mutant: the files' drift is not looked at.
PassesDrifted == Active

\* What session_preview and session_commit ask of the session before they plan
Passes == Active /\ \A p \in Touched : Clean(p)

(***************************************************************************)
(* Requests                                                                *)
(***************************************************************************)

Init ==
  /\ file = [p \in Path |-> [exists |-> TRUE, content |-> InitialContent, mtime |-> 1]]
  /\ state = "none"
  /\ changes = {}
  /\ record = [exists |-> FALSE, files |-> {}]
  /\ pc = [t \in Thread |-> "idle"]
  /\ seen = [t \in Thread |-> "none"]
  /\ aux_found = [t \in Thread |-> Unfound]
  /\ local = [t \in Thread |-> Blank]
  /\ nextId = 1
  /\ crashes = 0
  /\ aux_applied = {}
  /\ aux_previewed = {}

At(t, l) == pc[t] = l

Goto(t, l) == pc' = [pc EXCEPT ![t] = l] /\ UNCHANGED <<seen, aux_found>>

Start(t, l, S) ==
  /\ pc' = [pc EXCEPT ![t] = l]
  /\ seen' = [seen EXCEPT ![t] = state]
  /\ aux_found' = [aux_found EXCEPT ![t] = [version |-> [p \in Path |-> file[p].mtime],
                                            changes |-> changes]]
  /\ local' = [local EXCEPT ![t] = [Blank EXCEPT !.entries = S]]

Finish(t) ==
  /\ pc' = [pc EXCEPT ![t] = "idle"]
  /\ seen' = [seen EXCEPT ![t] = "none"]
  /\ aux_found' = [aux_found EXCEPT ![t] = Unfound]
  /\ local' = [local EXCEPT ![t] = Blank]

\* save_meta with a new state
SaveState(s) == state' = s /\ UNCHANGED <<file, changes, record, nextId, crashes,
                                          aux_applied, aux_previewed>>

\* session_begin; beginning a session that exists only reads it.
Begin(t) ==
  /\ At(t, "idle")
  /\ state = "none"
  /\ Start(t, "begin_save", {})
  /\ UNCHANGED globals

BeginSave(t) == At(t, "begin_save") /\ SaveState("created") /\ Finish(t)

\* A change as session_add writes it, staged on the file as it is now.  aux_own says
\* whether it was itself matched with the text that its base names.
NewChange(e, p, own) ==
  [ordinal |-> Cardinality(changes) + 1, id |-> nextId, path |-> p, edit |-> e,
   base |-> Fingerprint(p), aux_own |-> own]

Stages(t, e, p, own) ==
  /\ Start(t, "stage_write", {NewChange(e, p, own)})
  /\ nextId' = nextId + 1
  /\ UNCHANGED <<file, state, changes, record, crashes, aux_applied, aux_previewed>>

\* edit_replace_range, edit_replace_block, edit_insert_before, edit_insert_after,
\* edit_delete_block and edit_replace_content, up to save_change's write
EditStage(t) ==
  \E e \in Edits, p \in Path :
    /\ At(t, "idle")
    /\ Active
    /\ nextId <= MaxChanges
    /\ CanStage(e, file[p].content)
    /\ Stages(t, Stage(e, file[p].content), p, TRUE)

\* A structural edit (markdown_upsert_section and its like) computes a new text
\* for the file from the one the session would leave it with ...
AdapterRead(t) ==
  \E p \in Path, text \in Appendices : \E d \in Materialized(p) :
    /\ At(t, "idle")
    /\ state # "none"
    /\ Goto(t, "adapter_stage")
    /\ local' = [local EXCEPT ![t].draft = [path |-> p, read |-> d, next |-> d \o text]]
    /\ UNCHANGED globals

WholeFile(expected, new) ==
  [operation |-> "replace_content", line_start |-> 0, line_end |-> 0,
   selector |-> [query |-> <<>>, anchor_before |-> <<>>, anchor_after |-> <<>>,
                 occurrence |-> 1, from_end |-> FALSE],
   expected_content |-> expected, new_content |-> new]

\* ... and stages it as a rewrite of the whole file, based on the file as it is
\* by then: stage_whole_file_change, edit_replace_content.
AdapterStage(t) ==
  /\ At(t, "adapter_stage")
  /\ LET draft == local[t].draft
         rewrite == WholeFile(draft.read, draft.next)
         present == file[draft.path].content
     IN  IF Active /\ draft.read # draft.next /\ nextId <= MaxChanges
         THEN Stages(t, Stage(rewrite, present), draft.path, draft.read = present)
         ELSE Finish(t) /\ UNCHANGED globals

\* save_change
StageWrite(t) ==
  /\ At(t, "stage_write")
  /\ changes' = changes \cup local[t].entries
  /\ Goto(t, "stage_save")
  /\ UNCHANGED <<local, file, state, record, nextId, crashes, aux_applied, aux_previewed>>

\* Mutant: staging leaves the state as it was.
StageSaveNothing(t) == At(t, "stage_save") /\ SaveState(seen[t]) /\ Finish(t)

StageSave(t) == At(t, "stage_save") /\ SaveState("staged") /\ Finish(t)

\* Mutant: dropping does not ask whether the session is still active.
DropFromClosed(t) ==
  \E S \in {{c} : c \in changes} \cup {ChangesOf(p) : p \in Touched}
            \cup ({changes} \ {{}}) :
    /\ At(t, "idle")
    /\ state # "none"
    /\ Start(t, "drop_remove", S)
    /\ UNCHANGED globals

\* session_drop_change with a change id, session_drop_path with a path.  A text that the
\* name of every change's file contains, as ".json" is, drops all of them.
Drop(t) ==
  \E S \in {{c} : c \in changes} \cup {ChangesOf(p) : p \in Touched}
            \cup ({changes} \ {{}}) :
    /\ At(t, "idle")
    /\ Active
    /\ Start(t, "drop_remove", S)
    /\ UNCHANGED globals

DropRemove(t) ==
  /\ At(t, "drop_remove")
  /\ \E c \in local[t].entries :
         /\ IsFirst(c, local[t].entries)
         /\ changes' = {d \in changes : ~SameFile(c, d)}
         /\ local' = [local EXCEPT ![t].entries = @ \ {c}]
         /\ Goto(t, IF local[t].entries = {c} THEN "drop_save" ELSE "drop_remove")
  /\ UNCHANGED <<file, state, record, nextId, crashes, aux_applied, aux_previewed>>

\* Mutant: the state forgets that the last change may be gone.
DropSaveStaged(t) == At(t, "drop_save") /\ SaveState("staged") /\ Finish(t)

DropSave(t) ==
  /\ At(t, "drop_save")
  /\ SaveState(IF changes = {} THEN "created" ELSE "staged")
  /\ Finish(t)

\* session_abort asks nothing of the state but that the session exists.
Abort(t) ==
  /\ At(t, "idle")
  /\ state # "none"
  /\ SaveState("aborted")
  /\ UNCHANGED locals

\* recovery_rebase: the files to rebase are chosen once, up front ...
Rebase(t) ==
  /\ At(t, "idle")
  /\ Active
  /\ \A p \in Touched : ~Conflict(p)
  /\ LET S == {c \in changes : RebaseRequired(c.path)}
     IN  Start(t, IF S = {} THEN "rebase_keep" ELSE "rebase_entry", S)
  /\ UNCHANGED globals

\* ... and every change of theirs is given the fingerprint the file has when its
\* turn comes; write_text recreates a change that was dropped meanwhile.
RebaseEntry(t) ==
  /\ At(t, "rebase_entry")
  /\ \E c \in local[t].entries :
         /\ IsFirst(c, local[t].entries)
         /\ changes' = {d \in changes : ~SameFile(c, d)}
                         \cup {[c EXCEPT !.base = Fingerprint(c.path),
                                         !.aux_own = IsFirst(c, ChangesOf(c.path))]}
         /\ local' = [local EXCEPT ![t].entries = @ \ {c}]
         /\ Goto(t, IF local[t].entries = {c} THEN "rebase_save" ELSE "rebase_entry")
  /\ UNCHANGED <<file, state, record, nextId, crashes, aux_applied, aux_previewed>>

\* With nothing to rebase, the state read at the start is saved again.
RebaseSave(t) ==
  /\ \/ At(t, "rebase_save") /\ SaveState("staged")
     \/ At(t, "rebase_keep") /\ SaveState(seen[t])
  /\ Finish(t)

\* session_preview: the gate, then the plan, then patch_preview file by file
Preview(t) == At(t, "idle") /\ Passes /\ Start(t, "preview_plan", {}) /\ UNCHANGED globals

PreviewPlan(t) ==
  /\ At(t, "preview_plan")
  /\ IF PlanBuilds /\ Touched \cap Refused = {}
     THEN Goto(t, "preview_save") /\ local' = [local EXCEPT ![t].plan = Plan]
     ELSE Finish(t)
  /\ UNCHANGED globals

PreviewSave(t) ==
  LET plan == local[t].plan
  IN  /\ At(t, "preview_save")
      /\ state' = IF DOMAIN plan = {} THEN seen[t] ELSE "previewed"
      /\ aux_previewed' = {<<p, plan[p].content>> : p \in DOMAIN plan}
      /\ Finish(t)
      /\ UNCHANGED <<file, changes, record, nextId, crashes, aux_applied>>

\* session_commit
Commit(t) ==
  /\ At(t, "idle")
  /\ Passes
  /\ \A p \in Path : file[p].mtime < MaxMtime
  /\ Start(t, "commit_plan", {})
  /\ UNCHANGED globals

CommitPlan(t) ==
  /\ At(t, "commit_plan")
  /\ IF PlanBuilds
     THEN /\ local' = [local EXCEPT ![t].plan = Plan]
          /\ Goto(t, IF Touched = {} THEN "commit_record" ELSE "commit_next")
          /\ SaveState("validating")
     ELSE Finish(t) /\ UNCHANGED globals

\* The state "writing" is saved before patch_preview, which may refuse the path.
CommitNext(t) ==
  /\ At(t, "commit_next")
  /\ \E p \in Path :
       /\ IsNext(p, DOMAIN local[t].plan)
       /\ IF p \in Refused THEN Finish(t)
          ELSE Goto(t, "commit_apply") /\ local' = [local EXCEPT ![t].base = <<file[p]>>]
  /\ SaveState("writing")

SameText(f, g) == f.exists = g.exists /\ FileText(f.content) = FileText(g.content)

\* patch_apply under the base patch_preview has just read.  Its mtime has the
\* resolution of iso_time, so a save within the same second is noticed by the
\* text's hash alone.
CommitWrite(t) ==
  /\ At(t, "commit_apply")
  /\ \E p \in Path :
       /\ IsNext(p, DOMAIN local[t].plan)
       /\ SameText(file[p], local[t].base[1])
       /\ file' = [file EXCEPT ![p] = Save(@, Rewrite(@.content, local[t].plan[p].content))]
       /\ local' = [local EXCEPT ![t].written = @ \cup {<<p, file'[p].content>>}]
       /\ Goto(t, "commit_verify")
       /\ aux_applied' = aux_applied \cup
                           {<<p, c.id, c.base.mtime>> : c \in local[t].plan[p].items}
  /\ UNCHANGED <<state, changes, record, nextId, crashes, aux_previewed>>

CommitMismatch(t) ==
  /\ At(t, "commit_apply")
  /\ \E p \in Path : IsNext(p, DOMAIN local[t].plan) /\ file[p] # local[t].base[1]
  /\ Finish(t)
  /\ UNCHANGED globals

\* Mutant: what was written so far is forgotten with every file.
CommitVerifyForgetting(t) ==
  /\ At(t, "commit_verify")
  /\ SaveState("verifying")
  /\ \E p \in Path :
       LET rest == DOMAIN local[t].plan \ {p}
           left == [q \in rest |-> local[t].plan[q]]
       IN  /\ IsNext(p, DOMAIN local[t].plan)
           /\ local' = [local EXCEPT ![t].plan = left,
                                     ![t].written = IF rest = {} THEN @ ELSE {}]
           /\ Goto(t, IF rest = {} THEN "commit_record" ELSE "commit_next")

CommitVerify(t) ==
  /\ At(t, "commit_verify")
  /\ SaveState("verifying")
  /\ \E p \in Path :
       LET rest == DOMAIN local[t].plan \ {p}
       IN  /\ IsNext(p, DOMAIN local[t].plan)
           /\ local' = [local EXCEPT ![t].plan = [q \in rest |-> @[q]]]
           /\ Goto(t, IF rest = {} THEN "commit_record" ELSE "commit_next")

\* Mutant: the state is saved before the record.
CommitStateFirst(t) ==
  At(t, "commit_record") /\ SaveState("committed") /\ Goto(t, "commit_close") /\ UNCHANGED local

CommitRecord(t) ==
  /\ At(t, "commit_record")
  /\ record' = [exists |-> TRUE, files |-> local[t].written]
  /\ Goto(t, "commit_close")
  /\ UNCHANGED <<local, file, state, changes, nextId, crashes, aux_applied, aux_previewed>>

CommitClose(t) == At(t, "commit_close") /\ SaveState("committed") /\ Finish(t)

(***************************************************************************)
(* The workspace and the machine                                           *)
(***************************************************************************)
OutsideEdit ==
  /\ EditorsWait => \A t \in Thread : At(t, "idle")
  /\ \E p \in Path :
       /\ file[p].mtime < MaxMtime
       /\ \/ \E d \in OutsideContents : file' = [file EXCEPT ![p] = Save(@, d)]
          \/ /\ OutsideDeletes
             /\ file[p].exists
             /\ file' = [file EXCEPT ![p] = Absent(@)]
  /\ UNCHANGED <<state, changes, record, nextId, crashes, aux_applied,
                 aux_previewed, locals>>

\* The daemon dies: requests are forgotten, the directory stays.  A save of
\* session.json that was under way (an abort may be, at any time once the session
\* exists) leaves it empty.
Crash ==
  /\ crashes < MaxCrashes
  /\ crashes' = crashes + 1
  /\ pc' = [t \in Thread |-> "idle"]
  /\ seen' = [t \in Thread |-> "none"]
  /\ aux_found' = [t \in Thread |-> Unfound]
  /\ local' = [t \in Thread |-> Blank]
  /\ \/ state' = state
     \/ /\ state # "none" \/ \E t \in Thread : At(t, "begin_save")
        /\ state' = "torn"
  /\ UNCHANGED <<file, changes, record, nextId, aux_applied, aux_previewed>>

\* What a handler does next with the request it is serving
Step(t) ==
  \/ BeginSave(t) \/ AdapterStage(t) \/ StageWrite(t) \/ StageSave(t)
  \/ DropRemove(t) \/ DropSave(t) \/ RebaseEntry(t) \/ RebaseSave(t)
  \/ PreviewPlan(t) \/ PreviewSave(t)
  \/ CommitPlan(t) \/ CommitNext(t) \/ CommitWrite(t) \/ CommitMismatch(t)
  \/ CommitVerify(t) \/ CommitRecord(t) \/ CommitClose(t)

\* Requests that arrive at an idle handler
Request(t) ==
  \/ Begin(t) \/ EditStage(t) \/ AdapterRead(t) \/ Drop(t) \/ Abort(t)
  \/ Rebase(t) \/ Preview(t) \/ Commit(t)

Next == (\E t \in Thread : Request(t) \/ Step(t)) \/ OutsideEdit \/ Crash

Spec == Init /\ [][Next]_vars

(***************************************************************************)
(* Properties                                                              *)
(***************************************************************************)

FileOK(f) == f \in [exists : BOOLEAN, content : {f.content}, mtime : Nat]

ChangeOK(c) == /\ c \in [ordinal : Nat, id : Nat, path : Path, edit : {c.edit},
                         base : {c.base}, aux_own : BOOLEAN]
               /\ c.base \in [hash : {c.base.hash}, mtime : Nat]

LocalOK(l) == /\ l \in [entries : {l.entries}, plan : {l.plan}, base : {l.base},
                        written : {l.written}, draft : {l.draft}]
              /\ IsFiniteSet(l.entries)
              /\ \A c \in l.entries : ChangeOK(c)

\* The workspace, the session directory and the handlers only ever hold what the
\* code can write; contents, edits and plans stay opaque.
TypeOK ==
  /\ file = [p \in Path |-> file[p]] /\ \A p \in Path : FileOK(file[p])
  /\ state \in States
  /\ IsFiniteSet(changes) /\ \A c \in changes : ChangeOK(c)
  /\ record \in [exists : BOOLEAN, files : {record.files}]
  /\ nextId \in Nat /\ crashes \in Nat
  /\ pc \in [Thread -> Labels]
  /\ seen \in [Thread -> States \ Closed]
  /\ aux_found = [t \in Thread |-> aux_found[t]]
  /\ local = [t \in Thread |-> local[t]] /\ \A t \in Thread : LocalOK(local[t])
  /\ \A t \in Thread : At(t, "adapter_stage") => local[t].draft.path \in Path

AllIdle == \A t \in Thread : At(t, "idle")

\* A committed session has its commit record, whatever crashes and whichever
\* requests run at once: session_commit writes commit.json before the state.
CommittedIsRecorded == state = "committed" => record.exists

\* The record of a committed session lists exactly the files its changes touch:
\* no change enters or leaves between the plan and the state "committed".
RecordMatchesChanges ==
  state = "committed" => {r[1] : r \in record.files} = Touched

\* The state of a session at rest tells whether anything is staged: "created"
\* means nothing is, "staged" and "previewed" that something is, through every
\* sequence of adds, drops, rebases and previews (docs/12 E4-T01).
StateMatchesChanges ==
  AllIdle => /\ state = "created" => changes = {}
             /\ state \in {"staged", "previewed"} => changes # {}

\* The step in which session_commit replaces a file, and what it replaces it with
Writes(t, p) == /\ At(t, "commit_apply") /\ pc'[t] = "commit_verify"
                /\ IsNext(p, DOMAIN local[t].plan)

\* A closed session stays closed and writes nothing more: its changes, its record
\* and the workspace are left alone by every later request (ensure_active_session).
\* A crash that tears session.json is another matter.
ClosedStaysClosed ==
  [][(state \in Closed) =>
       /\ state' \in Closed \cup {"torn"}
       /\ changes' = changes /\ record' = record
       /\ \A t \in Thread, p \in Path : ~Writes(t, p)]_vars

\* An edit saved before a commit came in, or after its patch_preview read the file, is
\* never overwritten, by whichever handler: unless the file or its changes were altered
\* between the gate and patch_preview, the commit replaces the very text that the first of
\* its changes was staged on or rebased to, by what its changes make of that text.
EarlierEditsSurvive ==
  [][\A t \in Thread, p \in Path : Writes(t, p) =>
       LET read  == local[t].base[1]
           items == local[t].plan[p].items
       IN  \/ read.mtime # aux_found[t].version[p]
           \/ items # {c \in aux_found[t].changes : c.path = p}
           \/ /\ FirstOf(items).base = FingerprintOf(read)
              /\ SameText(file[p], read)
              /\ \E d \in Applied(items, read.content) :
                   file'[p].content = Rewrite(file[p].content, d)]_vars

\* What a commit puts in a file is the session's changes applied to the content they
\* replace: no edit made by somebody else is overwritten unseen (docs/12 E7-T01).  It
\* fails of an edit saved between the plan and patch_preview.
NoSilentOverwrite ==
  [][\A t \in Thread, p \in Path : Writes(t, p) =>
       \E d \in Applied(local[t].plan[p].items, file[p].content) :
         file'[p].content = Rewrite(file[p].content, d)]_vars

Lands(t, p) == Replay(local[t].plan[p].items, file[p].content, RebasesOn) # {}

\* A change that is the only one of its file finds the text it was staged on or rebased
\* to, whatever was staged, dropped, rebased or half committed before it: what
\* recovery_check asks of a drifted file is true of the files it calls clean.  It holds
\* of changes that were matched with the file's own text, not with what others, since
\* dropped, made of it.
LoneChangeLands ==
  [][\A t \in Thread, p \in Path :
       /\ Writes(t, p)
       /\ \E c \in local[t].plan[p].items : local[t].plan[p].items = {c} /\ c.aux_own
       => Lands(t, p)]_vars

\* The same of every lone change (docs/12 E3-T04: no edit lands in the wrong place
\* silently).  It fails: recovery_rebase gives a change that fits what an earlier one
\* leaves the file's fingerprint, with which it is clean when the earlier one is dropped.
EveryLoneChangeLands ==
  [][\A t \in Thread, p \in Path :
       Writes(t, p) /\ Cardinality(local[t].plan[p].items) = 1 => Lands(t, p)]_vars

\* A commit that failed halfway is never repeated blindly: a file's changes are
\* written a second time only after recovery.rebase gave the first of them a new
\* base.  (A base of 0 is a file that is missing once more.)
AppliedOncePerBase ==
  [][\A t \in Thread, p \in Path : Writes(t, p) =>
       LET c == FirstOf(local[t].plan[p].items)
       IN  c.base.mtime # 0 => <<p, c.id, c.base.mtime>> \notin aux_applied]_vars

PassesGate(t) == At(t, "idle") /\ pc'[t] \in {"commit_plan", "preview_plan"}

Current(c) == c.base = Fingerprint(c.path)

\* A session that session_preview or session_commit finds clean has no change that was
\* staged on another version of its file, although only the first change of a file is
\* compared: it holds as long as changes are still read in the order they were staged in,
\* no crash has torn a rebase, and the file is there (recovery_check).
CleanMeansAllCurrent ==
  [][(\E t \in Thread : PassesGate(t)) =>
       \A c \in changes :
         \/ Current(c)
         \/ crashes > 0
         \/ ~file[c.path].exists
         \/ \E d, e \in ChangesOf(c.path) : d.id < e.id /\ d.ordinal > e.ordinal]_vars

\* A session committed as it was previewed writes what the preview showed
\* (docs/12 E5-T03: preview and commit agree).
CommitWritesThePreview ==
  [][\A t \in Thread, p \in Path : Writes(t, p) /\ seen[t] = "previewed" =>
       <<p, local[t].plan[p].content>> \in aux_previewed]_vars
=============================================================================
