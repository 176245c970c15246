----------------------------- MODULE PatchService -----------------------------
(***************************************************************************)
(* Previews, applies and rollbacks of single files                         *)
(* (libs/bridge_core/src/patch_service.cpp).                               *)
(*                                                                         *)
(* The service keeps nothing in memory: previews, their statuses and the   *)
(* backups are files under .bridge, and a target is replaced by writing a  *)
(* temporary file beside it, removing the target and renaming.  A step of  *)
(* the model is what a handler does up to and including its next write, or *)
(* up to the point where it reads again what another actor may write.      *)
(* The daemon serves every connection in a thread of its own.              *)
(***************************************************************************)
EXTENDS TextCodec, FiniteSets

CONSTANTS
  Path,           \* files the policy lets the bridge touch
  Thread,         \* request handlers
  InitialFiles,   \* the paths that exist at first
  InitialText,    \* and what they hold
  Texts,          \* what clients ask to put into a file
  OutsideTexts,   \* what editors outside the bridge save
  BaseKinds,      \* which fields of a base clients give: sets of "mtime", "hash"
  EditorsWait,    \* TRUE: editors leave files alone while a request is served
  PreviewKeep,    \* AI_BRIDGE_PREVIEW_KEEP; 0 keeps everything
  StatusKeep,     \* AI_BRIDGE_PREVIEW_STATUS_KEEP
  BackupKeep,     \* AI_BRIDGE_BACKUP_KEEP
  PreviewTtl,     \* AI_BRIDGE_PREVIEW_TTL_MS in clock ticks; 0 is no expiry
  MaxIds,         \* bound: preview and backup ids ever made
  MaxClock,       \* bound: clock ticks
  MaxCrashes      \* bound: crashes of the daemon

ASSUME PatchAssumption ==
  /\ InitialFiles \subseteq Path
  /\ BaseKinds \subseteq SUBSET {"mtime", "hash"}
  /\ EditorsWait \in BOOLEAN
  /\ {PreviewKeep, StatusKeep, BackupKeep, PreviewTtl} \subseteq Nat
  /\ {MaxIds, MaxClock, MaxCrashes} \subseteq Nat

VARIABLES
  file,         \* Path -> existence, bytes and mtime
  temp,         \* kind -> Path -> the temporary file beside the target, if any
  metas,        \* preview id -> <id>.meta
  contents,     \* the previews whose <id>.content is complete
  statuses,     \* preview id -> <id>.status
  backups,      \* backup id -> <id>-<path>.bak and .meta
  pc,           \* Thread -> where the request being served stands
  local,        \* Thread -> what the request keeps
  now,          \* the clock that stamps files, as coarse as they are compared
  nextId,       \* make_preview_id, make_backup_id
  crashes,      \* crashes so far
  issued,       \* previews that were answered to a client
  aux_applied   \* previews whose text has been put in place

vars == <<file, temp, metas, contents, statuses, backups, pc, local, now, nextId,
          crashes, issued, aux_applied>>

Labels == {"idle", "preview_meta", "preview_content", "preview_list", "evict_status",
           "apply_content", "apply_backup", "write_temp", "remove_target", "rename_temp",
           "list_backups", "remove_backup", "apply_status", "discard_meta",
           "discard_content", "list_statuses", "remove_status"}

Missing == [exists |-> FALSE, content |-> <<>>, mtime |-> 0]

NoTemp == <<>>

\* kind: "preview", or "apply" or "rollback", whose temporary files have different names;
\* doomed: what is still to be removed of a list; trims: an end that trims the statuses
Blank == [kind |-> "apply", id |-> 0, path |-> "", base |-> {}, text |-> <<>>,
          found |-> Missing, created |-> 0, doomed |-> {}, trims |-> TRUE]

Without(f, S) == Restrict(f, DOMAIN f \ S)

With(f, id, v) == [i \in DOMAIN f \cup {id} |-> IF i = id THEN v ELSE f[i]]

\* Mutant: one file more than the limit is left.
RetainedOneMore(f, keep) ==
  IF keep = 0 \/ Cardinality(DOMAIN f) <= keep + 1 THEN {DOMAIN f}
  ELSE {K \in kSubset(keep, DOMAIN f) :
          \A k \in K, d \in DOMAIN f \ K : f[d].time <= f[k].time}

\* What retention may leave of the files f: the keep newest.  Among files written
\* in the same tick the sort decides as it likes.
Retained(f, keep) ==
  IF keep = 0 \/ Cardinality(DOMAIN f) <= keep THEN {DOMAIN f}
  ELSE {K \in kSubset(keep, DOMAIN f) :
          \A k \in K, d \in DOMAIN f \ K : f[d].time <= f[k].time}

\* The fields of a base that name the version f of a file (read_text_file); a file
\* that is missing has an empty text and no mtime.
Version(f) == [mtime |-> f.mtime, hash |-> FileText(f.content)]

BaseOf(f, kind) == {<<field, Version(f)[field]>> : field \in kind}

\* Mutant: the hash is not compared.
BaseMatchesByMtime(base, f) == \A b \in base : b[1] = "mtime" => b[2] = f.mtime

\* base_matches: a field left empty is not compared.
BaseMatches(base, f) == base \subseteq BaseOf(f, {"mtime", "hash"})

Init ==
  /\ file = [p \in Path |-> IF p \in InitialFiles
                            THEN [exists |-> TRUE, content |-> InitialText, mtime |-> 1]
                            ELSE Missing]
  /\ temp = [k \in {"apply", "rollback"} |-> [p \in Path |-> NoTemp]]
  /\ metas = <<>> /\ contents = {} /\ statuses = <<>> /\ backups = <<>>
  /\ pc = [t \in Thread |-> "idle"]
  /\ local = [t \in Thread |-> Blank]
  /\ now = 1 /\ nextId = 1 /\ crashes = 0
  /\ issued = {} /\ aux_applied = {}

At(t, l)   == pc[t] = l
Goto(t, l) == pc' = [pc EXCEPT ![t] = l]
Keep(t, l) == local' = [local EXCEPT ![t] = l]
Finish(t)  == Goto(t, "idle") /\ Keep(t, Blank)

SetStatus(id, s) == statuses' = With(statuses, id, [state |-> s, time |-> now])

\* A preview is answered with its id.
Answer(t) ==
  /\ Finish(t)
  /\ issued' = IF local[t].kind = "preview" THEN issued \cup {local[t].id} ELSE issued

(***************************************************************************)
(* Removals, by a list made once: other handlers may have removed, or      *)
(* written again, what is on it                                            *)
(***************************************************************************)
Victim(t) == Max(local[t].doomed)

\* Mutant: an eviction leaves no status.
EvictSilently(t) ==
  /\ At(t, "evict_status")
  /\ Goto(t, "discard_meta")
  /\ UNCHANGED <<file, temp, metas, contents, statuses, backups, local, now, nextId, crashes,
                 issued, aux_applied>>

\* cleanup_old_previews evicts one preview after the other.
EvictStatus(t) ==
  /\ At(t, "evict_status")
  /\ SetStatus(Victim(t), "evicted")
  /\ Goto(t, "discard_meta")
  /\ UNCHANGED <<file, temp, metas, contents, backups, local, now, nextId, crashes, issued,
                 aux_applied>>

\* remove_preview_content_and_meta
DiscardMeta(t) ==
  /\ At(t, "discard_meta")
  /\ metas' = Without(metas, {Victim(t)})
  /\ Goto(t, "discard_content")
  /\ UNCHANGED <<file, temp, contents, statuses, backups, local, now, nextId, crashes, issued,
                 aux_applied>>

\* Mutant: the content is left behind.
DiscardNothing(t) ==
  LET rest == local[t].doomed \ {Victim(t)}
  IN  /\ At(t, "discard_content")
      /\ IF rest = {} /\ ~local[t].trims THEN Answer(t)
         ELSE /\ Goto(t, IF rest # {} THEN "evict_status" ELSE "list_statuses")
              /\ Keep(t, [local[t] EXCEPT !.doomed = rest])
              /\ UNCHANGED issued
      /\ UNCHANGED <<file, temp, metas, contents, statuses, backups, now, nextId, crashes,
                     aux_applied>>

\* Statuses are trimmed after an eviction, an expiry or an apply, not after a corruption.
DiscardContent(t) ==
  LET rest == local[t].doomed \ {Victim(t)}
  IN  /\ At(t, "discard_content")
      /\ contents' = contents \ {Victim(t)}
      /\ IF rest = {} /\ ~local[t].trims THEN Answer(t)
         ELSE /\ Goto(t, IF rest # {} THEN "evict_status" ELSE "list_statuses")
              /\ Keep(t, [local[t] EXCEPT !.doomed = rest])
              /\ UNCHANGED issued
      /\ UNCHANGED <<file, temp, metas, statuses, backups, now, nextId, crashes, aux_applied>>

\* cleanup_old_preview_statuses
ListStatuses(t) ==
  /\ At(t, "list_statuses")
  /\ \E K \in Retained(statuses, StatusKeep) :
       IF DOMAIN statuses = K THEN Answer(t)
       ELSE /\ Goto(t, "remove_status")
            /\ Keep(t, [local[t] EXCEPT !.doomed = DOMAIN statuses \ K])
            /\ UNCHANGED issued
  /\ UNCHANGED <<file, temp, metas, contents, statuses, backups, now, nextId, crashes,
                 aux_applied>>

RemoveStatus(t) ==
  /\ At(t, "remove_status")
  /\ \E s \in local[t].doomed :
       /\ statuses' = Without(statuses, {s})
       /\ IF local[t].doomed = {s} THEN Answer(t)
          ELSE /\ Keep(t, [local[t] EXCEPT !.doomed = @ \ {s}])
               /\ UNCHANGED <<pc, issued>>
  /\ UNCHANGED <<file, temp, metas, contents, backups, now, nextId, crashes, aux_applied>>

\* An apply of a preview goes on to say so.
Applied(t) ==
  IF local[t].id = 0 THEN Finish(t)
  ELSE Goto(t, "apply_status") /\ Keep(t, [local[t] EXCEPT !.doomed = {local[t].id}])

\* cleanup_old_backups; a backup's two files are one here.
ListBackups(t) ==
  /\ At(t, "list_backups")
  /\ \E K \in Retained(backups, BackupKeep) :
       IF DOMAIN backups = K THEN Applied(t)
       ELSE /\ Goto(t, "remove_backup")
            /\ Keep(t, [local[t] EXCEPT !.doomed = DOMAIN backups \ K])
  /\ UNCHANGED <<file, temp, metas, contents, statuses, backups, now, nextId, crashes, issued,
                 aux_applied>>

RemoveBackup(t) ==
  /\ At(t, "remove_backup")
  /\ \E b \in local[t].doomed :
       /\ backups' = Without(backups, {b})
       /\ IF local[t].doomed = {b} THEN Applied(t)
          ELSE Keep(t, [local[t] EXCEPT !.doomed = @ \ {b}]) /\ UNCHANGED pc
  /\ UNCHANGED <<file, temp, metas, contents, statuses, now, nextId, crashes, issued,
                 aux_applied>>

(***************************************************************************)
(* patch_preview                                                           *)
(***************************************************************************)
Preview(t) ==
  \E p \in Path, text \in Texts :
    /\ At(t, "idle")
    /\ nextId <= MaxIds
    /\ Goto(t, "preview_meta")
    /\ Keep(t, [Blank EXCEPT !.kind = "preview", !.id = nextId, !.path = p, !.text = text,
                             !.found = file[p]])
    /\ nextId' = nextId + 1
    /\ UNCHANGED <<file, temp, metas, contents, statuses, backups, now, crashes, issued,
                   aux_applied>>

\* save_preview_record writes the metadata first and the content next.
PreviewMeta(t) ==
  /\ At(t, "preview_meta")
  /\ LET l == local[t]
     IN  metas' = With(metas, l.id,
                       [path |-> l.path, base |-> BaseOf(l.found, {"mtime", "hash"}),
                        text |-> l.text, time |-> now])
  /\ statuses' = Without(statuses, {local[t].id})
  /\ Goto(t, "preview_content")
  /\ UNCHANGED <<file, temp, contents, backups, local, now, nextId, crashes, issued,
                 aux_applied>>

PreviewContent(t) ==
  /\ At(t, "preview_content")
  /\ contents' = contents \cup {local[t].id}
  /\ Goto(t, "preview_list")
  /\ UNCHANGED <<file, temp, metas, statuses, backups, local, now, nextId, crashes, issued,
                 aux_applied>>

\* cleanup_old_previews lists the previews once.
PreviewList(t) ==
  /\ At(t, "preview_list")
  /\ \E K \in Retained(metas, PreviewKeep) :
       IF DOMAIN metas = K THEN Answer(t)
       ELSE /\ Goto(t, "evict_status")
            /\ Keep(t, [local[t] EXCEPT !.doomed = DOMAIN metas \ K])
            /\ UNCHANGED issued
  /\ UNCHANGED <<file, temp, metas, contents, statuses, backups, now, nextId, crashes,
                 aux_applied>>

(***************************************************************************)
(* patch_apply                                                             *)
(***************************************************************************)

\* Without a preview the client gives the text and the base it knows of; a file that
\* is missing has no mtime to give.
ApplyDirect(t) ==
  \E p \in Path, text \in Texts, kind \in BaseKinds :
    /\ At(t, "idle")
    /\ nextId <= MaxIds
    /\ Goto(t, "apply_backup")
    /\ LET given == IF file[p].exists THEN kind ELSE kind \ {"mtime"}
       IN  Keep(t, [Blank EXCEPT !.path = p, !.text = text, !.base = BaseOf(file[p], given)])
    /\ UNCHANGED <<file, temp, metas, contents, statuses, backups, now, nextId, crashes,
                   issued, aux_applied>>

\* load_preview_record; a preview whose metadata is gone is answered with its status.
ApplyPreview(t) ==
  \E id \in issued \cap DOMAIN metas :
    /\ At(t, "idle")
    /\ nextId <= MaxIds
    /\ Goto(t, "apply_content")
    /\ Keep(t, [Blank EXCEPT !.id = id, !.path = metas[id].path, !.base = metas[id].base,
                             !.text = metas[id].text, !.created = metas[id].time])
    /\ UNCHANGED <<file, temp, metas, contents, statuses, backups, now, nextId, crashes,
                   issued, aux_applied>>

Expired(created) == PreviewTtl > 0 /\ now > created + PreviewTtl

ApplyContent(t) ==
  LET id == local[t].id
      gives_up(reason) ==
        /\ SetStatus(id, reason)
        /\ Goto(t, "discard_meta")
        /\ Keep(t, [local[t] EXCEPT !.doomed = {id}, !.trims = (reason = "expired")])
  IN  /\ At(t, "apply_content")
      /\ IF Expired(local[t].created) THEN gives_up("expired")
         ELSE IF id \notin contents THEN gives_up("invalid")
         ELSE Goto(t, "apply_backup") /\ UNCHANGED <<statuses, local>>
      /\ UNCHANGED <<file, temp, metas, contents, backups, now, nextId, crashes, issued,
                     aux_applied>>

\* Mutant: the new text is backed up in place of the old one.
ApplyBackupNew(t) ==
  LET p == local[t].path
      written == Rewrite(file[p].content, local[t].text)
  IN  /\ At(t, "apply_backup")
      /\ IF BaseMatches(local[t].base, file[p])
         THEN /\ backups' = With(backups, nextId,
                                [path |-> p, content |-> written,
                                 existed |-> file[p].exists, time |-> now])
              /\ nextId' = nextId + 1
              /\ Goto(t, "write_temp")
              /\ Keep(t, [local[t] EXCEPT !.found = file[p], !.text = written])
         ELSE Finish(t) /\ UNCHANGED <<backups, nextId>>
      /\ UNCHANGED <<file, temp, metas, contents, statuses, now, crashes, issued,
                     aux_applied>>

\* The file is read, compared with the base, and backed up.
ApplyBackup(t) ==
  LET p == local[t].path
  IN  /\ At(t, "apply_backup")
      /\ IF BaseMatches(local[t].base, file[p])
         THEN /\ backups' = With(backups, nextId,
                                [path |-> p, content |-> Backup(file[p].content),
                                 existed |-> file[p].exists, time |-> now])
              /\ nextId' = nextId + 1
              /\ Goto(t, "write_temp")
              /\ Keep(t, [local[t] EXCEPT
                            !.found = file[p],
                            !.text = Rewrite(file[p].content, local[t].text)])
         ELSE Finish(t) /\ UNCHANGED <<backups, nextId>>
      /\ UNCHANGED <<file, temp, metas, contents, statuses, now, crashes, issued,
                     aux_applied>>

(***************************************************************************)
(* patch_rollback, which takes no backup and compares no base              *)
(***************************************************************************)
Rollback(t) ==
  \E b \in DOMAIN backups :
    LET bak == backups[b]
    IN  /\ At(t, "idle")
        /\ Goto(t, IF bak.existed THEN "write_temp" ELSE "remove_target")
        /\ Keep(t, [Blank EXCEPT !.kind = "rollback", !.path = bak.path,
                                 !.text = bak.content, !.found.exists = bak.existed])
        /\ UNCHANGED <<file, temp, metas, contents, statuses, backups, now, nextId, crashes,
                       issued, aux_applied>>

(***************************************************************************)
(* Putting a text in place: temporary file, removal, rename                *)
(***************************************************************************)
\* Mutant: a temporary file that is there already is used as it is.
WriteTempOnce(t) ==
  LET l == local[t]
      fresh == <<[content |-> l.text, mtime |-> now, by |-> l.id]>>
  IN  /\ At(t, "write_temp")
      /\ temp' = [temp EXCEPT ![l.kind][l.path] = IF @ = NoTemp THEN fresh ELSE @]
      /\ Goto(t, IF l.found.exists THEN "remove_target" ELSE "rename_temp")
      /\ UNCHANGED <<file, metas, contents, statuses, backups, local, now, nextId, crashes,
                     issued, aux_applied>>

WriteTemp(t) ==
  LET l == local[t]
  IN  /\ At(t, "write_temp")
      /\ temp' = [temp EXCEPT ![l.kind][l.path] =
                    <<[content |-> l.text, mtime |-> now, by |-> l.id]>>]
      /\ Goto(t, IF l.found.exists THEN "remove_target" ELSE "rename_temp")
      /\ UNCHANGED <<file, metas, contents, statuses, backups, local, now, nextId, crashes,
                     issued, aux_applied>>

\* Mutant: the target is removed before the temporary file is written.
RemoveTargetFirst(t) ==
  LET l == local[t]
  IN  /\ \/ At(t, "remove_target")
            /\ Goto(t, IF l.found.exists THEN "rename_temp" ELSE "list_backups")
         \/ At(t, "write_temp") /\ file[l.path].exists /\ UNCHANGED pc
      /\ file' = [file EXCEPT ![l.path] = Missing]
      /\ UNCHANGED <<temp, metas, contents, statuses, backups, local, now, nextId, crashes,
                     issued, aux_applied>>

\* A rollback to "did not exist" ends with the removal.
RemoveTarget(t) ==
  LET l == local[t]
  IN  /\ At(t, "remove_target")
      /\ file' = [file EXCEPT ![l.path] = Missing]
      /\ Goto(t, IF l.found.exists THEN "rename_temp" ELSE "list_backups")
      /\ UNCHANGED <<temp, metas, contents, statuses, backups, local, now, nextId, crashes,
                     issued, aux_applied>>

\* The rename fails when the temporary file is gone, and the request with it.
RenameTemp(t) ==
  LET l == local[t]
      staged == temp[l.kind][l.path]
  IN  /\ At(t, "rename_temp")
      /\ IF staged = NoTemp
         THEN Finish(t) /\ UNCHANGED <<file, temp, aux_applied>>
         ELSE /\ file' = [file EXCEPT ![l.path] =
                            [exists |-> TRUE, content |-> staged[1].content,
                             mtime |-> staged[1].mtime]]
              /\ temp' = [temp EXCEPT ![l.kind][l.path] = NoTemp]
              /\ aux_applied' = aux_applied \cup ({staged[1].by} \ {0})
              /\ Goto(t, "list_backups")
              /\ UNCHANGED local
      /\ UNCHANGED <<metas, contents, statuses, backups, now, nextId, crashes, issued>>

ApplyStatus(t) ==
  /\ At(t, "apply_status")
  /\ SetStatus(local[t].id, "applied")
  /\ Goto(t, "discard_meta")
  /\ UNCHANGED <<file, temp, metas, contents, backups, local, now, nextId, crashes, issued,
                 aux_applied>>

(***************************************************************************)
(* The workspace and the machine                                           *)
(***************************************************************************)
OutsideEdit ==
  /\ EditorsWait => \A t \in Thread : At(t, "idle")
  /\ \E p \in Path, d \in OutsideTexts :
       file' = [file EXCEPT ![p] = [exists |-> TRUE, content |-> d, mtime |-> now]]
  /\ UNCHANGED <<temp, metas, contents, statuses, backups, pc, local, now, nextId, crashes,
                 issued, aux_applied>>

Tick ==
  /\ now < MaxClock
  /\ now' = now + 1
  /\ UNCHANGED <<file, temp, metas, contents, statuses, backups, pc, local, nextId, crashes,
                 issued, aux_applied>>

\* The daemon dies between two steps; everything but the requests is on disk.
Crash ==
  /\ crashes < MaxCrashes
  /\ crashes' = crashes + 1
  /\ pc' = [t \in Thread |-> "idle"]
  /\ local' = [t \in Thread |-> Blank]
  /\ UNCHANGED <<file, temp, metas, contents, statuses, backups, now, nextId, issued,
                 aux_applied>>

Step(t) ==
  \/ PreviewMeta(t) \/ PreviewContent(t) \/ PreviewList(t) \/ EvictStatus(t)
  \/ ApplyContent(t) \/ ApplyBackup(t)
  \/ WriteTemp(t) \/ RemoveTarget(t) \/ RenameTemp(t) \/ ApplyStatus(t)
  \/ DiscardMeta(t) \/ DiscardContent(t)
  \/ ListStatuses(t) \/ RemoveStatus(t) \/ ListBackups(t) \/ RemoveBackup(t)

Request(t) == Preview(t) \/ ApplyDirect(t) \/ ApplyPreview(t) \/ Rollback(t)

Next == (\E t \in Thread : Request(t) \/ Step(t)) \/ OutsideEdit \/ Tick \/ Crash

Spec == Init /\ [][Next]_vars

(***************************************************************************)
(* Properties                                                              *)
(***************************************************************************)

AllIdle == \A t \in Thread : At(t, "idle")

\* A handler puts a text in place.
Renames(t) == At(t, "rename_temp") /\ pc'[t] = "list_backups"

\* A file that was there is there whenever no request is served
\* (docs/10-v1-release-checklist.md: no crash damages data).
FilesSurvive == AllIdle => \A p \in InitialFiles : file[p].exists

\* The texts in the temporary files beside a file
Beside(p) == {temp[k][p][1].content : k \in {k \in DOMAIN temp : temp[k][p] # NoTemp}}

\* A rollback to before there was the file
Unmakes(t) == local[t].kind = "rollback" /\ ~local[t].found.exists

\* No file is ever without its text, wherever the daemon dies between removing a target
\* and renaming over it: what a request removes has its next text, the one that was asked
\* for, in the temporary file beside it, and that is there until the file is there again
\* (patch_apply, patch_rollback).
NoTextIsLost ==
  [][\A p \in Path :
       ~file'[p].exists =>
         /\ file[p].exists =>
              \E t \in Thread :
                 /\ At(t, "remove_target") /\ local[t].path = p
                 /\ Unmakes(t) \/ local[t].text \in Beside(p)'
         /\ ~file[p].exists /\ Beside(p) # {} => Beside(p)' # {}]_vars

\* What an apply takes away is the version its client named as the base, and the very
\* bytes that were compared with it: nothing that came later is overwritten.  What it
\* puts in place is its own text, whatever temporary files a crash has left
\* (README.md: PATCH_CONFLICT).
WritesOverBase ==
  [][\A t \in Thread :
       LET l == local[t]
           f == file[l.path]
       IN  l.kind = "apply" =>
             /\ At(t, "remove_target") /\ pc'[t] = "rename_temp" =>
                  f = l.found /\ l.base \subseteq BaseOf(f, {"mtime", "hash"})
             /\ Renames(t) => ~f.exists /\ file'[l.path].content = l.text]_vars

\* What an apply takes away can be had back: there is a backup of it, with the text
\* the file had, whatever crashed and whatever retention has removed.
BackedUp ==
  [][\A t \in Thread :
       LET f == file[local[t].path]
       IN  /\ local[t].kind = "apply" /\ At(t, "remove_target") /\ pc'[t] = "rename_temp"
           /\ f.exists
           => \E b \in DOMAIN backups : /\ backups[b].path = local[t].path
                                        /\ backups[b].existed
                                        /\ backups[b].content = Backup(f.content)]_vars

\* A preview a client was given is there, or its status says why it is not, or so
\* many other statuses came later that its own was dropped: it never just vanishes
\* (README.md: preview lifecycle errors are distinguished).
PreviewAccounted ==
  \A id \in issued : \/ id \in DOMAIN metas
                     \/ id \in DOMAIN statuses
                     \/ StatusKeep > 0 /\ Cardinality(DOMAIN statuses) >= StatusKeep

\* A preview that is said to be applied was: the text that was put in place was its own,
\* not one that another apply of the file, or one that died, has left in the temporary file
\* they share (docs/04-v1-protocol.md: with a preview_id the daemon loads the content that
\* was saved).
AppliedIsWritten ==
  \A id \in DOMAIN statuses : statuses[id].state = "applied" => id \in aux_applied

\* A preview's content and its metadata come and go together, and no preview is
\* both there and said to be gone.
PreviewsAreWhole ==
  AllIdle => contents = DOMAIN metas /\ DOMAIN metas \cap DOMAIN statuses = {}

\* Retention holds whenever no request is being served (docs/04: patch backups and
\* previews are cleaned up by their retention counts).
RetentionHolds ==
  AllIdle => /\ PreviewKeep > 0 => Cardinality(DOMAIN metas) <= PreviewKeep
             /\ StatusKeep > 0 => Cardinality(DOMAIN statuses) <= StatusKeep
             /\ BackupKeep > 0 => Cardinality(DOMAIN backups) <= BackupKeep

(***************************************************************************)
(* What clients see of all that                                            *)
(***************************************************************************)

\* Line ends and marks aside
Plain(raw) == WithoutCr(FileText(raw))

NoText  == <<"no file">>
AnyText == <<"any version">>

TextOf(f) == IF f.exists THEN Plain(f.content) ELSE NoText

\* Requests that stand before the step after which the new text is the file's: the one
\* that takes the old file away, or makes the temporary file when there is none
Asks(t) == pc[t] \in {"apply_content", "apply_backup", "write_temp", "remove_target"}

Replacing(p) == {t \in Thread : At(t, "rename_temp") /\ local[t].path = p}

AppliedIds == aux_applied \cup ({local[t].id : t \in {u \in Thread : At(u, "rename_temp")}} \ {0})

TextNow(p) == IF Replacing(p) = {} THEN TextOf(file[p])
              ELSE Plain(local[CHOOSE t \in Replacing(p) : TRUE].text)

\* The version that a base names: a missing file has mtime 0, or none and an empty hash.
Named(base) ==
  LET has(field) == {b[2] : b \in {c \in base : c[1] = field}}
  IN  IF base = {} THEN AnyText
      ELSE IF 0 \in has("mtime") \/ (has("mtime") = {} /\ has("hash") = {<<>>}) THEN NoText
      ELSE Plain(CHOOSE h \in has("hash") : TRUE)

\* The versions a client may know of
Versions == {NoText, AnyText, Plain(InitialText)}
              \cup {Plain(text) : text \in Texts \cup OutsideTexts}

Offer(meta)  == [path |-> meta.path, base |-> Named(meta.base), text |-> Plain(meta.text)]
SavedText(b) == <<b.path, IF b.existed THEN Plain(b.content) ELSE NoText>>

AskOf(t) ==
  LET l == local[t]
  IN  IF Asks(t)
      THEN [kind |-> l.kind, id |-> l.id, path |-> l.path, base |-> Named(l.base),
            text |-> IF l.kind = "rollback" /\ ~l.found.exists THEN NoText ELSE Plain(l.text)]
      ELSE [kind |-> "none", id |-> 0, path |-> "", base |-> AnyText, text |-> NoText]

StoreText  == [p \in Path |-> TextNow(p)]
StoreOpen  == [id \in DOMAIN metas \ AppliedIds |-> Offer(metas[id])]
StoreSaved == {SavedText(backups[b]) : b \in DOMAIN backups}
StoreAsk   == [t \in Thread |-> AskOf(t)]

Store == INSTANCE PatchStore WITH
  Id           <- 1..MaxIds,
  Texts        <- {Plain(text) : text \in Texts},
  OutsideTexts <- {Plain(text) : text \in OutsideTexts},
  Versions     <- Versions,
  InitialText  <- [p \in Path |-> IF p \in InitialFiles THEN Plain(InitialText) ELSE NoText],
  Absent       <- NoText,
  AnyText      <- AnyText,
  text         <- StoreText,
  open         <- StoreOpen,
  applied      <- AppliedIds,
  saved        <- StoreSaved,
  ask          <- StoreAsk

\* What texts have to be for that: sequences of characters C, line ends among them, with
\* a mark nowhere but at the front of a file, where read_text_file takes it off.
MarksAreFirst(C) ==
  /\ {NL, CR} \subseteq C /\ Bom \notin C
  /\ Texts \subseteq Seq(C)
  /\ \A raw \in {InitialText} \cup OutsideTexts :
       raw \in Seq(C \cup {Bom}) /\ FileText(raw) \in Seq(C)

\* To its clients the service is a store of whole files: a file changes in one step, from
\* the version a client named to the text it asked for, and only after the old version
\* was saved; a preview is applied once, also when it expires or is evicted meanwhile
\* (README.md: PATCH_CONFLICT, PREVIEW_CONSUMED).  One request at a time is served and
\* none dies; what a crash and a second handler break is with the other properties.
IsAStore == Store!Spec
=============================================================================
