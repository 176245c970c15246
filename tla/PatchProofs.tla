----------------------------- MODULE PatchProofs -----------------------------
(***************************************************************************)
(* Proofs about PatchService, for every set of files, texts, retention     *)
(* limits and ids.  The first part holds for any number of handlers and    *)
(* crashes; the second for a daemon that serves one request at a time.     *)
(* The last shows that such a service implements PatchStore.               *)
(***************************************************************************)
EXTENDS PatchService, TextLemmas

(***************************************************************************)
(* Type correctness.  A text is opaque; a record is equal to the one built *)
(* from its fields.                                                        *)
(***************************************************************************)
Kinds == {"apply", "rollback"}

Placing == {"write_temp", "remove_target", "rename_temp"}

FoundOK(f) ==
  /\ f = [exists |-> f.exists, content |-> f.content, mtime |-> f.mtime]
  /\ f.exists \in BOOLEAN /\ f.mtime \in Nat

FileOK(f) == FoundOK(f) /\ (~f.exists => f = Missing)

TempOK(f) == f.mtime \in Nat /\ f.by \in Nat

MetaOK(m) ==
  /\ m = [path |-> m.path, base |-> m.base, text |-> m.text, time |-> m.time]
  /\ m.path \in Path /\ m.time \in Nat

BackupOK(b) ==
  /\ b = [path |-> b.path, content |-> b.content, existed |-> b.existed, time |-> b.time]
  /\ b.path \in Path /\ b.existed \in BOOLEAN /\ b.time \in Nat

LocalOK(l) ==
  /\ l = [kind |-> l.kind, id |-> l.id, path |-> l.path, base |-> l.base, text |-> l.text,
          found |-> l.found, created |-> l.created, doomed |-> l.doomed, trims |-> l.trims]
  /\ l.kind \in Kinds \cup {"preview"} /\ l.trims \in BOOLEAN /\ l.id \in Nat /\ l.created \in Nat
  /\ FoundOK(l.found)
  /\ l.doomed \subseteq Nat \ {0} /\ IsFiniteSet(l.doomed)

Previewing == {"preview_meta", "preview_content", "preview_list", "evict_status",
               "discard_meta", "discard_content", "list_statuses", "remove_status"}

Removing == {"evict_status", "discard_meta", "discard_content", "remove_status",
             "remove_backup"}

Numbered == Previewing \cup {"apply_content", "apply_status"}

\* What a request keeps goes with where it stands.
Serves(at, l) ==
  /\ LocalOK(l)
  /\ at # "idle" => l.path \in Path
  /\ at \in Numbered => l.id # 0
  /\ at \in Removing => l.doomed # {}
  /\ at \in Previewing \ {"discard_meta", "discard_content", "list_statuses", "remove_status"}
       => l.kind = "preview"
  /\ l.kind = "preview" => l.trims /\ at \in Previewing
  /\ l.kind = "rollback" =>
       l.id = 0 /\ at \in Placing \cup {"list_backups", "remove_backup"}
  /\ at \in {"apply_status", "discard_meta", "discard_content"} /\ l.kind # "preview" =>
       l.doomed = {l.id}
  /\ at = "write_temp" => l.kind = "apply" \/ l.found.exists
  /\ at = "remove_target" /\ l.kind = "apply" => l.found.exists

FilesOK ==
  /\ file = [p \in Path |-> file[p]] /\ \A p \in Path : FileOK(file[p])
  /\ temp = [k \in Kinds |-> temp[k]]
  /\ \A k \in Kinds : temp[k] = [p \in Path |-> temp[k][p]]
  /\ \A k \in Kinds, p \in Path : temp[k][p] # NoTemp => TempOK(temp[k][p][1])

RecordsOK ==
  /\ IsFiniteSet(DOMAIN metas) /\ DOMAIN metas \subseteq Nat \ {0}
  /\ \A i \in DOMAIN metas : MetaOK(metas[i])
  /\ IsFiniteSet(DOMAIN statuses) /\ DOMAIN statuses \subseteq Nat \ {0}
  /\ \A i \in DOMAIN statuses : statuses[i].time \in Nat
  /\ IsFiniteSet(DOMAIN backups) /\ DOMAIN backups \subseteq Nat \ {0}
  /\ \A b \in DOMAIN backups : BackupOK(backups[b])
  /\ now \in Nat /\ nextId \in Nat \ {0} /\ crashes \in Nat

RequestsOK ==
  /\ pc \in [Thread -> Labels]
  /\ local = [t \in Thread |-> local[t]]
  /\ \A t \in Thread : Serves(pc[t], local[t])

TypeOK == FilesOK /\ RecordsOK /\ RequestsOK

LEMMA BlankServes == Serves("idle", Blank)
  BY FS_EmptySet DEF Serves, LocalOK, FoundOK, Blank, Missing, Kinds, Numbered, Removing, Previewing

LEMMA TypeInit == Init => TypeOK
  <1> SUFFICES ASSUME Init PROVE TypeOK
    OBVIOUS
  <1>1. FilesOK
    BY DEF Init, FilesOK, FileOK, FoundOK, Missing, Kinds
  <1>2. RecordsOK
    BY FS_EmptySet DEF Init, RecordsOK
  <1>3. RequestsOK
    BY BlankServes DEF Init, RequestsOK, Labels
  <1> QED
    BY <1>1, <1>2, <1>3 DEF TypeOK

\* What a step of one handler leaves of the requests
LEMMA RequestMoves ==
  ASSUME RequestsOK, NEW t \in Thread, NEW m \in Labels, NEW l, Serves(m, l),
         Goto(t, m), Keep(t, l)
  PROVE  RequestsOK'
  BY DEF RequestsOK, Goto, Keep

LEMMA RequestGoesOn ==
  ASSUME RequestsOK, NEW t \in Thread, NEW m \in Labels, Serves(m, local[t]),
         Goto(t, m), UNCHANGED local
  PROVE  RequestsOK'
  BY DEF RequestsOK, Goto

LEMMA RequestEnds ==
  ASSUME RequestsOK, NEW t \in Thread, Finish(t)
  PROVE  RequestsOK'
  BY BlankServes, RequestMoves DEF Finish, Labels

\* What the helpers do to the records
LEMMA SetStatusEffect ==
  ASSUME NEW id, NEW s, SetStatus(id, s)
  PROVE  /\ DOMAIN statuses' = DOMAIN statuses \cup {id}
         /\ statuses'[id] = [state |-> s, time |-> now]
         /\ \A i \in DOMAIN statuses : i # id => statuses'[i] = statuses[i]
  BY DEF SetStatus, With

LEMMA WithoutEffect ==
  ASSUME NEW f, NEW S
  PROVE  /\ DOMAIN Without(f, S) = DOMAIN f \ S
         /\ \A i \in DOMAIN f \ S : Without(f, S)[i] = f[i]
  BY DEF Without, Restrict

LEMMA RetainedEffect ==
  ASSUME NEW f, NEW keep, NEW K \in Retained(f, keep)
  PROVE  K \subseteq DOMAIN f
  BY DEF Retained, kSubset

LEMMA MaxOfFinite ==
  ASSUME NEW S, S # {}, S \subseteq Nat, IsFiniteSet(S)
  PROVE  Max(S) \in S /\ \A y \in S : Max(S) >= y
  <1> DEFINE Above(x) == {y \in S : y > x}
             Aboves   == {Above(x) : x \in S}
  <1>1. Aboves \subseteq FiniteSubsetsOf(S) /\ Aboves # {}
    <2>1. \A x \in S : Above(x) \in SUBSET S
      OBVIOUS
    <2>2. \A x \in S : IsFiniteSet(Above(x))
      BY <2>1, FS_Subset
    <2> QED
      BY <2>1, <2>2 DEF FiniteSubsetsOf
  <1>2. PICK A \in Aboves : \A B \in Aboves : ~(<<B, A>> \in StrictSubsetOrdering(S))
    <2> HIDE DEF Aboves
    <2> QED
      BY <1>1, FS_StrictSubsetOrderingWellFounded, WFMin
  <1>3. PICK x \in S : A = Above(x)
    OBVIOUS
  <1>4. ASSUME NEW y \in Above(x)
        PROVE  FALSE
    <2>0. y \in S /\ y > x /\ \A z \in S : z \in Nat /\ (z > y => z > x) /\ ~(y > y)
      BY <1>4
    <2>1. Above(y) \subseteq Above(x) /\ y \notin Above(y) /\ y \in S
      BY <2>0
    <2>2. <<Above(y), Above(x)>> \in StrictSubsetOrdering(S)
      BY <2>1, <1>4 DEF StrictSubsetOrdering
    <2> QED
      BY <2>1, <2>2, <1>2, <1>3
  <1>5. \A y \in S : x >= y
    BY <1>4
  <1> QED
    BY <1>5 DEF Max

LEMMA SameFiles ==
  ASSUME FilesOK, UNCHANGED <<file, temp>>
  PROVE  FilesOK'
  BY DEF FilesOK

LEMMA SameRecords ==
  ASSUME RecordsOK, UNCHANGED <<metas, statuses, backups, now, crashes>>,
         nextId' \in Nat \ {0}
  PROVE  RecordsOK'
  BY DEF RecordsOK

\* What an update of a handler's local state leaves.  (The provers see through an
\* update of several fields only as far as the set of records it belongs to.)
Prepared(l, f, text) == [l EXCEPT !.found = f, !.text = text]

GivenUp(l, S, b) == [l EXCEPT !.doomed = S, !.trims = b]

LEMMA LocalUpdate ==
  ASSUME NEW l, LocalOK(l), NEW f, NEW text, NEW S
  PROVE  /\ [l EXCEPT !.doomed = S] =
              [kind |-> l.kind, id |-> l.id, path |-> l.path, base |-> l.base,
               text |-> l.text, found |-> l.found, created |-> l.created, doomed |-> S,
               trims |-> l.trims]
         /\ Prepared(l, f, text) =
              [kind |-> l.kind, id |-> l.id, path |-> l.path, base |-> l.base,
               text |-> text, found |-> f, created |-> l.created, doomed |-> l.doomed,
               trims |-> l.trims]
  <1>1. [l EXCEPT !.doomed = S] =
              [kind |-> l.kind, id |-> l.id, path |-> l.path, base |-> l.base,
               text |-> l.text, found |-> l.found, created |-> l.created, doomed |-> S,
               trims |-> l.trims]
    BY DEF LocalOK
  <1>2. Prepared(l, f, text)
          \in [kind : {l.kind}, id : {l.id}, path : {l.path}, base : {l.base},
               text : {text}, found : {f}, created : {l.created}, doomed : {l.doomed},
               trims : {l.trims}]
    BY DEF LocalOK, Prepared
  <1> QED
    BY <1>1, <1>2

LEMMA GivenUpUpdate ==
  ASSUME NEW l, LocalOK(l), NEW S, NEW b
  PROVE  GivenUp(l, S, b) =
              [kind |-> l.kind, id |-> l.id, path |-> l.path, base |-> l.base,
               text |-> l.text, found |-> l.found, created |-> l.created, doomed |-> S,
               trims |-> b]
  <1>1. GivenUp(l, S, b)
          \in [kind : {l.kind}, id : {l.id}, path : {l.path}, base : {l.base},
               text : {l.text}, found : {l.found}, created : {l.created}, doomed : {S},
               trims : {b}]
    BY DEF LocalOK, GivenUp
  <1> QED
    BY <1>1

\* What the four requests keep when they start
PreviewAsks(id, p, text, f) == [Blank EXCEPT !.kind = "preview", !.id = id, !.path = p,
                                             !.text = text, !.found = f]

DirectAsks(p, text, base) == [Blank EXCEPT !.path = p, !.text = text, !.base = base]

ApplyAsks(id, m) == [Blank EXCEPT !.id = id, !.path = m.path, !.base = m.base,
                                  !.text = m.text, !.created = m.time]

RollbackAsks(b) == [Blank EXCEPT !.kind = "rollback", !.path = b.path, !.text = b.content,
                                 !.found.exists = b.existed]

LEMMA PreviewAsked ==
  ASSUME NEW id, NEW p, NEW text, NEW f
  PROVE  PreviewAsks(id, p, text, f) =
           [kind |-> "preview", id |-> id, path |-> p, base |-> {}, text |-> text,
            found |-> f, created |-> 0, doomed |-> {}, trims |-> TRUE]
  <1>1. PreviewAsks(id, p, text, f)
          \in [kind : {"preview"}, id : {id}, path : {p}, base : {{}}, text : {text},
               found : {f}, created : {0}, doomed : {{}}, trims : {TRUE}]
    BY DEF PreviewAsks, Blank
  <1> QED
    BY <1>1

LEMMA DirectAsked ==
  ASSUME NEW p, NEW text, NEW base
  PROVE  DirectAsks(p, text, base) =
           [kind |-> "apply", id |-> 0, path |-> p, base |-> base, text |-> text,
            found |-> Missing, created |-> 0, doomed |-> {}, trims |-> TRUE]
  <1>1. DirectAsks(p, text, base)
          \in [kind : {"apply"}, id : {0}, path : {p}, base : {base}, text : {text},
               found : {Missing}, created : {0}, doomed : {{}}, trims : {TRUE}]
    BY DEF DirectAsks, Blank
  <1> QED
    BY <1>1

LEMMA ApplyAsked ==
  ASSUME NEW id, NEW m
  PROVE  ApplyAsks(id, m) =
           [kind |-> "apply", id |-> id, path |-> m.path, base |-> m.base, text |-> m.text,
            found |-> Missing, created |-> m.time, doomed |-> {}, trims |-> TRUE]
  <1>1. ApplyAsks(id, m)
          \in [kind : {"apply"}, id : {id}, path : {m.path}, base : {m.base},
               text : {m.text}, found : {Missing}, created : {m.time}, doomed : {{}},
               trims : {TRUE}]
    BY DEF ApplyAsks, Blank
  <1> QED
    BY <1>1

LEMMA RollbackAsked ==
  ASSUME NEW b
  PROVE  RollbackAsks(b) =
           [kind |-> "rollback", id |-> 0, path |-> b.path, base |-> {}, text |-> b.content,
            found |-> [exists |-> b.existed, content |-> <<>>, mtime |-> 0],
            created |-> 0, doomed |-> {}, trims |-> TRUE]
  <1>1. RollbackAsks(b)
          \in [kind : {"rollback"}, id : {0}, path : {b.path}, base : {{}},
               text : {b.content},
               found : {[exists |-> b.existed, content |-> <<>>, mtime |-> 0]},
               created : {0}, doomed : {{}}, trims : {TRUE}]
    BY DEF RollbackAsks, Blank, Missing
  <1> QED
    BY <1>1

\* What the helpers on records keep of their types
LEMMA StatusesStay ==
  ASSUME RecordsOK, NEW id \in Nat \ {0}, NEW s, SetStatus(id, s),
         UNCHANGED <<metas, backups, now, nextId, crashes>>
  PROVE  RecordsOK'
  <1>a. /\ DOMAIN statuses' = DOMAIN statuses \cup {id}
        /\ statuses'[id] = [state |-> s, time |-> now]
        /\ \A i \in DOMAIN statuses : i # id => statuses'[i] = statuses[i]
    BY SetStatusEffect
  <1>1. IsFiniteSet(DOMAIN statuses')
    BY <1>a, FS_AddElement DEF RecordsOK
  <1>2. \A i \in DOMAIN statuses' : i \in Nat \ {0} /\ statuses'[i].time \in Nat
    BY <1>a DEF RecordsOK
  <1> QED
    BY <1>1, <1>2 DEF RecordsOK

\* Records that have only become fewer
LEMMA FewerRecords ==
  ASSUME RecordsOK, UNCHANGED <<now, nextId, crashes>>,
         DOMAIN metas' \subseteq DOMAIN metas, IsFiniteSet(DOMAIN metas'),
         \A i \in DOMAIN metas' : metas'[i] = metas[i],
         DOMAIN statuses' \subseteq DOMAIN statuses, IsFiniteSet(DOMAIN statuses'),
         \A i \in DOMAIN statuses' : statuses'[i] = statuses[i],
         DOMAIN backups' \subseteq DOMAIN backups, IsFiniteSet(DOMAIN backups'),
         \A b \in DOMAIN backups' : backups'[b] = backups[b]
  PROVE  RecordsOK'
  BY DEF RecordsOK

LEMMA RecordsRemoved ==
  ASSUME RecordsOK, UNCHANGED <<now, nextId, crashes>>, NEW S,
         \/ metas' = Without(metas, S) /\ UNCHANGED <<statuses, backups>>
         \/ statuses' = Without(statuses, S) /\ UNCHANGED <<metas, backups>>
         \/ backups' = Without(backups, S) /\ UNCHANGED <<metas, statuses>>
  PROVE  RecordsOK'
  <1>1. ASSUME NEW f, IsFiniteSet(DOMAIN f)
        PROVE  /\ DOMAIN Without(f, S) \subseteq DOMAIN f /\ IsFiniteSet(DOMAIN Without(f, S))
               /\ \A i \in DOMAIN Without(f, S) : Without(f, S)[i] = f[i]
    BY <1>1, WithoutEffect, FS_Subset
  <1>2. IsFiniteSet(DOMAIN metas) /\ IsFiniteSet(DOMAIN statuses) /\ IsFiniteSet(DOMAIN backups)
    BY DEF RecordsOK
  <1>3. CASE metas' = Without(metas, S) /\ UNCHANGED <<statuses, backups>>
    BY <1>1, <1>2, <1>3, FewerRecords
  <1>4. CASE statuses' = Without(statuses, S) /\ UNCHANGED <<metas, backups>>
    BY <1>1, <1>2, <1>4, FewerRecords
  <1>5. CASE backups' = Without(backups, S) /\ UNCHANGED <<metas, statuses>>
    BY <1>1, <1>2, <1>5, FewerRecords
  <1> QED
    BY <1>3, <1>4, <1>5

LEMMA RequestType ==
  ASSUME TypeOK, NEW t \in Thread, Request(t)
  PROVE  TypeOK'
  <1>1. CASE Preview(t)
    <2>1. PICK p \in Path, text \in Texts :
            Goto(t, "preview_meta") /\ Keep(t, PreviewAsks(nextId, p, text, file[p]))
      BY <1>1 DEF Preview, PreviewAsks
    <2>2. Serves("preview_meta", PreviewAsks(nextId, p, text, file[p]))
      BY PreviewAsked, FS_EmptySet
      DEF Serves, Numbered, Removing, Previewing, Placing, LocalOK, TypeOK, FilesOK, FileOK, RecordsOK, Kinds
    <2>3. RequestsOK'
      BY <2>1, <2>2, RequestMoves DEF TypeOK, Labels
    <2> QED
      BY <1>1, <2>3, SameFiles, SameRecords DEF Preview, TypeOK, RecordsOK
  <1>2. CASE ApplyDirect(t)
    <2>1. PICK p \in Path, text \in Texts, kind \in BaseKinds :
            LET given == IF file[p].exists THEN kind ELSE kind \ {"mtime"}
            IN  /\ Goto(t, "apply_backup")
                /\ Keep(t, DirectAsks(p, text, BaseOf(file[p], given)))
      BY <1>2 DEF ApplyDirect, DirectAsks
    <2> DEFINE base == BaseOf(file[p], IF file[p].exists THEN kind ELSE kind \ {"mtime"})
    <2>2. Serves("apply_backup", DirectAsks(p, text, base))
      BY DirectAsked, FS_EmptySet DEF Serves, Numbered, Removing, Previewing, Placing, LocalOK, FoundOK, Missing, Kinds
    <2>3. RequestsOK'
      BY <2>1, <2>2, RequestMoves DEF TypeOK, Labels
    <2> QED
      BY <1>2, <2>3, SameFiles, SameRecords DEF ApplyDirect, TypeOK, RecordsOK
  <1>3. CASE ApplyPreview(t)
    <2>1. PICK id \in DOMAIN metas :
            Goto(t, "apply_content") /\ Keep(t, ApplyAsks(id, metas[id]))
      BY <1>3 DEF ApplyPreview, ApplyAsks
    <2>2. Serves("apply_content", ApplyAsks(id, metas[id]))
      BY ApplyAsked, FS_EmptySet
      DEF Serves, Numbered, Removing, Previewing, Placing, LocalOK, FoundOK, Missing, Kinds, TypeOK, RecordsOK, MetaOK
    <2>3. RequestsOK'
      BY <2>1, <2>2, RequestMoves DEF TypeOK, Labels
    <2> QED
      BY <1>3, <2>3, SameFiles, SameRecords DEF ApplyPreview, TypeOK, RecordsOK
  <1>4. CASE Rollback(t)
    <2>1. PICK b \in DOMAIN backups :
            /\ Goto(t, IF backups[b].existed THEN "write_temp" ELSE "remove_target")
            /\ Keep(t, RollbackAsks(backups[b]))
      BY <1>4 DEF Rollback, RollbackAsks
    <2> DEFINE m == IF backups[b].existed THEN "write_temp" ELSE "remove_target"
    <2>2. Serves(m, RollbackAsks(backups[b]))
      BY RollbackAsked, FS_EmptySet
      DEF Serves, Numbered, Removing, Previewing, Placing, LocalOK, FoundOK, Kinds, TypeOK, RecordsOK, BackupOK
    <2>3. m \in Labels /\ Goto(t, m)
      BY <2>1 DEF Labels
    <2>4. RequestsOK'
      <3> HIDE DEF m
      <3> QED
        BY <2>1, <2>2, <2>3, RequestMoves DEF TypeOK
    <2> QED
      BY <1>4, <2>4, SameFiles, SameRecords DEF Rollback, TypeOK, RecordsOK
  <1> QED
    BY <1>1, <1>2, <1>3, <1>4 DEF Request

\* What a handler comes to that has listed backups or statuses, and when all are removed
LEMMA ListedBackups ==
  ASSUME RequestsOK, NEW t \in Thread, pc[t] \in {"list_backups", "remove_backup"},
         NEW S \in SUBSET (Nat \ {0}), S # {}, IsFiniteSet(S),
         Goto(t, "remove_backup"), Keep(t, [local[t] EXCEPT !.doomed = S])
  PROVE  RequestsOK'
  <1> DEFINE l == local[t]
             k == [l EXCEPT !.doomed = S]
  <1>t. Serves(pc[t], l) /\ LocalOK(l)
    BY DEF RequestsOK, Serves
  <1>1. k = [kind |-> l.kind, id |-> l.id, path |-> l.path, base |-> l.base,
             text |-> l.text, found |-> l.found, created |-> l.created, doomed |-> S,
             trims |-> l.trims]
    BY <1>t, LocalUpdate
  <1>2. Serves("remove_backup", k)
    BY <1>t, <1>1 DEF Serves, LocalOK, Numbered, Removing, Previewing
  <1> QED
    BY <1>2, RequestMoves DEF Labels

LEMMA ListedStatuses ==
  ASSUME RequestsOK, NEW t \in Thread, pc[t] \in {"list_statuses", "remove_status"},
         NEW S \in SUBSET (Nat \ {0}), S # {}, IsFiniteSet(S),
         Goto(t, "remove_status"), Keep(t, [local[t] EXCEPT !.doomed = S])
  PROVE  RequestsOK'
  <1> DEFINE l == local[t]
             k == [l EXCEPT !.doomed = S]
  <1>t. Serves(pc[t], l) /\ LocalOK(l)
    BY DEF RequestsOK, Serves
  <1>1. k = [kind |-> l.kind, id |-> l.id, path |-> l.path, base |-> l.base,
             text |-> l.text, found |-> l.found, created |-> l.created, doomed |-> S,
             trims |-> l.trims]
    BY <1>t, LocalUpdate
  <1>2. Serves("remove_status", k)
    BY <1>t, <1>1 DEF Serves, LocalOK, Numbered, Removing, Previewing
  <1> QED
    BY <1>2, RequestMoves DEF Labels

LEMMA RequestApplied ==
  ASSUME RequestsOK, NEW t \in Thread, pc[t] \in {"list_backups", "remove_backup"},
         Applied(t)
  PROVE  RequestsOK'
  <1> DEFINE l == local[t]
             k == [l EXCEPT !.doomed = {l.id}]
  <1>t. Serves(pc[t], l) /\ LocalOK(l)
    BY DEF RequestsOK, Serves
  <1>1. CASE l.id = 0
    BY <1>1, RequestEnds DEF Applied
  <1>2. CASE l.id # 0
    <2>1. k = [kind |-> l.kind, id |-> l.id, path |-> l.path, base |-> l.base,
               text |-> l.text, found |-> l.found, created |-> l.created,
               doomed |-> {l.id}, trims |-> l.trims]
      BY <1>t, LocalUpdate
    <2>2. Serves("apply_status", k)
      BY <1>t, <1>2, <2>1, FS_Singleton DEF Serves, LocalOK, Kinds, Numbered, Removing, Previewing
    <2> QED
      BY <1>2, <2>2, RequestMoves DEF Applied, Labels
  <1> QED
    BY <1>1, <1>2

LEMMA StepType ==
  ASSUME TypeOK, NEW t \in Thread, Step(t)
  PROVE  TypeOK'
  <1> DEFINE l == local[t]
  <1> USE DEF At, Numbered, Removing, Previewing, Placing
  <1>t. FilesOK /\ RecordsOK /\ RequestsOK /\ Serves(pc[t], l) /\ LocalOK(l)
    BY DEF TypeOK, RequestsOK, Serves
  <1>1. CASE PreviewMeta(t)
    <2> DEFINE meta == [path |-> l.path, base |-> BaseOf(l.found, {"mtime", "hash"}),
                        text |-> l.text, time |-> now]
    <2>1. /\ DOMAIN metas' = DOMAIN metas \cup {l.id} /\ metas'[l.id] = meta
          /\ \A i \in DOMAIN metas : i # l.id => metas'[i] = metas[i]
      BY <1>1 DEF PreviewMeta, With
    <2>2. MetaOK(meta) /\ l.id \in Nat \ {0}
      BY <1>1, <1>t DEF PreviewMeta, Serves, LocalOK, MetaOK, RecordsOK
    <2> HIDE DEF meta
    <2>3. IsFiniteSet(DOMAIN metas') /\ DOMAIN metas' \subseteq Nat \ {0}
      BY ZenonT(40), <2>1, <2>2, <1>t, FS_AddElement DEF RecordsOK
    <2>4. \A i \in DOMAIN metas' : MetaOK(metas'[i])
      BY <2>1, <2>2, <1>t DEF RecordsOK
    <2>5. /\ DOMAIN statuses' = DOMAIN statuses \ {l.id}
          /\ \A i \in DOMAIN statuses' : statuses'[i] = statuses[i]
      BY <1>1 DEF PreviewMeta, Without, Restrict
    <2>6. IsFiniteSet(DOMAIN statuses')
      BY <2>5, <1>t, FS_Subset DEF RecordsOK
    <2>7. RecordsOK'
      BY <1>1, <1>t, <2>3, <2>4, <2>5, <2>6 DEF PreviewMeta, RecordsOK
    <2>8. RequestsOK'
      BY <1>1, <1>t, RequestGoesOn DEF PreviewMeta, Serves, Labels
    <2> QED
      BY <1>1, <1>t, <2>7, <2>8, SameFiles DEF PreviewMeta, TypeOK
  <1>2. CASE PreviewContent(t)
    <2>1. RequestsOK'
      BY <1>2, <1>t, RequestGoesOn DEF PreviewContent, Serves, Labels
    <2> QED
      BY <1>2, <1>t, <2>1, SameFiles, SameRecords DEF PreviewContent, TypeOK, RecordsOK
  <1>3. CASE PreviewList(t)
    <2>1. PICK K \in Retained(metas, PreviewKeep) :
            IF DOMAIN metas = K THEN Answer(t)
            ELSE /\ Goto(t, "evict_status")
                 /\ Keep(t, [l EXCEPT !.doomed = DOMAIN metas \ K])
      BY <1>3 DEF PreviewList
    <2> DEFINE S == DOMAIN metas \ K
               k == [l EXCEPT !.doomed = S]
    <2>2. IsFiniteSet(S) /\ S \subseteq Nat \ {0}
      BY <1>t, FS_Subset DEF RecordsOK
    <2>3. CASE DOMAIN metas # K
      <3>1. k = [kind |-> l.kind, id |-> l.id, path |-> l.path, base |-> l.base,
                 text |-> l.text, found |-> l.found, created |-> l.created, doomed |-> S,
                 trims |-> l.trims]
        BY <1>t, LocalUpdate
      <3>2. Serves("evict_status", k)
        BY <1>3, <1>t, <2>2, <2>3, <3>1, RetainedEffect DEF PreviewList, Serves, LocalOK
      <3>3. RequestsOK'
        BY <2>1, <2>3, <3>2, <1>t, RequestMoves DEF Labels
      <3> QED
        BY <1>3, <1>t, <3>3, SameFiles, SameRecords DEF PreviewList, TypeOK, RecordsOK
    <2>4. CASE DOMAIN metas = K
      <3>1. RequestsOK'
        BY <2>1, <2>4, <1>t, RequestEnds DEF Answer
      <3> QED
        BY <1>3, <1>t, <3>1, SameFiles, SameRecords DEF PreviewList, TypeOK, RecordsOK
    <2> QED
      BY <2>3, <2>4
  <1>4. CASE EvictStatus(t)
    <2>1. Victim(t) \in Nat \ {0}
      BY <1>4, <1>t, MaxOfFinite DEF EvictStatus, Serves, LocalOK, Victim
    <2>2. RecordsOK'
      BY <1>4, <1>t, <2>1, StatusesStay DEF EvictStatus
    <2>3. RequestsOK'
      BY <1>4, <1>t, RequestGoesOn DEF EvictStatus, Serves, Labels
    <2> QED
      BY <1>4, <1>t, <2>2, <2>3, SameFiles DEF EvictStatus, TypeOK
  <1>5. CASE DiscardMeta(t)
    <2>1. RecordsOK'
      BY <1>5, <1>t, RecordsRemoved DEF DiscardMeta
    <2>2. RequestsOK'
      BY <1>5, <1>t, RequestGoesOn DEF DiscardMeta, Serves, Labels
    <2> QED
      BY <1>5, <1>t, <2>1, <2>2, SameFiles DEF DiscardMeta, TypeOK
  <1>6. CASE ApplyContent(t)
    <2>1. l.id \in Nat \ {0} /\ l.kind = "apply" /\ l.path \in Path
      BY <1>6, <1>t DEF ApplyContent, Serves, LocalOK, Kinds
    <2>2. CASE Goto(t, "apply_backup") /\ UNCHANGED <<statuses, local>>
      <3>1. RecordsOK'
        BY <1>6, <1>t, <2>2, SameRecords DEF ApplyContent, RecordsOK
      <3>2. RequestsOK'
        BY <1>6, <1>t, <2>1, <2>2, RequestGoesOn DEF ApplyContent, Serves, Labels
      <3> QED
        BY <1>6, <1>t, <3>1, <3>2, SameFiles DEF ApplyContent, TypeOK
    <2>3. ASSUME NEW s, NEW b \in BOOLEAN, SetStatus(l.id, s), Goto(t, "discard_meta"),
                 Keep(t, GivenUp(l, {l.id}, b))
          PROVE  TypeOK'
      <3> DEFINE k == GivenUp(l, {l.id}, b)
      <3>1. RecordsOK'
        BY <1>6, <1>t, <2>1, <2>3, StatusesStay DEF ApplyContent
      <3>2. k = [kind |-> l.kind, id |-> l.id, path |-> l.path, base |-> l.base,
                 text |-> l.text, found |-> l.found, created |-> l.created,
                 doomed |-> {l.id}, trims |-> b]
        BY <1>t, GivenUpUpdate
      <3>3. Serves("discard_meta", k)
        <4> HIDE DEF k
        <4>1. /\ k.kind = "apply" /\ k.id = l.id /\ k.path = l.path /\ k.found = l.found
              /\ k.created = l.created /\ k.doomed = {l.id} /\ k.trims \in BOOLEAN
          BY <2>1, <2>3, <3>2
        <4>2. LocalOK(k)
          BY <1>t, <2>1, <3>2, <4>1, FS_Singleton DEF LocalOK, Kinds
        <4> QED
          BY <2>1, <4>1, <4>2 DEF Serves
      <3>4. RequestsOK'
        <4> HIDE DEF k
        <4> QED
          BY <2>3, <3>3, <1>t, RequestMoves DEF Labels, k
      <3> QED
        BY <1>6, <1>t, <3>1, <3>4, SameFiles DEF ApplyContent, TypeOK
    <2>4. CASE /\ SetStatus(l.id, "expired") /\ Goto(t, "discard_meta")
               /\ Keep(t, [l EXCEPT !.doomed = {l.id}, !.trims = ("expired" = "expired")])
      <3>1. ("expired" = "expired") = TRUE
        OBVIOUS
      <3> QED
        BY <2>3, <2>4, <3>1 DEF GivenUp
    <2>5. CASE /\ SetStatus(l.id, "invalid") /\ Goto(t, "discard_meta")
               /\ Keep(t, [l EXCEPT !.doomed = {l.id}, !.trims = ("invalid" = "expired")])
      <3>1. ("invalid" = "expired") = FALSE
        OBVIOUS
      <3> QED
        BY <2>3, <2>5, <3>1 DEF GivenUp
    <2> QED
      BY <1>6, <2>2, <2>4, <2>5 DEF ApplyContent
  <1>7. CASE DiscardContent(t)
    <2> DEFINE rest == l.doomed \ {Victim(t)}
               m == IF rest # {} THEN "evict_status" ELSE "list_statuses"
               k == [l EXCEPT !.doomed = rest]
    <2>1. RecordsOK' /\ FilesOK'
      BY <1>7, <1>t, SameRecords, SameFiles DEF DiscardContent, RecordsOK
    <2>2. CASE Finish(t)
      BY <1>t, <2>1, <2>2, RequestEnds DEF TypeOK
    <2>3. CASE Goto(t, m) /\ Keep(t, k)
      <3>1. k = [kind |-> l.kind, id |-> l.id, path |-> l.path, base |-> l.base,
                 text |-> l.text, found |-> l.found, created |-> l.created,
                 doomed |-> rest, trims |-> l.trims]
        BY <1>t, LocalUpdate
      <3>2. IsFiniteSet(rest) /\ rest \subseteq Nat \ {0}
        BY <1>t, FS_RemoveElement DEF LocalOK
      <3>3. Victim(t) \in l.doomed
        BY <1>7, <1>t, MaxOfFinite DEF DiscardContent, Serves, LocalOK, Victim
      <3>4. At(t, "discard_content") /\ l.path \in Path /\ l.id # 0
        BY <1>7, <1>t DEF DiscardContent, Serves
      <3>5. l.kind # "preview" => rest = {}
        BY <1>t, <3>3, <3>4 DEF Serves
      <3>6. /\ k.kind = l.kind /\ k.id = l.id /\ k.path = l.path /\ k.doomed = rest
            /\ k.trims = l.trims /\ LocalOK(k)
        BY <3>1, <3>2, <1>t DEF LocalOK
      <3>7. Serves(m, k)
        BY <3>4, <3>5, <3>6, <1>t DEF Serves
      <3>8. m \in Labels
        BY DEF Labels
      <3> HIDE DEF m, k
      <3> QED
        BY <1>t, <2>1, <2>3, <3>7, <3>8, RequestMoves DEF TypeOK
    <2> QED
      BY <1>7, <2>2, <2>3 DEF DiscardContent, Answer
  <1>8. CASE ApplyBackup(t)
    <2> DEFINE p == l.path
               f == file[p]
               b == [path |-> p, content |-> Backup(f.content), existed |-> f.exists,
                     time |-> now]
               k == Prepared(l, f, Rewrite(f.content, l.text))
    <2>1. CASE Finish(t) /\ UNCHANGED <<backups, nextId>>
      BY <1>8, <2>1, <1>t, RequestEnds, SameFiles, SameRecords
      DEF ApplyBackup, TypeOK, RecordsOK
    <2>2. CASE /\ backups' = With(backups, nextId, b) /\ nextId' = nextId + 1
               /\ Goto(t, "write_temp") /\ Keep(t, k)
      <3>1. p \in Path /\ l.kind = "apply"
        BY <1>8, <1>t DEF ApplyBackup, Serves, LocalOK, Kinds
      <3>2. FileOK(f)
        BY <3>1, <1>t DEF FilesOK
      <3>3. BackupOK(b)
        BY <3>1, <3>2, <1>t DEF BackupOK, FileOK, FoundOK, RecordsOK
      <3>a. /\ DOMAIN backups' = DOMAIN backups \cup {nextId} /\ backups'[nextId] = b
            /\ \A i \in DOMAIN backups : i # nextId => backups'[i] = backups[i]
        BY <2>2 DEF With
      <3> HIDE DEF b
      <3>4. IsFiniteSet(DOMAIN backups') /\ DOMAIN backups' \subseteq Nat \ {0}
        BY ZenonT(40), <3>a, <1>t, FS_AddElement DEF RecordsOK
      <3>5. \A i \in DOMAIN backups' : BackupOK(backups'[i])
        BY <3>a, <3>3, <1>t DEF RecordsOK
      <3>6. RecordsOK'
        BY <1>8, <2>2, <3>4, <3>5, <1>t DEF ApplyBackup, RecordsOK
      <3>7. Serves("write_temp", k)
        <4>1. k = [kind |-> l.kind, id |-> l.id, path |-> p, base |-> l.base,
                   text |-> Rewrite(f.content, l.text), found |-> f,
                   created |-> l.created, doomed |-> l.doomed, trims |-> l.trims]
          BY <1>t, LocalUpdate
        <4> HIDE DEF k
        <4>2. /\ k.kind = "apply" /\ k.id = l.id /\ k.path = p /\ k.found = f
              /\ k.created = l.created /\ k.doomed = l.doomed /\ k.trims = l.trims
          BY <3>1, <4>1
        <4>3. LocalOK(k)
          BY <1>t, <3>1, <3>2, <4>1, <4>2 DEF LocalOK, FileOK
        <4> QED
          BY <3>1, <4>2, <4>3 DEF Serves
      <3>8. RequestsOK'
        BY <2>2, <3>7, <1>t, RequestMoves DEF Labels
      <3> QED
        BY <1>8, <3>6, <3>8, <1>t, SameFiles DEF ApplyBackup, TypeOK
    <2> QED
      BY <1>8, <2>1, <2>2 DEF ApplyBackup, Prepared
  <1>9. CASE WriteTemp(t)
    <2> DEFINE m == IF l.found.exists THEN "remove_target" ELSE "rename_temp"
    <2>1. Serves(m, l) /\ m \in Labels /\ l.path \in Path /\ l.kind \in Kinds
      BY <1>9, <1>t DEF WriteTemp, Serves, LocalOK, Kinds, Labels
    <2> DEFINE fresh == <<[content |-> l.text, mtime |-> now, by |-> l.id]>>
    <2>a. TempOK(fresh[1])
      BY <1>t DEF RecordsOK, LocalOK, TempOK
    <2> HIDE DEF fresh
    <2>b. temp' = [temp EXCEPT ![l.kind][l.path] = fresh]
      BY <1>9 DEF WriteTemp, fresh
    <2>c. /\ temp' = [k \in Kinds |-> temp'[k]]
          /\ \A k \in Kinds : temp'[k] = [p \in Path |-> temp'[k][p]]
          /\ \A k \in Kinds, p \in Path :
               temp'[k][p] # NoTemp => TempOK(temp'[k][p][1])
      BY <2>a, <2>b, <2>1, <1>t DEF FilesOK
    <2>2. FilesOK'
      BY <1>9, <2>c, <1>t DEF WriteTemp, FilesOK
    <2>3. RequestsOK'
      <3>1. Goto(t, m)
        BY <1>9 DEF WriteTemp
      <3> HIDE DEF m
      <3> QED
        BY <1>9, <2>1, <3>1, <1>t, RequestGoesOn DEF WriteTemp
    <2> QED
      BY <1>9, <2>2, <2>3, <1>t, SameRecords DEF WriteTemp, TypeOK, RecordsOK
  <1>10. CASE RemoveTarget(t)
    <2> DEFINE m == IF l.found.exists THEN "rename_temp" ELSE "list_backups"
    <2>1. Serves(m, l) /\ m \in Labels /\ l.path \in Path
      BY <1>10, <1>t DEF RemoveTarget, Serves, LocalOK, Kinds, Labels
    <2>2. FileOK(Missing)
      BY DEF FileOK, FoundOK, Missing
    <2>3. FilesOK'
      BY <1>10, <2>1, <2>2, <1>t DEF RemoveTarget, FilesOK
    <2>4. RequestsOK'
      <3>1. Goto(t, m)
        BY <1>10 DEF RemoveTarget
      <3> HIDE DEF m
      <3> QED
        BY <1>10, <2>1, <3>1, <1>t, RequestGoesOn DEF RemoveTarget
    <2> QED
      BY <1>10, <2>3, <2>4, <1>t, SameRecords DEF RemoveTarget, TypeOK, RecordsOK
  <1>11. CASE RenameTemp(t)
    <2> DEFINE staged == temp[l.kind][l.path]
    <2>1. CASE Finish(t) /\ UNCHANGED <<file, temp>>
      BY <1>11, <2>1, <1>t, RequestEnds, SameFiles, SameRecords
      DEF RenameTemp, TypeOK, RecordsOK
    <2>2. CASE /\ staged # NoTemp
               /\ file' = [file EXCEPT ![l.path] =
                             [exists |-> TRUE, content |-> staged[1].content,
                              mtime |-> staged[1].mtime]]
               /\ temp' = [temp EXCEPT ![l.kind][l.path] = NoTemp]
               /\ Goto(t, "list_backups") /\ UNCHANGED local
      <3> DEFINE f == [exists |-> TRUE, content |-> staged[1].content,
                       mtime |-> staged[1].mtime]
      <3>1. l.path \in Path /\ l.kind \in Kinds /\ Serves("list_backups", l)
        BY <1>11, <1>t DEF RenameTemp, Serves, LocalOK
      <3>2. staged[1].mtime \in Nat
        BY <2>2, <3>1, <1>t DEF FilesOK, TempOK
      <3>3. FileOK(f)
        BY <3>2 DEF FileOK, FoundOK
      <3> HIDE DEF f
      <3>4. file' = [file EXCEPT ![l.path] = f]
        BY <2>2 DEF f
      <3>5. /\ file' = [p \in Path |-> file'[p]] /\ \A p \in Path : FileOK(file'[p])
        BY <3>1, <3>3, <3>4, <1>t DEF FilesOK
      <3>6. /\ temp' = [k \in Kinds |-> temp'[k]]
            /\ \A k \in Kinds : temp'[k] = [p \in Path |-> temp'[k][p]]
            /\ \A k \in Kinds, p \in Path :
                 temp'[k][p] # NoTemp => TempOK(temp'[k][p][1])
        BY <2>2, <3>1, <1>t DEF FilesOK
      <3>7. RequestsOK'
        BY <2>2, <3>1, <1>t, RequestGoesOn DEF Labels
      <3> QED
        BY <1>11, <3>5, <3>6, <3>7, <1>t, SameRecords
        DEF RenameTemp, TypeOK, FilesOK, RecordsOK
    <2> QED
      BY <1>11, <2>1, <2>2 DEF RenameTemp
  <1>12. CASE ListBackups(t)
    <2>1. PICK K \in Retained(backups, BackupKeep) :
            IF DOMAIN backups = K THEN Applied(t)
            ELSE /\ Goto(t, "remove_backup")
                 /\ Keep(t, [l EXCEPT !.doomed = DOMAIN backups \ K])
      BY <1>12 DEF ListBackups
    <2>2. RecordsOK' /\ FilesOK'
      BY <1>12, <1>t, SameRecords, SameFiles DEF ListBackups, RecordsOK
    <2>3. CASE DOMAIN backups # K
      <3>1. /\ DOMAIN backups \ K # {} /\ IsFiniteSet(DOMAIN backups \ K)
            /\ DOMAIN backups \ K \subseteq Nat \ {0}
        BY <2>3, <1>t, RetainedEffect, FS_Subset DEF RecordsOK
      <3>2. RequestsOK'
        BY <1>12, <1>t, <2>1, <2>3, <3>1, ListedBackups DEF ListBackups
      <3> QED
        BY <2>2, <3>2 DEF TypeOK
    <2>4. CASE Applied(t)
      BY <1>12, <1>t, <2>2, <2>4, RequestApplied DEF ListBackups, TypeOK
    <2> QED
      BY <2>1, <2>3, <2>4
  <1>13. CASE ApplyStatus(t)
    <2>1. l.id \in Nat \ {0} /\ Serves("discard_meta", l)
      BY <1>13, <1>t DEF ApplyStatus, Serves, LocalOK, Numbered, Removing, Previewing
    <2>2. RecordsOK'
      BY <1>13, <1>t, <2>1, StatusesStay DEF ApplyStatus
    <2>3. RequestsOK'
      BY <1>13, <1>t, <2>1, RequestGoesOn DEF ApplyStatus, Labels
    <2> QED
      BY <1>13, <2>2, <2>3, <1>t, SameFiles DEF ApplyStatus, TypeOK
  <1>14. CASE RemoveBackup(t)
    <2>1. PICK b \in l.doomed :
            /\ backups' = Without(backups, {b})
            /\ IF l.doomed = {b} THEN Applied(t)
               ELSE Keep(t, [l EXCEPT !.doomed = @ \ {b}]) /\ UNCHANGED pc
      BY <1>14 DEF RemoveBackup
    <2>2. RecordsOK' /\ FilesOK'
      BY <1>14, <1>t, <2>1, RecordsRemoved, SameFiles DEF RemoveBackup
    <2>3. CASE l.doomed # {b}
      <3>1. l.doomed \ {b} # {} /\ IsFiniteSet(l.doomed \ {b})
        BY <1>t, <2>3, <2>1, FS_RemoveElement DEF LocalOK
      <3>2. Keep(t, [l EXCEPT !.doomed = l.doomed \ {b}]) /\ Goto(t, "remove_backup")
        BY <1>14, <1>t, <2>1, <2>3 DEF RemoveBackup, Goto, RequestsOK
      <3>3. RequestsOK'
        BY <1>14, <1>t, <3>1, <3>2, ListedBackups DEF RemoveBackup, LocalOK
      <3> QED
        BY <2>2, <3>3 DEF TypeOK
    <2>4. CASE Applied(t)
      BY <1>14, <1>t, <2>2, <2>4, RequestApplied DEF RemoveBackup, TypeOK
    <2> QED
      BY <2>1, <2>3, <2>4
  <1>15. CASE ListStatuses(t)
    <2>1. PICK K \in Retained(statuses, StatusKeep) :
            IF DOMAIN statuses = K THEN Answer(t)
            ELSE /\ Goto(t, "remove_status")
                 /\ Keep(t, [l EXCEPT !.doomed = DOMAIN statuses \ K])
      BY <1>15 DEF ListStatuses
    <2>2. RecordsOK' /\ FilesOK'
      BY <1>15, <1>t, SameRecords, SameFiles DEF ListStatuses, RecordsOK
    <2>3. CASE DOMAIN statuses # K
      <3>1. /\ DOMAIN statuses \ K # {} /\ IsFiniteSet(DOMAIN statuses \ K)
            /\ DOMAIN statuses \ K \subseteq Nat \ {0}
        BY <2>3, <1>t, RetainedEffect, FS_Subset DEF RecordsOK
      <3>2. RequestsOK'
        BY <1>15, <1>t, <2>1, <2>3, <3>1, ListedStatuses DEF ListStatuses
      <3> QED
        BY <2>2, <3>2 DEF TypeOK
    <2>4. CASE Finish(t)
      BY <1>t, <2>2, <2>4, RequestEnds DEF TypeOK
    <2> QED
      BY <2>1, <2>3, <2>4 DEF Answer
  <1>16. CASE RemoveStatus(t)
    <2>1. PICK s \in l.doomed :
            /\ statuses' = Without(statuses, {s})
            /\ IF l.doomed = {s} THEN Answer(t)
               ELSE /\ Keep(t, [l EXCEPT !.doomed = @ \ {s}])
                    /\ UNCHANGED <<pc, issued>>
      BY <1>16 DEF RemoveStatus
    <2>2. RecordsOK' /\ FilesOK'
      BY <1>16, <1>t, <2>1, RecordsRemoved, SameFiles DEF RemoveStatus
    <2>3. CASE l.doomed # {s}
      <3>1. l.doomed \ {s} # {} /\ IsFiniteSet(l.doomed \ {s})
        BY <1>t, <2>3, <2>1, FS_RemoveElement DEF LocalOK
      <3>2. Keep(t, [l EXCEPT !.doomed = l.doomed \ {s}]) /\ Goto(t, "remove_status")
        BY <1>16, <1>t, <2>1, <2>3 DEF RemoveStatus, Goto, RequestsOK
      <3>3. RequestsOK'
        BY <1>16, <1>t, <3>1, <3>2, ListedStatuses DEF RemoveStatus, LocalOK
      <3> QED
        BY <2>2, <3>3 DEF TypeOK
    <2>4. CASE Finish(t)
      BY <1>t, <2>2, <2>4, RequestEnds DEF TypeOK
    <2> QED
      BY <2>1, <2>3, <2>4 DEF Answer
  <1> QED
    BY <1>1, <1>2, <1>3, <1>4, <1>5, <1>6, <1>7, <1>8, <1>9, <1>10, <1>11, <1>12, <1>13,
       <1>14, <1>15, <1>16 DEF Step

LEMMA EnvironmentType ==
  ASSUME TypeOK, OutsideEdit \/ Tick \/ Crash
  PROVE  TypeOK'
  <1>t. FilesOK /\ RecordsOK /\ RequestsOK
    BY DEF TypeOK
  <1>1. CASE OutsideEdit
    <2>1. PICK p \in Path, d \in OutsideTexts :
            file' = [file EXCEPT ![p] = [exists |-> TRUE, content |-> d, mtime |-> now]]
      BY <1>1 DEF OutsideEdit
    <2> DEFINE f == [exists |-> TRUE, content |-> d, mtime |-> now]
    <2>2. FileOK(f)
      BY <1>t DEF FileOK, FoundOK, RecordsOK
    <2> HIDE DEF f
    <2>3. file' = [file EXCEPT ![p] = f]
      BY <2>1 DEF f
    <2>4. FilesOK'
      BY ZenonT(40), <1>1, <2>2, <2>3, <1>t DEF OutsideEdit, FilesOK
    <2> QED
      BY <1>1, <2>4, <1>t, SameRecords DEF OutsideEdit, TypeOK, RecordsOK, RequestsOK
  <1>2. CASE Tick
    BY <1>2, <1>t, SameFiles DEF Tick, TypeOK, RecordsOK, RequestsOK
  <1>3. CASE Crash
    <2>1. RequestsOK'
      BY <1>3, BlankServes DEF Crash, RequestsOK, Labels
    <2> QED
      BY <1>3, <1>t, <2>1, SameFiles DEF Crash, TypeOK, RecordsOK
  <1> QED
    BY <1>1, <1>2, <1>3

LEMMA NextType == TypeOK /\ [Next]_vars => TypeOK'
  <1> SUFFICES ASSUME TypeOK, [Next]_vars PROVE TypeOK'
    OBVIOUS
  <1>1. CASE \E t \in Thread : Request(t) \/ Step(t)
    BY <1>1, RequestType, StepType
  <1>2. CASE OutsideEdit \/ Tick \/ Crash
    BY <1>2, EnvironmentType
  <1>3. CASE UNCHANGED vars
    BY <1>3 DEF vars, TypeOK, FilesOK, RecordsOK, RequestsOK
  <1> QED
    BY <1>1, <1>2, <1>3 DEF Next

\* In every reachable state every file, record, backup and request has the shape the
\* handlers rely on, and what a request keeps goes with where it stands
\* (patch_service.cpp: PatchPreviewRequest, PatchPreviewRecord, BackupRecord).
THEOREM TypeIsCorrect == Spec => []TypeOK
  BY TypeInit, NextType, PTL DEF Spec

\* Where a request starts, with what
LEMMA RequestStands ==
  ASSUME TypeOK, NEW t \in Thread, Request(t)
  PROVE  /\ At(t, "idle")
         /\ UNCHANGED <<file, temp, metas, contents, statuses, backups, issued, crashes>>
         /\ \/ pc'[t] \in {"preview_meta", "apply_backup"}
            \/ pc'[t] = "apply_content" /\ local'[t].id \in DOMAIN metas
            \/ \E b \in DOMAIN backups :
                 /\ pc'[t] = IF backups[b].existed THEN "write_temp" ELSE "remove_target"
                 /\ local'[t].kind = "rollback" /\ local'[t].path = backups[b].path
                 /\ local'[t].found.exists = backups[b].existed
  <1>t. pc \in [Thread -> Labels] /\ local = [u \in Thread |-> local[u]]
    BY DEF TypeOK, RequestsOK
  <1>1. CASE Preview(t) \/ ApplyDirect(t)
    BY <1>1, <1>t DEF Preview, ApplyDirect, Goto
  <1>2. CASE ApplyPreview(t)
    <2>1. PICK id \in DOMAIN metas :
            Goto(t, "apply_content") /\ Keep(t, ApplyAsks(id, metas[id]))
      BY <1>2 DEF ApplyPreview, ApplyAsks
    <2>2. pc'[t] = "apply_content" /\ local'[t] = ApplyAsks(id, metas[id])
      BY <2>1, <1>t DEF Goto, Keep
    <2>3. local'[t].id = id
      BY <2>2, ApplyAsked
    <2> QED
      BY <1>2, <2>2, <2>3 DEF ApplyPreview
  <1>3. CASE Rollback(t)
    <2>1. PICK b \in DOMAIN backups :
            /\ Goto(t, IF backups[b].existed THEN "write_temp" ELSE "remove_target")
            /\ Keep(t, RollbackAsks(backups[b]))
      BY <1>3 DEF Rollback, RollbackAsks
    <2>2. local'[t] = RollbackAsks(backups[b])
      BY <2>1, <1>t DEF Keep
    <2>3. /\ local'[t].kind = "rollback" /\ local'[t].path = backups[b].path
          /\ local'[t].found.exists = backups[b].existed
      <3>1. local'[t] =
              [kind |-> "rollback", id |-> 0, path |-> backups[b].path, base |-> {},
               text |-> backups[b].content,
               found |-> [exists |-> backups[b].existed, content |-> <<>>, mtime |-> 0],
               created |-> 0, doomed |-> {}, trims |-> TRUE]
        BY <2>2, RollbackAsked
      <3> QED
        BY <3>1
    <2>4. pc'[t] = IF backups[b].existed THEN "write_temp" ELSE "remove_target"
      BY <2>1, <1>t DEF Goto
    <2> QED
      BY <1>3, <2>3, <2>4 DEF Rollback
  <1> QED
    BY <1>1, <1>2, <1>3 DEF Request

\* Only three steps lead to putting a text in place.
LEMMA StepsToPlacing ==
  ASSUME TypeOK, NEW t \in Thread, Step(t), pc'[t] \in Placing
  PROVE  ApplyBackup(t) \/ WriteTemp(t) \/ RemoveTarget(t)
  <1>t. pc \in [Thread -> Labels]
    BY DEF TypeOK, RequestsOK
  <1> USE DEF Goto, Finish, Placing, Answer, Applied, At
  <1>1. CASE PreviewMeta(t) \/ PreviewContent(t) \/ PreviewList(t) \/ EvictStatus(t)
    BY <1>1, <1>t DEF PreviewMeta, PreviewContent, PreviewList, EvictStatus
  <1>2. CASE ApplyContent(t) \/ RenameTemp(t) \/ ApplyStatus(t)
    BY <1>2, <1>t DEF ApplyContent, RenameTemp, ApplyStatus
  <1>3. CASE DiscardMeta(t) \/ DiscardContent(t) \/ ListStatuses(t) \/ RemoveStatus(t)
    BY <1>3, <1>t DEF DiscardMeta, DiscardContent, ListStatuses, RemoveStatus
  <1>4. CASE ListBackups(t) \/ RemoveBackup(t)
    BY <1>4, <1>t DEF ListBackups, RemoveBackup
  <1> QED
    BY <1>1, <1>2, <1>3, <1>4 DEF Step

\* What the comparison of the base leaves the request with
LEMMA BackupIsTaken ==
  ASSUME TypeOK, NEW t \in Thread, ApplyBackup(t), pc'[t] \in Placing
  PROVE  LET l == local[t]
             f == file[l.path]
         IN  /\ UNCHANGED <<file, temp>> /\ pc'[t] = "write_temp"
             /\ local'[t].kind = "apply" /\ local'[t].path = l.path
             /\ local'[t].base = l.base /\ local'[t].found = f /\ local'[t].id = l.id
             /\ local'[t].doomed = l.doomed
             /\ local'[t].text = Rewrite(f.content, l.text)
             /\ l.base \subseteq BaseOf(f, {"mtime", "hash"})
             /\ DOMAIN backups' = DOMAIN backups \cup {nextId}
             /\ backups'[nextId] = [path |-> l.path, content |-> Backup(f.content),
                                    existed |-> f.exists, time |-> now]
             /\ \A b \in DOMAIN backups : b # nextId => backups'[b] = backups[b]
  <1> DEFINE l == local[t]
             f == file[l.path]
             k == Prepared(l, f, Rewrite(f.content, l.text))
  <1>t. pc \in [Thread -> Labels] /\ local = [u \in Thread |-> local[u]]
    BY DEF TypeOK, RequestsOK
  <1>s. Serves(pc[t], l) /\ LocalOK(l) /\ l.kind = "apply"
    BY DEF TypeOK, RequestsOK, Serves, ApplyBackup, At, LocalOK, Kinds, Placing, Previewing
  <1>1. ~Finish(t)
    BY <1>t DEF Finish, Goto, Placing
  <1>2. /\ BaseMatches(l.base, f) /\ Goto(t, "write_temp") /\ Keep(t, k)
        /\ backups' = With(backups, nextId,
                        [path |-> l.path, content |-> Backup(f.content),
                         existed |-> f.exists, time |-> now])
    BY <1>1 DEF ApplyBackup, Prepared
  <1>3. local'[t] = k /\ pc'[t] = "write_temp"
    BY <1>2, <1>t DEF Keep, Goto
  <1>4. /\ k.kind = "apply" /\ k.path = l.path /\ k.base = l.base /\ k.found = f
        /\ k.text = Rewrite(f.content, l.text) /\ k.id = l.id /\ k.doomed = l.doomed
    <2>1. k = [kind |-> l.kind, id |-> l.id, path |-> l.path, base |-> l.base,
               text |-> Rewrite(f.content, l.text), found |-> f, created |-> l.created,
               doomed |-> l.doomed, trims |-> l.trims]
      BY <1>s, LocalUpdate
    <2> QED
      BY <2>1, <1>s
  <1>5. /\ DOMAIN backups' = DOMAIN backups \cup {nextId}
        /\ backups'[nextId] = [path |-> l.path, content |-> Backup(f.content),
                               existed |-> f.exists, time |-> now]
        /\ \A b \in DOMAIN backups : b # nextId => backups'[b] = backups[b]
    BY <1>2 DEF With
  <1> HIDE DEF k
  <1> QED
    BY <1>2, <1>3, <1>4, <1>5 DEF ApplyBackup, BaseMatches

\* One handler's step touches no other request.
LEMMA OthersWait ==
  ASSUME TypeOK, NEW t \in Thread, Request(t) \/ Step(t), NEW u \in Thread \ {t}
  PROVE  pc'[u] = pc[u] /\ local'[u] = local[u]
  <1>t. pc \in [Thread -> Labels] /\ local = [v \in Thread |-> local[v]]
    BY DEF TypeOK, RequestsOK
  <1> USE DEF Goto, Keep, Finish, Answer, Applied
  <1>1. CASE Request(t)
    BY <1>1, <1>t DEF Request, Preview, ApplyDirect, ApplyPreview, Rollback
  <1>2. CASE PreviewMeta(t) \/ PreviewContent(t) \/ PreviewList(t) \/ EvictStatus(t)
    BY <1>2, <1>t DEF PreviewMeta, PreviewContent, PreviewList, EvictStatus
  <1>3. CASE ApplyContent(t) \/ ApplyBackup(t) \/ ApplyStatus(t)
    BY <1>3, <1>t DEF ApplyContent, ApplyBackup, ApplyStatus
  <1>4. CASE WriteTemp(t) \/ RemoveTarget(t) \/ RenameTemp(t)
    BY <1>4, <1>t DEF WriteTemp, RemoveTarget, RenameTemp
  <1>5. CASE DiscardMeta(t) \/ DiscardContent(t) \/ ListStatuses(t) \/ RemoveStatus(t)
    BY <1>5, <1>t DEF DiscardMeta, DiscardContent, ListStatuses, RemoveStatus
  <1>6. CASE ListBackups(t) \/ RemoveBackup(t)
    BY <1>6, <1>t DEF ListBackups, RemoveBackup
  <1> QED
    BY <1>1, <1>2, <1>3, <1>4, <1>5, <1>6 DEF Step

\* Which steps change files, temporary files and what was put in place
LEMMA FileSteps ==
  ASSUME NEW t \in Thread, Request(t) \/ Step(t)
  PROVE  \/ UNCHANGED <<file, temp, aux_applied>>
         \/ WriteTemp(t) \/ RemoveTarget(t) \/ RenameTemp(t)
  BY DEF Request, Preview, ApplyDirect, ApplyPreview, Rollback, Step, PreviewMeta,
         PreviewContent, PreviewList, EvictStatus, ApplyContent, ApplyBackup, ApplyStatus,
         DiscardMeta, DiscardContent, ListStatuses, RemoveStatus, ListBackups, RemoveBackup

(***************************************************************************)
(* One request at a time                                                   *)
(***************************************************************************)
OneHandler == \E t : Thread = {t}

\* The temporary file holds the text to be put in place, and says whose it is.
Staged(t) ==
  LET l == local[t]
  IN  At(t, "rename_temp") \/ (At(t, "remove_target") /\ l.found.exists) =>
        /\ temp[l.kind][l.path] # NoTemp /\ temp[l.kind][l.path][1].content = l.text
        /\ temp[l.kind][l.path][1].by = l.id

LEMMA StagedStep ==
  ASSUME TypeOK, NEW t \in Thread, Staged(t), Request(t) \/ Step(t)
  PROVE  Staged(t)'
  <1>t. pc \in [Thread -> Labels] /\ local = [u \in Thread |-> local[u]]
    BY DEF TypeOK, RequestsOK
  <1>s. Serves(pc[t], local[t]) /\ LocalOK(local[t])
    BY DEF TypeOK, RequestsOK, Serves
  <1> USE DEF Staged, At, Goto
  <1>0. CASE Request(t)
    BY <1>0, RequestStands
  <1>1. CASE ApplyBackup(t) /\ pc'[t] \in Placing
    BY <1>1, BackupIsTaken
  <1>2. CASE WriteTemp(t)
    <2> DEFINE l == local[t]
               fresh == [content |-> l.text, mtime |-> now, by |-> l.id]
    <2>1. l.kind \in Kinds /\ l.path \in Path
      BY <1>2, <1>s DEF WriteTemp, Serves, LocalOK, Kinds, Placing, Previewing
    <2>2. fresh.content = l.text /\ fresh.by = l.id /\ <<fresh>>[1] = fresh /\ <<fresh>> # NoTemp
      BY DEF NoTemp
    <2>3. temp' = [temp EXCEPT ![l.kind][l.path] = <<fresh>>] /\ local' = local
      BY <1>2 DEF WriteTemp
    <2> HIDE DEF fresh
    <2>4. temp'[l.kind][l.path] = <<fresh>>
      BY <2>1, <2>3 DEF TypeOK, FilesOK
    <2> QED
      BY <2>2, <2>3, <2>4
  <1>3. CASE RemoveTarget(t)
    BY <1>3, <1>t DEF RemoveTarget
  <1>4. CASE pc'[t] \notin Placing
    BY <1>4 DEF Placing
  <1> QED
    BY <1>0, <1>1, <1>2, <1>3, <1>4, StepsToPlacing

StagedInv == TypeOK /\ \A t \in Thread : Staged(t)

LEMMA StagedInit == Init => StagedInv
  BY TypeInit DEF Init, StagedInv, Staged, At

LEMMA StagedNext ==
  ASSUME OneHandler
  PROVE  StagedInv /\ [Next]_vars => StagedInv'
  <1> SUFFICES ASSUME StagedInv, [Next]_vars PROVE StagedInv'
    OBVIOUS
  <1>t. TypeOK /\ TypeOK'
    BY NextType DEF StagedInv
  <1>1. ASSUME NEW t \in Thread, Request(t) \/ Step(t)
        PROVE  StagedInv'
    BY <1>1, <1>t, StagedStep DEF StagedInv, OneHandler
  <1>2. CASE OutsideEdit \/ Tick \/ UNCHANGED vars
    BY <1>2, <1>t DEF OutsideEdit, Tick, vars, StagedInv, Staged, At
  <1>3. CASE Crash
    BY <1>3, <1>t DEF Crash, StagedInv, Staged, At
  <1> QED
    BY <1>1, <1>2, <1>3 DEF Next

\* With one request at a time no file is ever without its text, wherever the daemon dies
\* and whatever editors save meanwhile: what a request takes away has the text it asked
\* for in the temporary file beside it, and that stays until the file is there again
\* (patch_apply and patch_rollback write the temporary file before they remove).
THEOREM NoTextIsEverLost ==
  ASSUME OneHandler
  PROVE  Spec => NoTextIsLost
  <1> DEFINE Kept(p) ==
        ~file'[p].exists =>
          /\ file[p].exists =>
               \E t \in Thread :
                  /\ At(t, "remove_target") /\ local[t].path = p
                  /\ Unmakes(t) \/ local[t].text \in Beside(p)'
          /\ ~file[p].exists /\ Beside(p) # {} => Beside(p)' # {}
  <1>1. ASSUME StagedInv, [Next]_vars, NEW p \in Path
        PROVE  Kept(p)
    <2>f. /\ file = [q \in Path |-> file[q]] /\ DOMAIN temp = Kinds
          /\ \A k \in Kinds : temp[k] = [q \in Path |-> temp[k][q]]
          /\ temp = [k \in Kinds |-> temp[k]]
      BY <1>1 DEF StagedInv, TypeOK, FilesOK
    <2>1. CASE UNCHANGED <<file, temp>>
      BY <2>1 DEF Beside
    <2>2. ASSUME NEW t \in Thread, RemoveTarget(t)
          PROVE  Kept(p)
      <3> DEFINE l == local[t]
      <3>1. /\ At(t, "remove_target") /\ UNCHANGED temp
            /\ file' = [file EXCEPT ![l.path] = Missing]
        BY <2>2 DEF RemoveTarget
      <3>2. Serves("remove_target", l) /\ LocalOK(l) /\ l.path \in Path
        BY <1>1, <3>1 DEF StagedInv, TypeOK, RequestsOK, Serves, At
      <3>3. Beside(p)' = Beside(p)
        BY <3>1 DEF Beside
      <3>4. CASE p = l.path
        <4>1. CASE l.found.exists
          <5>1. temp[l.kind][p] # NoTemp /\ temp[l.kind][p][1].content = l.text
            BY <1>1, <3>1, <3>4, <4>1 DEF StagedInv, Staged
          <5>2. l.kind \in Kinds
            BY <3>2 DEF Serves, LocalOK, Previewing
          <5>3. l.text \in Beside(p)
            BY <5>1, <5>2, <2>f DEF Beside
          <5> QED
            BY <3>1, <3>3, <3>4, <5>3
        <4>2. CASE ~l.found.exists
          <5>1. Unmakes(t)
            BY <3>2, <4>2 DEF Serves, LocalOK, Unmakes, Previewing, Kinds
          <5> QED
            BY <3>1, <3>3, <3>4, <5>1
        <4> QED
          BY <4>1, <4>2
      <3>5. CASE p # l.path
        BY <3>1, <3>3, <3>5, <2>f
      <3> QED
        BY <3>4, <3>5
    <2>3. ASSUME NEW t \in Thread, WriteTemp(t)
          PROVE  Kept(p)
      <3> DEFINE l == local[t]
                 fresh == <<[content |-> l.text, mtime |-> now, by |-> l.id]>>
      <3>1. UNCHANGED file /\ temp' = [temp EXCEPT ![l.kind][l.path] = fresh]
        BY <2>3 DEF WriteTemp
      <3>2. fresh # NoTemp
        BY DEF NoTemp
      <3> HIDE DEF fresh
      <3>3. DOMAIN temp' = Kinds /\ \A k \in Kinds : temp[k][p] # NoTemp => temp'[k][p] # NoTemp
        BY <3>1, <3>2, <2>f
      <3>4. Beside(p) # {} => Beside(p)' # {}
        BY <3>3, <2>f DEF Beside
      <3> QED
        BY <3>1, <3>4
    <2>4. ASSUME NEW t \in Thread, RenameTemp(t), ~(UNCHANGED <<file, temp>>)
          PROVE  Kept(p)
      <3> DEFINE l == local[t]
                 f == [exists |-> TRUE, content |-> temp[l.kind][l.path][1].content,
                       mtime |-> temp[l.kind][l.path][1].mtime]
      <3>1. /\ file' = [file EXCEPT ![l.path] = f]
            /\ temp' = [temp EXCEPT ![l.kind][l.path] = NoTemp]
        BY <2>4 DEF RenameTemp
      <3>2. f.exists
        OBVIOUS
      <3>3. l.path \in Path
        BY <1>1, <2>4 DEF RenameTemp, StagedInv, TypeOK, RequestsOK, Serves, At
      <3> HIDE DEF f
      <3>4. CASE p = l.path
        BY <3>1, <3>2, <3>3, <3>4, <2>f
      <3>5. CASE p # l.path
        <4>1. file'[p] = file[p] /\ DOMAIN temp' = Kinds
          BY <3>1, <3>5, <2>f
        <4>2. \A k \in Kinds : temp'[k][p] = temp[k][p]
          BY <3>1, <3>5, <2>f
        <4>3. Beside(p)' = Beside(p)
          BY <4>1, <4>2, <2>f DEF Beside
        <4> QED
          BY <4>1, <4>3
      <3> QED
        BY <3>4, <3>5
    <2>5. CASE OutsideEdit
      <3>1. PICK q \in Path, d \in OutsideTexts :
              file' = [file EXCEPT ![q] = [exists |-> TRUE, content |-> d, mtime |-> now]]
        BY <2>5 DEF OutsideEdit
      <3>2. UNCHANGED temp
        BY <2>5 DEF OutsideEdit
      <3>3. Beside(p)' = Beside(p)
        BY <3>2 DEF Beside
      <3> QED
        BY <3>1, <3>3, <2>f
    <2>6. CASE Tick \/ Crash \/ UNCHANGED vars
      BY <2>1, <2>6 DEF Tick, Crash, vars
    <2> QED
      BY <1>1, <2>1, <2>2, <2>3, <2>4, <2>5, <2>6, FileSteps DEF Next
  <1>2. StagedInv /\ [Next]_vars => [\A p \in Path : Kept(p)]_vars
    BY <1>1
  <1> QED
    BY <1>2, StagedInit, StagedNext, PTL DEF Spec, NoTextIsLost

(***************************************************************************)
(* A preview said to be applied was                                        *)
(***************************************************************************)

\* Every request that is on its way to say so has put its own text in place.
SaysApplied(t) ==
  pc[t] \in {"list_backups", "remove_backup", "apply_status"} /\ local[t].id # 0 =>
    local[t].id \in aux_applied

AppliedInv ==
  StagedInv /\ AppliedIsWritten /\ \A t \in Thread : SaysApplied(t)

\* What an end or a list of removals makes of a request
LEMMA DoomedMove ==
  ASSUME TypeOK, NEW t \in Thread
  PROVE  /\ Answer(t) => /\ local'[t].id = 0 /\ local'[t].doomed = {} /\ pc'[t] = "idle"
                         /\ issued' \subseteq issued \cup {local[t].id}
         /\ Applied(t) => /\ local'[t].id \in {0, local[t].id} /\ pc'[t] # "preview_meta"
                          /\ local'[t].doomed \subseteq {local[t].id} \ {0}
                          /\ local'[t].kind \in {"apply", local[t].kind}
         /\ \A S : Keep(t, [local[t] EXCEPT !.doomed = S]) =>
                     /\ local'[t].id = local[t].id /\ local'[t].doomed = S
                     /\ local'[t].kind = local[t].kind
  <1> DEFINE l == local[t]
  <1>t. pc \in [Thread -> Labels] /\ local = [u \in Thread |-> local[u]] /\ LocalOK(l)
    BY DEF TypeOK, RequestsOK, Serves
  <1>b. Blank.id = 0 /\ Blank.doomed = {} /\ Blank.kind = "apply"
    BY DEF Blank
  <1>1. \A S : /\ [l EXCEPT !.doomed = S].id = l.id /\ [l EXCEPT !.doomed = S].doomed = S
              /\ [l EXCEPT !.doomed = S].kind = l.kind
    BY <1>t DEF LocalOK
  <1>2. \A S : Keep(t, [l EXCEPT !.doomed = S]) =>
                 /\ local'[t].id = l.id /\ local'[t].doomed = S
                 /\ local'[t].kind = l.kind
    <2>1. ASSUME NEW S, Keep(t, [l EXCEPT !.doomed = S])
          PROVE  local'[t] = [l EXCEPT !.doomed = S]
      BY <2>1, <1>t DEF Keep
    <2> QED
      BY <2>1, <1>1
  <1>3. Finish(t) => /\ local'[t].id = 0 /\ local'[t].doomed = {} /\ pc'[t] = "idle"
                     /\ local'[t].kind = "apply"
    BY <1>t, <1>b DEF Finish, Keep, Goto
  <1>4. Applied(t) => /\ local'[t].id \in {0, l.id} /\ pc'[t] # "preview_meta"
                      /\ local'[t].doomed \subseteq {l.id} \ {0}
                      /\ local'[t].kind \in {"apply", l.kind}
    BY <1>t, <1>2, <1>3 DEF Applied, Goto
  <1> QED
    BY <1>2, <1>3, <1>4 DEF Answer

\* A handler only comes to clean up and to say "applied" with its own text in place, and
\* the history of what was put in place only grows.
LEMMA SaysAppliedStep ==
  ASSUME TypeOK, NEW t \in Thread, Staged(t), Request(t) \/ Step(t), SaysApplied(t)
  PROVE  SaysApplied(t)' /\ aux_applied \subseteq aux_applied'
  <1> DEFINE l == local[t]
  <1>t. pc \in [Thread -> Labels] /\ local = [v \in Thread |-> local[v]]
    BY DEF TypeOK, RequestsOK
  <1>s. Serves(pc[t], l) /\ LocalOK(l)
    BY DEF TypeOK, RequestsOK, Serves
  <1> USE DEF SaysApplied, At, Goto, Finish, Answer
  <1>1. CASE Request(t)
    BY <1>1, <1>t DEF Request, Preview, ApplyDirect, ApplyPreview, Rollback
  <1>2. CASE PreviewMeta(t) \/ PreviewContent(t) \/ PreviewList(t) \/ EvictStatus(t)
    BY <1>2, <1>t DEF PreviewMeta, PreviewContent, PreviewList, EvictStatus
  <1>3. CASE ApplyContent(t) \/ ApplyBackup(t) \/ WriteTemp(t)
    BY <1>3, <1>t DEF ApplyContent, ApplyBackup, WriteTemp
  <1>4. CASE RemoveTarget(t)
    BY <1>4, <1>t, <1>s DEF RemoveTarget, Serves, LocalOK, Kinds, Previewing
  <1>5. CASE RenameTemp(t)
    <2>1. CASE temp[l.kind][l.path] = NoTemp
      BY <1>5, <2>1, <1>t DEF RenameTemp
    <2>2. CASE temp[l.kind][l.path] # NoTemp
      <3>1. temp[l.kind][l.path][1].by = l.id
        BY <1>5 DEF RenameTemp, Staged
      <3>2. /\ aux_applied' = aux_applied \cup ({temp[l.kind][l.path][1].by} \ {0})
            /\ local' = local
        BY <1>5, <2>2 DEF RenameTemp
      <3> QED
        BY <3>1, <3>2
    <2> QED
      BY <2>1, <2>2
  <1>6. CASE ApplyStatus(t)
    BY <1>6, <1>t DEF ApplyStatus
  <1>7. CASE DiscardMeta(t) \/ DiscardContent(t) \/ ListStatuses(t) \/ RemoveStatus(t)
    BY <1>7, <1>t DEF DiscardMeta, DiscardContent, ListStatuses, RemoveStatus
  <1>8. CASE ListBackups(t) \/ RemoveBackup(t)
    <2>1. UNCHANGED aux_applied /\ SaysApplied(t)
      BY <1>8 DEF ListBackups, RemoveBackup
    <2>2. local'[t].id \in {0, l.id}
      <3>1. CASE ListBackups(t)
        BY <3>1, DoomedMove DEF ListBackups
      <3>2. CASE RemoveBackup(t)
        BY <3>2, DoomedMove DEF RemoveBackup
      <3> QED
        BY <1>8, <3>1, <3>2
    <2>3. pc[t] \in {"list_backups", "remove_backup"}
      BY <1>8 DEF ListBackups, RemoveBackup
    <2> QED
      BY <2>1, <2>2, <2>3
  <1> QED
    BY <1>1, <1>2, <1>3, <1>4, <1>5, <1>6, <1>7, <1>8 DEF Step

\* Which steps change statuses
LEMMA StatusSteps ==
  ASSUME NEW t \in Thread, Request(t) \/ Step(t)
  PROVE  \/ UNCHANGED statuses
         \/ RemoveStatus(t) \/ PreviewMeta(t)
         \/ EvictStatus(t) \/ ApplyContent(t) \/ ApplyStatus(t)
  BY DEF Request, Preview, ApplyDirect, ApplyPreview, Rollback, Step, PreviewContent,
         PreviewList, ApplyBackup, WriteTemp, RemoveTarget, RenameTemp, DiscardMeta,
         DiscardContent, ListStatuses, ListBackups, RemoveBackup

\* A status that says "applied" said so before, or says so now.
LEMMA AppliedStatusStep ==
  ASSUME NEW t \in Thread, Request(t) \/ Step(t), NEW id \in DOMAIN statuses',
         statuses'[id].state = "applied"
  PROVE  \/ id \in DOMAIN statuses /\ statuses[id].state = "applied"
         \/ At(t, "apply_status") /\ id = local[t].id
  <1>1. ASSUME NEW S, statuses' = Without(statuses, S)
        PROVE  id \in DOMAIN statuses /\ statuses[id].state = "applied"
    BY <1>1 DEF Without, Restrict
  <1>a. ASSUME NEW i, NEW s, SetStatus(i, s)
        PROVE  \/ id = i /\ s = "applied"
               \/ id \in DOMAIN statuses /\ statuses[id].state = "applied"
    <2>1. /\ DOMAIN statuses' = DOMAIN statuses \cup {i}
          /\ statuses'[i] = [state |-> s, time |-> now]
          /\ \A j \in DOMAIN statuses : j # i => statuses'[j] = statuses[j]
      BY <1>a, SetStatusEffect
    <2> QED
      BY <2>1
  <1>2. CASE PreviewMeta(t)
    BY <1>1, <1>2 DEF PreviewMeta
  <1>3. CASE EvictStatus(t)
    <2>1. SetStatus(Victim(t), "evicted")
      BY <1>3 DEF EvictStatus
    <2> QED
      BY <2>1, <1>a
  <1>4. CASE ApplyContent(t)
    BY <1>4, <1>a DEF ApplyContent
  <1>5. CASE ApplyStatus(t)
    BY <1>5, <1>a DEF ApplyStatus
  <1>6. CASE RemoveStatus(t)
    BY <1>1, <1>6 DEF RemoveStatus
  <1> QED
    BY <1>2, <1>3, <1>4, <1>5, <1>6, StatusSteps

LEMMA AppliedNext ==
  ASSUME OneHandler
  PROVE  AppliedInv /\ [Next]_vars => AppliedInv'
  <1> SUFFICES ASSUME AppliedInv, [Next]_vars PROVE AppliedInv'
    OBVIOUS
  <1>t. TypeOK /\ TypeOK' /\ StagedInv'
    BY NextType, StagedNext DEF AppliedInv, StagedInv
  <1>1. ASSUME NEW t \in Thread, Request(t) \/ Step(t)
        PROVE  AppliedInv'
    <2>1. SaysApplied(t)' /\ aux_applied \subseteq aux_applied'
      BY <1>1, <1>t, SaysAppliedStep DEF AppliedInv, StagedInv
    <2>2. \A u \in Thread : SaysApplied(u)'
      BY <2>1 DEF OneHandler
    <2>3. At(t, "apply_status") => local[t].id # 0
      BY <1>t DEF TypeOK, RequestsOK, Serves, Numbered, At
    <2>4. AppliedIsWritten'
      BY <1>1, <2>1, <2>3, AppliedStatusStep DEF AppliedInv, AppliedIsWritten, SaysApplied, At
    <2> QED
      BY <1>t, <2>2, <2>4 DEF AppliedInv
  <1>2. CASE OutsideEdit \/ Tick \/ UNCHANGED vars
    BY <1>2, <1>t DEF OutsideEdit, Tick, vars, AppliedInv, AppliedIsWritten, SaysApplied, At
  <1>3. CASE Crash
    BY <1>3, <1>t DEF Crash, AppliedInv, AppliedIsWritten, SaysApplied, At
  <1> QED
    BY <1>1, <1>2, <1>3 DEF Next

\* With one request at a time a preview whose status says "applied" had its own text put
\* in place first, wherever the daemon dies and whatever temporary files it left: the
\* file that is renamed is the one this apply has written (patch_apply).  A second
\* handler breaks it, as the temporary file is shared.
THEOREM AppliedIsAlwaysWritten ==
  ASSUME OneHandler
  PROVE  Spec => []AppliedIsWritten
  <1>1. Init => AppliedInv
    BY StagedInit DEF Init, AppliedInv, AppliedIsWritten, SaysApplied, At
  <1>2. AppliedInv => AppliedIsWritten
    BY DEF AppliedInv
  <1> QED
    BY <1>1, <1>2, AppliedNext, PTL DEF Spec

(***************************************************************************)
(* A preview never just vanishes                                           *)
(***************************************************************************)
Ids == DOMAIN metas \cup DOMAIN statuses \cup DOMAIN backups \cup issued

\* Every id in use was given out, and that of a preview about to be saved is in use
\* nowhere else.
IdsAreFresh ==
  /\ \A i \in Ids : i \in Nat \ {0} /\ i < nextId
  /\ \A t \in Thread : local[t].id < nextId /\ \A d \in local[t].doomed : d < nextId
  /\ \A t \in Thread :
       At(t, "preview_meta") =>
         /\ local[t].id \notin Ids
         /\ \A u \in Thread : /\ local[t].id \notin local[u].doomed
                              /\ u # t => local[u].id # local[t].id

\* Where ids go in one step: a request either takes the next one or one that is in use.
IdsMove(t) ==
  LET l == local[t]
      m == local'[t]
  IN  /\ nextId' \in Nat /\ nextId' >= nextId
      /\ Ids' \subseteq Ids \cup ({l.id} \ {0}) \cup l.doomed \cup {i \in {nextId} : nextId' > i}
      /\ m.doomed \subseteq l.doomed \cup Ids \cup ({l.id} \ {0})
      /\ \/ pc'[t] # "preview_meta" /\ m.id \in Ids \cup {0, l.id}
         \/ /\ m.id = nextId /\ nextId' = nextId + 1 /\ m.doomed = {} /\ Ids' = Ids

LEMMA RequestIds ==
  ASSUME TypeOK, NEW t \in Thread, Request(t)
  PROVE  IdsMove(t)
  <1>t. pc \in [Thread -> Labels] /\ local = [u \in Thread |-> local[u]] /\ nextId \in Nat
    BY DEF TypeOK, RequestsOK, RecordsOK
  <1>1. CASE Preview(t)
    <2>1. PICK p \in Path, text \in Texts :
            Goto(t, "preview_meta") /\ Keep(t, PreviewAsks(nextId, p, text, file[p]))
      BY <1>1 DEF Preview, PreviewAsks
    <2>2. local'[t] = PreviewAsks(nextId, p, text, file[p])
      BY <2>1, <1>t DEF Keep
    <2>3. local'[t].id = nextId /\ local'[t].doomed = {}
      BY <2>2, PreviewAsked
    <2> QED
      BY <1>1, <2>3, <1>t DEF Preview, IdsMove, Ids
  <1>2. CASE ApplyDirect(t)
    <2>1. PICK p \in Path, text \in Texts, kind \in BaseKinds :
            LET given == IF file[p].exists THEN kind ELSE kind \ {"mtime"}
            IN  /\ Goto(t, "apply_backup")
                /\ Keep(t, DirectAsks(p, text, BaseOf(file[p], given)))
      BY <1>2 DEF ApplyDirect, DirectAsks
    <2> DEFINE base == BaseOf(file[p], IF file[p].exists THEN kind ELSE kind \ {"mtime"})
    <2>2. local'[t] = DirectAsks(p, text, base) /\ pc'[t] = "apply_backup"
      BY <2>1, <1>t DEF Keep, Goto
    <2>3. local'[t].id = 0 /\ local'[t].doomed = {}
      <3> HIDE DEF base
      <3> QED
        BY <2>2, DirectAsked
    <2>4. UNCHANGED <<metas, statuses, backups, issued, nextId>>
      BY <1>2 DEF ApplyDirect
    <2> HIDE DEF base
    <2> QED
      BY <2>2, <2>3, <2>4, <1>t DEF IdsMove, Ids
  <1>3. CASE ApplyPreview(t)
    <2>1. PICK id \in issued \cap DOMAIN metas :
            Goto(t, "apply_content") /\ Keep(t, ApplyAsks(id, metas[id]))
      BY <1>3 DEF ApplyPreview, ApplyAsks
    <2>2. local'[t] = ApplyAsks(id, metas[id]) /\ pc'[t] = "apply_content"
      BY <2>1, <1>t DEF Keep, Goto
    <2>3. local'[t].id = id /\ local'[t].doomed = {}
      BY <2>2, ApplyAsked
    <2> QED
      BY <1>3, <2>2, <2>3, <1>t DEF ApplyPreview, IdsMove, Ids
  <1>4. CASE Rollback(t)
    <2>1. PICK b \in DOMAIN backups :
            /\ Goto(t, IF backups[b].existed THEN "write_temp" ELSE "remove_target")
            /\ Keep(t, RollbackAsks(backups[b]))
      BY <1>4 DEF Rollback, RollbackAsks
    <2>2. local'[t] = RollbackAsks(backups[b]) /\ pc'[t] # "preview_meta"
      BY <2>1, <1>t DEF Keep, Goto
    <2>3. local'[t].id = 0 /\ local'[t].doomed = {}
      <3>1. local'[t] =
              [kind |-> "rollback", id |-> 0, path |-> backups[b].path, base |-> {},
               text |-> backups[b].content,
               found |-> [exists |-> backups[b].existed, content |-> <<>>, mtime |-> 0],
               created |-> 0, doomed |-> {}, trims |-> TRUE]
        BY <2>2, RollbackAsked
      <3> QED
        BY <3>1
    <2> QED
      BY <1>4, <2>2, <2>3, <1>t DEF Rollback, IdsMove, Ids
  <1> QED
    BY <1>1, <1>2, <1>3, <1>4 DEF Request

LEMMA StepIds ==
  ASSUME TypeOK, NEW t \in Thread, Step(t)
  PROVE  IdsMove(t)
  <1> DEFINE l == local[t]
  <1>t. pc \in [Thread -> Labels] /\ local = [u \in Thread |-> local[u]] /\ nextId \in Nat
    BY DEF TypeOK, RequestsOK, RecordsOK
  <1>s. Serves(pc[t], l) /\ LocalOK(l)
    BY DEF TypeOK, RequestsOK, Serves
  <1>b. Blank.id = 0 /\ Blank.doomed = {}
    BY DEF Blank
  <1> USE DEF IdsMove, Ids, At, Goto
  <1>n. pc[t] \in Numbered => l.id # 0
    BY <1>s DEF Serves
  <1>v. pc[t] \in Removing => Victim(t) \in l.doomed
    BY <1>s, MaxOfFinite DEF Serves, LocalOK, Victim
  <1>1. CASE PreviewMeta(t)
    <2>1. /\ DOMAIN metas' = DOMAIN metas \cup {l.id}
          /\ DOMAIN statuses' = DOMAIN statuses \ {l.id}
      BY <1>1 DEF PreviewMeta, With, Without, Restrict
    <2> QED
      BY <1>1, <2>1, <1>t, <1>n DEF PreviewMeta, Numbered, Previewing
  <1>2. CASE PreviewContent(t)
    BY <1>2, <1>t DEF PreviewContent
  <1>3. CASE PreviewList(t)
    <2>1. PICK K \in Retained(metas, PreviewKeep) :
            \/ Answer(t)
            \/ /\ Goto(t, "evict_status") /\ UNCHANGED issued
               /\ Keep(t, [l EXCEPT !.doomed = DOMAIN metas \ K])
      BY <1>3 DEF PreviewList
    <2>2. l.id # 0
      BY <1>3, <1>n DEF PreviewList, Numbered, Previewing
    <2>3. CASE Answer(t)
      BY <1>3, <2>2, <2>3, <1>t, DoomedMove DEF PreviewList
    <2>4. CASE /\ Goto(t, "evict_status") /\ UNCHANGED issued
               /\ Keep(t, [l EXCEPT !.doomed = DOMAIN metas \ K])
      <3>1. local'[t].id = l.id /\ local'[t].doomed = DOMAIN metas \ K
        BY <2>4, DoomedMove
      <3>2. pc'[t] = "evict_status"
        BY <2>4, <1>t
      <3> QED
        BY <1>3, <2>4, <3>1, <3>2, <1>t DEF PreviewList
    <2> QED
      BY <2>1, <2>3, <2>4
  <1>4. CASE EvictStatus(t)
    <2>1. Victim(t) \in l.doomed
      BY <1>4, <1>v DEF EvictStatus, Removing
    <2>2. DOMAIN statuses' = DOMAIN statuses \cup {Victim(t)}
      BY <1>4, SetStatusEffect DEF EvictStatus
    <2> QED
      BY <1>4, <2>1, <2>2, <1>t DEF EvictStatus
  <1>5. CASE DiscardMeta(t)
    <2>1. DOMAIN metas' \subseteq DOMAIN metas
      BY <1>5 DEF DiscardMeta, Without, Restrict
    <2> QED
      BY <1>5, <2>1, <1>t DEF DiscardMeta
  <1>6. CASE ApplyContent(t)
    <2>1. l.id # 0
      BY <1>6, <1>n DEF ApplyContent, Numbered
    <2>2. CASE Goto(t, "apply_backup") /\ UNCHANGED <<statuses, local>>
      BY <1>6, <2>2, <1>t DEF ApplyContent
    <2>3. ASSUME NEW s, NEW b, SetStatus(l.id, s), Goto(t, "discard_meta"),
                 Keep(t, GivenUp(l, {l.id}, b))
          PROVE  IdsMove(t)
      <3>1. GivenUp(l, {l.id}, b).id = l.id /\ GivenUp(l, {l.id}, b).doomed = {l.id}
        BY <1>s, GivenUpUpdate
      <3>2. local'[t].id = l.id /\ local'[t].doomed = {l.id} /\ pc'[t] = "discard_meta"
        BY <2>3, <3>1, <1>t DEF Keep
      <3>3. DOMAIN statuses' = DOMAIN statuses \cup {l.id}
        BY <2>3, SetStatusEffect
      <3>4. UNCHANGED <<metas, backups, issued, nextId>>
        BY <1>6 DEF ApplyContent
      <3> QED
        BY <2>1, <3>2, <3>3, <3>4, <1>t
    <2>4. ASSUME NEW s, SetStatus(l.id, s), Goto(t, "discard_meta"),
                 Keep(t, [l EXCEPT !.doomed = {l.id}, !.trims = (s = "expired")])
          PROVE  IdsMove(t)
      <3> DEFINE b == (s = "expired")
      <3>1. Keep(t, GivenUp(l, {l.id}, b))
        BY <2>4 DEF GivenUp
      <3> HIDE DEF b
      <3> QED
        BY <2>3, <2>4, <3>1
    <2> QED
      BY <1>6, <2>2, <2>4 DEF ApplyContent
  <1>7. CASE DiscardContent(t)
    <2>1. l.id # 0
      BY <1>7, <1>n DEF DiscardContent, Numbered, Previewing
    <2>2. UNCHANGED <<metas, statuses, backups, nextId>>
      BY <1>7 DEF DiscardContent
    <2>3. CASE Answer(t)
      BY <2>1, <2>2, <2>3, <1>t, DoomedMove
    <2>4. CASE /\ \/ Goto(t, "evict_status") \/ Goto(t, "list_statuses")
               /\ Keep(t, [l EXCEPT !.doomed = l.doomed \ {Victim(t)}]) /\ UNCHANGED issued
      <3>1. local'[t].id = l.id /\ local'[t].doomed \subseteq l.doomed
        BY <2>4, DoomedMove
      <3> QED
        BY <2>2, <2>4, <3>1, <1>t
    <2> QED
      BY <1>7, <2>3, <2>4 DEF DiscardContent
  <1>8. CASE ApplyBackup(t)
    <2>1. CASE pc'[t] \in Placing
      <3>1. /\ local'[t].id = l.id /\ local'[t].doomed = l.doomed /\ pc'[t] = "write_temp"
            /\ DOMAIN backups' = DOMAIN backups \cup {nextId}
        BY <1>8, <2>1, BackupIsTaken
      <3>2. nextId' = nextId + 1 /\ UNCHANGED <<metas, statuses, issued>>
        BY <1>8, <3>1, <1>t DEF ApplyBackup, Finish
      <3> QED
        BY <3>1, <3>2, <1>t
    <2>2. CASE pc'[t] \notin Placing
      <3>1. Finish(t) /\ UNCHANGED <<nextId, backups>>
        BY <1>8, <2>2, <1>t DEF ApplyBackup, Placing
      <3> QED
        BY <1>8, <3>1, <1>t, <1>b DEF ApplyBackup, Finish, Keep
    <2> QED
      BY <2>1, <2>2
  <1>9. CASE WriteTemp(t) \/ RemoveTarget(t)
    BY <1>9, <1>t DEF WriteTemp, RemoveTarget
  <1>10. CASE RenameTemp(t)
    BY SMTT(30), <1>10, <1>t, <1>b DEF RenameTemp, Finish, Keep
  <1>11. CASE ApplyStatus(t)
    <2>1. DOMAIN statuses' = DOMAIN statuses \cup {l.id} /\ l.id # 0
      BY <1>11, <1>n, SetStatusEffect DEF ApplyStatus, Numbered
    <2> QED
      BY <1>11, <2>1, <1>t DEF ApplyStatus
  <1>12. CASE ListStatuses(t)
    <2>1. l.id # 0 /\ UNCHANGED <<metas, statuses, backups, nextId>>
      BY <1>12, <1>n DEF ListStatuses, Numbered, Previewing
    <2>2. CASE Answer(t)
      BY <2>1, <2>2, <1>t, DoomedMove
    <2>3. ASSUME NEW K, Goto(t, "remove_status"), UNCHANGED issued,
                 Keep(t, [l EXCEPT !.doomed = DOMAIN statuses \ K])
          PROVE  IdsMove(t)
      <3>1. local'[t].id = l.id /\ local'[t].doomed = DOMAIN statuses \ K
        BY <2>3, DoomedMove
      <3> QED
        BY <2>1, <2>3, <3>1, <1>t
    <2> QED
      BY <1>12, <2>2, <2>3 DEF ListStatuses
  <1>13. CASE RemoveStatus(t)
    <2>1. PICK s \in l.doomed :
            /\ statuses' = Without(statuses, {s})
            /\ \/ Answer(t)
               \/ Keep(t, [l EXCEPT !.doomed = l.doomed \ {s}]) /\ UNCHANGED <<pc, issued>>
      BY <1>13 DEF RemoveStatus
    <2>2. /\ DOMAIN statuses' \subseteq DOMAIN statuses /\ UNCHANGED <<metas, backups, nextId>>
          /\ l.id # 0 /\ pc[t] # "preview_meta"
      BY <1>13, <2>1, <1>n DEF RemoveStatus, Numbered, Previewing, Without, Restrict
    <2>3. CASE Answer(t)
      BY <2>2, <2>3, <1>t, DoomedMove
    <2>4. CASE Keep(t, [l EXCEPT !.doomed = l.doomed \ {s}]) /\ UNCHANGED <<pc, issued>>
      <3>1. local'[t].id = l.id /\ local'[t].doomed \subseteq l.doomed
        BY <2>4, DoomedMove
      <3> QED
        BY <2>2, <2>4, <3>1, <1>t
    <2> QED
      BY <2>1, <2>3, <2>4
  <1>14. CASE ListBackups(t)
    <2>1. UNCHANGED <<metas, statuses, backups, issued, nextId>>
      BY <1>14 DEF ListBackups
    <2>2. CASE Applied(t)
      BY <2>1, <2>2, <1>t, DoomedMove
    <2>3. ASSUME NEW K, Goto(t, "remove_backup"), Keep(t, [l EXCEPT !.doomed = DOMAIN backups \ K])
          PROVE  IdsMove(t)
      <3>1. local'[t].id = l.id /\ local'[t].doomed = DOMAIN backups \ K
        BY <2>3, DoomedMove
      <3> QED
        BY <2>1, <2>3, <3>1, <1>t
    <2> QED
      BY <1>14, <2>2, <2>3 DEF ListBackups
  <1>15. CASE RemoveBackup(t)
    <2>1. PICK s \in l.doomed :
            /\ backups' = Without(backups, {s})
            /\ \/ Applied(t)
               \/ Keep(t, [l EXCEPT !.doomed = l.doomed \ {s}]) /\ UNCHANGED pc
      BY <1>15 DEF RemoveBackup
    <2>2. /\ DOMAIN backups' \subseteq DOMAIN backups /\ pc[t] # "preview_meta"
          /\ UNCHANGED <<metas, statuses, issued, nextId>>
      BY <1>15, <2>1 DEF RemoveBackup, Without, Restrict
    <2>3. CASE Applied(t)
      BY <2>2, <2>3, <1>t, DoomedMove
    <2>4. CASE Keep(t, [l EXCEPT !.doomed = l.doomed \ {s}]) /\ UNCHANGED pc
      <3>1. local'[t].id = l.id /\ local'[t].doomed \subseteq l.doomed
        BY <2>4, DoomedMove
      <3> QED
        BY <2>2, <2>4, <3>1, <1>t
    <2> QED
      BY <2>1, <2>3, <2>4
  <1> QED
    BY <1>1, <1>2, <1>3, <1>4, <1>5, <1>6, <1>7, <1>8, <1>9, <1>10, <1>11, <1>12, <1>13,
       <1>14, <1>15 DEF Step

LEMMA FreshStep ==
  ASSUME TypeOK, TypeOK', IdsAreFresh, NEW t \in Thread, Request(t) \/ Step(t)
  PROVE  IdsAreFresh'
  <1> DEFINE l == local[t]
             m == local'[t]
  <1>t. /\ \A u \in Thread : Serves(pc[u], local[u]) /\ LocalOK(local[u])
        /\ \A u \in Thread : LocalOK(local'[u])
        /\ nextId \in Nat \ {0}
    BY DEF TypeOK, RequestsOK, RecordsOK, Serves
  <1>1. IdsMove(t)
    BY RequestIds, StepIds
  <1>2. \A u \in Thread \ {t} : pc'[u] = pc[u] /\ local'[u] = local[u]
    BY OthersWait
  <1>3. \A i \in Ids' : i \in Nat \ {0} /\ i < nextId'
    <2>1. \A i \in Ids \cup ({l.id} \ {0}) \cup l.doomed :
            i \in Nat \ {0} /\ i < nextId
      BY ZenonT(40), <1>t DEF IdsAreFresh, LocalOK
    <2> QED
      BY <2>1, <1>1, <1>t DEF IdsMove
  <1>4. \A u \in Thread : local'[u].id < nextId' /\ \A d \in local'[u].doomed : d < nextId'
    <2>1. m.id < nextId'
      <3>0. l.id \in Nat /\ l.id < nextId
        BY <1>t DEF IdsAreFresh, LocalOK
      <3>1. nextId > 0
        BY <1>t
      <3>2. \A i \in Ids : i \in Nat /\ i < nextId
        BY DEF IdsAreFresh
      <3>3. m.id \in Ids \cup {0, l.id} \/ (m.id = nextId /\ nextId' = nextId + 1)
        BY <1>1 DEF IdsMove
      <3>4. nextId' \in Nat /\ nextId' >= nextId
        BY <1>1 DEF IdsMove
      <3> QED
        BY <3>0, <3>1, <3>2, <3>3, <3>4, <1>t
    <2>2. \A d \in m.doomed : d < nextId'
      <3>1. \A d \in l.doomed \cup Ids \cup {l.id} : d \in Nat /\ d < nextId
        BY <1>t DEF IdsAreFresh, LocalOK
      <3> QED
        BY <3>1, <1>1, <1>t DEF IdsMove
    <2>3. \A u \in Thread \ {t} :
            local[u].id \in Nat /\ local[u].id < nextId
              /\ \A d \in local[u].doomed : d \in Nat /\ d < nextId
      BY <1>t DEF IdsAreFresh, LocalOK
    <2>4. nextId' >= nextId /\ nextId' \in Nat
      BY <1>1 DEF IdsMove
    <2> QED
      BY <2>1, <2>2, <2>3, <2>4, <1>2, <1>t
  <1>5. ASSUME NEW v \in Thread, pc'[v] = "preview_meta", NEW u \in Thread
        PROVE  /\ local'[v].id \notin Ids' /\ local'[v].id \notin local'[u].doomed
               /\ u # v => local'[u].id # local'[v].id
    <2>1. CASE v = t /\ ~(pc[t] = "preview_meta" /\ pc'[t] = pc[t] /\ m = l)
      <3>1. m.id = nextId /\ m.doomed = {} /\ Ids' = Ids
        BY <1>1, <1>5, <2>1 DEF IdsMove
      <3>2. nextId \notin Ids /\ nextId \notin local[u].doomed /\ local[u].id # nextId
        BY <1>t DEF IdsAreFresh
      <3> QED
        BY <2>1, <3>1, <3>2, <1>2
    <2>2. CASE v = t /\ pc[t] = "preview_meta" /\ pc'[t] = pc[t] /\ m = l
      <3>1. m.id = nextId
        BY <1>1, <1>5, <2>2 DEF IdsMove
      <3> QED
        BY <2>2, <3>1, <1>t DEF IdsAreFresh
    <2>3. CASE v # t
      <3>1. At(v, "preview_meta") /\ local'[v] = local[v]
        BY <1>2, <1>5, <2>3 DEF At
      <3>2. /\ local[v].id \notin Ids /\ local[v].id # 0 /\ local[v].id < nextId
            /\ local[v].id \notin l.doomed /\ l.id # local[v].id
            /\ local[v].id \notin local[u].doomed /\ (u # v => local[u].id # local[v].id)
        BY <3>1, <2>3, <1>t DEF IdsAreFresh, Serves, Numbered, Previewing, At
      <3>3. local[v].id \notin Ids' /\ local[v].id \notin m.doomed /\ m.id # local[v].id
        BY <3>2, <1>1, <1>t DEF IdsMove
      <3> QED
        BY <3>1, <3>2, <3>3, <1>2
    <2> QED
      BY <2>1, <2>2, <2>3
  <1> QED
    BY <1>3, <1>4, <1>5 DEF IdsAreFresh, At

\* What may be removed, and what may be told to a client
Told(id) == \/ id \in DOMAIN statuses
            \/ StatusKeep > 0 /\ Cardinality(DOMAIN statuses) >= StatusKeep

Accounted(id) == id \in DOMAIN metas \/ Told(id)

\* Metadata is only removed of what was told; a preview has its own until its end; and
\* whoever removes statuses leaves as many as are kept.
Accounts(t) ==
  LET l == local[t]
  IN  /\ At(t, "discard_meta") => Told(Victim(t))
      /\ l.kind = "preview" /\ ~At(t, "preview_meta") => Accounted(l.id)
      /\ At(t, "remove_status") =>
           StatusKeep > 0 /\ Cardinality(DOMAIN statuses \ l.doomed) >= StatusKeep

AccountInv ==
  /\ TypeOK /\ IdsAreFresh
  /\ \A t \in Thread : Accounts(t)
  /\ \A id \in issued : Accounted(id)

\* What retention leaves
LEMMA RetainedCount ==
  ASSUME NEW f, NEW keep \in Nat, NEW K \in Retained(f, keep), IsFiniteSet(DOMAIN f)
  PROVE  /\ K = DOMAIN f \/ (keep > 0 /\ Cardinality(K) = keep)
         /\ keep > 0 => Cardinality(K) <= keep
  <1>1. Cardinality(DOMAIN f) \in Nat
    BY FS_CardinalityType
  <1> QED
    BY <1>1 DEF Retained, kSubset

LEMMA MetaSteps ==
  ASSUME NEW t \in Thread, Request(t) \/ Step(t)
  PROVE  UNCHANGED metas \/ PreviewMeta(t) \/ DiscardMeta(t)
  BY DEF Request, Preview, ApplyDirect, ApplyPreview, Rollback, Step, PreviewContent,
         PreviewList, EvictStatus, ApplyContent, ApplyBackup, WriteTemp, RemoveTarget,
         RenameTemp, ApplyStatus, DiscardContent, ListStatuses, RemoveStatus, ListBackups,
         RemoveBackup

LEMMA ToldStays ==
  ASSUME TypeOK, IdsAreFresh, NEW t \in Thread, Accounts(t), Request(t) \/ Step(t),
         NEW id, Told(id)
  PROVE  Told(id)'
  <1>t. IsFiniteSet(DOMAIN statuses) /\ StatusKeep \in Nat
    BY PatchAssumption DEF TypeOK, RecordsOK
  <1>1. CASE UNCHANGED statuses
    BY <1>1 DEF Told
  <1>2. CASE RemoveStatus(t)
    <2> DEFINE S == DOMAIN statuses
               D == local[t].doomed
    <2>1. PICK s \in D : DOMAIN statuses' = S \ {s}
      BY <1>2 DEF RemoveStatus, Without, Restrict
    <2>2. StatusKeep > 0 /\ Cardinality(S \ D) >= StatusKeep
      BY <1>2 DEF RemoveStatus, Accounts, At
    <2>3. IsFiniteSet(S \ {s}) /\ S \ D \subseteq S \ {s}
      BY <1>t, <2>1, FS_Subset
    <2>4. /\ Cardinality(S \ D) <= Cardinality(S \ {s}) /\ Cardinality(S \ D) \in Nat
          /\ Cardinality(S \ {s}) \in Nat
      BY <2>3, FS_Subset, FS_CardinalityType
    <2> QED
      BY <2>1, <2>2, <2>4, <1>t DEF Told
  <1>3. ASSUME NEW i, NEW s, SetStatus(i, s)
        PROVE  Told(id)'
    <2>1. DOMAIN statuses' = DOMAIN statuses \cup {i}
      BY <1>3, SetStatusEffect
    <2>2. /\ Cardinality(DOMAIN statuses) \in Nat /\ Cardinality(DOMAIN statuses') \in Nat
          /\ Cardinality(DOMAIN statuses) <= Cardinality(DOMAIN statuses')
      <3> DEFINE S == DOMAIN statuses
      <3>1. Cardinality(S) \in Nat
        BY <1>t, FS_CardinalityType
      <3>2. Cardinality(S \cup {i}) = IF i \in S THEN Cardinality(S) ELSE Cardinality(S) + 1
        BY <1>t, FS_AddElement
      <3> QED
        BY <2>1, <3>1, <3>2
    <2> QED
      BY <2>1, <2>2, <1>t DEF Told
  <1>4. CASE PreviewMeta(t)
    <2>1. local[t].id \notin DOMAIN statuses
      BY <1>4 DEF PreviewMeta, IdsAreFresh, Ids
    <2>2. DOMAIN statuses' = DOMAIN statuses \ {local[t].id}
      BY <1>4 DEF PreviewMeta, Without, Restrict
    <2>3. DOMAIN statuses' = DOMAIN statuses
      BY <2>1, <2>2
    <2> QED
      BY <2>3 DEF Told
  <1>5. CASE EvictStatus(t) \/ ApplyContent(t) \/ ApplyStatus(t)
    BY <1>1, <1>3, <1>5 DEF EvictStatus, ApplyContent, ApplyStatus
  <1> QED
    BY <1>1, <1>2, <1>4, <1>5, StatusSteps

LEMMA AccountedStays ==
  ASSUME TypeOK, IdsAreFresh, NEW t \in Thread, Accounts(t), Request(t) \/ Step(t),
         NEW id, Accounted(id)
  PROVE  Accounted(id)'
  <1>1. \A x : Told(x) => Told(x)'
    BY ToldStays
  <1>2. CASE UNCHANGED metas
    BY <1>1, <1>2 DEF Accounted
  <1>3. CASE PreviewMeta(t)
    <2>1. DOMAIN metas' = DOMAIN metas \cup {local[t].id}
      BY <1>3 DEF PreviewMeta, With
    <2> QED
      BY <1>1, <2>1 DEF Accounted
  <1>4. CASE DiscardMeta(t)
    <2>1. DOMAIN metas' = DOMAIN metas \ {Victim(t)} /\ Told(Victim(t))
      BY <1>4 DEF DiscardMeta, Without, Restrict, Accounts
    <2> QED
      BY <1>1, <2>1 DEF Accounted
  <1> QED
    BY <1>2, <1>3, <1>4, MetaSteps

\* A handler's own step keeps what it relies on.
LEMMA AccountsStep ==
  ASSUME TypeOK, IdsAreFresh, NEW t \in Thread, Accounts(t), Request(t) \/ Step(t)
  PROVE  Accounts(t)'
  <1> DEFINE l == local[t]
  <1>t. pc \in [Thread -> Labels] /\ local = [u \in Thread |-> local[u]] /\ LocalOK(l)
    BY DEF TypeOK, RequestsOK, Serves
  <1>s. Serves(pc[t], l) /\ StatusKeep \in Nat /\ IsFiniteSet(DOMAIN statuses)
    BY PatchAssumption DEF TypeOK, RequestsOK, RecordsOK
  <1>a. /\ \A S : /\ [l EXCEPT !.doomed = S].id = l.id /\ [l EXCEPT !.doomed = S].kind = l.kind
                  /\ [l EXCEPT !.doomed = S].doomed = S
        /\ \A S, b : /\ GivenUp(l, S, b).id = l.id /\ GivenUp(l, S, b).kind = l.kind
                     /\ GivenUp(l, S, b).doomed = S
    <2>1. \A S, b : /\ GivenUp(l, S, b).id = l.id /\ GivenUp(l, S, b).kind = l.kind
                     /\ GivenUp(l, S, b).doomed = S
      BY <1>t, GivenUpUpdate
    <2> QED
      BY <1>t, <2>1 DEF LocalOK
  <1>b. Blank.kind = "apply"
    BY DEF Blank
  <1>m. ASSUME NEW x \in Nat
        PROVE  Max({x}) = x
    <2>1. {x} # {} /\ {x} \subseteq Nat /\ IsFiniteSet({x})
      BY FS_Singleton
    <2>2. Max({x}) \in {x}
      BY <2>1, MaxOfFinite
    <2> QED
      BY <2>2
  <1> USE DEF At, Goto
  <1>e. ASSUME Finish(t)
        PROVE  Accounts(t)'
    BY <1>e, <1>t, <1>b DEF Finish, Keep, Accounts
  <1>k. ASSUME local'[t].id = l.id, local'[t].kind = l.kind, pc[t] # "preview_meta",
               pc'[t] \notin {"discard_meta", "remove_status"}
        PROVE  Accounts(t)'
    <2>1. l.kind = "preview" => Accounted(l.id)'
      BY <1>k, AccountedStays DEF Accounts
    <2> QED
      BY <1>k, <2>1 DEF Accounts, Accounted, Told
  <1>0. CASE Request(t)
    <2>1. CASE Preview(t)
      BY <2>1, <1>t DEF Preview, Accounts
    <2>2. CASE ApplyDirect(t) \/ ApplyPreview(t) \/ Rollback(t)
      <3>1. pc'[t] \in {"apply_backup", "apply_content", "write_temp", "remove_target"}
        BY <2>2, <1>t DEF ApplyDirect, ApplyPreview, Rollback
      <3>2. local'[t].kind # "preview"
        BY <3>1, NextType, <1>0 DEF TypeOK, RequestsOK, Serves, Next, Previewing
      <3> QED
        BY <3>1, <3>2 DEF Accounts
    <2> QED
      BY <1>0, <2>1, <2>2 DEF Request
  <1>1. CASE PreviewMeta(t)
    <2>1. l.id \in DOMAIN metas'
      BY <1>1 DEF PreviewMeta, With
    <2>2. pc'[t] = "preview_content" /\ local' = local
      BY <1>1, <1>t DEF PreviewMeta
    <2> QED
      BY <2>1, <2>2 DEF Accounts, Accounted
  <1>2. CASE PreviewContent(t)
    BY <1>2, <1>t, <1>k DEF PreviewContent
  <1>3. CASE PreviewList(t)
    <2>1. PICK K \in Retained(metas, PreviewKeep) :
            \/ Finish(t)
            \/ Goto(t, "evict_status") /\ Keep(t, [l EXCEPT !.doomed = DOMAIN metas \ K])
      BY <1>3 DEF PreviewList, Answer
    <2>2. CASE Goto(t, "evict_status") /\ Keep(t, [l EXCEPT !.doomed = DOMAIN metas \ K])
      <3>1. local'[t].id = l.id /\ local'[t].kind = l.kind
        BY <2>2, DoomedMove
      <3> QED
        BY <1>3, <2>2, <3>1, <1>t, <1>k DEF PreviewList
    <2> QED
      BY <2>1, <2>2, <1>e
  <1>4. CASE EvictStatus(t)
    <2>1. Victim(t) \in DOMAIN statuses'
      BY <1>4, SetStatusEffect DEF EvictStatus
    <2>2. pc'[t] = "discard_meta" /\ local' = local
      BY <1>4, <1>t DEF EvictStatus
    <2>3. l.kind = "preview" => Accounted(l.id)'
      BY <1>4, AccountedStays DEF EvictStatus, Accounts
    <2> QED
      BY <2>1, <2>2, <2>3 DEF Accounts, Accounted, Told, Victim
  <1>5. CASE DiscardMeta(t)
    BY <1>5, <1>t, <1>k DEF DiscardMeta
  <1>6. CASE ApplyContent(t)
    <2>0. l.kind # "preview" /\ l.id \in Nat
      BY <1>6, <1>s DEF ApplyContent, Serves, LocalOK, Previewing
    <2>1. CASE Goto(t, "apply_backup") /\ UNCHANGED <<statuses, local>>
      BY <1>6, <1>t, <2>1, <1>k DEF ApplyContent
    <2>3. ASSUME NEW s, NEW b, SetStatus(l.id, s), Goto(t, "discard_meta"),
                 Keep(t, GivenUp(l, {l.id}, b))
          PROVE  Accounts(t)'
      <3>2. local'[t].doomed = {l.id} /\ local'[t].kind = l.kind /\ pc'[t] = "discard_meta"
        BY <2>3, <1>a, <1>t DEF Keep
      <3>3. l.id \in DOMAIN statuses'
        BY <2>3, SetStatusEffect
      <3>4. Victim(t)' = l.id
        BY <3>2, <1>m, <2>0 DEF Victim
      <3> QED
        BY <2>0, <3>2, <3>3, <3>4 DEF Accounts, Told
    <2>4. ASSUME NEW s, SetStatus(l.id, s), Goto(t, "discard_meta"),
                 Keep(t, [l EXCEPT !.doomed = {l.id}, !.trims = (s = "expired")])
          PROVE  Accounts(t)'
      <3> DEFINE b == (s = "expired")
      <3>1. Keep(t, GivenUp(l, {l.id}, b))
        BY <2>4 DEF GivenUp
      <3> HIDE DEF b
      <3> QED
        BY <2>3, <2>4, <3>1
    <2> QED
      BY <1>6, <2>1, <2>4 DEF ApplyContent
  <1>7. CASE DiscardContent(t)
    <2>1. \/ Finish(t)
          \/ /\ Goto(t, "evict_status") \/ Goto(t, "list_statuses")
             /\ Keep(t, [l EXCEPT !.doomed = l.doomed \ {Victim(t)}])
      BY <1>7 DEF DiscardContent, Answer
    <2>2. CASE /\ Goto(t, "evict_status") \/ Goto(t, "list_statuses")
               /\ Keep(t, [l EXCEPT !.doomed = l.doomed \ {Victim(t)}])
      <3>1. local'[t].id = l.id /\ local'[t].kind = l.kind
        BY <2>2, DoomedMove
      <3> QED
        BY <1>7, <2>2, <3>1, <1>t, <1>k DEF DiscardContent
    <2> QED
      BY <2>1, <2>2, <1>e
  <1>8. CASE ApplyBackup(t)
    <2>1. CASE pc'[t] \in Placing
      <3>1. local'[t].kind = "apply" /\ pc'[t] = "write_temp"
        BY <1>8, <2>1, BackupIsTaken
      <3> QED
        BY <3>1 DEF Accounts
    <2>2. CASE pc'[t] \notin Placing
      BY <1>8, <2>2, <1>t, <1>e DEF ApplyBackup, Placing
    <2> QED
      BY <2>1, <2>2
  <1>9. CASE WriteTemp(t) \/ RemoveTarget(t) \/ RenameTemp(t)
    BY <1>9, <1>t, <1>k, <1>e DEF WriteTemp, RemoveTarget, RenameTemp
  <1>10. CASE ApplyStatus(t)
    <2>0. l.doomed = {l.id} /\ l.kind # "preview" /\ l.id \in Nat
      BY <1>10, <1>s DEF ApplyStatus, Serves, LocalOK, Previewing
    <2>1. l.id \in DOMAIN statuses'
      BY <1>10, SetStatusEffect DEF ApplyStatus
    <2>2. pc'[t] = "discard_meta" /\ local' = local
      BY <1>10, <1>t DEF ApplyStatus
    <2>3. Victim(t)' = l.id
      BY <2>0, <2>2, <1>m DEF Victim
    <2> QED
      BY <2>0, <2>1, <2>2, <2>3 DEF Accounts, Told
  <1>11. CASE ListStatuses(t)
    <2>1. CASE Answer(t)
      BY <2>1, <1>e DEF Answer
    <2>2. ASSUME NEW K \in Retained(statuses, StatusKeep), DOMAIN statuses # K,
                 Goto(t, "remove_status"), Keep(t, [l EXCEPT !.doomed = DOMAIN statuses \ K])
          PROVE  Accounts(t)'
      <3>1. StatusKeep > 0 /\ Cardinality(K) = StatusKeep /\ K \subseteq DOMAIN statuses
        BY <2>2, <1>s, RetainedCount, RetainedEffect
      <3>2. /\ local'[t].doomed = DOMAIN statuses \ K /\ local'[t].kind = l.kind
            /\ local'[t].id = l.id /\ pc'[t] = "remove_status" /\ UNCHANGED statuses
        BY <1>11, <2>2, <1>a, <1>t DEF Keep, ListStatuses
      <3>3. statuses' = statuses /\ DOMAIN statuses \ (DOMAIN statuses \ K) = K
        BY <3>1, <3>2
      <3>4. l.kind = "preview" => Accounted(l.id)'
        <4>1. pc[t] # "preview_meta"
          BY <1>11 DEF ListStatuses
        <4>2. l.kind = "preview" => Accounted(l.id)
          BY <4>1 DEF Accounts
        <4> QED
          BY <3>2, <4>2, AccountedStays
      <3> QED
        BY <3>1, <3>2, <3>3, <3>4, <1>s DEF Accounts, Accounted, Told
    <2> QED
      BY <1>11, <2>1, <2>2 DEF ListStatuses
  <1>12. CASE RemoveStatus(t)
    <2>1. PICK s \in l.doomed :
            /\ statuses' = Without(statuses, {s})
            /\ \/ Answer(t)
               \/ Keep(t, [l EXCEPT !.doomed = l.doomed \ {s}]) /\ UNCHANGED <<pc, issued>>
      BY <1>12 DEF RemoveStatus
    <2>2. CASE Answer(t)
      BY <2>2, <1>e DEF Answer
    <2>3. CASE Keep(t, [l EXCEPT !.doomed = l.doomed \ {s}]) /\ UNCHANGED <<pc, issued>>
      <3>1. /\ local'[t].doomed = l.doomed \ {s} /\ local'[t].kind = l.kind
            /\ local'[t].id = l.id /\ pc'[t] = "remove_status" /\ pc[t] = "remove_status"
        BY <1>12, <2>3, <1>a, <1>t DEF Keep, RemoveStatus
      <3>2. DOMAIN statuses' = DOMAIN statuses \ {s}
        BY <2>1 DEF Without, Restrict
      <3>3. DOMAIN statuses' \ (l.doomed \ {s}) = DOMAIN statuses \ l.doomed
        BY <3>2, <2>1
      <3>4. l.kind = "preview" => Accounted(l.id)'
        BY <3>1, AccountedStays DEF Accounts
      <3> QED
        BY <3>1, <3>3, <3>4 DEF Accounts, Accounted, Told
    <2> QED
      BY <2>1, <2>2, <2>3
  <1>13. CASE ListBackups(t) \/ RemoveBackup(t)
    <2>1. l.kind # "preview"
      BY <1>13, <1>s DEF ListBackups, RemoveBackup, Serves, Previewing
    <2>2. /\ pc'[t] \in {"idle", "apply_status", "list_backups", "remove_backup"}
          /\ local'[t].kind # "preview"
      <3>1. CASE ListBackups(t)
        <4>1. Applied(t) => local'[t].kind # "preview"
          BY <2>1, DoomedMove
        <4>2. ASSUME NEW S, Keep(t, [l EXCEPT !.doomed = S])
              PROVE  local'[t].kind # "preview"
          BY <2>1, <4>2, DoomedMove
        <4> QED
          BY <3>1, <4>1, <4>2, <1>t DEF ListBackups, Applied, Finish
      <3>2. CASE RemoveBackup(t)
        <4>1. Applied(t) => local'[t].kind # "preview"
          BY <2>1, DoomedMove
        <4>2. ASSUME NEW S, Keep(t, [l EXCEPT !.doomed = S])
              PROVE  local'[t].kind # "preview"
          BY <2>1, <4>2, DoomedMove
        <4> QED
          BY <3>2, <4>1, <4>2, <1>t DEF RemoveBackup, Applied, Finish
      <3> QED
        BY <1>13, <3>1, <3>2
    <2> QED
      BY <2>2 DEF Accounts
  <1> QED
    BY <1>0, <1>1, <1>2, <1>3, <1>4, <1>5, <1>6, <1>7, <1>8, <1>9, <1>10, <1>11, <1>12,
       <1>13 DEF Step

\* A preview is handed out by the request that made it, with its records in place.
LEMMA IssuedStep ==
  ASSUME TypeOK, NEW t \in Thread, Request(t) \/ Step(t)
  PROVE  \/ issued' = issued
         \/ /\ issued' = issued \cup {local[t].id}
            /\ local[t].kind = "preview" /\ pc[t] # "preview_meta"
  <1>1. CASE PreviewList(t) \/ DiscardContent(t) \/ ListStatuses(t) \/ RemoveStatus(t)
    BY <1>1 DEF PreviewList, DiscardContent, ListStatuses, RemoveStatus, Answer, At
  <1>2. CASE Request(t)
    BY <1>2 DEF Request, Preview, ApplyDirect, ApplyPreview, Rollback
  <1>3. CASE /\ Step(t)
             /\ ~(PreviewList(t) \/ DiscardContent(t) \/ ListStatuses(t) \/ RemoveStatus(t))
    BY <1>3 DEF Step, PreviewMeta, PreviewContent, EvictStatus, ApplyContent, ApplyBackup,
                WriteTemp, RemoveTarget, RenameTemp, ApplyStatus, DiscardMeta, ListBackups,
                RemoveBackup
  <1> QED
    BY <1>1, <1>2, <1>3

LEMMA AccountNext ==
  ASSUME OneHandler \/ StatusKeep = 0
  PROVE  AccountInv /\ [Next]_vars => AccountInv'
  <1> SUFFICES ASSUME AccountInv, [Next]_vars PROVE AccountInv'
    OBVIOUS
  <1>t. TypeOK /\ TypeOK' /\ IdsAreFresh
    BY NextType DEF AccountInv
  <1>1. ASSUME NEW t \in Thread, Request(t) \/ Step(t)
        PROVE  AccountInv'
    <2>1. IdsAreFresh' /\ Accounts(t)'
      BY <1>1, <1>t, FreshStep, AccountsStep DEF AccountInv
    <2>2. \A id : Accounted(id) => Accounted(id)'
      BY <1>1, <1>t, AccountedStays DEF AccountInv
    <2>3. \A id : Told(id) => Told(id)'
      BY <1>1, <1>t, ToldStays DEF AccountInv
    <2>4. ASSUME NEW u \in Thread \ {t}
          PROVE  Accounts(u)'
      <3>1. pc'[u] = pc[u] /\ local'[u] = local[u]
        BY <1>1, <1>t, OthersWait
      <3>2. ~At(u, "remove_status") /\ Victim(u)' = Victim(u)
        <4>1. StatusKeep = 0 /\ ~(0 > 0)
          BY <2>4 DEF OneHandler
        <4> QED
          BY <4>1, <3>1 DEF AccountInv, Accounts, Victim
      <3> QED
        BY <2>2, <2>3, <3>1, <3>2 DEF AccountInv, Accounts, At
    <2>5. \A id \in issued' : Accounted(id)'
      BY <1>1, <1>t, <2>2, IssuedStep DEF AccountInv, Accounts, At
    <2> QED
      BY <1>t, <2>1, <2>4, <2>5 DEF AccountInv
  <1>2. CASE OutsideEdit \/ Tick \/ UNCHANGED vars
    <2>1. UNCHANGED <<metas, statuses, backups, issued, pc, local, nextId>>
      BY <1>2 DEF OutsideEdit, Tick, vars
    <2> QED
      BY <1>t, <2>1 DEF AccountInv, IdsAreFresh, Ids, Accounts, Accounted, Told, At, Victim
  <1>3. CASE Crash
    <2>1. /\ UNCHANGED <<metas, statuses, backups, issued, nextId>>
          /\ \A t \in Thread : pc'[t] = "idle" /\ local'[t] = Blank
      BY <1>3 DEF Crash
    <2>2. Blank.id = 0 /\ Blank.doomed = {} /\ Blank.kind = "apply" /\ nextId \in Nat \ {0}
      BY <1>t DEF Blank, TypeOK, RecordsOK
    <2>3. IdsAreFresh'
      BY <1>t, <2>1, <2>2 DEF IdsAreFresh, Ids, At
    <2> QED
      BY <1>t, <2>1, <2>2, <2>3 DEF AccountInv, Accounts, Accounted, Told, At
  <1> QED
    BY <1>1, <1>2, <1>3 DEF Next

LEMMA AccountInit == Init => AccountInv
  <1> SUFFICES ASSUME Init PROVE AccountInv
    OBVIOUS
  <1>1. Ids = {} /\ nextId = 1 /\ \A t \in Thread : pc[t] = "idle" /\ local[t] = Blank
    BY DEF Init, Ids
  <1>2. Blank.id = 0 /\ Blank.doomed = {} /\ Blank.kind = "apply"
    BY DEF Blank
  <1> QED
    BY <1>1, <1>2, TypeInit DEF Init, AccountInv, IdsAreFresh, Accounts, At

\* A preview that a client was given is there, or its status says why not, or so many
\* later statuses were kept that its own was dropped: wherever the daemon dies, with one
\* request at a time, or, where statuses are all kept, with any number of handlers that
\* preview, evict, expire and apply at once (cleanup_old_previews and patch_apply write
\* the status before they remove).  Two handlers that trim statuses by lists of their own
\* may remove more than either of them would.
THEOREM PreviewsAreAlwaysAccounted ==
  ASSUME OneHandler \/ StatusKeep = 0
  PROVE  Spec => []PreviewAccounted
  <1>1. AccountInv => PreviewAccounted
    BY DEF AccountInv, Accounted, Told, PreviewAccounted
  <1> QED
    BY <1>1, AccountInit, AccountNext, PTL DEF Spec

(***************************************************************************)
(* An apply writes over the version it compared and backed up              *)
(***************************************************************************)

\* From the comparison to the removal the target is as it was read and backed up, and
\* then it is gone until the rename.
Undisturbed(t) ==
  LET l == local[t]
  IN  l.kind = "apply" =>
        /\ pc[t] \in {"write_temp", "remove_target"} =>
             /\ file[l.path] = l.found /\ l.base \subseteq BaseOf(l.found, {"mtime", "hash"})
             /\ \E b \in DOMAIN backups :
                  /\ backups[b].path = l.path /\ backups[b].existed = l.found.exists
                  /\ backups[b].content = Backup(l.found.content)
        /\ At(t, "rename_temp") => ~file[l.path].exists

ReplaceInv == StagedInv /\ \A t \in Thread : Undisturbed(t)

LEMMA UndisturbedStep ==
  ASSUME TypeOK, NEW t \in Thread, Undisturbed(t), Request(t) \/ Step(t)
  PROVE  Undisturbed(t)'
  <1> DEFINE l == local[t]
  <1>t. pc \in [Thread -> Labels]
    BY DEF TypeOK, RequestsOK
  <1> USE DEF Undisturbed, At, Goto
  <1>0. CASE Request(t)
    BY <1>0, RequestStands
  <1>1. CASE ApplyBackup(t) /\ pc'[t] \in Placing
    <2>1. nextId \in DOMAIN backups'
      BY <1>1, BackupIsTaken
    <2>2. /\ backups'[nextId].path = l.path
          /\ backups'[nextId].content = Backup(file[l.path].content)
          /\ backups'[nextId].existed = file[l.path].exists
      <3>1. backups'[nextId] =
              [path |-> l.path, content |-> Backup(file[l.path].content),
               existed |-> file[l.path].exists, time |-> now]
        BY <1>1, BackupIsTaken
      <3> QED
        BY <3>1
    <2> QED
      BY <1>1, <2>1, <2>2, BackupIsTaken
  <1>2. CASE WriteTemp(t)
    BY <1>2, <1>t DEF WriteTemp
  <1>3. CASE RemoveTarget(t)
    <2>1. l.path \in Path
      BY <1>3 DEF RemoveTarget, TypeOK, RequestsOK, Serves
    <2>2. file' = [file EXCEPT ![l.path] = Missing]
      BY <1>3 DEF RemoveTarget
    <2>3. ~file'[l.path].exists
      BY <2>1, <2>2 DEF TypeOK, FilesOK, Missing
    <2>4. pc'[t] \notin {"write_temp", "remove_target"} /\ local' = local
      BY <1>3, <1>t DEF RemoveTarget
    <2> QED
      BY <2>3, <2>4
  <1>4. CASE pc'[t] \notin Placing
    BY <1>4 DEF Placing
  <1> QED
    BY <1>0, <1>1, <1>2, <1>3, <1>4, StepsToPlacing

LEMMA ReplaceNext ==
  ASSUME OneHandler, EditorsWait
  PROVE  ReplaceInv /\ [Next]_vars => ReplaceInv'
  <1> SUFFICES ASSUME ReplaceInv, [Next]_vars PROVE ReplaceInv'
    OBVIOUS
  <1>t. TypeOK /\ StagedInv'
    BY StagedNext DEF ReplaceInv, StagedInv
  <1>1. ASSUME NEW t \in Thread, Request(t) \/ Step(t)
        PROVE  ReplaceInv'
    BY <1>1, <1>t, UndisturbedStep DEF ReplaceInv, OneHandler
  <1>2. CASE OutsideEdit
    BY <1>2, <1>t DEF OutsideEdit, ReplaceInv, Undisturbed, At
  <1>3. CASE Crash
    BY <1>3, <1>t DEF Crash, ReplaceInv, Undisturbed, At
  <1>4. CASE Tick \/ UNCHANGED vars
    BY <1>4, <1>t DEF Tick, vars, ReplaceInv, Undisturbed, At
  <1> QED
    BY <1>1, <1>2, <1>3, <1>4 DEF Next

LEMMA ReplaceInit == Init => ReplaceInv
  BY StagedInit DEF Init, ReplaceInv, Undisturbed, At

\* The steps that take a file away and put one in place are the handler's own.
LEMMA PlacingSteps ==
  ASSUME TypeOK, NEW t \in Thread, Next
  PROVE  /\ At(t, "remove_target") /\ pc'[t] = "rename_temp" => RemoveTarget(t)
         /\ Renames(t) => RenameTemp(t) /\ temp[local[t].kind][local[t].path] # NoTemp
  <1>t. pc \in [Thread -> Labels]
    BY DEF TypeOK, RequestsOK
  <1>0. SUFFICES ASSUME pc[t] \in {"remove_target", "rename_temp"},
                        pc'[t] \in {"rename_temp", "list_backups"}, pc'[t] # pc[t]
                 PROVE  RemoveTarget(t) \/ RenameTemp(t)
    BY <1>0, <1>t DEF At, Renames, RenameTemp, RemoveTarget, Finish, Goto
  <1>1. CASE Request(t)
    BY <1>0, <1>1, RequestStands DEF At
  <1>2. CASE Step(t)
    BY <1>0, <1>2
    DEF Step, At, PreviewMeta, PreviewContent, PreviewList, EvictStatus, ApplyContent,
        ApplyBackup, WriteTemp, ApplyStatus, DiscardMeta, DiscardContent, ListStatuses,
        RemoveStatus, ListBackups, RemoveBackup
  <1>3. CASE \E u \in Thread \ {t} : Request(u) \/ Step(u)
    BY <1>0, <1>3, OthersWait
  <1>4. CASE OutsideEdit \/ Tick
    BY <1>0, <1>4 DEF OutsideEdit, Tick
  <1>5. CASE Crash
    BY <1>0, <1>5 DEF Crash
  <1> QED
    BY <1>1, <1>2, <1>3, <1>4, <1>5 DEF Next

\* With one request at a time and editors that wait for it, an apply takes away the very
\* version that its client named and the service compared, and puts its own text in
\* place, whatever temporary files crashes have left (patch_apply: base_matches,
\* write_text_file).
THEOREM AppliesWriteOverBase ==
  ASSUME OneHandler, EditorsWait
  PROVE  Spec => WritesOverBase
  <1>1. ASSUME ReplaceInv, [Next]_vars, NEW t \in Thread, local[t].kind = "apply"
        PROVE  LET l == local[t]
                   f == file[l.path]
               IN  /\ At(t, "remove_target") /\ pc'[t] = "rename_temp" =>
                        f = l.found /\ l.base \subseteq BaseOf(f, {"mtime", "hash"})
                   /\ Renames(t) => ~f.exists /\ file'[l.path].content = l.text
    <2> DEFINE l == local[t]
               f == file[l.path]
    <2>1. At(t, "remove_target") => f = l.found /\ l.base \subseteq BaseOf(f, {"mtime", "hash"})
      BY <1>1 DEF ReplaceInv, Undisturbed, At
    <2>2. ASSUME Renames(t)
          PROVE  ~f.exists /\ file'[l.path].content = l.text
      <3>1. RenameTemp(t) /\ temp[l.kind][l.path] # NoTemp
        <4>1. Next
          BY <1>1, <2>2 DEF Renames, At, vars
        <4> QED
          BY <1>1, <2>2, <4>1, PlacingSteps DEF ReplaceInv, StagedInv
      <3>2. ~f.exists /\ temp[l.kind][l.path][1].content = l.text
        BY <1>1, <2>2 DEF ReplaceInv, StagedInv, Undisturbed, Staged, Renames, At
      <3>3. l.path \in Path
        BY <1>1, <2>2 DEF ReplaceInv, StagedInv, TypeOK, RequestsOK, Serves, Renames, At
      <3>4. file'[l.path].content = temp[l.kind][l.path][1].content
        <4>1. file = [p \in Path |-> file[p]]
          BY <1>1 DEF ReplaceInv, StagedInv, TypeOK, FilesOK
        <4>2. file' = [file EXCEPT ![l.path] =
                         [exists |-> TRUE, content |-> temp[l.kind][l.path][1].content,
                          mtime |-> temp[l.kind][l.path][1].mtime]]
          BY <3>1 DEF RenameTemp
        <4> QED
          BY <3>3, <4>1, <4>2
      <3> QED
        BY <3>2, <3>4
    <2> QED
      BY <2>1, <2>2
  <1>2. ReplaceInv /\ [Next]_vars =>
          [\A t \in Thread :
             LET l == local[t]
                 f == file[l.path]
             IN  l.kind = "apply" =>
                   /\ At(t, "remove_target") /\ pc'[t] = "rename_temp" =>
                        f = l.found /\ l.base \subseteq BaseOf(f, {"mtime", "hash"})
                   /\ Renames(t) => ~f.exists /\ file'[l.path].content = l.text]_vars
    BY <1>1
  <1> QED
    BY <1>2, ReplaceInit, ReplaceNext, PTL DEF Spec, WritesOverBase

\* Under the same conditions what an apply takes away can be had back: retention, other
\* requests and crashes included, there is a backup of it when the file is removed
\* (patch_apply saves the backup before it writes).
THEOREM AppliesAreBackedUp ==
  ASSUME OneHandler, EditorsWait
  PROVE  Spec => BackedUp
  <1>1. ReplaceInv /\ [Next]_vars =>
          [\A t \in Thread :
             LET f == file[local[t].path]
             IN  /\ local[t].kind = "apply" /\ At(t, "remove_target") /\ pc'[t] = "rename_temp"
                 /\ f.exists
                 => \E b \in DOMAIN backups : /\ backups[b].path = local[t].path
                                              /\ backups[b].existed
                                              /\ backups[b].content = Backup(f.content)]_vars
    BY DEF ReplaceInv, Undisturbed, At
  <1> QED
    BY <1>1, ReplaceInit, ReplaceNext, PTL DEF Spec, BackedUp

\* A preview and its metadata come and go together; only the steps between them, and
\* those between telling that a preview is gone and removing it, find one without the other.
Making(t)  == IF At(t, "preview_content") THEN {local[t].id} ELSE {}
Leaving(t) == IF At(t, "discard_content") THEN {Victim(t)} ELSE {}
Doubled(t) == IF At(t, "discard_meta") THEN {Victim(t)} ELSE {}

Whole(t) ==
  /\ DOMAIN metas = (contents \cup Making(t)) \ Leaving(t)
  /\ DOMAIN metas \cap DOMAIN statuses \subseteq Doubled(t)
  /\ local[t].trims
  /\ At(t, "apply_content") => local[t].id \in DOMAIN metas

WholeInv == TypeOK /\ crashes = 0 /\ \A t \in Thread : Whole(t)

\* A request that was not corrupted trims the statuses at its end.
LEMMA TrimsStay ==
  ASSUME TypeOK, NEW t \in Thread, Request(t) \/ Step(t), local[t].trims,
         At(t, "apply_content") => local[t].id \in contents
  PROVE  local'[t].trims
  <1> DEFINE l == local[t]
  <1>t. local = [u \in Thread |-> local[u]] /\ LocalOK(l)
    BY DEF TypeOK, RequestsOK, Serves
  <1>b. Blank.trims = TRUE
    BY DEF Blank
  <1>a. ASSUME NEW S, Keep(t, [l EXCEPT !.doomed = S])
        PROVE  local'[t].trims
    <2>1. local'[t] = [l EXCEPT !.doomed = S]
      BY <1>a, <1>t DEF Keep
    <2>2. [l EXCEPT !.doomed = S].trims = l.trims
      BY <1>t DEF LocalOK
    <2> QED
      BY <2>1, <2>2
  <1>e. ASSUME Finish(t)
        PROVE  local'[t].trims
    BY <1>e, <1>t, <1>b DEF Finish, Keep
  <1>1. CASE Preview(t)
    <2>1. PICK p \in Path, text \in Texts : Keep(t, PreviewAsks(nextId, p, text, file[p]))
      BY <1>1 DEF Preview, PreviewAsks
    <2>2. local'[t] = PreviewAsks(nextId, p, text, file[p])
      BY <2>1, <1>t DEF Keep
    <2>3. local'[t].trims = TRUE
      BY <2>2, PreviewAsked
    <2> QED
      BY <2>3
  <1>2. CASE ApplyDirect(t)
    <2>0. PICK p \in Path, text \in Texts : \E base : Keep(t, DirectAsks(p, text, base))
      <3>1. PICK p \in Path, text \in Texts, kind \in BaseKinds :
              LET given == IF file[p].exists THEN kind ELSE kind \ {"mtime"}
              IN  Keep(t, DirectAsks(p, text, BaseOf(file[p], given)))
        BY <1>2 DEF ApplyDirect, DirectAsks
      <3> QED
        BY <3>1
    <2>1. PICK base : Keep(t, DirectAsks(p, text, base))
      BY <2>0
    <2>2. local'[t] = DirectAsks(p, text, base)
      BY <2>1, <1>t DEF Keep
    <2>3. local'[t].trims = TRUE
      BY <2>2, DirectAsked
    <2> QED
      BY <2>3
  <1>3. CASE ApplyPreview(t)
    <2>1. PICK id \in DOMAIN metas : Keep(t, ApplyAsks(id, metas[id]))
      BY <1>3 DEF ApplyPreview, ApplyAsks
    <2>2. local'[t] = ApplyAsks(id, metas[id])
      BY <2>1, <1>t DEF Keep
    <2>3. local'[t].trims = TRUE
      BY <2>2, ApplyAsked
    <2> QED
      BY <2>3
  <1>4. CASE Rollback(t)
    <2>1. PICK b \in DOMAIN backups : Keep(t, RollbackAsks(backups[b]))
      BY <1>4 DEF Rollback, RollbackAsks
    <2> DEFINE bak == backups[b]
    <2>2. local'[t] = RollbackAsks(bak)
      BY <2>1, <1>t DEF Keep
    <2> HIDE DEF bak
    <2>3. local'[t].trims = TRUE
      <3>1. local'[t] =
              [kind |-> "rollback", id |-> 0, path |-> bak.path, base |-> {},
               text |-> bak.content,
               found |-> [exists |-> bak.existed, content |-> <<>>, mtime |-> 0],
               created |-> 0, doomed |-> {}, trims |-> TRUE]
        BY <2>2, RollbackAsked
      <3> QED
        BY <3>1
    <2> QED
      BY <2>3
  <1>5. CASE PreviewMeta(t) \/ PreviewContent(t) \/ EvictStatus(t) \/ DiscardMeta(t)
              \/ WriteTemp(t) \/ RemoveTarget(t) \/ ApplyStatus(t)
    BY <1>5 DEF PreviewMeta, PreviewContent, EvictStatus, DiscardMeta, WriteTemp,
                RemoveTarget, ApplyStatus
  <1>6. CASE PreviewList(t) \/ DiscardContent(t) \/ ListStatuses(t)
    BY <1>6, <1>a, <1>e DEF PreviewList, DiscardContent, ListStatuses, Answer
  <1>7. CASE RemoveStatus(t) \/ RenameTemp(t)
    BY <1>7, <1>a, <1>e DEF RemoveStatus, RenameTemp, Answer
  <1>8. CASE ListBackups(t) \/ RemoveBackup(t)
    BY <1>8, <1>a, <1>e DEF ListBackups, RemoveBackup, Applied
  <1>9. CASE ApplyBackup(t)
    <2>1. CASE Finish(t)
      BY <2>1, <1>e
    <2>2. CASE Keep(t, Prepared(l, file[l.path], Rewrite(file[l.path].content, l.text)))
      <3> DEFINE k == Prepared(l, file[l.path], Rewrite(file[l.path].content, l.text))
      <3>1. k.trims = l.trims
        <4>1. k = [kind |-> l.kind, id |-> l.id, path |-> l.path, base |-> l.base,
                   text |-> Rewrite(file[l.path].content, l.text), found |-> file[l.path],
                   created |-> l.created, doomed |-> l.doomed, trims |-> l.trims]
          BY <1>t, LocalUpdate
        <4> QED
          BY <4>1
      <3> QED
        BY <2>2, <3>1, <1>t DEF Keep
    <2> QED
      BY <1>9, <2>1, <2>2 DEF ApplyBackup, Prepared
  <1>10. CASE ApplyContent(t)
    <2>1. CASE UNCHANGED local
      BY <2>1
    <2>2. CASE Keep(t, [l EXCEPT !.doomed = {l.id}, !.trims = ("expired" = "expired")])
      <3> DEFINE b == ("expired" = "expired")
                 k == GivenUp(l, {l.id}, b)
      <3>1. local' = [local EXCEPT ![t] = k]
        BY <2>2 DEF Keep, GivenUp
      <3>2. k.trims = b
        <4> HIDE DEF b
        <4>1. k = [kind |-> l.kind, id |-> l.id, path |-> l.path, base |-> l.base,
                   text |-> l.text, found |-> l.found, created |-> l.created,
                   doomed |-> {l.id}, trims |-> b]
          BY <1>t, GivenUpUpdate, SMTT(30)
        <4> HIDE DEF k
        <4> QED
          BY <4>1
      <3>3. b
        OBVIOUS
      <3> HIDE DEF b, k
      <3> QED
        BY <3>1, <3>2, <3>3, <1>t
    <2> QED
      BY <1>10, <2>1, <2>2 DEF ApplyContent
  <1> QED
    BY <1>1, <1>2, <1>3, <1>4, <1>5, <1>6, <1>7, <1>8, <1>9, <1>10 DEF Request, Step

LEMMA WholeStep ==
  ASSUME TypeOK, NEW t \in Thread, Whole(t), Request(t) \/ Step(t)
  PROVE  Whole(t)'
  <1> DEFINE l == local[t]
  <1>t. pc \in [Thread -> Labels] /\ local = [u \in Thread |-> local[u]] /\ LocalOK(l)
    BY DEF TypeOK, RequestsOK, Serves
  <1>s. Serves(pc[t], l)
    BY DEF TypeOK, RequestsOK
  <1>r. (l.trims)' /\ local'[t].trims
    BY TrimsStay DEF Whole, Making, Leaving, At
  <1>m. ASSUME NEW x \in Nat
        PROVE  Max({x}) = x
    <2>1. {x} # {} /\ {x} \subseteq Nat /\ IsFiniteSet({x})
      BY FS_Singleton
    <2>2. Max({x}) \in {x}
      BY <2>1, MaxOfFinite
    <2> QED
      BY <2>2
  <1> USE DEF Whole, Doubled, Making, Leaving, At, Goto
  <1>n. ASSUME UNCHANGED <<metas, contents, statuses>>,
               pc[t] \notin {"preview_content", "discard_meta", "discard_content"},
               pc'[t] \notin {"preview_content", "discard_meta", "discard_content",
                              "apply_content"}
        PROVE  Whole(t)'
    BY <1>n, <1>r
  <1>0. CASE Request(t)
    BY <1>0, <1>r, RequestStands
  <1>1. CASE PreviewMeta(t)
    <2>1. /\ DOMAIN metas' = DOMAIN metas \cup {l.id}
          /\ DOMAIN statuses' = DOMAIN statuses \ {l.id}
      BY <1>1 DEF PreviewMeta, With, Without, Restrict
    <2>2. At(t, "preview_meta") /\ pc'[t] = "preview_content"
          /\ UNCHANGED <<contents, local>>
      BY <1>1, <1>t DEF PreviewMeta
    <2> QED
      BY <2>1, <2>2, <1>r
  <1>2. CASE PreviewContent(t)
    BY <1>2, <1>t, <1>r DEF PreviewContent
  <1>3. CASE PreviewList(t)
    BY <1>3, <1>t, <1>n DEF PreviewList, Answer, Finish
  <1>4. CASE EvictStatus(t)
    <2>1. DOMAIN statuses' = DOMAIN statuses \cup {Victim(t)}
      BY <1>4, SetStatusEffect DEF EvictStatus
    <2>2. Victim(t)' = Victim(t)
      BY <1>4 DEF EvictStatus, Victim
    <2> QED
      BY <1>4, <2>1, <2>2, <1>t, <1>r DEF EvictStatus
  <1>5. CASE DiscardMeta(t)
    <2>1. DOMAIN metas' = DOMAIN metas \ {Victim(t)}
      BY <1>5 DEF DiscardMeta, Without, Restrict
    <2>2. Victim(t)' = Victim(t) /\ pc'[t] = "discard_content"
      BY <1>5, <1>t DEF DiscardMeta, Victim
    <2> QED
      BY <1>5, <2>1, <2>2, <1>r DEF DiscardMeta
  <1>6. CASE ApplyContent(t)
    <2>0. l.id \in contents /\ l.id \in Nat
      BY <1>6, <1>t DEF ApplyContent, LocalOK
    <2>1. CASE Goto(t, "apply_backup") /\ UNCHANGED <<statuses, local>>
      BY <1>6, <2>1, <1>t, <1>n DEF ApplyContent
    <2>2. CASE /\ SetStatus(l.id, "expired") /\ Goto(t, "discard_meta")
               /\ Keep(t, [l EXCEPT !.doomed = {l.id}, !.trims = ("expired" = "expired")])
      <3>1. Keep(t, GivenUp(l, {l.id}, "expired" = "expired"))
        BY <2>2 DEF GivenUp
      <3> DEFINE b == ("expired" = "expired")
                 k == GivenUp(l, {l.id}, b)
      <3>2. k.doomed = {l.id}
        <4> HIDE DEF b
        <4>1. k = [kind |-> l.kind, id |-> l.id, path |-> l.path, base |-> l.base,
                   text |-> l.text, found |-> l.found, created |-> l.created,
                   doomed |-> {l.id}, trims |-> b]
          BY <1>t, GivenUpUpdate, SMTT(30)
        <4> HIDE DEF k
        <4> QED
          BY <4>1
      <3>5. local' = [local EXCEPT ![t] = k]
        BY <2>0, <2>2, <3>1 DEF Keep, GivenUp
      <3> HIDE DEF k
      <3>6. local'[t].doomed = {l.id}
        BY <3>2, <3>5, <1>t
      <3>3. Victim(t)' = l.id /\ pc'[t] = "discard_meta"
        BY <2>0, <2>2, <3>6, <1>t, <1>m DEF Victim
      <3>4. DOMAIN statuses' = DOMAIN statuses \cup {l.id}
        BY <2>2, SetStatusEffect
      <3> QED
        BY <1>6, <3>3, <3>4, <1>r DEF ApplyContent
    <2> QED
      BY <1>6, <2>0, <2>1, <2>2 DEF ApplyContent
  <1>7. CASE DiscardContent(t)
    <2>1. contents' = contents \ {Victim(t)} /\ UNCHANGED <<metas, statuses>>
      BY <1>7 DEF DiscardContent
    <2>2. At(t, "discard_content") /\ pc'[t] \in {"idle", "evict_status", "list_statuses"}
      BY <1>7, <1>t DEF DiscardContent, Answer, Finish
    <2> QED
      BY <2>1, <2>2, <1>r
  <1>8. CASE ApplyBackup(t) \/ WriteTemp(t) \/ RemoveTarget(t) \/ RenameTemp(t)
    BY <1>8, <1>t, <1>n DEF ApplyBackup, WriteTemp, RemoveTarget, RenameTemp, Finish
  <1>9. CASE ListBackups(t) \/ RemoveBackup(t)
    BY <1>9, <1>t, <1>n DEF ListBackups, RemoveBackup, Applied, Finish
  <1>10. CASE ApplyStatus(t)
    <2>1. DOMAIN statuses' = DOMAIN statuses \cup {l.id}
      BY <1>10, SetStatusEffect DEF ApplyStatus
    <2>2. l.doomed = {l.id} /\ l.id \in Nat
      BY <1>10, <1>s DEF ApplyStatus, Serves, LocalOK, Previewing
    <2>3. Victim(t)' = l.id
      BY <1>10, <2>2, <1>m DEF ApplyStatus, Victim
    <2> QED
      BY <1>10, <2>1, <2>3, <1>t, <1>r DEF ApplyStatus
  <1>11. CASE ListStatuses(t)
    BY <1>11, <1>t, <1>n DEF ListStatuses, Answer, Finish
  <1>12. CASE RemoveStatus(t)
    <2>1. /\ At(t, "remove_status") /\ UNCHANGED <<metas, contents>>
          /\ DOMAIN statuses' \subseteq DOMAIN statuses
          /\ pc'[t] \in {"idle", "remove_status"}
      BY <1>12, <1>t DEF RemoveStatus, Answer, Finish, Without, Restrict
    <2> QED
      BY <2>1, <1>r
  <1> QED
    BY <1>0, <1>1, <1>2, <1>3, <1>4, <1>5, <1>6, <1>7, <1>8, <1>9, <1>10, <1>11, <1>12
    DEF Step

LEMMA NoCrash ==
  ASSUME MaxCrashes = 0, crashes = 0, Next
  PROVE  crashes' = 0 /\ ((\E t \in Thread : Request(t) \/ Step(t)) \/ OutsideEdit \/ Tick)
  <1>1. ~Crash
    BY DEF Crash
  <1>2. ASSUME NEW t \in Thread, Request(t)
        PROVE  crashes' = crashes
    BY <1>2 DEF Request, Preview, ApplyDirect, ApplyPreview, Rollback
  <1>3. ASSUME NEW t \in Thread, Step(t)
        PROVE  crashes' = crashes
    BY <1>3
    DEF Step, PreviewMeta, PreviewContent, PreviewList, EvictStatus, ApplyContent,
        ApplyBackup, WriteTemp, RemoveTarget, RenameTemp, ApplyStatus, DiscardMeta,
        DiscardContent, ListStatuses, RemoveStatus, ListBackups, RemoveBackup
  <1> QED
    BY <1>1, <1>2, <1>3 DEF Next, OutsideEdit, Tick

LEMMA WholeNext ==
  ASSUME OneHandler, MaxCrashes = 0
  PROVE  WholeInv /\ [Next]_vars => WholeInv'
  <1> SUFFICES ASSUME WholeInv, [Next]_vars PROVE WholeInv'
    OBVIOUS
  <1>t. TypeOK /\ TypeOK' /\ (Next => crashes' = 0)
    BY NextType, NoCrash DEF WholeInv
  <1>1. ASSUME NEW t \in Thread, Request(t) \/ Step(t), Next
        PROVE  WholeInv'
    BY <1>1, <1>t, WholeStep DEF WholeInv, OneHandler
  <1>2. CASE OutsideEdit /\ Next
    BY <1>2, <1>t DEF OutsideEdit, WholeInv, Whole, Doubled, Making, Leaving, Victim, At
  <1>3. CASE Tick /\ Next
    BY <1>3, <1>t DEF Tick, WholeInv, Whole, Doubled, Making, Leaving, Victim, At
  <1>4. CASE UNCHANGED vars
    BY <1>4, <1>t DEF vars, WholeInv, Whole, Doubled, Making, Leaving, Victim, At
  <1> QED
    BY <1>1, <1>2, <1>3, <1>4, NoCrash DEF WholeInv

LEMMA WholeInit == Init => WholeInv
  <1> SUFFICES ASSUME Init PROVE WholeInv
    OBVIOUS
  <1>1. /\ DOMAIN metas = {} /\ DOMAIN statuses = {} /\ contents = {} /\ crashes = 0
        /\ \A t \in Thread : pc[t] = "idle" /\ local[t] = Blank
    BY DEF Init
  <1>2. Blank.trims = TRUE
    BY DEF Blank
  <1>3. \A t \in Thread : Whole(t)
    BY <1>1, <1>2 DEF Whole, Doubled, Making, Leaving, At
  <1> QED
    BY <1>1, <1>3, TypeInit DEF WholeInv

\* Whenever no request is being served, a preview's content is there exactly when its
\* metadata is, and no preview is both there and said to be gone: whatever is evicted,
\* expires or is applied (save_preview_record, remove_preview_content_and_meta).
THEOREM PreviewsAreAlwaysWhole ==
  ASSUME OneHandler, MaxCrashes = 0
  PROVE  Spec => []PreviewsAreWhole
  <1>1. WholeInv => PreviewsAreWhole
    BY DEF WholeInv, Whole, Doubled, Making, Leaving, OneHandler, PreviewsAreWhole, AllIdle, At
  <1> QED
    BY <1>1, WholeInit, WholeNext, PTL DEF Spec

(***************************************************************************)
(* Retention                                                               *)
(***************************************************************************)

\* A limit is passed only between the step that adds a record and the last removal of the
\* same request; what is listed to be removed no longer counts.
KeptMetas(t) ==
  \/ pc[t] \in {"preview_content", "preview_list"}
  \/ /\ pc[t] \in {"evict_status", "discard_meta", "discard_content"}
     /\ Cardinality(DOMAIN metas \ local[t].doomed) <= PreviewKeep
  \/ Cardinality(DOMAIN metas) <= PreviewKeep

KeptStatuses(t) ==
  \/ pc[t] \in {"evict_status", "discard_meta", "discard_content", "list_statuses"}
  \/ /\ At(t, "remove_status")
     /\ Cardinality(DOMAIN statuses \ local[t].doomed) <= StatusKeep
  \/ Cardinality(DOMAIN statuses) <= StatusKeep

KeptBackups(t) ==
  \/ pc[t] \in Placing \cup {"list_backups"}
  \/ /\ At(t, "remove_backup")
     /\ Cardinality(DOMAIN backups \ local[t].doomed) <= BackupKeep
  \/ Cardinality(DOMAIN backups) <= BackupKeep

Kept(t) == /\ PreviewKeep > 0 => KeptMetas(t)
           /\ StatusKeep > 0 => KeptStatuses(t)
           /\ BackupKeep > 0 => KeptBackups(t)

KeptInv == WholeInv /\ StagedInv /\ \A t \in Thread : Kept(t)

LEMMA FewerIsLess ==
  ASSUME NEW S, IsFiniteSet(S), NEW T, T \subseteq S, NEW n \in Nat, Cardinality(S) <= n
  PROVE  Cardinality(T) <= n
  BY FS_Subset, FS_CardinalityType

LEMMA KeptMetasStep ==
  ASSUME TypeOK, NEW t \in Thread, Whole(t), KeptMetas(t), PreviewKeep > 0,
         Request(t) \/ Step(t)
  PROVE  KeptMetas(t)'
  <1> DEFINE l == local[t]
  <1>t. /\ pc \in [Thread -> Labels] /\ local = [u \in Thread |-> local[u]]
        /\ IsFiniteSet(DOMAIN metas) /\ PreviewKeep \in Nat /\ Serves(pc[t], l)
    BY PatchAssumption DEF TypeOK, RequestsOK, RecordsOK
  <1> USE DEF At, Goto
  <1>0. CASE Request(t)
    BY <1>0, RequestStands DEF KeptMetas
  <1>1. CASE PreviewMeta(t) \/ PreviewContent(t)
    BY <1>1, <1>t DEF PreviewMeta, PreviewContent, KeptMetas
  <1>2. CASE PreviewList(t)
    <2>1. PICK K \in Retained(metas, PreviewKeep) :
            IF DOMAIN metas = K THEN TRUE
            ELSE Goto(t, "evict_status") /\ Keep(t, [l EXCEPT !.doomed = DOMAIN metas \ K])
      BY <1>2 DEF PreviewList
    <2>2. Cardinality(K) <= PreviewKeep /\ K \subseteq DOMAIN metas
      BY <1>t, RetainedCount, RetainedEffect
    <2>3. UNCHANGED metas
      BY <1>2 DEF PreviewList
    <2>4. CASE DOMAIN metas = K
      BY <2>2, <2>3, <2>4 DEF KeptMetas
    <2>5. CASE DOMAIN metas # K
      <3>1. local'[t].doomed = DOMAIN metas \ K /\ pc'[t] = "evict_status"
        BY <2>1, <2>5, <1>t, DoomedMove
      <3>2. DOMAIN metas \ (DOMAIN metas \ K) = K
        BY <2>2
      <3> QED
        BY <2>2, <2>3, <3>1, <3>2 DEF KeptMetas
    <2> QED
      BY <2>4, <2>5
  <1>3. CASE EvictStatus(t)
    BY <1>3, <1>t DEF EvictStatus, KeptMetas
  <1>4. CASE DiscardMeta(t)
    <2>1. /\ DOMAIN metas' \subseteq DOMAIN metas /\ UNCHANGED local
          /\ pc[t] = "discard_meta" /\ pc'[t] = "discard_content"
      BY <1>4, <1>t DEF DiscardMeta, Without, Restrict
    <2>2. CASE Cardinality(DOMAIN metas) <= PreviewKeep
      <3>1. Cardinality(DOMAIN metas') <= PreviewKeep
        BY <2>1, <2>2, <1>t, FewerIsLess
      <3> QED
        BY <3>1 DEF KeptMetas
    <2>3. CASE Cardinality(DOMAIN metas \ l.doomed) <= PreviewKeep
      <3>1. IsFiniteSet(DOMAIN metas \ l.doomed)
        BY <1>t, FS_Subset
      <3>2. DOMAIN metas' \ l.doomed \subseteq DOMAIN metas \ l.doomed
        BY <2>1
      <3>3. Cardinality(DOMAIN metas' \ l.doomed) <= PreviewKeep
        BY <2>3, <3>1, <3>2, <1>t, FewerIsLess
      <3> QED
        BY <2>1, <3>3 DEF KeptMetas
    <2> QED
      BY <2>1, <2>2, <2>3 DEF KeptMetas
  <1>5. CASE DiscardContent(t)
    <2> DEFINE v == Victim(t)
    <2>1. v \notin DOMAIN metas /\ UNCHANGED metas /\ pc[t] = "discard_content" /\ l.trims
      BY <1>5 DEF DiscardContent, Whole, Leaving
    <2>2. /\ Keep(t, [l EXCEPT !.doomed = l.doomed \ {v}])
          /\ Goto(t, IF l.doomed \ {v} # {} THEN "evict_status" ELSE "list_statuses")
      BY <1>5, <2>1 DEF DiscardContent
    <2>3. local'[t].doomed = l.doomed \ {v}
      BY <2>2, DoomedMove
    <2>4. DOMAIN metas' \ local'[t].doomed = DOMAIN metas \ l.doomed
      BY <2>1, <2>3
    <2>5. l.doomed \ {v} = {} => DOMAIN metas \ l.doomed = DOMAIN metas
      BY <2>1
    <2> QED
      BY <2>1, <2>2, <2>4, <2>5, <1>t DEF KeptMetas
  <1>6. CASE ApplyContent(t) \/ ApplyBackup(t) \/ WriteTemp(t) \/ RemoveTarget(t)
    BY <1>6 DEF ApplyContent, ApplyBackup, WriteTemp, RemoveTarget, KeptMetas
  <1>7. CASE RenameTemp(t) \/ ListBackups(t) \/ RemoveBackup(t) \/ ApplyStatus(t)
    BY <1>7 DEF RenameTemp, ListBackups, RemoveBackup, ApplyStatus, KeptMetas
  <1>8. CASE ListStatuses(t) \/ RemoveStatus(t)
    BY <1>8 DEF ListStatuses, RemoveStatus, KeptMetas
  <1> QED
    BY <1>0, <1>1, <1>2, <1>3, <1>4, <1>5, <1>6, <1>7, <1>8 DEF Step

LEMMA KeptStatusesStep ==
  ASSUME TypeOK, NEW t \in Thread, Whole(t), KeptStatuses(t), StatusKeep > 0,
         Request(t) \/ Step(t)
  PROVE  KeptStatuses(t)'
  <1> DEFINE l == local[t]
  <1>t. /\ pc \in [Thread -> Labels]
        /\ IsFiniteSet(DOMAIN statuses) /\ StatusKeep \in Nat
    BY PatchAssumption DEF TypeOK, RequestsOK, RecordsOK
  <1> USE DEF At, Goto
  <1>0. CASE Request(t)
    BY <1>0, RequestStands DEF KeptStatuses
  <1>1. CASE PreviewMeta(t)
    <2>1. DOMAIN statuses' \subseteq DOMAIN statuses
      BY <1>1 DEF PreviewMeta, Without, Restrict
    <2>2. Cardinality(DOMAIN statuses') <= StatusKeep
      BY <1>1, <2>1, <1>t, FewerIsLess DEF PreviewMeta, KeptStatuses
    <2> QED
      BY <2>2 DEF KeptStatuses
  <1>2. CASE PreviewContent(t) \/ PreviewList(t)
    BY <1>2 DEF PreviewContent, PreviewList, KeptStatuses
  <1>3. CASE EvictStatus(t) \/ ApplyStatus(t) \/ DiscardMeta(t)
    BY <1>3, <1>t DEF EvictStatus, ApplyStatus, DiscardMeta, KeptStatuses
  <1>4. CASE DiscardContent(t)
    <2>1. l.trims
      BY DEF Whole
    <2> QED
      BY <1>4, <2>1, <1>t DEF DiscardContent, KeptStatuses
  <1>5. CASE ApplyContent(t)
    <2>1. l.id \in contents
      BY <1>5 DEF ApplyContent, Whole, Making, Leaving
    <2> QED
      BY <1>5, <2>1, <1>t DEF ApplyContent, KeptStatuses
  <1>6. CASE ListStatuses(t)
    <2>1. PICK K \in Retained(statuses, StatusKeep) :
            IF DOMAIN statuses = K THEN TRUE
            ELSE Goto(t, "remove_status") /\ Keep(t, [l EXCEPT !.doomed = DOMAIN statuses \ K])
      BY <1>6 DEF ListStatuses
    <2>2. Cardinality(K) <= StatusKeep /\ K \subseteq DOMAIN statuses
      BY <1>t, RetainedCount, RetainedEffect
    <2>3. UNCHANGED statuses
      BY <1>6 DEF ListStatuses
    <2>4. CASE DOMAIN statuses = K
      BY <2>2, <2>3, <2>4 DEF KeptStatuses
    <2>5. CASE DOMAIN statuses # K
      <3>1. local'[t].doomed = DOMAIN statuses \ K /\ pc'[t] = "remove_status"
        BY <2>1, <2>5, <1>t, DoomedMove
      <3>2. DOMAIN statuses \ (DOMAIN statuses \ K) = K
        BY <2>2
      <3> QED
        BY <2>2, <2>3, <3>1, <3>2 DEF KeptStatuses
    <2> QED
      BY <2>4, <2>5
  <1>7. CASE RemoveStatus(t)
    <2>1. PICK s \in l.doomed :
            /\ DOMAIN statuses' = DOMAIN statuses \ {s} /\ pc[t] = "remove_status"
            /\ \/ l.doomed = {s}
               \/ Keep(t, [l EXCEPT !.doomed = l.doomed \ {s}]) /\ UNCHANGED pc
      BY <1>7 DEF RemoveStatus, Without, Restrict
    <2>2. CASE Cardinality(DOMAIN statuses) <= StatusKeep
      <3>1. Cardinality(DOMAIN statuses') <= StatusKeep
        BY <2>1, <2>2, <1>t, FewerIsLess
      <3> QED
        BY <3>1 DEF KeptStatuses
    <2>3. CASE Cardinality(DOMAIN statuses \ l.doomed) <= StatusKeep
      <3>1. CASE l.doomed = {s}
        <4>1. DOMAIN statuses' = DOMAIN statuses \ l.doomed
          BY <2>1, <3>1
        <4> QED
          BY <2>3, <4>1 DEF KeptStatuses
      <3>2. CASE Keep(t, [l EXCEPT !.doomed = l.doomed \ {s}]) /\ UNCHANGED pc
        <4>1. local'[t].doomed = l.doomed \ {s}
          BY <3>2, DoomedMove
        <4>2. DOMAIN statuses' \ local'[t].doomed = DOMAIN statuses \ l.doomed
          BY <2>1, <4>1
        <4> QED
          BY <2>1, <2>3, <3>2, <4>2 DEF KeptStatuses
      <3> QED
        BY <2>1, <3>1, <3>2
    <2> QED
      BY <2>1, <2>2, <2>3 DEF KeptStatuses
  <1>8. CASE ApplyBackup(t) \/ WriteTemp(t) \/ RemoveTarget(t) \/ RenameTemp(t)
              \/ ListBackups(t) \/ RemoveBackup(t)
    BY <1>8
    DEF ApplyBackup, WriteTemp, RemoveTarget, RenameTemp, ListBackups, RemoveBackup,
        KeptStatuses
  <1> QED
    BY <1>0, <1>1, <1>2, <1>3, <1>4, <1>5, <1>6, <1>7, <1>8 DEF Step

LEMMA KeptBackupsStep ==
  ASSUME TypeOK, NEW t \in Thread, Staged(t), KeptBackups(t), BackupKeep > 0,
         Request(t) \/ Step(t)
  PROVE  KeptBackups(t)'
  <1> DEFINE l == local[t]
  <1>t. /\ pc \in [Thread -> Labels]
        /\ IsFiniteSet(DOMAIN backups) /\ BackupKeep \in Nat
    BY PatchAssumption DEF TypeOK, RequestsOK, RecordsOK
  <1> USE DEF At, Goto, Placing
  <1>0. CASE Request(t)
    BY <1>0, RequestStands DEF KeptBackups
  <1>1. CASE PreviewMeta(t) \/ PreviewContent(t) \/ PreviewList(t) \/ EvictStatus(t)
    BY <1>1 DEF PreviewMeta, PreviewContent, PreviewList, EvictStatus, KeptBackups
  <1>2. CASE ApplyContent(t) \/ ApplyStatus(t) \/ DiscardMeta(t) \/ DiscardContent(t)
              \/ ListStatuses(t) \/ RemoveStatus(t)
    BY <1>2 DEF ApplyContent, ApplyStatus, DiscardMeta, DiscardContent, ListStatuses,
                RemoveStatus, KeptBackups
  <1>3. CASE ApplyBackup(t)
    BY <1>3, <1>t DEF ApplyBackup, KeptBackups
  <1>4. CASE WriteTemp(t) \/ RemoveTarget(t)
    BY <1>4, <1>t DEF WriteTemp, RemoveTarget, KeptBackups
  <1>5. CASE RenameTemp(t)
    BY <1>5, <1>t DEF RenameTemp, Staged, KeptBackups
  <1>6. CASE ListBackups(t)
    <2>1. PICK K \in Retained(backups, BackupKeep) :
            IF DOMAIN backups = K THEN TRUE
            ELSE Goto(t, "remove_backup") /\ Keep(t, [l EXCEPT !.doomed = DOMAIN backups \ K])
      BY <1>6 DEF ListBackups
    <2>2. Cardinality(K) <= BackupKeep /\ K \subseteq DOMAIN backups
      BY <1>t, RetainedCount, RetainedEffect
    <2>3. UNCHANGED backups
      BY <1>6 DEF ListBackups
    <2>4. CASE DOMAIN backups = K
      BY <2>2, <2>3, <2>4 DEF KeptBackups
    <2>5. CASE DOMAIN backups # K
      <3>1. local'[t].doomed = DOMAIN backups \ K /\ pc'[t] = "remove_backup"
        BY <2>1, <2>5, <1>t, DoomedMove
      <3>2. DOMAIN backups \ (DOMAIN backups \ K) = K
        BY <2>2
      <3> QED
        BY <2>2, <2>3, <3>1, <3>2 DEF KeptBackups
    <2> QED
      BY <2>4, <2>5
  <1>7. CASE RemoveBackup(t)
    <2>1. PICK s \in l.doomed :
            /\ DOMAIN backups' = DOMAIN backups \ {s} /\ pc[t] = "remove_backup"
            /\ \/ l.doomed = {s}
               \/ Keep(t, [l EXCEPT !.doomed = l.doomed \ {s}]) /\ UNCHANGED pc
      BY <1>7 DEF RemoveBackup, Without, Restrict
    <2>2. CASE Cardinality(DOMAIN backups) <= BackupKeep
      <3>1. Cardinality(DOMAIN backups') <= BackupKeep
        BY <2>1, <2>2, <1>t, FewerIsLess
      <3> QED
        BY <3>1 DEF KeptBackups
    <2>3. CASE Cardinality(DOMAIN backups \ l.doomed) <= BackupKeep
      <3>1. CASE l.doomed = {s}
        <4>1. DOMAIN backups' = DOMAIN backups \ l.doomed
          BY <2>1, <3>1
        <4> QED
          BY <2>3, <4>1 DEF KeptBackups
      <3>2. CASE Keep(t, [l EXCEPT !.doomed = l.doomed \ {s}]) /\ UNCHANGED pc
        <4>1. local'[t].doomed = l.doomed \ {s}
          BY <3>2, DoomedMove
        <4>2. DOMAIN backups' \ local'[t].doomed = DOMAIN backups \ l.doomed
          BY <2>1, <4>1
        <4> QED
          BY <2>1, <2>3, <3>2, <4>2 DEF KeptBackups
      <3> QED
        BY <2>1, <3>1, <3>2
    <2> QED
      BY <2>1, <2>2, <2>3 DEF KeptBackups
  <1> QED
    BY <1>0, <1>1, <1>2, <1>3, <1>4, <1>5, <1>6, <1>7 DEF Step

LEMMA KeptNext ==
  ASSUME OneHandler, MaxCrashes = 0
  PROVE  KeptInv /\ [Next]_vars => KeptInv'
  <1> SUFFICES ASSUME KeptInv, [Next]_vars PROVE KeptInv'
    OBVIOUS
  <1>t. TypeOK /\ WholeInv' /\ StagedInv' /\ crashes = 0
    BY WholeNext, StagedNext DEF KeptInv, WholeInv
  <1>1. ASSUME NEW t \in Thread, Request(t) \/ Step(t)
        PROVE  KeptInv'
    <2>2. Kept(t)'
      BY <1>1, <1>t, KeptMetasStep, KeptStatusesStep, KeptBackupsStep
      DEF KeptInv, WholeInv, StagedInv, Kept
    <2> QED
      BY <1>t, <2>2 DEF KeptInv, OneHandler
  <1>2. CASE OutsideEdit \/ Tick \/ UNCHANGED vars
    <2>1. UNCHANGED <<temp, metas, statuses, backups, pc, local>>
      BY <1>2 DEF OutsideEdit, Tick, vars
    <2> QED
      BY <1>t, <2>1
      DEF KeptInv, Kept, KeptMetas, KeptStatuses, KeptBackups, At
  <1> QED
    BY <1>1, <1>2, <1>t, NoCrash

LEMMA KeptInit == Init => KeptInv
  <1> SUFFICES ASSUME Init PROVE KeptInv
    OBVIOUS
  <1>1. DOMAIN metas = {} /\ DOMAIN statuses = {} /\ DOMAIN backups = {}
    BY DEF Init
  <1>2. Cardinality({}) = 0
    BY FS_EmptySet
  <1>3. PreviewKeep \in Nat /\ StatusKeep \in Nat /\ BackupKeep \in Nat
    BY PatchAssumption
  <1> QED
    BY <1>1, <1>2, <1>3, WholeInit, StagedInit
    DEF Init, KeptInv, Kept, KeptMetas, KeptStatuses, KeptBackups, At

\* Whenever no request is being served, previews, their statuses and the backups are
\* within their limits, for every limit (cleanup_old_previews, cleanup_old_backups,
\* cleanup_old_preview_statuses).
THEOREM RetentionAlwaysHolds ==
  ASSUME OneHandler, MaxCrashes = 0
  PROVE  Spec => []RetentionHolds
  <1>1. KeptInv => RetentionHolds
    BY DEF KeptInv, Kept, KeptMetas, KeptStatuses, KeptBackups, OneHandler, RetentionHolds,
           AllIdle, Placing, At
  <1> QED
    BY <1>1, KeptInit, KeptNext, PTL DEF Spec

(***************************************************************************)
(* A store of whole files                                                  *)
(***************************************************************************)

\* The bases that clients give are those the service tells them, or none.
WholeBases == BaseKinds \subseteq {{}, {"mtime", "hash"}}

Both == {"mtime", "hash"}

BaseIs(base, m, h) == base = {<<"mtime", m>>, <<"hash", h>>}

\* What files, previews and backups hold: bytes that the codec keeps, of texts that were
\* asked for, saved by editors or there at first.
FileHolds(R, f) ==
  f.content \in R /\ (f.exists => f.mtime > 0 /\ Plain(f.content) \in Versions)

FilesHold(R) ==
  /\ now > 0 /\ \A p \in Path : FileHolds(R, file[p])
  /\ \A k \in Kinds, p \in Path : temp[k][p] # NoTemp => temp[k][p][1].mtime > 0

MetasHold ==
  \A i \in DOMAIN metas : /\ metas[i].text \in Texts /\ i <= MaxIds
                          /\ \E m \in Nat : \E h : BaseIs(metas[i].base, m, h)

BackupsHold(R) ==
  \A b \in DOMAIN backups : /\ backups[b].content \in R
                            /\ backups[b].existed => Plain(backups[b].content) \in Versions

\* The version that a request was told to replace is the one in its file, or none was named.
Names(t) == Named(local[t].base) \in {AnyText, TextOf(file[local[t].path])}

Unspent == {"apply_content", "apply_backup"} \cup Placing

\* What a request carries on its way
CarriesTexts(R, t) ==
  LET l == local[t]
  IN  /\ At(t, "preview_meta") => l.text \in Texts /\ l.found = file[l.path]
      /\ pc[t] \in {"apply_content", "apply_backup"} => l.text \in Texts /\ l.kind = "apply"
      /\ At(t, "rename_temp") \/ (pc[t] \in Placing /\ (l.kind = "apply" \/ l.found.exists)) =>
           l.text \in R /\ Plain(l.text) \in Versions

CarriesBase(t) ==
  LET l == local[t]
  IN  /\ At(t, "apply_content") \/ (At(t, "apply_backup") /\ l.id # 0) =>
           \E m \in Nat : \E h : BaseIs(l.base, m, h)
      /\ At(t, "apply_backup") /\ l.id = 0 => Names(t)
      /\ pc[t] \in {"write_temp", "remove_target"} /\ l.kind = "apply" => Names(t)

CarriesId(t) ==
  LET l == local[t]
  IN  /\ l.id <= MaxIds
      /\ pc[t] \in {"evict_status", "discard_meta", "discard_content"} =>
           \A d \in l.doomed : d <= MaxIds
      /\ At(t, "preview_meta") => l.id \notin aux_applied
      /\ pc[t] \in Unspent /\ l.id # 0 => l.id \in DOMAIN metas \ aux_applied

\* A request that has put a preview in place, and not removed it yet
Spends(t) == \/ pc[t] \in {"list_backups", "remove_backup", "apply_status"}
             \/ At(t, "discard_meta") /\ local[t].kind # "preview"

\* A preview that was applied is told from one that was not until it is removed.
Spent(t) ==
  /\ \A i \in aux_applied : i \in Nat \ {0} /\ i < nextId
  /\ DOMAIN metas \cap aux_applied \subseteq IF Spends(t) THEN {local[t].id} ELSE {}

StoreInv(R) ==
  /\ AccountInv /\ ReplaceInv /\ KeptInv
  /\ FilesHold(R) /\ MetasHold /\ BackupsHold(R)
  /\ \A t \in Thread : CarriesTexts(R, t) /\ CarriesBase(t) /\ CarriesId(t) /\ Spent(t)

\* What the codec keeps of the bytes R that the service and editors leave in files: a text
\* is what it was when it is read back, line ends aside.
CodecLaws(R) ==
  /\ {<<>>, InitialText} \cup OutsideTexts \subseteq R
  /\ \A raw \in R :
       /\ Plain(FileText(raw)) = Plain(raw)
       /\ \A text \in Texts \cup {FileText(raw)} :
            Rewrite(raw, text) \in R /\ Plain(Rewrite(raw, text)) = Plain(text)

\* The bytes with at most one mark, at the front
MarkedFirst(C) == {raw \in Seq(C \cup {Bom}) : FileText(raw) \in Seq(C)}

LEMMA CodecLawsHold ==
  ASSUME NEW C, MarksAreFirst(C)
  PROVE  CodecLaws(MarkedFirst(C))
  <1>1. HasEnds(C) /\ Bom \notin C /\ Texts \subseteq Seq(C)
    BY DEF MarksAreFirst, HasEnds
  <1>2. {<<>>, InitialText} \cup OutsideTexts \subseteq MarkedFirst(C)
    <2>1. \A raw \in {InitialText} \cup OutsideTexts : raw \in MarkedFirst(C)
      BY DEF MarksAreFirst, MarkedFirst
    <2>2. FileText(<<>>) = <<>> /\ <<>> \in Seq(C) /\ <<>> \in Seq(C \cup {Bom})
      BY DEF FileText, FileBom
    <2>3. <<>> \in MarkedFirst(C)
      BY <2>2 DEF MarkedFirst
    <2> QED
      BY <2>1, <2>3
  <1>3. \A text \in Seq(C) : FileText(text) = text
    <2> SUFFICES ASSUME NEW text \in Seq(C)
                 PROVE  FileText(text) = text
      OBVIOUS
    <2>1. text = <<>> \/ Head(text) \in C
      OBVIOUS
    <2>2. Unmarked(text)
      BY <1>1, <2>1 DEF Unmarked
    <2> QED
      BY <2>2, FileTextUnmarked
  <1>4. ASSUME NEW raw \in MarkedFirst(C), NEW text \in Texts \cup {FileText(raw)}
        PROVE  /\ Rewrite(raw, text) \in MarkedFirst(C)
               /\ Plain(Rewrite(raw, text)) = Plain(text)
    <2>1. text \in Seq(C)
      BY <1>1 DEF MarkedFirst
    <2>2. PICK w : w = Rewrite(raw, text)
      OBVIOUS
    <2>3. /\ w \in Seq(C \cup {Bom}) /\ FileText(w) \in Seq(C)
          /\ WithoutCr(FileText(w)) = WithoutCr(text)
      <3>1. PICK e \in Seq(C) : e = text
        BY <2>1
      <3>2. /\ Rewrite(raw, e) \in Seq(C \cup {Bom})
            /\ FileText(Rewrite(raw, e)) \in Seq(C)
            /\ WithoutCr(FileText(Rewrite(raw, e))) = WithoutCr(e)
        BY <1>1, RewriteReadsBack
      <3> QED
        BY <2>2, <3>1, <3>2
    <2> QED
      BY <1>3, <2>1, <2>2, <2>3 DEF MarkedFirst, Plain
  <1>5. ASSUME NEW raw \in MarkedFirst(C)
        PROVE  Plain(FileText(raw)) = Plain(raw)
    BY <1>3 DEF MarkedFirst, Plain
  <1> QED
    BY <1>2, <1>4, <1>5 DEF CodecLaws

LEMMA NamedBase ==
  ASSUME NEW base, NEW m \in Nat, NEW h, BaseIs(base, m, h)
  PROVE  Named(base) = IF m = 0 THEN NoText ELSE Plain(h)
  <1> DEFINE has(field) == {b[2] : b \in {c \in base : c[1] = field}}
  <1>1. \A c \in base : /\ c[1] = "mtime" => c = <<"mtime", m>>
                        /\ c[1] = "hash" => c = <<"hash", h>>
    BY DEF BaseIs
  <1>2. <<"mtime", m>> \in base /\ <<"hash", h>> \in base
    BY DEF BaseIs
  <1>3. has("mtime") = {m} /\ has("hash") = {h}
    BY <1>1, <1>2
  <1>4. base # {}
    BY <1>2
  <1>5. Named(base) = IF base = {} THEN AnyText
                      ELSE IF 0 \in has("mtime") \/ (has("mtime") = {} /\ has("hash") = {<<>>})
                           THEN NoText
                      ELSE Plain(CHOOSE v \in has("hash") : TRUE)
    BY DEF Named
  <1> HIDE DEF has
  <1>6. (CHOOSE v \in has("hash") : TRUE) = h
    BY <1>3
  <1> QED
    BY <1>3, <1>4, <1>5, <1>6

LEMMA NamedNone == Named({}) = AnyText
  BY DEF Named

LEMMA BaseOfFile ==
  ASSUME NEW f
  PROVE  BaseIs(BaseOf(f, Both), f.mtime, FileText(f.content))
  BY DEF BaseOf, BaseIs, Both, Version

\* A file that is missing has only its empty hash to be named by.
LEMMA NamedMissing == Named(BaseOf(Missing, {"hash"})) = NoText
  <1> DEFINE base == BaseOf(Missing, {"hash"})
             has(field) == {b[2] : b \in {c \in base : c[1] = field}}
  <1>1. base = {<<"hash", <<>>>>}
    <2>1. Version(Missing) = [mtime |-> 0, hash |-> <<>>]
      BY DEF Version, Missing, FileText, FileBom
    <2> QED
      BY <2>1 DEF BaseOf
  <1> HIDE DEF base
  <1>2. \A c \in base : c = <<"hash", <<>>>> /\ c[1] = "hash" /\ c[2] = <<>>
    BY <1>1
  <1>3. has("mtime") = {} /\ has("hash") = {<<>>} /\ base # {}
    BY <1>1, <1>2
  <1>4. Named(base) = IF base = {} THEN AnyText
                      ELSE IF 0 \in has("mtime") \/ (has("mtime") = {} /\ has("hash") = {<<>>})
                           THEN NoText
                      ELSE Plain(CHOOSE v \in has("hash") : TRUE)
    BY DEF Named
  <1> HIDE DEF has
  <1>5. Named(base) = NoText
    BY <1>3, <1>4
  <1> QED
    BY <1>5 DEF base

LEMMA TextByVersion ==
  ASSUME NEW R, CodecLaws(R), NEW f, FileOK(f), FileHolds(R, f)
  PROVE  TextOf(f) = IF f.mtime = 0 THEN NoText ELSE Plain(FileText(f.content))
  <1>1. f.exists \in BOOLEAN /\ (f.exists => f.mtime # 0) /\ (~f.exists => f.mtime = 0)
    BY DEF FileOK, FoundOK, FileHolds, Missing
  <1>2. Plain(FileText(f.content)) = Plain(f.content)
    BY DEF CodecLaws, FileHolds
  <1> QED
    BY <1>1, <1>2 DEF TextOf

\* A base of both fields that matches a file names the file's text.
LEMMA MatchingBaseNames ==
  ASSUME NEW R, CodecLaws(R), NEW f, FileOK(f), FileHolds(R, f),
         NEW base, base \subseteq BaseOf(f, Both), NEW m \in Nat, NEW h, BaseIs(base, m, h)
  PROVE  Named(base) = TextOf(f)
  <1>1. BaseOf(f, Both) = {<<"mtime", f.mtime>>, <<"hash", FileText(f.content)>>}
    BY BaseOfFile DEF BaseIs
  <1>2. <<"mtime", m>> \in base /\ <<"hash", h>> \in base
    BY DEF BaseIs
  <1>3. m = f.mtime /\ h = FileText(f.content)
    BY <1>1, <1>2
  <1> QED
    BY <1>3, NamedBase, TextByVersion

\* A base that a client gives of a file as it is names its text, or nothing.
LEMMA GivenBaseNames ==
  ASSUME NEW R, CodecLaws(R), NEW f, FileOK(f), FileHolds(R, f), WholeBases,
         NEW kind \in BaseKinds
  PROVE  Named(BaseOf(f, IF f.exists THEN kind ELSE kind \ {"mtime"}))
           \in {AnyText, TextOf(f)}
  <1>1. CASE kind = {}
    <2>1. BaseOf(f, {}) = {}
      BY DEF BaseOf
    <2> QED
      BY <1>1, <2>1, NamedNone
  <1>2. CASE kind = Both /\ f.exists
    <2>1. Named(BaseOf(f, Both)) = TextOf(f)
      BY BaseOfFile, MatchingBaseNames DEF FileOK, FoundOK
    <2> QED
      BY <1>2, <2>1
  <1>3. CASE kind = Both /\ ~f.exists
    <2>1. f = Missing /\ kind \ {"mtime"} = {"hash"} /\ TextOf(f) = NoText
      BY <1>3 DEF FileOK, Both, TextOf
    <2> QED
      BY <1>3, <2>1, NamedMissing
  <1> QED
    BY <1>1, <1>2, <1>3 DEF WholeBases, Both, FileOK, FoundOK

\* Where each kind of request starts, and with what
Starts(t, at, kind, id, p, base, text) ==
  LET m == local'[t]
  IN  /\ pc'[t] = at /\ m.kind = kind /\ m.id = id /\ m.path = p /\ m.base = base
      /\ m.text = text /\ m.doomed = {}

StartsPreview(t) ==
  \E p \in Path, text \in Texts :
    /\ Starts(t, "preview_meta", "preview", nextId, p, {}, text)
    /\ local'[t].found = file[p] /\ nextId <= MaxIds

StartsDirect(t) ==
  \E p \in Path, text \in Texts, kind \in BaseKinds :
    LET given == IF file[p].exists THEN kind ELSE kind \ {"mtime"}
    IN  Starts(t, "apply_backup", "apply", 0, p, BaseOf(file[p], given), text)

StartsApply(t) ==
  \E id \in DOMAIN metas :
    Starts(t, "apply_content", "apply", id, metas[id].path, metas[id].base, metas[id].text)

StartsRollback(t) ==
  \E b \in DOMAIN backups :
    LET bak == backups[b]
    IN  /\ Starts(t, IF bak.existed THEN "write_temp" ELSE "remove_target",
                  "rollback", 0, bak.path, {}, bak.content)
        /\ local'[t].found.exists = bak.existed

LEMMA RequestStarts ==
  ASSUME TypeOK, NEW t \in Thread, Request(t)
  PROVE  /\ At(t, "idle") /\ nextId' >= nextId
         /\ UNCHANGED <<file, temp, metas, contents, statuses, backups, now, aux_applied>>
         /\ StartsPreview(t) \/ StartsDirect(t) \/ StartsApply(t) \/ StartsRollback(t)
  <1>t. pc \in [Thread -> Labels] /\ local = [u \in Thread |-> local[u]] /\ nextId \in Nat
    BY DEF TypeOK, RequestsOK, RecordsOK
  <1>1. CASE Preview(t)
    <2>1. PICK p \in Path, text \in Texts :
            /\ pc'[t] = "preview_meta" /\ nextId <= MaxIds
            /\ local'[t] = PreviewAsks(nextId, p, text, file[p])
      BY <1>1, <1>t DEF Preview, PreviewAsks, Goto, Keep
    <2>2. StartsPreview(t)
      <3>1. local'[t] = [kind |-> "preview", id |-> nextId, path |-> p, base |-> {}, text |-> text,
                         found |-> file[p], created |-> 0, doomed |-> {}, trims |-> TRUE]
        BY <2>1, PreviewAsked
      <3> QED
        BY <2>1, <3>1 DEF StartsPreview, Starts
    <2> QED
      BY <1>1, <2>2, <1>t DEF Preview
  <1>2. CASE ApplyDirect(t)
    <2>1. PICK p \in Path, text \in Texts, kind \in BaseKinds :
            LET given == IF file[p].exists THEN kind ELSE kind \ {"mtime"}
            IN  /\ Goto(t, "apply_backup")
                /\ Keep(t, DirectAsks(p, text, BaseOf(file[p], given)))
      BY <1>2 DEF ApplyDirect, DirectAsks
    <2> DEFINE base == BaseOf(file[p], IF file[p].exists THEN kind ELSE kind \ {"mtime"})
    <2>2. local'[t] = DirectAsks(p, text, base) /\ pc'[t] = "apply_backup"
      <3> HIDE DEF base
      <3>1. Goto(t, "apply_backup") /\ Keep(t, DirectAsks(p, text, base))
        BY <2>1 DEF base
      <3> QED
        BY <3>1, <1>t DEF Goto, Keep
    <2>3. StartsDirect(t)
      <3>1. Starts(t, "apply_backup", "apply", 0, p, base, text)
        <4> HIDE DEF base
        <4>1. local'[t] = [kind |-> "apply", id |-> 0, path |-> p, base |-> base, text |-> text,
                           found |-> Missing, created |-> 0, doomed |-> {}, trims |-> TRUE]
          BY <2>2, DirectAsked
        <4> QED
          BY <2>2, <4>1 DEF Starts
      <3> QED
        BY <3>1 DEF StartsDirect
    <2> QED
      BY <1>2, <2>3, <1>t DEF ApplyDirect
  <1>3. CASE ApplyPreview(t)
    <2>1. PICK id \in DOMAIN metas :
            pc'[t] = "apply_content" /\ local'[t] = ApplyAsks(id, metas[id])
      BY <1>3, <1>t DEF ApplyPreview, ApplyAsks, Goto, Keep
    <2>2. StartsApply(t)
      <3>1. local'[t] =
              [kind |-> "apply", id |-> id, path |-> metas[id].path, base |-> metas[id].base,
               text |-> metas[id].text, found |-> Missing, created |-> metas[id].time,
               doomed |-> {}, trims |-> TRUE]
        BY <2>1, ApplyAsked
      <3> QED
        BY <2>1, <3>1 DEF StartsApply, Starts
    <2> QED
      BY <1>3, <2>2, <1>t DEF ApplyPreview
  <1>4. CASE Rollback(t)
    <2>1. PICK b \in DOMAIN backups :
            /\ pc'[t] = IF backups[b].existed THEN "write_temp" ELSE "remove_target"
            /\ local'[t] = RollbackAsks(backups[b])
      BY <1>4, <1>t DEF Rollback, RollbackAsks, Goto, Keep
    <2>2. StartsRollback(t)
      <3>1. local'[t] =
              [kind |-> "rollback", id |-> 0, path |-> backups[b].path, base |-> {},
               text |-> backups[b].content,
               found |-> [exists |-> backups[b].existed, content |-> <<>>, mtime |-> 0],
               created |-> 0, doomed |-> {}, trims |-> TRUE]
        BY <2>1, RollbackAsked
      <3> QED
        BY <2>1, <3>1 DEF StartsRollback, Starts
    <2> QED
      BY <1>4, <2>2, <1>t DEF Rollback
  <1> QED
    BY <1>1, <1>2, <1>3, <1>4 DEF Request

\* Which steps change which part of what is on disk
LEMMA DiskSteps ==
  ASSUME NEW t \in Thread, Step(t)
  PROVE  /\ file' = file \/ RemoveTarget(t) \/ RenameTemp(t)
         /\ temp' = temp \/ WriteTemp(t) \/ RenameTemp(t)
         /\ metas' = metas \/ PreviewMeta(t) \/ DiscardMeta(t)
         /\ backups' = backups \/ ApplyBackup(t) \/ RemoveBackup(t)
         /\ aux_applied' = aux_applied \/ RenameTemp(t)
         /\ now' = now
  <1>1. CASE PreviewMeta(t) \/ PreviewContent(t) \/ PreviewList(t) \/ EvictStatus(t)
    BY <1>1 DEF PreviewMeta, PreviewContent, PreviewList, EvictStatus
  <1>2. CASE ApplyContent(t) \/ ApplyStatus(t) \/ DiscardMeta(t) \/ DiscardContent(t)
              \/ ListStatuses(t) \/ RemoveStatus(t)
    BY <1>2 DEF ApplyContent, ApplyStatus, DiscardMeta, DiscardContent, ListStatuses,
                RemoveStatus
  <1>3. CASE ApplyBackup(t) \/ WriteTemp(t) \/ RemoveTarget(t) \/ RenameTemp(t)
              \/ ListBackups(t) \/ RemoveBackup(t)
    BY <1>3 DEF ApplyBackup, WriteTemp, RemoveTarget, RenameTemp, ListBackups, RemoveBackup
  <1> QED
    BY <1>1, <1>2, <1>3 DEF Step

LEMMA BackupLaw ==
  ASSUME NEW R, CodecLaws(R), NEW raw \in R
  PROVE  Backup(raw) \in R /\ Plain(Backup(raw)) = Plain(raw)
  BY DEF CodecLaws, Backup

LEMMA FilesHoldStep ==
  ASSUME NEW R, CodecLaws(R), TypeOK, FilesHold(R), NEW t \in Thread, Staged(t),
         CarriesTexts(R, t), Request(t) \/ Step(t)
  PROVE  FilesHold(R)'
  <1> DEFINE l == local[t]
  <1>t. /\ file = [p \in Path |-> file[p]] /\ temp = [k \in Kinds |-> temp[k]]
        /\ \A k \in Kinds : temp[k] = [p \in Path |-> temp[k][p]]
        /\ Serves(pc[t], l) /\ LocalOK(l)
    BY DEF TypeOK, FilesOK, RequestsOK, Serves
  <1>h. now > 0 /\ \A p \in Path : FileHolds(R, file[p])
    BY DEF FilesHold
  <1>f. \A p \in Path : FileHolds(R, file'[p])
    <2>1. CASE file' = file
      BY <2>1, <1>h
    <2>2. CASE RemoveTarget(t)
      <3>1. file' = [file EXCEPT ![l.path] = Missing]
        BY <2>2 DEF RemoveTarget
      <3>2. FileHolds(R, Missing)
        BY DEF FileHolds, Missing, CodecLaws
      <3> QED
        BY <1>t, <1>h, <3>1, <3>2
    <2>3. CASE RenameTemp(t) /\ file' # file
      <3> DEFINE staged == temp[l.kind][l.path]
                 f == [exists |-> TRUE, content |-> staged[1].content,
                       mtime |-> staged[1].mtime]
      <3>1. /\ At(t, "rename_temp") /\ staged # NoTemp /\ file' = [file EXCEPT ![l.path] = f]
        BY <2>3 DEF RenameTemp
      <3>2. staged[1].content = l.text
        BY <3>1 DEF Staged
      <3>3. l.text \in R /\ Plain(l.text) \in Versions
        BY <3>1 DEF CarriesTexts
      <3>4. l.kind \in Kinds /\ l.path \in Path
        BY <1>t, <3>1 DEF Serves, LocalOK, At, Kinds, Placing, Previewing
      <3>5. staged[1].mtime > 0
        BY <3>1, <3>4 DEF FilesHold
      <3>6. FileHolds(R, f)
        BY <3>2, <3>3, <3>5 DEF FileHolds
      <3> HIDE DEF f
      <3> QED
        BY <1>t, <1>h, <3>1, <3>6
    <2> QED
      BY <2>1, <2>2, <2>3, DiskSteps, RequestStarts
  <1>g. ASSUME NEW k \in Kinds, NEW p \in Path, temp'[k][p] # NoTemp
        PROVE  temp'[k][p][1].mtime > 0
    <2>1. CASE temp'[k][p] = temp[k][p]
      BY <1>g, <2>1 DEF FilesHold
    <2>2. CASE WriteTemp(t) /\ temp'[k][p] # temp[k][p]
      <3> DEFINE fresh == [content |-> l.text, mtime |-> now, by |-> l.id]
      <3>1. temp' = [temp EXCEPT ![l.kind][l.path] = <<fresh>>]
        BY <2>2 DEF WriteTemp
      <3>2. l.kind \in Kinds /\ l.path \in Path
        BY <1>t, <2>2 DEF WriteTemp, Serves, LocalOK, At, Kinds, Placing, Previewing
      <3>3. <<fresh>>[1].mtime = now
        OBVIOUS
      <3> HIDE DEF fresh
      <3>4. temp'[k][p] = <<fresh>>
        BY <1>t, <2>2, <3>1, <3>2
      <3> QED
        BY <1>h, <3>3, <3>4
    <2>3. CASE RenameTemp(t)
      <3>1. temp' = temp \/ temp' = [temp EXCEPT ![l.kind][l.path] = NoTemp]
        BY <2>3 DEF RenameTemp
      <3>2. l.kind \in Kinds /\ l.path \in Path
        BY <1>t, <2>3 DEF RenameTemp, Serves, LocalOK, At, Kinds, Placing, Previewing
      <3>3. temp'[k][p] \in {temp[k][p], NoTemp}
        <4>1. CASE temp' = temp
          BY <4>1
        <4>2. CASE temp' = [temp EXCEPT ![l.kind][l.path] = NoTemp]
          <5>1. temp'[k] = IF k = l.kind THEN [temp[k] EXCEPT ![l.path] = NoTemp] ELSE temp[k]
            BY <1>t, <4>2
          <5> QED
            BY <1>t, <3>2, <5>1
        <4> QED
          BY <3>1, <4>1, <4>2
      <3> QED
        BY <1>g, <3>3 DEF FilesHold
    <2> QED
      BY <2>1, <2>2, <2>3, DiskSteps, RequestStarts
  <1>n. now' = now
    BY DiskSteps, RequestStarts
  <1> QED
    BY <1>f, <1>g, <1>h, <1>n DEF FilesHold

LEMMA MetasHoldStep ==
  ASSUME NEW R, TypeOK, MetasHold, NEW t \in Thread, CarriesTexts(R, t), CarriesId(t),
         Request(t) \/ Step(t)
  PROVE  MetasHold'
  <1> DEFINE l == local[t]
  <1>1. CASE metas' = metas
    BY <1>1 DEF MetasHold
  <1>2. CASE PreviewMeta(t)
    <2> DEFINE meta == [path |-> l.path, base |-> BaseOf(l.found, Both), text |-> l.text,
                        time |-> now]
    <2>1. /\ DOMAIN metas' = DOMAIN metas \cup {l.id} /\ metas'[l.id] = meta
          /\ \A i \in DOMAIN metas : i # l.id => metas'[i] = metas[i]
      BY <1>2 DEF PreviewMeta, With, Both
    <2>2. l.text \in Texts /\ l.id <= MaxIds
      BY <1>2 DEF PreviewMeta, CarriesTexts, CarriesId
    <2>3. BaseIs(meta.base, l.found.mtime, FileText(l.found.content)) /\ l.found.mtime \in Nat
          /\ meta.text = l.text
      BY BaseOfFile DEF TypeOK, RequestsOK, Serves, LocalOK, FoundOK
    <2> HIDE DEF meta
    <2> QED
      BY <2>1, <2>2, <2>3 DEF MetasHold
  <1>3. CASE DiscardMeta(t)
    <2>1. /\ DOMAIN metas' \subseteq DOMAIN metas
          /\ \A i \in DOMAIN metas' : metas'[i] = metas[i]
      BY <1>3 DEF DiscardMeta, Without, Restrict
    <2> QED
      BY <2>1 DEF MetasHold
  <1> QED
    BY <1>1, <1>2, <1>3, DiskSteps, RequestStarts

LEMMA BackupsHoldStep ==
  ASSUME NEW R, CodecLaws(R), TypeOK, FilesHold(R), BackupsHold(R), NEW t \in Thread,
         Request(t) \/ Step(t)
  PROVE  BackupsHold(R)'
  <1> DEFINE l == local[t]
             f == file[l.path]
  <1>1. CASE backups' = backups
    BY <1>1 DEF BackupsHold
  <1>2. CASE ApplyBackup(t) /\ backups' # backups
    <2> DEFINE b == [path |-> l.path, content |-> Backup(f.content), existed |-> f.exists,
                     time |-> now]
    <2>1. /\ DOMAIN backups' = DOMAIN backups \cup {nextId} /\ backups'[nextId] = b
          /\ \A i \in DOMAIN backups : i # nextId => backups'[i] = backups[i]
      BY <1>2 DEF ApplyBackup, With
    <2>2. FileHolds(R, f)
      BY <1>2 DEF ApplyBackup, TypeOK, RequestsOK, Serves, At, FilesHold
    <2>3. /\ b.content = Backup(f.content) /\ b.existed = f.exists
          /\ Backup(f.content) \in R /\ Plain(Backup(f.content)) = Plain(f.content)
      BY <2>2, BackupLaw DEF FileHolds
    <2>4. b.content \in R /\ (b.existed => Plain(b.content) \in Versions)
      BY <2>2, <2>3 DEF FileHolds
    <2> HIDE DEF b
    <2> QED
      BY <2>1, <2>4 DEF BackupsHold
  <1>3. CASE RemoveBackup(t)
    <2>1. /\ DOMAIN backups' \subseteq DOMAIN backups
          /\ \A b \in DOMAIN backups' : backups'[b] = backups[b]
      BY <1>3 DEF RemoveBackup, Without, Restrict
    <2> QED
      BY <2>1 DEF BackupsHold
  <1> QED
    BY <1>1, <1>2, <1>3, DiskSteps, RequestStarts

\* Only these steps go on with what is to be put in place.
LEMMA UnspentSteps ==
  ASSUME TypeOK, NEW t \in Thread, Step(t)
  PROVE  /\ pc'[t] \notin {"preview_meta", "apply_content"}
         /\ pc'[t] = "apply_backup" =>
              At(t, "apply_content") /\ UNCHANGED <<file, metas, local, aux_applied>>
         /\ pc'[t] \in Placing =>
              \/ ApplyBackup(t)
              \/ WriteTemp(t) /\ UNCHANGED <<file, local>>
              \/ RemoveTarget(t) /\ pc'[t] = "rename_temp" /\ local[t].found.exists
                 /\ UNCHANGED local
         /\ pc'[t] \in Placing => UNCHANGED <<metas, aux_applied>> /\ pc[t] \in Unspent
  <1>t. pc \in [Thread -> Labels]
    BY DEF TypeOK, RequestsOK
  <1> USE DEF Goto, Finish, At, Unspent
  <1>1. CASE PreviewMeta(t) \/ PreviewContent(t) \/ PreviewList(t) \/ EvictStatus(t)
    BY <1>1, <1>t DEF PreviewMeta, PreviewContent, PreviewList, EvictStatus, Answer, Placing
  <1>2. CASE ApplyContent(t) \/ DiscardMeta(t) \/ DiscardContent(t) \/ RenameTemp(t)
    BY <1>2, <1>t DEF ApplyContent, DiscardMeta, DiscardContent, RenameTemp, Answer, Placing
  <1>3. CASE ListBackups(t) \/ RemoveBackup(t) \/ ApplyStatus(t)
    BY <1>3, <1>t DEF ListBackups, RemoveBackup, ApplyStatus, Applied, Placing
  <1>5. CASE ListStatuses(t) \/ RemoveStatus(t)
    BY <1>5, <1>t DEF ListStatuses, RemoveStatus, Answer, Placing
  <1>4. CASE ApplyBackup(t) \/ WriteTemp(t) \/ RemoveTarget(t)
    BY <1>4, <1>t DEF ApplyBackup, WriteTemp, RemoveTarget, Placing
  <1> QED
    BY <1>1, <1>2, <1>3, <1>4, <1>5 DEF Step

LEMMA CarriesTextsStep ==
  ASSUME NEW R, CodecLaws(R), TypeOK, FilesHold(R), MetasHold, BackupsHold(R),
         NEW t \in Thread, CarriesTexts(R, t), Request(t) \/ Step(t)
  PROVE  CarriesTexts(R, t)'
  <1> DEFINE l == local[t]
  <1> USE DEF At
  <1>1. CASE Request(t)
    <2>0. file' = file
      BY <1>1, RequestStarts
    <2>1. CASE StartsPreview(t)
      BY <2>0, <2>1 DEF StartsPreview, Starts, CarriesTexts, Placing
    <2>2. CASE StartsDirect(t)
      BY <2>2 DEF StartsDirect, Starts, CarriesTexts, Placing
    <2>3. CASE StartsApply(t)
      BY <2>3 DEF StartsApply, Starts, CarriesTexts, Placing, MetasHold
    <2>4. CASE StartsRollback(t)
      BY <2>4 DEF StartsRollback, Starts, CarriesTexts, Placing, BackupsHold
    <2> QED
      BY <1>1, <2>1, <2>2, <2>3, <2>4, RequestStarts
  <1>2. CASE Step(t) /\ pc'[t] = "apply_backup"
    BY <1>2, UnspentSteps DEF CarriesTexts, Placing
  <1>3. CASE ApplyBackup(t) /\ pc'[t] \in Placing
    <2> DEFINE f == file[l.path]
    <2>1. /\ l.text \in Texts /\ f.content \in R
      BY <1>3 DEF ApplyBackup, CarriesTexts, FilesHold, FileHolds, TypeOK, RequestsOK, Serves
    <2>2. /\ Rewrite(f.content, l.text) \in R
          /\ Plain(Rewrite(f.content, l.text)) \in Versions
      BY <2>1 DEF CodecLaws, Versions
    <2>3. pc'[t] = "write_temp" /\ local'[t].text = Rewrite(f.content, l.text)
      BY <1>3, BackupIsTaken
    <2> QED
      BY <2>2, <2>3 DEF CarriesTexts
  <1>4. CASE WriteTemp(t) /\ local' = local /\ pc'[t] \in Placing
    BY <1>4 DEF WriteTemp, CarriesTexts, Placing, Previewing, TypeOK, RequestsOK, Serves,
                LocalOK, Kinds
  <1>5. CASE RemoveTarget(t) /\ local' = local /\ pc'[t] = "rename_temp"
             /\ l.found.exists
    BY <1>5 DEF RemoveTarget, CarriesTexts, Placing
  <1>6. CASE Step(t) /\ pc'[t] \notin Placing \cup {"apply_backup"}
    BY <1>6, UnspentSteps DEF CarriesTexts, Placing
  <1> QED
    BY <1>1, <1>2, <1>3, <1>4, <1>5, <1>6, UnspentSteps

LEMMA CarriesBaseStep ==
  ASSUME NEW R, CodecLaws(R), WholeBases, TypeOK, FilesHold(R), MetasHold,
         NEW t \in Thread, CarriesBase(t), Request(t) \/ Step(t)
  PROVE  CarriesBase(t)'
  <1> DEFINE l == local[t]
  <1> USE DEF At
  <1>1. CASE Request(t)
    <2>0. file' = file
      BY <1>1, RequestStarts
    <2>1. CASE StartsPreview(t) \/ StartsRollback(t)
      BY <2>1 DEF StartsPreview, StartsRollback, Starts, CarriesBase
    <2>2. CASE StartsDirect(t)
      <3>1. PICK p \in Path, text \in Texts, kind \in BaseKinds :
              Starts(t, "apply_backup", "apply", 0, p,
                     BaseOf(file[p], IF file[p].exists THEN kind ELSE kind \ {"mtime"}), text)
        BY <2>2 DEF StartsDirect
      <3> DEFINE base == BaseOf(file[p], IF file[p].exists THEN kind ELSE kind \ {"mtime"})
      <3>2. Named(base) \in {AnyText, TextOf(file[p])}
        BY GivenBaseNames DEF TypeOK, FilesOK, FilesHold
      <3>3. pc'[t] = "apply_backup" /\ local'[t].id = 0 /\ local'[t].path = p
            /\ local'[t].base = base
        BY <3>1 DEF Starts
      <3> HIDE DEF base
      <3>4. Names(t)'
        BY <2>0, <3>2, <3>3 DEF Names
      <3> QED
        BY <3>3, <3>4 DEF CarriesBase
    <2>3. CASE StartsApply(t)
      BY <2>3 DEF StartsApply, Starts, CarriesBase, MetasHold
    <2> QED
      BY <1>1, <2>1, <2>2, <2>3, RequestStarts
  <1>2. CASE Step(t) /\ pc'[t] = "apply_backup"
    <2>1. local' = local /\ At(t, "apply_content") /\ l.id # 0
      BY <1>2, UnspentSteps DEF TypeOK, RequestsOK, Serves, Numbered
    <2> QED
      BY <1>2, <2>1 DEF CarriesBase
  <1>3. CASE ApplyBackup(t) /\ pc'[t] \in Placing
    <2> DEFINE f == file[l.path]
    <2>1. /\ pc'[t] = "write_temp" /\ file' = file /\ local'[t].base = l.base
          /\ local'[t].path = l.path /\ l.base \subseteq BaseOf(f, Both)
      BY <1>3, BackupIsTaken DEF Both
    <2>2. FileOK(f) /\ FileHolds(R, f)
      BY <1>3 DEF ApplyBackup, FilesHold, TypeOK, FilesOK, RequestsOK, Serves
    <2>3. Names(t)
      <3>1. CASE l.id = 0
        BY <1>3, <3>1 DEF ApplyBackup, CarriesBase
      <3>2. CASE l.id # 0
        <4>1. PICK m \in Nat : \E h : BaseIs(l.base, m, h)
          BY <1>3, <3>2 DEF ApplyBackup, CarriesBase
        <4> QED
          BY <2>1, <2>2, <4>1, MatchingBaseNames DEF Names
      <3> QED
        BY <3>1, <3>2
    <2>4. Names(t)'
      BY <2>1, <2>3 DEF Names
    <2> QED
      BY <2>1, <2>4 DEF CarriesBase
  <1>4. CASE WriteTemp(t) /\ UNCHANGED <<file, local>>
    <2>1. Names(t)' = Names(t)
      BY <1>4 DEF Names
    <2>2. At(t, "write_temp") /\ pc'[t] \in {"remove_target", "rename_temp"}
      BY <1>4 DEF WriteTemp, Goto, TypeOK, RequestsOK
    <2> QED
      BY <1>4, <2>1, <2>2 DEF CarriesBase
  <1>5. CASE pc'[t] \notin {"apply_content", "apply_backup", "write_temp", "remove_target"}
    BY <1>5 DEF CarriesBase
  <1> QED
    BY <1>1, <1>2, <1>3, <1>4, <1>5, UnspentSteps DEF Placing

\* A step takes up no id but the one it has, and dooms only previews that are there.
LEMMA StepKeepsId ==
  ASSUME TypeOK, NEW t \in Thread, Step(t)
  PROVE  /\ local'[t].id \in {local[t].id, 0}
         /\ pc'[t] \in Placing => local'[t].id = local[t].id
         /\ pc'[t] \in {"evict_status", "discard_meta", "discard_content"} =>
              \/ local'[t].doomed \subseteq DOMAIN metas \cup {local[t].id}
              \/ /\ pc[t] \in {"evict_status", "discard_meta", "discard_content"}
                 /\ local'[t].doomed \subseteq local[t].doomed
  <1> DEFINE l == local[t]
  <1>t. /\ pc \in [Thread -> Labels] /\ local = [u \in Thread |-> local[u]] /\ LocalOK(l)
        /\ Serves(pc[t], l)
    BY DEF TypeOK, RequestsOK, Serves
  <1>b. Blank.id = 0
    BY DEF Blank
  <1>f. ASSUME Finish(t)
        PROVE  local'[t].id = 0 /\ pc'[t] = "idle"
    BY <1>f, <1>b, <1>t DEF Finish, Goto, Keep
  <1>d. ASSUME NEW S, Keep(t, [l EXCEPT !.doomed = S])
        PROVE  local'[t].id = l.id /\ local'[t].doomed = S
    BY <1>d, DoomedMove
  <1> USE DEF At, Goto, Placing
  <1>1. CASE PreviewMeta(t) \/ PreviewContent(t) \/ EvictStatus(t) \/ DiscardMeta(t)
              \/ WriteTemp(t) \/ RemoveTarget(t)
    BY <1>1, <1>t DEF PreviewMeta, PreviewContent, EvictStatus, DiscardMeta, WriteTemp,
                      RemoveTarget
  <1>2. CASE PreviewList(t)
    BY <1>2, <1>d, <1>f, <1>t DEF PreviewList, Answer
  <1>3. CASE DiscardContent(t)
    BY <1>3, <1>d, <1>f, <1>t DEF DiscardContent, Answer
  <1>4. CASE ListStatuses(t) \/ RemoveStatus(t)
    BY <1>4, <1>d, <1>f, <1>t DEF ListStatuses, RemoveStatus, Answer
  <1>5. CASE ListBackups(t) \/ RemoveBackup(t)
    BY <1>5, <1>d, <1>f, <1>t DEF ListBackups, RemoveBackup, Applied
  <1>6. CASE RenameTemp(t)
    BY <1>6, <1>f, <1>t DEF RenameTemp
  <1>7. CASE ApplyStatus(t)
    BY <1>7, <1>t DEF ApplyStatus, Serves, Previewing
  <1>8. CASE ApplyContent(t)
    <2>1. CASE pc'[t] = "apply_backup"
      BY <1>8, <2>1, <1>t DEF ApplyContent
    <2>2. CASE pc'[t] # "apply_backup"
      <3>1. PICK b : Keep(t, GivenUp(l, {l.id}, b)) /\ pc'[t] = "discard_meta"
        BY <1>8, <2>2, <1>t DEF ApplyContent, GivenUp
      <3> DEFINE k == GivenUp(l, {l.id}, b)
      <3>2. k = [kind |-> l.kind, id |-> l.id, path |-> l.path, base |-> l.base,
                 text |-> l.text, found |-> l.found, created |-> l.created,
                 doomed |-> {l.id}, trims |-> b]
        BY <1>t, GivenUpUpdate
      <3>3. local' = [local EXCEPT ![t] = k]
        BY <3>1 DEF Keep
      <3> HIDE DEF k
      <3>4. k.id = l.id /\ k.doomed = {l.id}
        BY <3>2
      <3> QED
        BY <1>t, <3>1, <3>3, <3>4
    <2> QED
      BY <2>1, <2>2
  <1>9. CASE ApplyBackup(t)
    <2>1. CASE Finish(t)
      BY <2>1, <1>f
    <2>2. CASE ~Finish(t)
      <3>1. pc'[t] \in Placing
        BY <1>9, <2>2, <1>t DEF ApplyBackup
      <3> QED
        BY <1>9, <3>1, BackupIsTaken
    <2> QED
      BY <2>1, <2>2
  <1> QED
    BY <1>1, <1>2, <1>3, <1>4, <1>5, <1>6, <1>7, <1>8, <1>9 DEF Step

LEMMA CarriesIdStep ==
  ASSUME TypeOK, IdsAreFresh, MetasHold, NEW t \in Thread, CarriesId(t), Spent(t),
         Request(t) \/ Step(t)
  PROVE  CarriesId(t)'
  <1> DEFINE l == local[t]
  <1>m. MaxIds \in Nat
    BY PatchAssumption
  <1> USE DEF At
  <1>1. CASE Request(t)
    <2>0. metas' = metas /\ aux_applied' = aux_applied /\ pc[t] = "idle"
      BY <1>1, RequestStarts
    <2>1. CASE StartsPreview(t)
      BY <2>0, <2>1 DEF StartsPreview, Starts, CarriesId, Spent, Unspent, Placing, TypeOK, RecordsOK
    <2>2. CASE StartsDirect(t) \/ StartsRollback(t)
      <3>1. local'[t].id = 0 /\ local'[t].doomed = {} /\ pc'[t] # "preview_meta"
        BY <2>2 DEF StartsDirect, StartsRollback, Starts
      <3> QED
        BY <3>1, <1>m DEF CarriesId
    <2>3. CASE StartsApply(t)
      BY <2>0, <2>3 DEF StartsApply, Starts, CarriesId, Spent, Spends, MetasHold
    <2> QED
      BY <1>1, <2>1, <2>2, <2>3, RequestStarts
  <1>2. CASE Step(t)
    <2>1. /\ local'[t].id <= MaxIds
          /\ pc'[t] \in {"evict_status", "discard_meta", "discard_content"} =>
               \A d \in local'[t].doomed : d <= MaxIds
      BY <1>2, <1>m, StepKeepsId DEF CarriesId, MetasHold
    <2>2. CASE pc'[t] \in Unspent
      BY <1>2, <2>1, <2>2, UnspentSteps, StepKeepsId DEF CarriesId, Unspent
    <2>3. CASE pc'[t] \notin Unspent
      BY <1>2, <2>1, <2>3, UnspentSteps DEF CarriesId
    <2> QED
      BY <2>2, <2>3
  <1> QED
    BY <1>1, <1>2

LEMMA SpentStep ==
  ASSUME TypeOK, IdsAreFresh, NEW t \in Thread, CarriesId(t), Spent(t), Staged(t),
         Request(t) \/ Step(t)
  PROVE  Spent(t)'
  <1> DEFINE l == local[t]
  <1>t. /\ pc \in [Thread -> Labels] /\ nextId \in Nat /\ l.id \in Nat /\ l.id < nextId
        /\ nextId' \in Nat /\ nextId' >= nextId
        /\ local = [u \in Thread |-> local[u]]
    BY RequestIds, StepIds DEF TypeOK, RequestsOK, RecordsOK, Serves, LocalOK, IdsAreFresh, IdsMove
  <1>l. Serves(pc[t], l)
    BY DEF TypeOK, RequestsOK
  <1>s. /\ \A i \in aux_applied : i \in Nat \ {0} /\ i < nextId
        /\ DOMAIN metas \cap aux_applied \subseteq IF Spends(t) THEN {l.id} ELSE {}
    BY DEF Spent
  <1>i. \A i \in aux_applied : i \in Nat \ {0} /\ i < nextId'
    BY <1>s, <1>t
  <1>a. ASSUME aux_applied' = aux_applied, DOMAIN metas' \subseteq DOMAIN metas,
               Spends(t) => Spends(t)' /\ local'[t].id = l.id
        PROVE  Spent(t)'
    BY <1>a, <1>i, <1>s DEF Spent
  <1>z. ASSUME aux_applied' = aux_applied, DOMAIN metas' \subseteq DOMAIN metas, l.id = 0
        PROVE  Spent(t)'
    <2>1. DOMAIN metas \cap aux_applied = {}
      BY <1>s, <1>z
    <2> QED
      BY <1>i, <1>z, <2>1 DEF Spent
  <1> USE DEF At, Goto
  <1>1. CASE Request(t)
    <2>1. metas' = metas /\ aux_applied' = aux_applied /\ pc[t] = "idle"
      BY <1>1, RequestStarts
    <2> QED
      BY <1>a, <2>1 DEF Spends
  <1>2. CASE PreviewMeta(t)
    <2>1. /\ DOMAIN metas' = DOMAIN metas \cup {l.id} /\ aux_applied' = aux_applied
          /\ pc[t] = "preview_meta" /\ l.id \notin aux_applied
      BY <1>2 DEF PreviewMeta, With, CarriesId
    <2> QED
      BY <1>i, <1>s, <2>1 DEF Spent, Spends
  <1>3. CASE PreviewContent(t) \/ PreviewList(t) \/ ApplyContent(t)
              \/ ApplyBackup(t) \/ WriteTemp(t) \/ RemoveTarget(t)
    BY <1>3, <1>a
    DEF PreviewContent, PreviewList, ApplyContent, ApplyBackup, WriteTemp, RemoveTarget, Spends
  <1>4. CASE EvictStatus(t) \/ DiscardContent(t) \/ ListStatuses(t) \/ RemoveStatus(t)
    BY <1>4, <1>a DEF EvictStatus, DiscardContent, ListStatuses, RemoveStatus, Spends
  <1>5. CASE RenameTemp(t)
    <2>1. /\ temp[l.kind][l.path] # NoTemp /\ temp[l.kind][l.path][1].by = l.id
          /\ pc[t] = "rename_temp"
      BY <1>5 DEF RenameTemp, Staged
    <2>2. /\ aux_applied' = aux_applied \cup ({l.id} \ {0}) /\ pc'[t] = "list_backups"
          /\ UNCHANGED <<metas, local>>
      BY <1>5, <1>t, <2>1 DEF RenameTemp
    <2> QED
      BY <1>i, <1>s, <1>t, <2>1, <2>2 DEF Spent, Spends
  <1>6. CASE ListBackups(t) \/ RemoveBackup(t)
    <2>1. UNCHANGED <<metas, aux_applied>> /\ pc[t] \in {"list_backups", "remove_backup"}
      BY <1>6 DEF ListBackups, RemoveBackup
    <2>2. CASE l.id # 0
      <3>1. pc'[t] \in {"list_backups", "remove_backup", "apply_status"}
        BY <1>6, <2>2, <1>t DEF ListBackups, RemoveBackup, Applied
      <3>2. local'[t].id = l.id
        BY <1>6, <2>2, DoomedMove DEF ListBackups, RemoveBackup, Applied
      <3> QED
        BY <1>a, <2>1, <3>1, <3>2 DEF Spends
    <2> QED
      BY <1>z, <2>1, <2>2
  <1>7. CASE ApplyStatus(t)
    <2>1. l.kind # "preview"
      BY <1>7, <1>l DEF ApplyStatus, Serves, Previewing
    <2> QED
      BY <1>7, <1>a, <1>t, <2>1 DEF ApplyStatus, Spends
  <1>8. CASE DiscardMeta(t)
    <2>1. /\ DOMAIN metas' = DOMAIN metas \ {Victim(t)} /\ aux_applied' = aux_applied
          /\ pc[t] = "discard_meta"
      BY <1>8 DEF DiscardMeta, Without, Restrict
    <2>2. CASE l.kind = "preview"
      BY <1>i, <1>s, <2>1, <2>2 DEF Spent, Spends
    <2>3. CASE l.kind # "preview"
      <3>1. l.doomed = {l.id}
        BY <1>l, <2>1, <2>3 DEF Serves
      <3>2. Victim(t) \in l.doomed
        BY <1>l, <2>1, MaxOfFinite DEF Victim, Serves, LocalOK, Removing
      <3> QED
        BY <1>i, <1>s, <2>1, <2>3, <3>1, <3>2 DEF Spent, Spends
    <2> QED
      BY <2>2, <2>3
  <1> QED
    BY <1>1, <1>2, <1>3, <1>4, <1>5, <1>6, <1>7, <1>8 DEF Step

LEMMA StoreStep ==
  ASSUME NEW R, CodecLaws(R), OneHandler, EditorsWait, MaxCrashes = 0, WholeBases,
         StoreInv(R), NEW t \in Thread, Request(t) \/ Step(t)
  PROVE  StoreInv(R)'
  <1>t. /\ TypeOK /\ IdsAreFresh /\ Staged(t)
        /\ FilesHold(R) /\ MetasHold /\ BackupsHold(R)
        /\ CarriesTexts(R, t) /\ CarriesBase(t) /\ CarriesId(t) /\ Spent(t)
    BY DEF StoreInv, AccountInv, ReplaceInv, StagedInv
  <1>n. [Next]_vars
    BY DEF Next
  <1>1. AccountInv' /\ ReplaceInv' /\ KeptInv'
    BY <1>n, AccountNext, ReplaceNext, KeptNext DEF StoreInv
  <1>2. FilesHold(R)' /\ MetasHold' /\ BackupsHold(R)'
    BY <1>t, FilesHoldStep, MetasHoldStep, BackupsHoldStep
  <1>3. CarriesTexts(R, t)' /\ CarriesBase(t)' /\ CarriesId(t)' /\ Spent(t)'
    BY <1>t, CarriesTextsStep, CarriesBaseStep, CarriesIdStep, SpentStep
  <1> QED
    BY <1>1, <1>2, <1>3 DEF StoreInv, OneHandler

LEMMA StoreEnvironment ==
  ASSUME NEW R, CodecLaws(R), OneHandler, EditorsWait, MaxCrashes = 0,
         StoreInv(R), OutsideEdit \/ Tick \/ UNCHANGED vars
  PROVE  StoreInv(R)'
  <1>n. [Next]_vars
    BY DEF Next
  <1>1. AccountInv' /\ ReplaceInv' /\ KeptInv'
    BY <1>n, AccountNext, ReplaceNext, KeptNext DEF StoreInv
  <1>t. TypeOK /\ now \in Nat /\ now > 0
    BY DEF StoreInv, AccountInv, TypeOK, RecordsOK, FilesHold
  <1>2. UNCHANGED <<temp, metas, backups, pc, local, nextId, aux_applied>>
    BY DEF OutsideEdit, Tick, vars
  <1>3. MetasHold' /\ BackupsHold(R)'
    BY <1>2 DEF StoreInv, MetasHold, BackupsHold
  <1>4. \A t \in Thread : CarriesId(t)' /\ Spent(t)'
    BY <1>2 DEF StoreInv, CarriesId, Spent, Spends, At
  <1>5. CASE OutsideEdit
    <2>1. PICK p \in Path, d \in OutsideTexts :
            file' = [file EXCEPT ![p] = [exists |-> TRUE, content |-> d, mtime |-> now]]
      BY <1>5 DEF OutsideEdit
    <2>2. /\ now' = now /\ \A t \in Thread : pc[t] = "idle"
      BY <1>5 DEF OutsideEdit, At
    <2>3. FilesHold(R)'
      <3>1. d \in R /\ Plain(d) \in Versions
        BY DEF CodecLaws, Versions
      <3>2. \A q \in Path : file'[q] = IF q = p THEN [exists |-> TRUE, content |-> d, mtime |-> now]
                                       ELSE file[q]
        BY <1>t, <2>1 DEF TypeOK, FilesOK
      <3>3. \A q \in Path : FileHolds(R, file[q])'
        BY <1>t, <3>1, <3>2 DEF StoreInv, FilesHold, FileHolds
      <3> QED
        BY <1>t, <1>2, <2>2, <3>3 DEF StoreInv, FilesHold
    <2>4. \A t \in Thread : CarriesTexts(R, t)' /\ CarriesBase(t)'
      BY <1>2, <2>2 DEF CarriesTexts, CarriesBase, At, Placing
    <2> QED
      BY <1>1, <1>3, <1>4, <2>3, <2>4 DEF StoreInv
  <1>6. CASE UNCHANGED file /\ now' >= now
    <2>1. now' \in Nat
      BY <1>1 DEF AccountInv, TypeOK, RecordsOK
    <2>2. FilesHold(R)'
      BY <1>2, <1>6, <1>t, <2>1 DEF StoreInv, FilesHold, FileHolds
    <2>3. \A t \in Thread : CarriesTexts(R, t)' /\ CarriesBase(t)'
      BY <1>2, <1>6 DEF StoreInv, CarriesTexts, CarriesBase, Names, At
    <2> QED
      BY <1>1, <1>3, <1>4, <2>2, <2>3 DEF StoreInv
  <1>7. OutsideEdit \/ (UNCHANGED file /\ now' >= now)
    BY <1>t DEF Tick, vars
  <1> QED
    BY <1>5, <1>6, <1>7

LEMMA StoreNext ==
  ASSUME NEW R, CodecLaws(R), OneHandler, EditorsWait, MaxCrashes = 0, WholeBases
  PROVE  StoreInv(R) /\ [Next]_vars => StoreInv(R)'
  <1> SUFFICES ASSUME StoreInv(R), [Next]_vars PROVE StoreInv(R)'
    OBVIOUS
  <1>1. crashes = 0
    BY DEF StoreInv, KeptInv, WholeInv
  <1> QED
    BY <1>1, StoreStep, StoreEnvironment, NoCrash

LEMMA StoreInit ==
  ASSUME NEW R, CodecLaws(R)
  PROVE  Init => StoreInv(R)
  <1> SUFFICES ASSUME Init PROVE StoreInv(R)
    OBVIOUS
  <1>1. AccountInv /\ ReplaceInv /\ KeptInv
    BY AccountInit, ReplaceInit, KeptInit
  <1>2. FilesHold(R)
    <2>1. <<>> \in R /\ InitialText \in R /\ Plain(InitialText) \in Versions
      BY DEF CodecLaws, Versions
    <2>2. FileHolds(R, [exists |-> TRUE, content |-> InitialText, mtime |-> 1])
      BY <2>1 DEF FileHolds
    <2>3. FileHolds(R, Missing)
      BY <2>1 DEF FileHolds, Missing
    <2>4. /\ now = 1 /\ \A k \in Kinds, p \in Path : temp[k][p] = NoTemp
          /\ \A p \in Path :
               file[p] \in {Missing, [exists |-> TRUE, content |-> InitialText, mtime |-> 1]}
      BY DEF Init, Kinds
    <2>5. \A p \in Path : FileHolds(R, file[p])
      BY <2>2, <2>3, <2>4
    <2> QED
      BY <2>4, <2>5 DEF FilesHold
  <1>3. MetasHold /\ BackupsHold(R)
    BY DEF Init, MetasHold, BackupsHold
  <1>4. \A t \in Thread : CarriesTexts(R, t) /\ CarriesBase(t) /\ CarriesId(t) /\ Spent(t)
    <2>1. \A t \in Thread : pc[t] = "idle" /\ local[t].id = 0 /\ local[t].doomed = {}
      BY DEF Init, Blank
    <2>2. aux_applied = {} /\ MaxIds \in Nat
      BY PatchAssumption DEF Init
    <2> QED
      BY <2>1, <2>2
      DEF CarriesTexts, CarriesBase, CarriesId, Spent, At, Unspent, Placing
  <1> QED
    BY <1>1, <1>2, <1>3, <1>4 DEF StoreInv

(***************************************************************************)
(* What a store of whole files sees of one request                         *)
(***************************************************************************)
TextVia(t, p) == IF At(t, "rename_temp") /\ local[t].path = p
                 THEN Plain(local[t].text) ELSE TextOf(file[p])

AppliedVia(t) == aux_applied \cup (IF At(t, "rename_temp") THEN {local[t].id} \ {0} ELSE {})

LEMMA SeenOfOne ==
  ASSUME NEW t, Thread = {t}
  PROVE  /\ StoreText = [p \in Path |-> TextVia(t, p)]
         /\ AppliedIds = AppliedVia(t)
         /\ StoreAsk = [u \in {t} |-> AskOf(t)]
         /\ StoreText' = [p \in Path |-> TextVia(t, p)']
         /\ AppliedIds' = AppliedVia(t)'
         /\ StoreAsk' = [u \in {t} |-> AskOf(t)']
  <1>1. \A p : Replacing(p) = IF At(t, "rename_temp") /\ local[t].path = p THEN {t} ELSE {}
    BY DEF Replacing
  <1>2. \A p : Replacing(p)' = IF At(t, "rename_temp")' /\ local'[t].path = p THEN {t} ELSE {}
    BY DEF Replacing
  <1>3. (CHOOSE u \in {t} : TRUE) = t
    OBVIOUS
  <1>4. \A p : TextNow(p) = TextVia(t, p)
    BY <1>1, <1>3 DEF TextNow, TextVia
  <1>5. \A p : TextNow(p)' = TextVia(t, p)'
    BY <1>2, <1>3 DEF TextNow, TextVia
  <1>6. {u \in Thread : At(u, "rename_temp")} = IF At(t, "rename_temp") THEN {t} ELSE {}
    OBVIOUS
  <1>7. {u \in Thread : At(u, "rename_temp")'} = IF At(t, "rename_temp")' THEN {t} ELSE {}
    OBVIOUS
  <1>8. AppliedIds = AppliedVia(t)
    BY <1>6 DEF AppliedIds, AppliedVia
  <1>9. AppliedIds' = AppliedVia(t)'
    BY <1>7 DEF AppliedIds, AppliedVia
  <1> QED
    BY <1>4, <1>5, <1>8, <1>9 DEF StoreText, StoreAsk

LEMMA FilesSeenStay ==
  ASSUME NEW t, Thread = {t}, UNCHANGED <<file, aux_applied>>,
         ~At(t, "rename_temp"), pc'[t] # "rename_temp"
  PROVE  UNCHANGED <<StoreText, AppliedIds>>
  <1>1. \A p : TextVia(t, p)' = TextVia(t, p)
    BY DEF TextVia, At
  <1>2. AppliedVia(t)' = AppliedVia(t)
    BY DEF AppliedVia, At
  <1> QED
    BY <1>1, <1>2, SeenOfOne

LEMMA PreviewsSeenStay ==
  ASSUME UNCHANGED metas, UNCHANGED AppliedIds
  PROVE  UNCHANGED StoreOpen
  BY DEF StoreOpen

LEMMA BackupsSeenStay ==
  ASSUME UNCHANGED backups
  PROVE  UNCHANGED StoreSaved
  BY DEF StoreSaved

LEMMA AskSeen ==
  ASSUME NEW t, Thread = {t}
  PROVE  /\ StoreAsk[t] = AskOf(t)
         /\ AskOf(t)' = AskOf(t) => StoreAsk' = StoreAsk
         /\ StoreAsk' = [StoreAsk EXCEPT ![t] = AskOf(t)']
         /\ ~Asks(t) => AskOf(t) = Store!Nothing
         /\ ~Asks(t)' => AskOf(t)' = Store!Nothing
  <1>1. StoreAsk[t] = AskOf(t) /\ (AskOf(t)' = AskOf(t) => StoreAsk' = StoreAsk)
    BY SeenOfOne
  <1>2. StoreAsk' = [StoreAsk EXCEPT ![t] = AskOf(t)']
    BY SeenOfOne
  <1>3. ~Asks(t) => AskOf(t) = Store!Nothing
    BY DEF AskOf, Store!Nothing, Store!NoId
  <1>4. ~Asks(t)' => AskOf(t)' = Store!Nothing
    BY DEF AskOf, Store!Nothing, Store!NoId
  <1> QED
    BY <1>1, <1>2, <1>3, <1>4

LEMMA NothingSeen ==
  ASSUME UNCHANGED <<StoreText, StoreOpen, AppliedIds, StoreSaved, StoreAsk>>
  PROVE  UNCHANGED Store!vars
  BY DEF Store!vars

\* Steps between two points where nothing is asked for, of which only previews are seen
LEMMA NotAsked ==
  ASSUME NEW t, Thread = {t}, ~Asks(t), ~Asks(t)'
  PROVE  StoreAsk' = StoreAsk
  <1>1. AskOf(t)' = AskOf(t)
    BY AskSeen
  <1> QED
    BY <1>1, AskSeen

LEMMA SeenAsItIs ==
  ASSUME NEW t, Thread = {t}, pc[t] # "rename_temp"
  PROVE  AppliedIds = aux_applied /\ \A p \in Path : StoreText[p] = TextOf(file[p])
  <1>1. AppliedVia(t) = aux_applied /\ \A p \in Path : TextVia(t, p) = TextOf(file[p])
    BY DEF AppliedVia, TextVia, At
  <1>2. StoreText = [p \in Path |-> TextVia(t, p)] /\ AppliedIds = AppliedVia(t)
    BY SeenOfOne
  <1> HIDE DEF TextVia
  <1> QED
    BY <1>1, <1>2

(***************************************************************************)
(* Every step is one of the store's, or is not seen                        *)
(***************************************************************************)
StoreStepOrNone == [Store!Next]_Store!vars

SavedAsk(s) == [Store!Nothing EXCEPT !.kind = "rollback", !.path = s[1], !.text = s[2]]

LEMMA SavedAsked ==
  ASSUME NEW s
  PROVE  SavedAsk(s) = [kind |-> "rollback", id |-> 0, path |-> s[1], base |-> AnyText,
                        text |-> s[2]]
  <1>1. SavedAsk(s) \in [kind : {"rollback"}, id : {0}, path : {s[1]}, base : {AnyText},
                         text : {s[2]}]
    BY DEF SavedAsk, Store!Nothing, Store!NoId
  <1> QED
    BY <1>1

LEMMA RequestSeen ==
  ASSUME NEW R, CodecLaws(R), WholeBases, StoreInv(R), NEW t, Thread = {t}, Request(t)
  PROVE  StoreStepOrNone
  <1> DEFINE l == local[t]
             m == local'[t]
  <1>t. /\ t \in Thread /\ TypeOK /\ FilesHold(R) /\ Spent(t)
    BY DEF StoreInv, AccountInv
  <1>1. /\ pc[t] = "idle" /\ UNCHANGED <<file, metas, backups, aux_applied>>
        /\ StartsPreview(t) \/ StartsDirect(t) \/ StartsApply(t) \/ StartsRollback(t)
    BY <1>t, RequestStarts DEF At
  <1>2. pc'[t] # "rename_temp"
    BY <1>1 DEF StartsPreview, StartsDirect, StartsApply, StartsRollback, Starts
  <1>3. UNCHANGED <<StoreText, StoreOpen, AppliedIds, StoreSaved>>
    <2>1. UNCHANGED <<StoreText, AppliedIds>>
      BY <1>1, <1>2, FilesSeenStay DEF At
    <2> QED
      BY <1>1, <2>1, PreviewsSeenStay, BackupsSeenStay
  <1>4. StoreAsk[t] = Store!Nothing /\ ~Asks(t)
    BY <1>1, AskSeen DEF Asks
  <1>5. StoreAsk' = [StoreAsk EXCEPT ![t] = AskOf(t)']
    BY AskSeen
  <1>6. CASE StartsPreview(t)
    <2>1. ~Asks(t)'
      BY <1>6 DEF StartsPreview, Starts, Asks
    <2> QED
      BY <1>3, <1>4, <2>1, NotAsked, NothingSeen DEF StoreStepOrNone
  <1>7. CASE StartsDirect(t)
    <2>1. PICK p \in Path, text \in Texts, kind \in BaseKinds :
            LET given == IF file[p].exists THEN kind ELSE kind \ {"mtime"}
            IN  Starts(t, "apply_backup", "apply", 0, p, BaseOf(file[p], given), text)
      BY <1>7 DEF StartsDirect
    <2> DEFINE base == BaseOf(file[p], IF file[p].exists THEN kind ELSE kind \ {"mtime"})
    <2>2. Named(base) \in Versions
      <3>1. Named(base) \in {AnyText, TextOf(file[p])}
        BY <1>t, GivenBaseNames DEF TypeOK, FilesOK, FilesHold
      <3>2. TextOf(file[p]) \in Versions
        BY <1>t DEF TextOf, FilesHold, FileHolds, Versions
      <3> QED
        BY <3>1, <3>2 DEF Versions
    <2>3. /\ pc'[t] = "apply_backup" /\ m.kind = "apply" /\ m.id = 0 /\ m.path = p
          /\ m.base = base /\ m.text = text
      BY <2>1 DEF Starts
    <2> HIDE DEF base
    <2>4. AskOf(t)' = [kind |-> "apply", id |-> 0, path |-> p, base |-> Named(base),
                       text |-> Plain(text)]
      BY <2>3 DEF AskOf, Asks
    <2>5. Plain(text) \in {Plain(x) : x \in Texts}
      OBVIOUS
    <2>6. Store!AskApply(t)
      BY <1>3, <1>4, <1>5, <2>2, <2>4, <2>5 DEF Store!AskApply, Store!NoId
    <2> QED
      BY <1>t, <2>6 DEF StoreStepOrNone, Store!Next
  <1>8. CASE StartsApply(t)
    <2>1. PICK id \in DOMAIN metas :
            Starts(t, "apply_content", "apply", id, metas[id].path, metas[id].base,
                   metas[id].text)
      BY <1>8 DEF StartsApply
    <2>2. id \in DOMAIN StoreOpen /\ StoreOpen[id] = Offer(metas[id])
      <3>1. AppliedIds = aux_applied /\ DOMAIN metas \cap aux_applied = {}
        BY <1>t, <1>1, SeenOfOne DEF AppliedVia, At, Spent, Spends
      <3> QED
        BY <3>1 DEF StoreOpen
    <2>3. AskOf(t)' = [kind |-> "apply", id |-> id, path |-> metas[id].path,
                       base |-> Named(metas[id].base), text |-> Plain(metas[id].text)]
      BY <2>1 DEF AskOf, Asks, Starts
    <2>4. AskOf(t)' = [kind |-> "apply", id |-> id, path |-> StoreOpen[id].path,
                       base |-> StoreOpen[id].base, text |-> StoreOpen[id].text]
      BY <2>2, <2>3 DEF Offer
    <2>5. Store!AskApply(t)
      BY <1>3, <1>4, <1>5, <2>2, <2>4 DEF Store!AskApply
    <2> QED
      BY <1>t, <2>5 DEF StoreStepOrNone, Store!Next
  <1>9. CASE StartsRollback(t)
    <2>1. PICK b \in DOMAIN backups :
            LET bak == backups[b]
            IN  /\ Starts(t, IF bak.existed THEN "write_temp" ELSE "remove_target",
                          "rollback", 0, bak.path, {}, bak.content)
                /\ local'[t].found.exists = bak.existed
      BY <1>9 DEF StartsRollback
    <2> DEFINE s == SavedText(backups[b])
    <2>2. s \in StoreSaved /\ s[1] = backups[b].path
          /\ s[2] = IF backups[b].existed THEN Plain(backups[b].content) ELSE NoText
      BY DEF StoreSaved, SavedText
    <2>3. AskOf(t)' = [kind |-> "rollback", id |-> 0, path |-> s[1], base |-> AnyText,
                       text |-> s[2]]
      BY <2>1, <2>2, NamedNone DEF AskOf, Asks, Starts
    <2>4. SavedAsk(s) =
            [kind |-> "rollback", id |-> 0, path |-> s[1], base |-> AnyText, text |-> s[2]]
      BY SavedAsked
    <2> HIDE DEF s
    <2>5. Store!AskRollback(t)
      BY <1>3, <1>4, <1>5, <2>2, <2>3, <2>4 DEF Store!AskRollback, SavedAsk
    <2> QED
      BY <1>t, <2>5 DEF StoreStepOrNone, Store!Next
  <1> QED
    BY <1>1, <1>6, <1>7, <1>8, <1>9

\* A request that ends before anything is put in place
LEMMA RefusalSeen ==
  ASSUME NEW t, Thread = {t}, UNCHANGED <<file, metas, backups, aux_applied>>,
         ~At(t, "rename_temp"), pc'[t] # "rename_temp", ~Asks(t)'
  PROVE  StoreStepOrNone
  <1>1. UNCHANGED <<StoreText, StoreOpen, AppliedIds, StoreSaved>>
    BY FilesSeenStay, PreviewsSeenStay, BackupsSeenStay
  <1>2. StoreAsk' = [StoreAsk EXCEPT ![t] = Store!Nothing]
    BY AskSeen
  <1>3. Store!Refuse(t)
    BY <1>1, <1>2 DEF Store!Refuse
  <1> QED
    BY <1>3 DEF StoreStepOrNone, Store!Next

\* Removing a preview that the store may have open, or not any more
LEMMA DiscardSeen ==
  ASSUME NEW R, StoreInv(R), NEW t, Thread = {t}, DiscardMeta(t)
  PROVE  StoreStepOrNone
  <1> DEFINE l == local[t]
             v == Victim(t)
  <1>t. t \in Thread /\ CarriesId(t) /\ pc \in [Thread -> Labels] /\ MaxIds \in Nat
        /\ Serves(pc[t], l) /\ LocalOK(l)
    BY PatchAssumption DEF StoreInv, AccountInv, TypeOK, RequestsOK, Serves
  <1>0. /\ UNCHANGED <<file, backups, aux_applied, local>>
        /\ pc[t] = "discard_meta" /\ pc'[t] = "discard_content"
    BY <1>t DEF DiscardMeta, At, Goto
  <1>v. v \in 1..MaxIds
    <2>1. v \in l.doomed
      BY <1>0, <1>t, MaxOfFinite DEF Victim, Serves, LocalOK, Removing
    <2>2. v \in Nat \ {0} /\ v <= MaxIds
      BY <1>0, <1>t, <2>1 DEF LocalOK, CarriesId
    <2> QED
      BY <1>t, <2>2
  <1> HIDE DEF v
  <1>1. UNCHANGED <<StoreText, AppliedIds, StoreSaved, StoreAsk>>
    BY <1>0, FilesSeenStay, BackupsSeenStay, NotAsked DEF At, Asks
  <1>2. StoreOpen' = Store!Restrict(StoreOpen, DOMAIN StoreOpen \ {v})
    <2>1. /\ DOMAIN metas' = DOMAIN metas \ {v}
          /\ \A i \in DOMAIN metas' : metas'[i] = metas[i]
      BY DEF DiscardMeta, Without, Restrict, v
    <2>2. StoreOpen' = [i \in (DOMAIN metas \ AppliedIds) \ {v} |-> Offer(metas[i])]
      BY <1>1, <2>1 DEF StoreOpen, Offer
    <2> QED
      BY <2>2 DEF StoreOpen, Store!Restrict
  <1>3. Store!Forget(v)
    BY <1>1, <1>2 DEF Store!Forget
  <1> QED
    BY <1>3, <1>v DEF StoreStepOrNone, Store!Next

\* Steps that tell of previews, or clean up behind them
LEMMA HiddenSeen ==
  ASSUME NEW R, StoreInv(R), NEW t, Thread = {t},
         \/ PreviewContent(t) \/ PreviewList(t) \/ EvictStatus(t) \/ DiscardContent(t)
         \/ ListStatuses(t) \/ RemoveStatus(t) \/ ListBackups(t) \/ ApplyStatus(t)
  PROVE  StoreStepOrNone
  <1>t. t \in Thread /\ pc \in [Thread -> Labels]
    BY DEF StoreInv, AccountInv, TypeOK, RequestsOK
  <1> USE DEF At, Goto, Asks
  <1>1. CASE PreviewContent(t) \/ PreviewList(t) \/ EvictStatus(t) \/ ApplyStatus(t)
    <2>1. /\ UNCHANGED <<file, metas, backups, aux_applied>>
          /\ pc[t] # "rename_temp" /\ pc'[t] # "rename_temp" /\ ~Asks(t)'
      BY <1>1, <1>t DEF PreviewContent, PreviewList, EvictStatus, ApplyStatus, Answer, Finish
    <2> QED
      BY <2>1, RefusalSeen
  <1>2. CASE DiscardContent(t) \/ ListStatuses(t) \/ RemoveStatus(t)
    <2>1. /\ UNCHANGED <<file, metas, backups, aux_applied>>
          /\ pc[t] # "rename_temp" /\ pc'[t] # "rename_temp" /\ ~Asks(t)'
      BY <1>2, <1>t DEF DiscardContent, ListStatuses, RemoveStatus, Answer, Finish
    <2> QED
      BY <2>1, RefusalSeen
  <1>3. CASE ListBackups(t)
    <2>1. /\ UNCHANGED <<file, metas, backups, aux_applied>>
          /\ pc[t] # "rename_temp" /\ pc'[t] # "rename_temp" /\ ~Asks(t)'
      BY <1>3, <1>t DEF ListBackups, Applied, Finish
    <2> QED
      BY <2>1, RefusalSeen
  <1> QED
    BY <1>1, <1>2, <1>3

LEMMA PreviewSeen ==
  ASSUME NEW R, CodecLaws(R), StoreInv(R), NEW t, Thread = {t},
         PreviewMeta(t)
  PROVE  StoreStepOrNone
  <1> DEFINE l == local[t]
  <1>t. /\ t \in Thread /\ TypeOK /\ FilesHold(R) /\ CarriesTexts(R, t) /\ CarriesId(t)
        /\ IdsAreFresh /\ pc \in [Thread -> Labels]
    BY DEF StoreInv, AccountInv, TypeOK, RequestsOK
  <1>s. Serves(pc[t], l) /\ LocalOK(l)
    BY <1>t DEF TypeOK, RequestsOK, Serves
  <1>1. /\ UNCHANGED <<file, backups, aux_applied>>
        /\ ~At(t, "rename_temp") /\ pc'[t] # "rename_temp" /\ ~Asks(t) /\ ~Asks(t)'
    BY <1>t DEF PreviewMeta, Goto, At, Asks
  <1>2. UNCHANGED <<StoreText, AppliedIds, StoreSaved, StoreAsk>>
    BY <1>1, FilesSeenStay, BackupsSeenStay, NotAsked
  <1>5. StoreStepOrNone
    <2> DEFINE new == [path |-> l.path, base |-> BaseOf(l.found, Both), text |-> l.text,
                       time |-> now]
    <2>1. metas' = With(metas, l.id, new) /\ pc[t] = "preview_meta"
      BY DEF PreviewMeta, At, Both
    <2>2. /\ l.text \in Texts /\ l.found = file[l.path] /\ l.path \in Path
          /\ l.id \in 1..MaxIds /\ l.id \notin aux_applied /\ l.id \notin DOMAIN metas
      <3>1. l.id \in Nat \ {0} /\ l.path \in Path
        BY <1>s, <2>1 DEF Serves, LocalOK, Numbered, Previewing
      <3>2. l.id <= MaxIds /\ l.id \notin aux_applied
        BY <1>t, <2>1 DEF CarriesId, At
      <3>3. l.id \notin DOMAIN metas
        BY <1>t, <2>1 DEF IdsAreFresh, Ids, At
      <3>4. l.text \in Texts /\ l.found = file[l.path]
        BY <1>t, <2>1 DEF CarriesTexts, At
      <3>5. MaxIds \in Nat
        BY PatchAssumption
      <3> QED
        BY <3>1, <3>2, <3>3, <3>4, <3>5
    <2>3. AppliedIds = aux_applied /\ StoreText[l.path] = TextOf(file[l.path])
      BY <2>1, <2>2, SeenAsItIs
    <2>4. Named(new.base) = TextOf(file[l.path])
      <3> DEFINE f == file[l.path]
      <3>1. FileOK(f) /\ FileHolds(R, f) /\ f.mtime \in Nat
        BY <1>t, <2>2 DEF TypeOK, FilesOK, FilesHold, FileOK, FoundOK
      <3>2. BaseOf(f, Both) \subseteq BaseOf(f, Both)
        OBVIOUS
      <3>3. Named(BaseOf(f, Both)) = TextOf(f)
        BY <3>1, <3>2, BaseOfFile, MatchingBaseNames
      <3> QED
        BY <2>2, <3>3
    <2>5. Offer(new) = [path |-> l.path, base |-> TextOf(file[l.path]), text |-> Plain(l.text)]
      BY <2>4 DEF Offer
    <2> HIDE DEF new
    <2>6. /\ DOMAIN metas' = DOMAIN metas \cup {l.id}
          /\ \A i \in DOMAIN metas' : metas'[i] = IF i = l.id THEN new ELSE metas[i]
      BY <2>1 DEF With
    <2>7. DOMAIN StoreOpen = DOMAIN metas \ AppliedIds
      BY DEF StoreOpen
    <2>8. StoreOpen' = [i \in DOMAIN StoreOpen \cup {l.id} |->
                          IF i = l.id THEN Offer(new) ELSE StoreOpen[i]]
      <3>1. DOMAIN metas' \ AppliedIds' = DOMAIN StoreOpen \cup {l.id}
        BY <1>2, <2>2, <2>3, <2>6, <2>7
      <3>2. \A i \in DOMAIN StoreOpen \cup {l.id} :
              Offer(metas'[i]) = IF i = l.id THEN Offer(new) ELSE StoreOpen[i]
        BY <2>6, <2>7 DEF StoreOpen
      <3>3. StoreOpen' = [i \in DOMAIN metas' \ AppliedIds' |-> Offer(metas'[i])]
        BY DEF StoreOpen, Offer
      <3> QED
        BY <3>1, <3>2, <3>3
    <2>9. Store!Make(l.id)
      <3>1. l.id \notin DOMAIN StoreOpen \cup AppliedIds
        BY <2>2, <2>3, <2>7
      <3>2. Plain(l.text) \in {Plain(x) : x \in Texts}
        BY <2>2
      <3>3. StoreOpen' = [i \in DOMAIN StoreOpen \cup {l.id} |->
                            IF i = l.id
                            THEN [path |-> l.path, base |-> StoreText[l.path],
                                  text |-> Plain(l.text)]
                            ELSE StoreOpen[i]]
        BY <2>3, <2>5, <2>8
      <3> QED
        BY <1>2, <2>2, <3>1, <3>2, <3>3 DEF Store!Make
    <2> QED
      BY <2>2, <2>9 DEF StoreStepOrNone, Store!Next
  <1> QED
    BY <1>5

LEMMA BackupSeen ==
  ASSUME NEW R, CodecLaws(R), StoreInv(R), NEW t, Thread = {t}, ApplyBackup(t),
         pc'[t] \in Placing
  PROVE  StoreStepOrNone
  <1> DEFINE l == local[t]
             f == file[l.path]
             b == [path |-> l.path, content |-> Backup(f.content), existed |-> f.exists,
                   time |-> now]
  <1>t. /\ t \in Thread /\ TypeOK /\ FilesHold(R) /\ CarriesTexts(R, t) /\ IdsAreFresh
        /\ DOMAIN backups \subseteq Nat /\ nextId \in Nat
    BY DEF StoreInv, AccountInv, TypeOK, RecordsOK
  <1>1. /\ pc[t] = "apply_backup" /\ pc'[t] = "write_temp" /\ UNCHANGED <<file, metas, aux_applied>>
        /\ l.path \in Path /\ l.text \in Texts /\ l.kind = "apply"
    BY <1>t, BackupIsTaken DEF ApplyBackup, At, TypeOK, RequestsOK, Serves, CarriesTexts
  <1>2. UNCHANGED <<StoreText, StoreOpen, AppliedIds>>
    BY <1>1, FilesSeenStay, PreviewsSeenStay DEF At
  <1>3. FileHolds(R, f)
    BY <1>t, <1>1 DEF FilesHold
  <1>4. StoreAsk' = StoreAsk
    <2>1. Plain(Rewrite(f.content, l.text)) = Plain(l.text)
      BY <1>1, <1>3 DEF CodecLaws, FileHolds
    <2>2. AskOf(t) = [kind |-> "apply", id |-> l.id, path |-> l.path, base |-> Named(l.base),
                      text |-> Plain(l.text)]
      BY <1>1 DEF AskOf, Asks
    <2>3. AskOf(t)' = [kind |-> "apply", id |-> l.id, path |-> l.path, base |-> Named(l.base),
                       text |-> Plain(Rewrite(f.content, l.text))]
      BY <1>t, <1>1, BackupIsTaken DEF AskOf, Asks
    <2> QED
      BY <2>1, <2>2, <2>3, AskSeen
  <1>5. SavedText(b) = <<l.path, StoreText[l.path]>>
    <2>1. StoreText[l.path] = IF f.exists THEN Plain(f.content) ELSE NoText
      BY <1>1, SeenAsItIs DEF TextOf
    <2>2. Plain(Backup(f.content)) = Plain(f.content)
      BY <1>3, BackupLaw DEF FileHolds
    <2> QED
      BY <2>1, <2>2 DEF SavedText
  <1> HIDE DEF b
  <1>6. StoreSaved' = StoreSaved \cup {SavedText(b)}
    <2>1. nextId \notin DOMAIN backups
      BY <1>t DEF IdsAreFresh, Ids
    <2>2. /\ DOMAIN backups' = DOMAIN backups \cup {nextId} /\ backups'[nextId] = b
          /\ \A i \in DOMAIN backups : backups'[i] = backups[i]
      BY <1>t, <2>1, BackupIsTaken DEF b
    <2>3. StoreSaved' = {SavedText(backups'[i]) : i \in DOMAIN backups'}
      BY DEF StoreSaved, SavedText
    <2> QED
      BY <2>2, <2>3 DEF StoreSaved
  <1>7. Store!Save(l.path)
    BY <1>2, <1>4, <1>5, <1>6 DEF Store!Save
  <1> QED
    BY <1>1, <1>7 DEF StoreStepOrNone, Store!Next

\* A backup that is removed may hold a text that another one holds.
LEMMA DropSeen ==
  ASSUME NEW R, StoreInv(R), NEW t, Thread = {t}, RemoveBackup(t)
  PROVE  StoreStepOrNone
  <1>t. t \in Thread /\ pc \in [Thread -> Labels]
    BY DEF StoreInv, AccountInv, TypeOK, RequestsOK
  <1>1. /\ pc[t] = "remove_backup" /\ pc'[t] \in {"idle", "apply_status", "remove_backup"}
        /\ UNCHANGED <<file, metas, aux_applied>>
    BY <1>t DEF RemoveBackup, Applied, At, Finish, Goto
  <1>2. UNCHANGED <<StoreText, StoreOpen, AppliedIds, StoreAsk>>
    BY <1>1, FilesSeenStay, PreviewsSeenStay, NotAsked DEF At, Asks
  <1>3. PICK d : /\ DOMAIN backups' = DOMAIN backups \ {d}
                 /\ \A b \in DOMAIN backups' : backups'[b] = backups[b]
    BY DEF RemoveBackup, Without, Restrict
  <1>4. StoreSaved' = {SavedText(backups[b]) : b \in DOMAIN backups \ {d}}
    <2>1. StoreSaved' = {SavedText(backups'[b]) : b \in DOMAIN backups'}
      BY DEF StoreSaved, SavedText
    <2> QED
      BY <1>3, <2>1
  <1>5. CASE StoreSaved' = StoreSaved
    BY <1>2, <1>5, NothingSeen DEF StoreStepOrNone
  <1>6. CASE StoreSaved' # StoreSaved
    <2> DEFINE s == SavedText(backups[d])
    <2>1. d \in DOMAIN backups
      BY <1>4, <1>6 DEF StoreSaved
    <2>2. StoreSaved = StoreSaved' \cup {s}
      BY <1>4, <2>1 DEF StoreSaved
    <2> HIDE DEF s
    <2>3. s \in StoreSaved /\ StoreSaved' = StoreSaved \ {s}
      BY <1>6, <2>2
    <2>4. Store!Drop(s)
      BY <1>2, <2>3 DEF Store!Drop
    <2> QED
      BY <2>3, <2>4 DEF StoreStepOrNone, Store!Next
  <1> QED
    BY <1>5, <1>6

LEMMA ApplyStepSeen ==
  ASSUME NEW R, CodecLaws(R), StoreInv(R), NEW t, Thread = {t},
         ApplyContent(t) \/ ApplyBackup(t)
  PROVE  StoreStepOrNone
  <1>t. t \in Thread /\ pc \in [Thread -> Labels]
    BY DEF StoreInv, AccountInv, TypeOK, RequestsOK
  <1>1. CASE ApplyContent(t)
    <2>1. /\ UNCHANGED <<file, metas, backups, aux_applied>> /\ pc[t] = "apply_content"
          /\ \/ pc'[t] = "apply_backup" /\ UNCHANGED local
             \/ pc'[t] = "discard_meta"
      BY <1>1, <1>t DEF ApplyContent, At, Goto
    <2>2. CASE pc'[t] = "apply_backup"
      <3>1. AskOf(t)' = AskOf(t)
        BY <2>1, <2>2 DEF AskOf, Asks
      <3>2. UNCHANGED <<StoreText, StoreOpen, AppliedIds, StoreSaved, StoreAsk>>
        BY <2>1, <2>2, <3>1, AskSeen, FilesSeenStay, PreviewsSeenStay, BackupsSeenStay DEF At
      <3> QED
        BY <3>2, NothingSeen DEF StoreStepOrNone
    <2>3. CASE pc'[t] = "discard_meta"
      BY <2>1, <2>3, RefusalSeen DEF At, Asks
    <2> QED
      BY <2>1, <2>2, <2>3
  <1>2. CASE ApplyBackup(t) /\ pc'[t] \notin Placing
    <2>1. /\ pc[t] = "apply_backup" /\ pc'[t] = "idle"
          /\ UNCHANGED <<file, metas, backups, aux_applied>>
      BY <1>2, <1>t DEF ApplyBackup, At, Finish, Goto, Placing
    <2> QED
      BY <2>1, RefusalSeen DEF At, Asks
  <1>3. CASE ApplyBackup(t) /\ pc'[t] \in Placing
    BY <1>3, BackupSeen
  <1> QED
    BY <1>1, <1>2, <1>3

\* The step after which the new text is the file's
LEMMA PlacingSeen ==
  ASSUME NEW R, CodecLaws(R), StoreInv(R), NEW t, Thread = {t},
         pc[t] \in {"write_temp", "remove_target"}, pc'[t] = "rename_temp",
         UNCHANGED <<metas, backups, aux_applied, local>>,
         \A q \in Path : q # local[t].path => file'[q] = file[q],
         local[t].kind = "apply" \/ local[t].found.exists
  PROVE  StoreStepOrNone
  <1> DEFINE l == local[t]
             a == StoreAsk[t]
  <1>t. /\ t \in Thread /\ TypeOK /\ FilesHold(R) /\ CarriesBase(t) /\ CarriesId(t)
        /\ Undisturbed(t) /\ 0 \notin DOMAIN metas
    BY DEF StagedInv, StoreInv, AccountInv, ReplaceInv, TypeOK, RecordsOK
  <1>s. l.path \in Path /\ l.kind \in Kinds /\ l.id \in Nat /\ (l.kind = "rollback" => l.id = 0)
    BY <1>t DEF TypeOK, RequestsOK, Serves, LocalOK, Previewing
  <1>1. a = [kind |-> l.kind, id |-> l.id, path |-> l.path, base |-> Named(l.base),
             text |-> Plain(l.text)]
    <2>1. AskOf(t) = [kind |-> l.kind, id |-> l.id, path |-> l.path, base |-> Named(l.base),
                      text |-> Plain(l.text)]
      BY <1>s DEF AskOf, Asks, Kinds
    <2> QED
      BY <2>1, AskSeen
  <1>2. /\ a.kind = l.kind /\ a.id = l.id /\ a.path = l.path /\ a.base = Named(l.base)
        /\ a.text = Plain(l.text)
    BY <1>1
  <1>3. a # Store!Nothing
    <2>1. Store!Nothing.kind = "none"
      BY DEF Store!Nothing
    <2> QED
      BY <1>2, <1>s, <2>1 DEF Kinds
  <1>4. AppliedIds = aux_applied /\ StoreText[l.path] = TextOf(file[l.path])
    BY <1>s, SeenAsItIs
  <1>5. ASSUME l.kind = "apply"
        PROVE  /\ Named(l.base) \in {AnyText, StoreText[l.path]}
               /\ <<l.path, StoreText[l.path]>> \in StoreSaved
               /\ l.id \in DOMAIN StoreOpen \cup {0}
    <2>1. Named(l.base) \in {AnyText, StoreText[l.path]}
      BY <1>4, <1>5, <1>t DEF CarriesBase, Names
    <2>2. PICK b \in DOMAIN backups :
            /\ file[l.path] = l.found
            /\ backups[b].path = l.path /\ backups[b].existed = l.found.exists
            /\ backups[b].content = Backup(l.found.content)
      BY <1>5, <1>t DEF Undisturbed
    <2>3. Plain(Backup(l.found.content)) = Plain(l.found.content)
      BY <1>s, <1>t, <2>2, BackupLaw DEF FilesHold, FileHolds
    <2>4. SavedText(backups[b]) = <<l.path, StoreText[l.path]>>
      BY <1>4, <2>2, <2>3 DEF SavedText, TextOf
    <2>5. SavedText(backups[b]) \in StoreSaved
      BY DEF StoreSaved
    <2>6. l.id \in DOMAIN StoreOpen \cup {0}
      BY <1>4, <1>t DEF CarriesId, Unspent, Placing, StoreOpen
    <2> QED
      BY <2>1, <2>4, <2>5, <2>6
  <1>6. StoreText' = [StoreText EXCEPT ![l.path] = Plain(l.text)]
    <2>1. \A p \in Path : TextVia(t, p)' = IF p = l.path THEN Plain(l.text) ELSE TextOf(file[p])
      BY DEF TextVia, At
    <2>2. StoreText' = [p \in Path |-> TextVia(t, p)']
      BY SeenOfOne
    <2>3. StoreText = [p \in Path |-> TextOf(file[p])]
      <3>1. DOMAIN StoreText = Path /\ StoreText = [p \in Path |-> StoreText[p]]
        BY DEF StoreText
      <3> QED
        BY <3>1, SeenAsItIs
    <2> QED
      BY <2>1, <2>2, <2>3, <1>s
  <1>7. AppliedIds' = AppliedIds \cup ({l.id} \ {0})
    <2>1. AppliedIds' = AppliedVia(t)'
      BY SeenOfOne
    <2> QED
      BY <1>4, <2>1 DEF AppliedVia, At
  <1>8. StoreOpen' = Store!Restrict(StoreOpen, DOMAIN StoreOpen \ {l.id})
    <2>1. DOMAIN metas \ AppliedIds' = (DOMAIN metas \ AppliedIds) \ {l.id}
      BY <1>7, <1>t
    <2>2. StoreOpen' = [i \in DOMAIN metas \ AppliedIds' |-> Offer(metas[i])]
      BY DEF StoreOpen, Offer
    <2> QED
      BY <2>1, <2>2 DEF StoreOpen, Store!Restrict
  <1>9. StoreAsk' = [StoreAsk EXCEPT ![t] = Store!Nothing]
    <2>1. ~Asks(t)'
      BY DEF Asks
    <2> QED
      BY <2>1, AskSeen
  <1>10. UNCHANGED StoreSaved
    BY BackupsSeenStay
  <1> HIDE DEF a
  <1>11. Store!Commit(t)
    BY <1>2, <1>3, <1>5, <1>6, <1>7, <1>8, <1>9, <1>10 DEF Store!Commit, Store!NoId, a
  <1> QED
    BY <1>t, <1>11 DEF StoreStepOrNone, Store!Next

\* A rollback to "did not exist" is done with the removal.
LEMMA RemovalSeen ==
  ASSUME NEW R, CodecLaws(R), StoreInv(R), NEW t, Thread = {t}, RemoveTarget(t),
         ~local[t].found.exists
  PROVE  StoreStepOrNone
  <1> DEFINE l == local[t]
             a == StoreAsk[t]
  <1>t. t \in Thread /\ TypeOK /\ pc \in [Thread -> Labels] /\ 0 \notin DOMAIN metas
    BY DEF StoreInv, AccountInv, TypeOK, RecordsOK, RequestsOK
  <1>1. /\ pc[t] = "remove_target" /\ pc'[t] = "list_backups"
        /\ file' = [file EXCEPT ![l.path] = Missing]
        /\ UNCHANGED <<metas, backups, aux_applied, local>>
    BY <1>t DEF RemoveTarget, At, Goto
  <1>s. l.path \in Path /\ l.kind = "rollback" /\ l.id = 0
    BY <1>t, <1>1 DEF TypeOK, RequestsOK, Serves, LocalOK, Kinds, Previewing
  <1>2. a = [kind |-> "rollback", id |-> 0, path |-> l.path, base |-> Named(l.base),
             text |-> NoText]
    <2>1. AskOf(t) = [kind |-> "rollback", id |-> 0, path |-> l.path, base |-> Named(l.base),
                      text |-> NoText]
      BY <1>s, <1>1 DEF AskOf, Asks
    <2> QED
      BY <2>1, AskSeen
  <1>3. /\ a.kind = "rollback" /\ a.id = 0 /\ a.path = l.path /\ a.text = NoText
        /\ a # Store!Nothing
    <2>1. Store!Nothing.kind = "none"
      BY DEF Store!Nothing
    <2> HIDE DEF a
    <2>2. a.kind = "rollback" /\ a.id = 0 /\ a.path = l.path /\ a.text = NoText
      BY <1>2
    <2> QED
      BY <2>1, <2>2
  <1>4. StoreText' = [StoreText EXCEPT ![l.path] = NoText]
    <2>1. \A p \in Path : TextVia(t, p)' = IF p = l.path THEN NoText ELSE TextOf(file[p])
      <3>1. \A p \in Path : file'[p] = IF p = l.path THEN Missing ELSE file[p]
        BY <1>1, <1>t DEF TypeOK, FilesOK
      <3>2. TextOf(Missing) = NoText
        BY DEF TextOf, Missing
      <3>3. \A p \in Path : TextOf(file'[p]) = IF p = l.path THEN NoText ELSE TextOf(file[p])
        BY <3>1, <3>2
      <3> QED
        BY <1>1, <3>3 DEF TextVia, At, TextOf
    <2>2. StoreText' = [p \in Path |-> TextVia(t, p)']
      BY SeenOfOne
    <2>3. StoreText = [p \in Path |-> TextOf(file[p])]
      <3>1. DOMAIN StoreText = Path /\ StoreText = [p \in Path |-> StoreText[p]]
        BY DEF StoreText
      <3> QED
        BY <1>1, <3>1, SeenAsItIs
    <2> QED
      BY <2>1, <2>2, <2>3, <1>s
  <1>5. AppliedIds' = AppliedIds
    <2>1. AppliedIds' = AppliedVia(t)' /\ AppliedIds = AppliedVia(t)
      BY SeenOfOne
    <2> QED
      BY <1>1, <2>1 DEF AppliedVia, At
  <1>6. UNCHANGED <<StoreOpen, StoreSaved>>
    BY <1>1, <1>5, PreviewsSeenStay, BackupsSeenStay
  <1>7. StoreOpen' = Store!Restrict(StoreOpen, DOMAIN StoreOpen \ {0})
    <2>1. DOMAIN StoreOpen \ {0} = DOMAIN StoreOpen
      BY <1>t DEF StoreOpen
    <2>2. StoreOpen = [i \in DOMAIN StoreOpen |-> StoreOpen[i]]
      BY DEF StoreOpen
    <2> QED
      BY <1>6, <2>1, <2>2 DEF Store!Restrict
  <1>8. StoreAsk' = [StoreAsk EXCEPT ![t] = Store!Nothing]
    <2>1. ~Asks(t)'
      BY <1>1 DEF Asks
    <2> QED
      BY <2>1, AskSeen
  <1> HIDE DEF a
  <1>9. Store!Commit(t)
    BY <1>3, <1>4, <1>5, <1>6, <1>7, <1>8 DEF Store!Commit, Store!NoId, a
  <1> QED
    BY <1>t, <1>9 DEF StoreStepOrNone, Store!Next

LEMMA RenameSeen ==
  ASSUME NEW R, CodecLaws(R), StoreInv(R), NEW t, Thread = {t}, RenameTemp(t)
  PROVE  StoreStepOrNone
  <1> DEFINE l == local[t]
             staged == temp[l.kind][l.path]
  <1>t. t \in Thread /\ TypeOK /\ Staged(t) /\ pc \in [Thread -> Labels]
    BY DEF StoreInv, AccountInv, ReplaceInv, StagedInv, TypeOK, RequestsOK
  <1>s. l.path \in Path /\ pc[t] = "rename_temp"
    BY <1>t DEF TypeOK, RequestsOK, Serves, RenameTemp, At
  <1>1. staged # NoTemp /\ staged[1].content = l.text /\ staged[1].by = l.id
    BY <1>s, <1>t DEF Staged, At
  <1>2. /\ file' = [file EXCEPT ![l.path] = [exists |-> TRUE, content |-> staged[1].content,
                                             mtime |-> staged[1].mtime]]
        /\ aux_applied' = aux_applied \cup ({l.id} \ {0})
        /\ pc'[t] = "list_backups" /\ UNCHANGED <<metas, backups>>
    BY <1>1, <1>t DEF RenameTemp, Goto
  <1>3. AppliedIds' = AppliedIds
    <2>1. AppliedIds' = AppliedVia(t)' /\ AppliedIds = AppliedVia(t)
      BY SeenOfOne
    <2> QED
      BY <1>s, <1>2, <2>1 DEF AppliedVia, At
  <1>4. StoreText' = StoreText
    <2>1. \A p \in Path : TextVia(t, p)' = TextVia(t, p)
      <3> DEFINE new == [exists |-> TRUE, content |-> staged[1].content,
                         mtime |-> staged[1].mtime]
      <3>1. \A p \in Path : file'[p] = IF p = l.path THEN new ELSE file[p]
        BY <1>2, <1>t DEF TypeOK, FilesOK
      <3>2. TextOf(new) = Plain(l.text)
        BY <1>1 DEF TextOf
      <3> HIDE DEF new
      <3>3. \A p \in Path : TextOf(file'[p]) = IF p = l.path THEN Plain(l.text) ELSE TextOf(file[p])
        BY <3>1, <3>2
      <3>4. \A p \in Path : TextVia(t, p)' = TextOf(file'[p])
        BY <1>2 DEF TextVia, At, TextOf
      <3>5. \A p \in Path : TextVia(t, p) = IF p = l.path THEN Plain(l.text) ELSE TextOf(file[p])
        BY <1>s DEF TextVia, At
      <3> QED
        BY <3>3, <3>4, <3>5
    <2>2. StoreText' = [p \in Path |-> TextVia(t, p)'] /\ StoreText = [p \in Path |-> TextVia(t, p)]
      BY SeenOfOne
    <2> QED
      BY <2>1, <2>2
  <1>5. StoreAsk' = StoreAsk
    BY <1>s, <1>2, NotAsked DEF Asks
  <1> QED
    BY <1>2, <1>3, <1>4, <1>5, PreviewsSeenStay, BackupsSeenStay, NothingSeen DEF StoreStepOrNone

LEMMA PlaceStepSeen ==
  ASSUME NEW R, CodecLaws(R), StoreInv(R), NEW t, Thread = {t},
         WriteTemp(t) \/ RemoveTarget(t) \/ RenameTemp(t)
  PROVE  StoreStepOrNone
  <1> DEFINE l == local[t]
  <1>t. t \in Thread /\ TypeOK /\ pc \in [Thread -> Labels] /\ Serves(pc[t], l)
    BY DEF StoreInv, AccountInv, TypeOK, RequestsOK
  <1>1. CASE WriteTemp(t)
    <2>1. /\ pc[t] = "write_temp" /\ UNCHANGED <<file, metas, backups, aux_applied, local>>
          /\ pc'[t] = IF l.found.exists THEN "remove_target" ELSE "rename_temp"
          /\ l.kind = "apply" \/ l.found.exists
      BY <1>1, <1>t DEF WriteTemp, At, Goto, Serves
    <2>2. CASE l.found.exists
      <3>1. AskOf(t)' = AskOf(t)
        BY <2>1, <2>2 DEF AskOf, Asks
      <3>2. UNCHANGED <<StoreText, StoreOpen, AppliedIds, StoreSaved, StoreAsk>>
        BY <2>1, <2>2, <3>1, AskSeen, FilesSeenStay, PreviewsSeenStay, BackupsSeenStay DEF At
      <3> QED
        BY <3>2, NothingSeen DEF StoreStepOrNone
    <2>3. CASE ~l.found.exists
      BY <2>1, <2>3, PlacingSeen
    <2> QED
      BY <2>2, <2>3
  <1>2. CASE RemoveTarget(t) /\ l.found.exists
    <2>1. /\ pc[t] = "remove_target" /\ pc'[t] = "rename_temp"
          /\ UNCHANGED <<metas, backups, aux_applied, local>>
          /\ file' = [file EXCEPT ![l.path] = Missing]
      BY <1>2, <1>t DEF RemoveTarget, At, Goto
    <2>2. \A q \in Path : q # l.path => file'[q] = file[q]
      BY <2>1, <1>t DEF TypeOK, FilesOK
    <2> QED
      BY <1>2, <2>1, <2>2, PlacingSeen
  <1>3. CASE RemoveTarget(t) /\ ~l.found.exists
    BY <1>3, RemovalSeen
  <1>4. CASE RenameTemp(t)
    BY <1>4, RenameSeen
  <1> QED
    BY <1>1, <1>2, <1>3, <1>4

LEMMA EnvironmentSeen ==
  ASSUME NEW R, EditorsWait, StoreInv(R), NEW t, Thread = {t},
         OutsideEdit \/ Tick \/ UNCHANGED vars
  PROVE  StoreStepOrNone
  <1>t. TypeOK
    BY DEF StoreInv, AccountInv
  <1>1. UNCHANGED <<metas, backups, pc, local, aux_applied>>
    BY DEF OutsideEdit, Tick, vars
  <1>2. UNCHANGED <<AppliedIds, StoreOpen, StoreSaved, StoreAsk>>
    <2>1. AppliedIds' = AppliedIds
      BY <1>1 DEF AppliedIds, At
    <2>2. AskOf(t)' = AskOf(t)
      BY <1>1 DEF AskOf, Asks
    <2> QED
      BY <1>1, <2>1, <2>2, PreviewsSeenStay, BackupsSeenStay, AskSeen
  <1>3. CASE UNCHANGED file
    <2>1. \A p \in Path : TextVia(t, p)' = TextVia(t, p)
      BY <1>1, <1>3 DEF TextVia, At
    <2>2. UNCHANGED StoreText
      BY <2>1, SeenOfOne
    <2> QED
      BY <1>2, <2>2, NothingSeen DEF StoreStepOrNone
  <1>4. CASE OutsideEdit
    <2>1. PICK p \in Path, d \in OutsideTexts :
            file' = [file EXCEPT ![p] = [exists |-> TRUE, content |-> d, mtime |-> now]]
      BY <1>4 DEF OutsideEdit
    <2>2. pc[t] = "idle"
      BY <1>4 DEF OutsideEdit, At
    <2>3. StoreText' = [StoreText EXCEPT ![p] = Plain(d)]
      <3> DEFINE new == [exists |-> TRUE, content |-> d, mtime |-> now]
      <3>1. \A q \in Path : file'[q] = IF q = p THEN new ELSE file[q]
        BY <2>1, <1>t DEF TypeOK, FilesOK
      <3>2. TextOf(new) = Plain(d)
        BY DEF TextOf
      <3> HIDE DEF new
      <3>3. \A q \in Path : TextOf(file'[q]) = IF q = p THEN Plain(d) ELSE TextOf(file[q])
        BY <3>1, <3>2
      <3>4. \A q \in Path : TextVia(t, q)' = TextOf(file'[q])
        BY <1>1, <2>2 DEF TextVia, At, TextOf
      <3>5. StoreText' = [q \in Path |-> TextVia(t, q)']
        BY SeenOfOne
      <3>6. StoreText = [q \in Path |-> TextOf(file[q])]
        <4>1. DOMAIN StoreText = Path /\ StoreText = [q \in Path |-> StoreText[q]]
          BY DEF StoreText
        <4> QED
          BY <2>2, <4>1, SeenAsItIs
      <3> QED
        BY <3>3, <3>4, <3>5, <3>6
    <2>4. Plain(d) \in {Plain(text) : text \in OutsideTexts}
      OBVIOUS
    <2>5. Store!Edit(p)
      BY <1>2, <2>3, <2>4 DEF Store!Edit
    <2> QED
      BY <2>5 DEF StoreStepOrNone, Store!Next
  <1> QED
    BY <1>3, <1>4 DEF Tick, vars

LEMMA StoreSteps ==
  ASSUME NEW R, CodecLaws(R), OneHandler, EditorsWait, MaxCrashes = 0, WholeBases
  PROVE  StoreInv(R) /\ [Next]_vars => [Store!Next]_Store!vars
  <1> SUFFICES ASSUME StoreInv(R), [Next]_vars PROVE StoreStepOrNone
    BY DEF StoreStepOrNone
  <1>t. PICK t : Thread = {t}
    BY DEF OneHandler
  <1>1. crashes = 0
    BY DEF StoreInv, KeptInv, WholeInv
  <1>2. CASE Request(t)
    BY <1>2, <1>t, RequestSeen
  <1>3. CASE Step(t)
    <2>1. CASE PreviewMeta(t)
      BY <1>t, <2>1, PreviewSeen
    <2>2. CASE ApplyContent(t) \/ ApplyBackup(t)
      BY <1>t, <2>2, ApplyStepSeen
    <2>3. CASE WriteTemp(t) \/ RemoveTarget(t) \/ RenameTemp(t)
      BY <1>t, <2>3, PlaceStepSeen
    <2>4. CASE DiscardMeta(t)
      BY <1>t, <2>4, DiscardSeen
    <2>5. CASE RemoveBackup(t)
      BY <1>t, <2>5, DropSeen
    <2>6. CASE \/ PreviewContent(t) \/ PreviewList(t) \/ EvictStatus(t) \/ DiscardContent(t)
               \/ ListStatuses(t) \/ RemoveStatus(t) \/ ListBackups(t) \/ ApplyStatus(t)
      BY <1>t, <2>6, HiddenSeen
    <2> QED
      BY <1>3, <2>1, <2>2, <2>3, <2>4, <2>5, <2>6 DEF Step
  <1>4. CASE OutsideEdit \/ Tick \/ UNCHANGED vars
    BY <1>4, <1>t, EnvironmentSeen
  <1> QED
    BY <1>1, <1>2, <1>3, <1>4, <1>t, NoCrash

LEMMA StoreStarts == Init => Store!Init
  <1> SUFFICES ASSUME Init PROVE Store!Init
    OBVIOUS
  <1>1. /\ \A t \in Thread : ~At(t, "rename_temp") /\ ~Asks(t)
        /\ DOMAIN metas = {} /\ DOMAIN backups = {} /\ aux_applied = {}
    BY DEF Init, At, Asks
  <1>2. StoreText = [p \in Path |-> IF p \in InitialFiles THEN Plain(InitialText) ELSE NoText]
    <2>1. \A p : Replacing(p) = {}
      BY <1>1 DEF Replacing
    <2>2. \A p \in Path : TextOf(file[p]) =
                            IF p \in InitialFiles THEN Plain(InitialText) ELSE NoText
      BY DEF Init, TextOf, Missing
    <2> QED
      BY <2>1, <2>2 DEF StoreText, TextNow
  <1>3. AppliedIds = {}
    BY <1>1 DEF AppliedIds
  <1>4. StoreOpen = <<>>
    <2>1. DOMAIN metas \ AppliedIds = {}
      BY <1>1
    <2> QED
      BY <2>1 DEF StoreOpen
  <1>5. StoreSaved = {}
    BY <1>1 DEF StoreSaved
  <1>6. StoreAsk = [t \in Thread |-> Store!Nothing]
    BY <1>1 DEF StoreAsk, AskOf, Store!Nothing, Store!NoId
  <1> QED
    BY <1>2, <1>3, <1>4, <1>5, <1>6 DEF Store!Init

\* One request at a time, served by a daemon that does not die, is to its clients one
\* step of a store of whole files: a file goes from the version a client named to the text
\* it asked for, after the old one was saved, and a preview is applied once
\* (patch_apply, patch_rollback; README.md: PATCH_CONFLICT, PREVIEW_CONSUMED).
THEOREM ServiceIsAStore ==
  ASSUME NEW C, MarksAreFirst(C), OneHandler, EditorsWait, MaxCrashes = 0, WholeBases
  PROVE  Spec => IsAStore
  <1>0. PICK R : R = MarkedFirst(C)
    OBVIOUS
  <1>c. CodecLaws(R)
    BY <1>0, CodecLawsHold
  <1>1. Init => StoreInv(R)
    BY <1>c, StoreInit
  <1>2. StoreInv(R) /\ [Next]_vars => StoreInv(R)'
    BY <1>c, StoreNext
  <1>3. StoreInv(R) /\ [Next]_vars => [Store!Next]_Store!vars
    BY <1>c, StoreSteps
  <1>4. Init => Store!Init
    BY StoreStarts
  <1> QED
    BY <1>1, <1>2, <1>3, <1>4, PTL DEF Spec, IsAStore, Store!Spec
=============================================================================
