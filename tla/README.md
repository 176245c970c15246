# A specification of the AI bridge

The bridge (`ai_bridge_daemon`) lets coding agents read, search and edit the files of
one workspace: through previews and patches of single files, and through *sessions*
that stage edits, check them against the workspace and commit them file by file.
Clients (the CLI, the SDKs, the editor extension) send one JSON request per connection;
the daemon gives every connection a thread. Apart from the set of cancelled request ids
it keeps no state in memory: sessions, previews, backups and histories are files under
`.bridge/`, written without locks and without an atomic replace. What can go wrong is
therefore almost always the same thing: a handler reads files, decides, and writes other
files some time later, while another handler, an editor or a crash gets in between.

This directory holds TLA+ modules of the parts where that matters, TLC configurations
that check them on small instances, and TLAPS proofs for instances of every size.

## 1. The system's parts

| part | source | state | operations | module |
|---|---|---|---|---|
| session service | `session_service.cpp` | `.bridge/sessions/<id>/`: `session.json`, `changes/*`, `commit.json` | begin, add and the `edit.*` family, drop change/path, abort, recovery check/rebase, preview, commit; inspect and recover only read, snapshot writes a copy of what it read | `SessionService`, `LineEdit` |
| structure adapters | `structure_adapters.cpp` | none of its own | read the file as the session would leave it, edit a Markdown section, a JSON or YAML value, an HTML node or attribute, stage the new text as a whole-file rewrite | `MarkdownText`, `DataTree`, `JsonText`, `YamlText`, `HtmlText`; the staging in `SessionService` |
| patch service | `patch_service.cpp` | `.bridge/previews/*.{meta,content,status}`, `.bridge/backups/*`, the target and its temporary file | preview, apply, rollback, retention, expiry | `PatchService`, `TextCodec`; what it promises in `PatchStore` |
| request streaming | `bridge_daemon/main.cpp`, `handle_request_stream`, stream loops of file, search and patch service, `error_codes.cpp` | the set of cancelled request ids | serve, chunk, cancel, time out, clear | `RequestStream`; what it promises in `StreamPromise` |
| file operations | `file_service.cpp`, `file_ops_extra.cpp` | the workspace | write, mkdir, move, copy, rename | `FileOps` |
| path policy, workspace | `path_policy.cpp`, `workspace.cpp` | none | resolve a path, deny `.bridge` | `Deny` in `FileOps`, constants of the other modules |
| logging and history | `logging.cpp`, history in `patch_service.cpp` | `runtime.log`, `audit.log`, `history.log` and their generations | append, rotate, list | `LogFile` |
| search | `search_service.cpp` | none | text and regex search | interrupts in `RequestStream` |
| transport | `transport_posix.cpp`, `transport_windows.cpp` | socket | hello, frames both ways, a thread per connection, timeouts | `Connection` |
| instance lock | `runtime*.cpp`, `instance.cpp` | lock file, the endpoint's path | one daemon per instance | `Connection` |
| CLI | `apps/bridge_cli/main.cpp` | none | one request, an exit code | `Connection` |
| SDKs, extension | `sdk`, `extensions` | none | run the CLI | not modelled |

How they interact: a connection's thread calls `handle_request_stream`, which calls one
operation of one service. `session_commit` calls `patch_preview` and `patch_apply` for
each file; the structure adapters call the session service; streamed operations call
back into the transport for every chunk and into the daemon's cancel set between chunks.
All services share the workspace's files, with each other and with editors that know
nothing of the bridge.

What makes each part correct:

* *session service*: a commit writes what was staged and previewed, where it was staged,
  once; an edit by somebody else is noticed; the state in `session.json` agrees with the
  changes and with the commit record, also after a crash.
* *patch service*: an apply replaces exactly the version its client has seen, what it
  replaces can be had back, no file is lost, and every preview a client was given is
  still there or says what became of it.
* *file operations*: what is asked for happens whole or the source is still there; only
  requests that may overwrite take a text away.
* *structure adapters*: an edit changes the place it names and nothing else, and what is
  read and written again says the same.
* *logs*: rotation throws away the oldest records only, and a listing shows what is there.
* *transport, lock, CLI*: a daemon that serves can be reached, nobody waits for ever, and
  an exit code says truly whether the request was carried out.
* *streaming*: every request ends; a client gets its chunks in order and one final frame;
  a cancel stops the request it names, soon, and no other.

## 2. Modules

`LineEdit` is pure: the text algorithms of the session service as operators over
sequences of symbols. NL and CR are constants, any other symbol is text. `Lines` /
`JoinLines` are `make_document_from_content` / `join_lines`; `LocateCandidates` and
`ResolveCandidate` are the selectors; `CanApply` / `ApplyChange` are
`apply_change_to_content`, its success and its result; `CanRebase` is
`change_can_rebase_on_content`; `CanStage` / `Stage` are what the `edit_*` functions
accept and record.

`TextCodec` (EXTENDS `LineEdit`) is `read_text_file` and `encode_text`: what remains of
a file's bytes when they are read as text and written back.

`TextLemmas` (EXTENDS `TextCodec`) proves what the codec makes of texts of every length.

`TextCheck` (EXTENDS `TextCodec`) grows a file symbol by symbol and states what the
operators of both must do.

`SessionService` (EXTENDS `TextCodec`) is one session, its workspace, any number of
handlers of it, editors outside the bridge, and crashes.

| variable | in the code |
|---|---|
| `file` | the workspace: existence, content and mtime. Modifications are counted, so that a version has an mtime of its own, as `fingerprint_file`'s nanoseconds do |
| `state` | `state` of `session.json`; "torn" is the empty file that a crash inside `write_text` leaves |
| `changes` | `changes/<ordinal>-<id>.json` |
| `record` | `commit.json` |
| `pc`, `seen`, `local` | a handler's position, the state in the `SessionMeta` it loaded, its other locals |
| `aux_applied`, `aux_previewed`, `aux_found` | history only: what was written, what was shown, what a request came upon |

One step of a handler runs up to and including its next write, or up to where it reads
again what another actor may have written. `session_add` is thus `EditStage` (check and
build the change), `StageWrite` (`save_change`), `StageSave` (`save_meta`);
`session_commit` is `Commit` (the gate, `Passes`), `CommitPlan`, then for each file
`CommitNext` (state "writing", `patch_preview`), `CommitWrite` or `CommitMismatch`
(`patch_apply`) and `CommitVerify`, then `CommitRecord` and `CommitClose`. Here
`patch_apply` is one step; `PatchService` looks inside it.

`PatchService` (EXTENDS `TextCodec`) is the patch service file by file: a preview's
metadata, content and status are separate variables because they are separate files, and
putting a text in place is `WriteTemp`, `RemoveTarget`, `RenameTemp`. `now` is the clock
at the resolution in which mtimes are compared and retention sorts: a save within the
same tick has the same mtime. Temporary files are one per target and kind, as the code
names them, and are shared by all handlers: the entry's `by` tells whose text is in one.
Whatever is cleaned up is listed once and then removed file by file (`ListStatuses`,
`RemoveStatus`; `ListBackups`, `RemoveBackup`; `PreviewList`, `EvictStatus`,
`DiscardMeta`, `DiscardContent`), other handlers' steps in between. `Retained` leaves the
choice among files of equal age open, as `std::sort` does.

`PatchStore` is what the patch service promises: files that change in one step, each
change a compare-and-swap on the version that was asked for, with what it replaces saved
before, from a preview that can be applied once. `IsAStore` in `PatchService` says that
the service implements it. The mapping: while a handler is between removing a file and
renaming its temporary one, the file has the new text (`TextNow`) and its preview counts
as applied (`AppliedIds`); an open preview is one with metadata that was not applied;
saved texts are the backups; what a handler is asked for (`ask`) it is asked until it
takes the old file away. Texts are compared up to line ends and marks (`Plain`), which
`TextCheck` looks into.

`RequestStream` is the daemon's cancel set and the requests' threads. `req[t].left`
counts the places where a request still looks up: chunks for files and diffs, lines and
directory entries for a search. `late[t]` becomes true when the request's time is up;
the code notices at its next look at the clock. `use` numbers the requests that have had
one id, which the daemon itself cannot tell apart. Cancels come at any time, whether or
not a request with their id runs. A send has no timeout on the daemon's side: `stalled[t]`
is a client that stays connected and does not read, to which nothing can be sent
(`CanSend`).

`StreamPromise` is what the client of a connection may count on: chunks, then one final
frame with a true reason. It knows neither ids nor the cancel set: whether *this* request
was asked to end is the variable `asked`. `KeepsPromise` in `RequestStream` says that
every connection implements it, by what its client has been sent. A cancelled request is
promised `REQUEST_CANCELLED`, whatever its method, as docs/04 has it.

`Connection` is the way of a CLI run to a daemon and back: the instance's lock and
endpoint path (`Acquire`, `Unlink`, `Bind`, `Listen` in the order of the daemon's `main`
and `run_server_stream`), a thread per connection (`Accept`, `ServeHello`,
`ServeRequest`, `SendFrame`: `handle_client`), the client (`Connect`, `AwaitAck`,
`ReadFrame`, `StopReading`, `GiveUp`: `send_request_stream` and the exit code of
`main`), and `Die` for daemons at any point. `up[c]` and `down[c]` are the frames
in the socket; `down` holds at most `Buffer`.

`LogFile` is a log with its generations, as names that lead to files: whoever has opened
the log goes on writing to the same file after a rename. `CheckSize`, `Shift` (one
`rename` each), `Roll`, `Open`, `Write` are `append_line` and `append_history` with
their rotation; `StartList`, `SeeName`, `ReadFile` are `history_files` and
`history_list`.

The structure adapters are pure, and so are their modules. `DataTree` has the trees of
the JSON and YAML adapters and the edits at key paths; `JsonText` and `YamlText` read and
write them, as tokens and as lines; `MarkdownText` has the sections and `HtmlText` the
nodes and attributes. Texts are sequences of the units the adapters work on: a
token's or a word's spelling matters only where the code looks at it (escapes, names that
begin or end like others, quotes, line ends). `MarkupCheck` builds Markdown and HTML files
line by line and tag by tag and states what their edits must do, `StructureCheck` the same
for JSON and YAML, and drives them all. A part of an HTML file says both what it is
(`kind`) and what its characters look like to the code (`seen`), which tells a tag from one in
a comment, and an empty element from one whose `/>` is hidden behind a `>` in a value. The text
of a tag is a sequence of names, quotes and words, since `html_set_attribute` looks for a
name and `=` anywhere in it, in the values of other attributes too.

`FileOps` is `fs_write`, `fs_mkdir`, `fs_move`, `fs_copy` and `fs_rename` on a tree:
`tree` says for each path whether it is nothing, a directory or a file with a text. A
request goes through `create_parents` (`ensure_parent_directory`), `check_target` (the
existence test), `remove` (`remove_existing_path`, entry by entry), and `place` (the
rename, or the listing of a copy) followed by `copy_entry`; a write through `write_temp`,
`remove_old` and `place`. `CanRename` is when rename(2) succeeds (a path below all of `Path`
is too long), `Denied` the verdict
of `resolve_under_workspace`. `Named` are the paths clients name: temporary files have
names of their own. `aux_before` is history: the tree as a request found it.

`MC*` modules give the constants their values. Definitions whose comment begins with
"Mutant" are no part of the specifications: each is a plausible bug in the definition
that follows it, and shows that the properties can fail.

## 3. Runs

Bounds are named in the constants' comments: `MaxChanges`, `MaxMtime`, `MaxCrashes`,
`MaxIds`, `MaxClock`, `MaxUnits`, `MaxRequests`, `MaxCancels`, `MaxRecords`, `MaxChunks`,
`Buffer`, `MaxLength`, `MaxLines`, `MaxTokens`, `MaxTags`. They guard the first step of a
request (or the environment's step), so no request is ever stuck half way; `Buffer` is
the size of a socket, and a full one is part of the behaviour. All runs set
`CHECK_DEADLOCK FALSE`: within its bounds a model comes to a rest when nobody sends
requests any more.

Passing runs:

| run | question | instance |
|---|---|---|
| `MCText` | do selecting, staging, rebasing and applying agree, what do backup and rewrite keep of the bytes, do structural edits stay in their place? | files of up to 4 symbols out of two letters, NL and CR, with and without a mark; self-overlapping queries, anchors, both counting directions, ranges 0..3; Markdown and YAML of up to 4 lines, JSON of up to 5 tokens, HTML of up to 5 tags and comments, tags with names, values and names inside values, all trees of two levels |
| `MCSessionFlow` | do state, changes and preview agree, is a closed session left alone, is it enough to compare the first change of a file? | 1 handler, 1 file that editors change and delete, 4 changes, 4 modifications: staging, drop and re-staging around an edit |
| `MCSessionCrash` | does a lone change fit where it lands, is nothing written twice, is the record complete? | 1 handler, 2 files, 2 changes, a crash anywhere, block and range edits |
| `MCSessionThreads` | does a committed session have its record? | 2 handlers, 2 files of which `patch_apply` refuses one, a crash |
| `MCSessionEdits` | which edits does a commit never overwrite, if editors save at any time? | 2 handlers, 1 file, 1 change, 3 modifications, edits between any two steps of a commit |
| `MCPatchSolo` | does the service implement the store, are previews kept whole, does retention hold? | 1 handler, 2 paths of which one is missing at first, expiry, all limits 1, 3 ids, 3 ticks |
| `MCPatchCrash` | does an apply replace the version it names, backed up, with its own text, is "applied" true, is no text lost, and does no preview vanish? | 1 path, 2 texts, a crash anywhere, edits within one tick |
| `MCStream` | does every connection keep the stream's promise, are cancels prompt and cleaned up, does every request end? | 2 connections, 2 ids, searches and file reads of up to 2 chunks, a cancel at any time, timeouts, hang-ups, clients that do not read; a read without chunks takes the steps of other methods |
| `MCFileOps` | is a source safe until the operation has succeeded, is no text lost unasked, is success what was asked? | 1 handler, 3 requests, a crash anywhere; two names at two levels and a third below one of them, so that a directory can move up and down |
| `MCLog` | does rotation lose the oldest only, does a listing miss nothing that stays? | 1 writer, 1 reader, 3 generations of 2 records, 10 records, 2 crashes |
| `MCConnection` | does the endpoint lead to the daemon that lives, are exit codes true, does everybody stop waiting? | 2 daemons, 2 clients, up to 2 chunks, a socket that holds 1 frame, timeouts, deaths |

Why these bounds are enough: the hazards need two changes to one file or two files
(order and partial commits), a third and fourth change only for ordinals that repeat
after a drop, two handlers for races, one crash per hazard and a second for a rotation
that follows an interrupted one, retention limits of 1 with at least three previews or
backups, streams with a first and a last chunk, a cancel that crosses the end of its
request, a directory with entries beside a file, a daemon that starts while another
serves or has just died, an answer longer than the socket, records enough to push out the
oldest generation, and nesting of two levels for trees, headings and tags.

Runs that end in a counterexample state what a document of the repository says and the
code does not do (`PROJECT.json`, "findings", quotes it):

| run | what happens |
|---|---|
| `MCSessionLateEdit` | gate, plan and apply base of `session_commit` are three separate reads; an edit in between is overwritten |

More such findings are stated by definitions that a run can check but no run here does:

| what happens | how to see it |
|---|---|
| a daemon that dies between the removal of a target and the rename over it leaves no file | `MaxCrashes = 1` in `MCPatchSolo.cfg`, and `FilesSurvive` as an invariant |
| two applies of one file share its temporary file: one renames the other's text, and its own preview is marked applied though its text was never written | two handlers in `MCPatchCrash.cfg`: `AppliedIsWritten` |
| a cancelled patch preview is answered `PATCH_APPLY_FAILED`, not `REQUEST_CANCELLED` | `Method = {"preview"}` in `MCStream.cfg`: `KeepsPromise` |
| a cancel that comes when its request has just ended stays in the set and stops the next one with that id | `Reuse = TRUE` in `MCStream.cfg`: `KeepsPromise` |
| the YAML adapter drops all lines after one it does not understand | `YamlKeepsLines` as an invariant of `MCText.cfg` |
| the JSON adapter takes the backslash off `\uXXXX` | `JsonIsKept` without its exception |
| a change rebased behind another is clean after the other is dropped, and its commit edits a text it was never matched with | `EveryLoneChangeLands` as a property of `MCSessionCrash.cfg` |

Several properties hold only under the discipline of their passing run (one handler at a
time, editors that wait, ids in turn). This is how the project says what a client of the
bridge has to see to. Leaving the discipline by changing one constant of the cfg shows
what is lost:

| property | run | change | what TLC then shows |
|---|---|---|---|
| `RecordMatchesChanges` | `MCSessionCrash` | two handlers | a change staged while a commit runs is in a committed session and was never written |
| `CommitWritesThePreview` | `MCSessionFlow` | a crash | dying between a staged change's file and `session.json` leaves "previewed" with an unpreviewed change |
| `LoneChangeLands` | `MCSessionCrash` | `EditorsWait = FALSE` | an edit saved between the gate and the plan is what the change meets |
| `NoTextIsLost` | `MCPatchCrash` | two handlers, no crash | two applies of one file share the temporary file; one removes the target when the other has renamed it away |
| `IsAStore` | `MCPatchSolo` | two handlers | one preview is applied by both: nothing claims it before the text is in place |
| `WritesOverBase` | `MCPatchCrash` | two handlers | two applies on one base both succeed, the second over the first |
| `WritesOverBase`, `BackedUp` | `MCPatchCrash` | `EditorsWait = FALSE` | an edit saved after the comparison is taken away, and no backup has it |
| `PreviewAccounted` | `MCPatchCrash` | two handlers | two trims of the statuses, each by a list of its own, remove more than either of them would |
| `CancelIsPrompt` | `MCStream` | `Reuse` and `Overlap` | a request that ends erases the cancel of another with its id |
| `TextsSurvive` | `MCFileOps` | two handlers | a target created after the existence test is replaced though overwriting was not asked for |
| `GenerationsKept` | `MCLog` | two writers | both find the log full; the second rotates the new, short log over generation 1 of the first |

Some guarantees are weaker than a reader of the documents might expect, and the
properties say so in their definitions: an exception there is behaviour of the code.

* `ClosedStaysClosed` lets `session.abort` turn a committed session into an aborted one.
* `CleanMeansAllCurrent` excepts sessions whose changes are numbered against their age:
  ordinals count the changes there are, so after a drop the newest can come first, and
  the gate compares only the first of a file.
* `LoneChangeLands` speaks of files with one change that was matched with the file's own
  text (`aux_own`). With several changes the second is applied to what the first has left,
  by the line numbers it was staged with; recovery_rebase compares it with that too, and
  `EveryLoneChangeLands` shows what is left of it when the first is dropped.
* A structural edit is computed on the file as the other staged changes leave it, and is
  staged as a rewrite of the whole file: dropping the others does not take their text
  out of it.
* `AppliedOncePerBase` allows a second write after a rebase: a commit that failed on its
  second file leaves the first file's changes staged.
* `RangeReplacementKeepsText` allows an empty line at the very end to be lost.
* `BytesAreKept` is up to line endings for backups: the backup of a file with mixed line ends, and
  so a rollback, is not the file.
* `EarlierEditsSurvive` excepts edits saved after the gate of a commit and before its
  `patch_preview`: `MCSessionLateEdit` shows that these are overwritten.
* `RegistryHoldsRunning` excepts ids left by a cancel that found no such request running:
  nothing takes them out but the end of a later request with that id.
* `RequestsEnd` excepts a request whose client stays connected and does not read: the
  thread waits in `send` for as long as the client likes, cancelled or late or not.
* `SourceSurvives` excepts a target that is a directory above the source. With
  "overwrite" it is removed first, with the source in it, and the request then fails.
* `session.drop_change` matches ids by a part of the file name, so that a short one drops
  every change: `Drop` has such a request.
* `SectionEditIsLocal` excepts a heading on a last line without a line end: a body that is
  put below it is appended to its title.
* `JsonIsKept` excepts strings with `\uXXXX`; `YamlIsKept` speaks of files of entries and
  of lists of scalars that are indented deeper than their keys, and of trees of maps and
  such lists: what else there is may be dropped or read back as something else.
* `TreeEditIsLocal` lets an upsert replace whatever lies on its way and is no map.
* `HtmlEditIsLocal` excepts elements that are never closed or close themselves when their
  name begins like that of the node, such tags in comments and values, attributes without
  quotes, and tags in which the name that is set and "=" come earlier, at the end of another
  name (`data-id="1"`) or in another value (`href="/?id=1"`): the code finds both by their text.
* `ListMissesNothing`: as long as not all generations exist, a listing during a rotation
  misses the file that gets a name it had not seen.
* `ExitIsTrue`: a client with a timeout takes running out of time for the end of the
  answer, so its exit code then says nothing of the request.

## 4. Fairness

`FairSpec` of `RequestStream` has weak fairness of the steps of a request's thread
(`Step(t)`) and of nothing else. The thread is detached (`run_server_stream`) and blocks
on no lock for longer than a set operation and on no other thread, so it runs on as long as
the daemon lives, but for a send: that waits for the client, has no timeout, and is not
enabled while the client does not read (`CanSend`). Clients need not send requests, read,
or hang up, and time need not run out. `FairSpec` of `Connection` has
weak fairness of a daemon's start-up, of the thread of each connection and of each
client, since each is a process or thread of its own; a send into a full socket or a
read from an empty one is simply not enabled. No daemon has to be started or to die, and
`GiveUp`, the clock, is under no fairness: `ConnectionsEnd` needs no timeouts.
`SessionService`, `PatchService`, `LogFile` and `FileOps` state no liveness: their
handlers wait for nobody and have no loop but those over lists fixed at the start.

## 5. Proofs

TLAPS proves, for any number of paths, handlers, changes, contents and crashes unless the
last column says otherwise:

| theorem | statement | assuming |
|---|---|---|
| `SessionProofs!TypeCorrect` | `Spec => []TypeOK` | the constants' assumption |
| `SessionProofs!CommitRecorded` | `Spec => []CommittedIsRecorded` | the same |
| `SessionProofs!RecordIsComplete` | `Spec => []RecordMatchesChanges` | one handler at a time |
| `SessionProofs!ClosedIsFinal` | `Spec => ClosedStaysClosed` | one handler at a time |
| `SessionProofs!AppliedOnce` | `Spec => AppliedOncePerBase` | one handler at a time |
| `SessionProofs!EarlierEditsAreKept` | `Spec => EarlierEditsSurvive` | the constants' assumption |
| `SessionProofs!StateIsTrue` | `Spec => []StateMatchesChanges` | one handler, no crash |
| `SessionProofs!PreviewIsWritten` | `Spec => CommitWritesThePreview` | one handler, `EditorsWait`, no crash |
| `SessionProofs!CleanIsCurrent` | `Spec => CleanMeansAllCurrent` | one handler at a time |
| `SessionProofs!LoneChangesLand` | `Spec => LoneChangeLands` | one handler, `EditorsWait`, `PlainEdits` |
| `PatchProofs!TypeIsCorrect` | `Spec => []TypeOK`, the shape of every record | the constants' assumption |
| `PatchProofs!NoTextIsEverLost` | `Spec => NoTextIsLost` | one handler |
| `PatchProofs!AppliedIsAlwaysWritten` | `Spec => []AppliedIsWritten` | one handler |
| `PatchProofs!PreviewsAreAlwaysAccounted` | `Spec => []PreviewAccounted` | one handler, or statuses kept for ever |
| `PatchProofs!AppliesWriteOverBase` | `Spec => WritesOverBase` | one handler, `EditorsWait` |
| `PatchProofs!AppliesAreBackedUp` | `Spec => BackedUp` | one handler, `EditorsWait` |
| `PatchProofs!PreviewsAreAlwaysWhole` | `Spec => []PreviewsAreWhole` | one handler, no crash |
| `PatchProofs!RetentionAlwaysHolds` | `Spec => []RetentionHolds` | one handler, no crash |
| `PatchProofs!ServiceIsAStore` | `Spec => IsAStore`: `PatchService` implements `PatchStore` | one handler, `EditorsWait`, no crash, `WholeBases`, `MarksAreFirst` |
| `TextCheckProofs!BytesAreAlwaysKept` | `Spec => []BytesAreKept` | `TextAssumption` |
| `TextCheckProofs!StagingAlwaysAgrees` | `Spec => []StagingAgrees` | `TextAssumption` |
| `TextCheckProofs!CandidatesAreAlwaysNumbered` | `Spec => []CandidatesAreNumbered` | `TextAssumption` |
| `TextCheckProofs!RangeReplacementAlwaysKeepsText` | `Spec => []RangeReplacementKeepsText` | `TextAssumption` |
| `TextCheckProofs!SectionEditsAreLocal` | `MarkupSpec => []SectionEditIsLocal` | `MarkupAssumption` |
| `TextCheckProofs!HtmlEditsAreLocal` | `MarkupSpec => []HtmlEditIsLocal` | `MarkupAssumption` |
| `FileOpsProofs!TreeIsAccounted` | `Spec => []TreeInv` | one handler |
| `FileOpsProofs!SourcesAlwaysSurvive` | `Spec => []SourceSurvives` | one handler |
| `FileOpsProofs!TextsAlwaysSurvive` | `Spec => TextsSurvive` | one handler |
| `FileOpsProofs!SuccessIsAsIfAtOnce` | `Spec => AsIfAtOnce` | one handler |
| `LogProofs!ListingIsComplete` | `Spec => []ListMissesNothing` | the constants' assumption |
| `LogProofs!RotationKeepsNewest` | `Spec => []GenerationsKept` | one writer |
| `StreamProofs!RegistryIsClean` | `Spec => []RegistryHoldsRunning` | `StreamAssumption` |
| `StreamProofs!PromiseIsKept` | `Spec => KeepsPromise`: `RequestStream` implements `StreamPromise` | no id is used twice, no patch previews |
| `StreamProofs!CancelIsHeard` | `Spec => []CancelIsPrompt` | no id is used twice |
| `ConnectionProofs!EndpointIsKept` | `Spec => []ServingIsReachable` | `ConnectionAssumption` |
| `ConnectionProofs!ExitCodesAreTrue` | `Spec => []ExitIsTrue` | `ConnectionAssumption` |

"One handler" is `SingleHandler` or `OneHandler`, "one writer" is `Sole`, `EditorsWait` says that no edit is saved
while a request is served, "no crash" is `MaxCrashes = 0`. They are hypotheses of the
theorems and not of the models; section 3 lists what TLC shows without the more important
ones. Where "no crash" is missing, the daemon may die between any two steps.
`MarkupSpec` is what the run `MCText` does with Markdown and HTML files; the exceptions the two
properties name are in their comments, and are what the code really does.

The session service:

* `TypeOK` is inductive with what a handler at a given label carries. The code stores the
  state it *loaded* (`seen`), so the type of `state` rests on the type of `seen`: only an
  active state is ever saved back.
* `CommittedIsRecorded` is not inductive: a handler may be about to save "committed". The
  invariant adds that every handler at `commit_close` has passed `CommitRecord`, and that
  no record is ever removed.
* `RecordMatchesChanges` needs the whole commit loop: at every label, what is written plus
  what is still planned is exactly what the changes touch, and nobody else can change
  them. `SingleHandler` is used for the last part only.
* `AppliedOncePerBase` is about mtimes: what has been applied has a base older than the
  file, and a change passes the gate only if the first base of its file is the file's
  present mtime. The invariant carries this through the steps of a commit: the applied
  ones of the planned files are older than their bases.
* `EarlierEditsSurvive` (`PlanInv`) has any number of handlers and editors that save at any
  time. What a request came upon is history (`aux_found`): no file has become older than
  it was then (`NoneNewer`), and the gate has found its changes current (`GatePassed`). If
  the file and its changes are still those when the plan is made, and when `patch_preview`
  reads the file, the plan is an outcome of the changes on the very text their first one
  names (`MadeOf`), for mtimes only grow and tell versions apart; and `patch_apply` compares
  the file with what `patch_preview` read.
* `StateMatchesChanges` (`MatchInv`): the state may be behind the changes only at the
  labels between a change's file and `session.json`, and what a handler loaded is still
  what is stored.
* `CommitWritesThePreview` (`ShownInv`): the gate of preview and commit both find the
  first change of every file with the file's own fingerprint, and a fingerprint holds the
  hash of the content. So both plans start from the content that the *changes* name,
  whatever was saved between the two requests, and choose the same outcome.
* `CleanMeansAllCurrent` (`OrderInv`): of two changes of a file where the one read later was
  also staged later, the later one is current if the earlier one is, or a rebase has still
  to come to it (`Ordered`). Staging adds a current change with the highest id; a rebase
  works in reading order, so those behind the one it has come to are still to come
  (`Rebasing`); a file that is replaced makes all its changes old at once, since no base
  is ahead of its file (`BasesPast`). The first change of a file, which the gate compares,
  exists because finitely many changes with distinct ids are ordered (`FirstOfFinite`).
* `LoneChangeLands` (`LandsInv`) adds to that what the contents are. A change that was matched
  with the file's own text (`aux_own`) fits the text its base names (`Suits`): when it is
  staged, because staging takes the expected text from the file (`StagedFits`); when it is
  rebased, because the file's changes apply one after the other, so the first applies to
  the file itself (`FirstFits`). The gate finds that base current, so the changes fit the
  files they are planned for, and nobody else writes until the commit is through
  (`PlanLands`). `Replay` recurs over the changes, the last of them first; `ReplayExists`
  builds its function by the number of changes. `PlainEdits` says that a client who
  rewrites a whole file names no text that the file should have: session.add stores such
  a text as it is given, and a change that was staged with another one than the file's
  is clean and never lands. Without `EditorsWait` an edit saved between the gate and the
  plan is what the change meets.

The patch service:

* `NoTextIsLost` and `AppliedIsWritten` rest on `Staged`: when a request removes the target,
  and when it renames, the temporary file is there and holds the text this request wrote,
  since one that a crash has left is written anew. With two handlers it may be another's.
* `PreviewAccounted` rests on an order: an id is told to be gone before its preview is
  removed. The invariant says of every handler which ids it may remove or answer with, and
  that a new id is in use nowhere else (`IdsAreFresh`). With statuses that are trimmed it
  needs one handler at a time, and counts: what is on the list that is being removed is
  what is there beyond the limit. With statuses that are kept it holds for any number.
* `WritesOverBase` and `BackedUp` share `ReplaceInv`: from the comparison to the removal
  the target is as it was read and backed up, and the temporary file that is renamed was
  written by this request, whatever a crash has left there (`Staged`).
* `PreviewsAreWhole` and `RetentionHolds` speak of moments between requests. Their
  invariants say at which labels a preview is half written or half removed (`Whole`) and a
  limit is passed (`Kept`). For retention, `Retained` is the only choice of
  the code, and it is enough that it leaves as many as the limit.
* `IsAStore` is the refinement itself. Its invariant, `StoreInv`, adds to those above what
  the store has to see: what a file, a preview, a backup and a request hold is a text a
  client or an editor gave (`FilesHold`, `MetasHold`, `BackupsHold`, `CarriesTexts`); the
  version a request was told to replace is the file's from the comparison on
  (`CarriesBase`, which rests on `Undisturbed`); a preview that was applied is told from
  one that was not until it is removed (`Spent`, `CarriesId`); and there is at most one
  backup more than retention allows, so trimming drops one text at most (`OneMore`). One
  lemma per group of steps then says which step of the store it is (the lemmas that end
  in `Seen`): an apply is asked for when it starts and committed by the step after
  which a reader finds no old text any more, that is, the removal, or the temporary file
  when there is nothing to remove; the rename is not seen.
  Two hypotheses are particular to it. `MarksAreFirst` says that texts hold no byte order
  mark, and files none but at the front: a text that begins with one would be read back
  without it. Of such bytes the lemmas of `TextLemmas` say that a rewritten file, and one
  that is read back, has the text that was given, up to line ends and marks
  (`CodecLawsHold`). `WholeBases` says that a
  client names a version by both its fields or not at all: an mtime alone names no text,
  and the hash of an empty file is that of a missing one, so for other bases "the
  version the client named" means nothing.

File operations: one invariant, `TreeInv`, carries all three properties. It says for every
label that the *whole* tree is a function of the tree the request has found and of the
entries still to be removed or copied (`Cleared`, `Copied`, `Written`, `Replaced`). The
source of a transfer is apart from the target and its parents, so none of these touches it;
when nothing is left to do, the function is what was asked for (`Wanted`). What the proof
needs of paths is that prefixes are an order in which what is above a path is a chain
(`PathOrder`), and that `Shift` takes what is below one path one to one to what is below
another (`ShiftPath`). That clients do not name temporary files, and that the workspace is
a tree at first, is `WorkspaceAssumption`.

The log: `ListMissesNothing` holds for any number of writers that may rotate at once and
die anywhere, since it rests on two facts only: a rotation moves a record from a
generation to the next, in the order in which the reader looks at them, so what the reader
has not met yet is ahead of it (`Listing`, `Reading`); and a record is written once, by the
writer that has begun it, so nothing the reader has to show can appear behind it (`Fresh`).
`GenerationsKept` needs that nobody else writes while the log is rotated. `RotationInv`
then says where every file is: later names lead to older files (`Falling`), the files that
have a name are all those after one, the cut (`CutAt`), and all but the newest are full
(`Newest`). It is not inductive until it also bounds how far a file can have been
moved: at most one name for every newer file and for every rotation that died half way,
one more while it is being moved (`Placed`). The last name is therefore taken away only
from a file behind which `Keep` others are full, less one for each death; counting the
records in those disjoint files gives `KeepsEnough`.

Texts: what the codec makes of a text it makes symbol by symbol (`Mapped`, `Coded`), so
`TextLemmas` needs two inductions only, over the length of a text and over `FlattenSeq`.
Both are inductions over a *set* of numbers or texts that holds the first and, with each,
the next (`SetInduction`, `SeqInduction`): the least number left out would be one too many
for the well-founded order of its predecessors. Coding a text twice is coding it once
(`CodedTwice`), without CRLF there is no CR (`CodedWithoutCr`), with it no bare line end
(`CodedWithCr`), and the style of a text without line ends does not show
(`CodedWithoutNl`); the rest is which style `FileCrlf` finds in what was written
(`CodedStyle`).

The scan of `LocateCandidates` recurs upwards in the text, so `ScanExists` builds its
function, and `ScanFinds` reads it, from the end of the text down: what is found from a
place on are the allowed ones of the occurrences numbered from there (`FoundFrom`), whether
the next place holds an occurrence (`FoundStep`) or not (`FoundNone`). That two readers
number the same occurrences (`NumberedOnce`) follows from the least one they disagree on.
`Lines` is a fold over the text: `ReadLinesSteps` shows that a text is read symbol by symbol,
`LineIsRead` that a line is read into the line that is being read, `ReadEnded` that lines
which all have their end are read as they are; `LinesJoined`, that joined lines are read
back but for an empty one without an end, is then what `RangeReplacementKeepsText` says of
the lines `SplicedIs` counts.

Markdown: each edit puts a heading and a body between the lines before a section and those
from its end on (`Rewritten`; `UpsertIs` and `InsertIs` say where). That text is a section
again (`SectionAfter`), so the same edit finds it and puts the same lines in (`RewrittenTwice`),
and a heading outside of it keeps the lines that follow it (`SegmentKept`): it has the same
lines up to the next heading, since what comes after it in place of a heading is a heading.

HTML: `RunExists` and `NestingOf` turn the fold over the tags into one stack of open tags per
place. While an element is open the stack does not fall below it, so it is closed at the first
place where the stack is what it was (`ElementCloses`); nesting, seen from the element's first
tag, is the part of the stack above it (`AboveStep`), which is why the node ends there
(`NodeEndIs`). The search of the code counts instead of nesting, and also counts elements whose
names only begin like the one it looks for: its count is the number of such tags in that part
of the stack (`CountStep`), which holds the element itself until it is closed (`DepthIs`).

Streams and connections:

* `RegistryHoldsRunning` is inductive with the shape of the state, since a thread clears its id in the step
  with which it becomes idle; what a cancel leaves that found no request running is what
  `aux_strays` holds.
* `KeepsPromise` is the refinement itself. Its invariant says of every thread that what was
  sent and what is left add up to the request, that a request that ended early did so for
  a reason (`EndsTruly`), and that a running request whose id is in the set is the very
  one that was meant, for no other has had the id (`FreshInv`). Every step is then a step
  of `StreamPromise` or `Seen`, one the client cannot see; one lemma per action says which.
* `CancelIsPrompt` adds to that invariant where a thread that has sent a chunk too late may
  stand: before a check that will stop it. A cancel stays in the set until its request's own
  `Clear`, since no other has its id (`Remembered`).
* `ServingIsReachable` is inductive once it says that a daemon holds the lock from
  `Acquire` on: only the holder removes or binds the path. There may be any number of daemons.
* `ExitIsTrue` needs what a connection looks like at every moment (`Sound`): an "ok" is
  only sent, and is sent last, when the request was carried out; nothing is served before
  the client has read the answer to its hello; a closed connection whose request was
  carried out still has its "ok" on the way, or the daemon is dead. `StepOfOne` reduces a
  step of one connection to that connection, `DaemonKeepsConnections` is the rest.

Every inductive invariant was checked by TLC on the instance of its run before it was
proved. The `ASSUME`s on constants are checked by TLC on every run that extends the module.

Only model-checked:

* liveness (`RequestsEnd`, `ConnectionsEnd`): fairness and ENABLED are
  beyond TLAPS here;
* the properties of `StructureCheck` (`JsonIsKept`, `YamlIsKept`, `TreeEditIsLocal`): the
  modules it extends declare RECURSIVE operators (a parser and a printer call themselves on
  the parts of a tree), which no theorem may reach.

But for `LoneChangeLands`, the proofs about sessions treat contents and edits as opaque, which
is also why they hold for every edit.

## 6. What is not modelled, and what comes next

Left out on purpose: wording of diffs and messages; the extraction of a request's fields
from its JSON and the formatting of answers (`protocol.cpp`), which the modules replace by
the alternation of their requests; failures of single file operations (a full disk),
which end a request where it is, like the crash that is modelled; requests refused before
they have an effect (unknown ids, mismatching preview arguments, paths outside the
workspace, invalid parameters); a preview whose content file is missing or damaged;
`session.inspect` and `session.recover`, which write nothing, and `session.snapshot`, which
writes a copy of the session to a file that nothing reads; which lines a search matches and how they are
ranked; symbolic links and permissions; frames that arrive in pieces; the pipes and
mutexes of Windows, which have the same order of steps but were not compared line by
line; SDKs and the editor extension, which run the CLI and keep nothing. Hashes stand for the contents they are computed
from, ids made from the clock are fresh, and a backup and its metadata are written in one
step. `patch_rollback` compares nothing and saves nothing, so it overwrites what was
written since: `PatchStore` has it as such, and no property forbids it.

In the order in which they are planned:

1. session and patch service composed: backups evicted within a commit, previews of a
   commit evicted by others;
2. file operations by two handlers, with what is still guaranteed then.
