---------------------------------- MODULE LogFile ----------------------------------
(***************************************************************************)
(* A log that is rotated by size: runtime.log and audit.log                *)
(* (libs/bridge_core/src/logging.cpp) and history.log, which has a copy of *)
(* the same code and is also listed (patch_service.cpp).  Name 0 is the    *)
(* log itself, name i its generation i ("history.log.1").  Names lead to   *)
(* files, as in a file system: who has opened a file writes to it whatever *)
(* becomes of its name.                                                    *)
(***************************************************************************)
EXTENDS Integers, Sequences, FiniteSets, SequencesExt

CONSTANTS
  Writers,       \* handlers, or daemons of one user, that append to the log
  Keep,          \* AI_BRIDGE_LOG_ROTATE_KEEP, AI_BRIDGE_HISTORY_ROTATE_KEEP
  RotateSize,    \* AI_BRIDGE_LOG_ROTATE_BYTES, in records
  MaxRecords,    \* bound: records written
  MaxCrashes     \* bound: deaths of the daemon

ASSUME LogAssumption == Keep \in Nat \ {0} /\ RotateSize \in Nat \ {0}

VARIABLES
  names,     \* what each name leads to: the number of a file, or None
  files,     \* the records of every file there ever was
  writer,    \* per writer: pc, the generation it shifts, the file it opened, its record
  reader,    \* a handler in history_list: pc, the name it is at, names seen, records read;
             \* and, for ListMissesNothing, the records there were at its start and
             \* whether names were moved since
  begun,     \* how many records were begun
  crashes

vars == <<names, files, writer, reader, begun, crashes>>

None == 0
Names == 0..Keep

Idle == [pc |-> "idle", i |-> 0, file |-> None, record |-> 0]
NotReading == [pc |-> "idle", i |-> 0, seen |-> <<>>, read |-> <<>>,
               from |-> {}, rotated |-> FALSE]

Init == /\ names = [i \in Names |-> None]
        /\ files = <<>>
        /\ writer = [w \in Writers |-> Idle]
        /\ reader = NotReading
        /\ begun = 0
        /\ crashes = 0

Records(i) == IF names[i] = None THEN <<>> ELSE files[names[i]]

\* rename(from, to): without a file at the first name nothing happens
Renamed(from, to) ==
  IF names[from] = None THEN names
  ELSE [names EXCEPT ![to] = names[from], ![from] = None]

(***************************************************************************)
(* append_line, append_history                                             *)
(***************************************************************************)
Begin(w) ==
  /\ writer[w].pc = "idle" /\ begun < MaxRecords
  /\ begun' = begun + 1
  /\ writer' = [writer EXCEPT ![w] = [Idle EXCEPT !.pc = "check", !.record = begun + 1]]
  /\ UNCHANGED <<names, files, reader, crashes>>

\* rotate_log_path_if_needed, rotate_file_if_needed: is there a file, and is it full?
CheckSize(w) ==
  /\ writer[w].pc = "check"
  /\ writer' = IF Len(Records(0)) < RotateSize
               THEN [writer EXCEPT ![w].pc = "open"]
               ELSE [writer EXCEPT ![w].pc = "shift", ![w].i = Keep]
  /\ UNCHANGED <<names, files, reader, begun, crashes>>

\* Mutant: generations are shifted from the first on.
ShiftAscending(w) ==
  /\ writer[w].pc = "shift"
  /\ LET i == Keep + 1 - writer[w].i
     IN  /\ names' = IF i = Keep THEN names ELSE Renamed(i, i + 1)
         /\ writer' = IF i = Keep THEN [writer EXCEPT ![w].pc = "roll"]
                      ELSE [writer EXCEPT ![w].i = @ - 1]
  /\ reader' = [reader EXCEPT !.rotated = reader.pc # "idle"]
  /\ UNCHANGED <<files, begun, crashes>>

\* The oldest generation is removed, then each moves up by one, the older first.
Shift(w) ==
  /\ writer[w].pc = "shift"
  /\ LET i == writer[w].i
     IN  /\ names' = IF i = Keep THEN [names EXCEPT ![Keep] = None] ELSE Renamed(i, i + 1)
         /\ writer' = IF i = 1 THEN [writer EXCEPT ![w].pc = "roll"]
                      ELSE [writer EXCEPT ![w].i = i - 1]
  /\ reader' = [reader EXCEPT !.rotated = reader.pc # "idle"]
  /\ UNCHANGED <<files, begun, crashes>>

Roll(w) ==
  /\ writer[w].pc = "roll"
  /\ names' = Renamed(0, 1)
  /\ writer' = [writer EXCEPT ![w].pc = "open"]
  /\ reader' = [reader EXCEPT !.rotated = reader.pc # "idle"]
  /\ UNCHANGED <<files, begun, crashes>>

\* std::ofstream with std::ios::app makes the file if it is not there.
Open(w) ==
  /\ writer[w].pc = "open"
  /\ IF names[0] = None
     THEN /\ files' = Append(files, <<>>)
          /\ names' = [names EXCEPT ![0] = Len(files) + 1]
     ELSE UNCHANGED <<files, names>>
  /\ writer' = [writer EXCEPT ![w].pc = "write", ![w].file = names'[0]]
  /\ UNCHANGED <<reader, begun, crashes>>

Write(w) ==
  /\ writer[w].pc = "write"
  /\ files' = [files EXCEPT ![writer[w].file] = Append(@, writer[w].record)]
  /\ writer' = [writer EXCEPT ![w] = Idle]
  /\ UNCHANGED <<names, reader, begun, crashes>>

(***************************************************************************)
(* history_list: which names exist, then one file after the other.  Of     *)
(* what it has read it answers the latest; that is left out here.          *)
(***************************************************************************)
Retained == UNION {ToSet(Records(i)) : i \in Names}

StartList ==
  /\ reader.pc = "idle"
  /\ reader' = [NotReading EXCEPT !.pc = "list", !.from = Retained]
  /\ UNCHANGED <<names, files, writer, begun, crashes>>

\* history_files
SeeName ==
  /\ reader.pc = "list"
  /\ LET i == reader.i
         seen == IF names[i] = None THEN reader.seen ELSE Append(reader.seen, i)
     IN  reader' = IF i = Keep THEN [reader EXCEPT !.pc = "read", !.seen = seen, !.i = 1]
                   ELSE [reader EXCEPT !.seen = seen, !.i = i + 1]
  /\ UNCHANGED <<names, files, writer, begun, crashes>>

\* Mutant: the oldest generation is read first.
NextNameOldest == reader.seen[Len(reader.seen) + 1 - reader.i]

NextName == reader.seen[reader.i]

ReadFile ==
  /\ reader.pc = "read" /\ reader.i <= Len(reader.seen)
  /\ reader' = [reader EXCEPT !.read = @ \o Records(NextName), !.i = @ + 1]
  /\ UNCHANGED <<names, files, writer, begun, crashes>>

EndList ==
  /\ reader.pc = "read" /\ reader.i > Len(reader.seen)
  /\ reader' = NotReading
  /\ UNCHANGED <<names, files, writer, begun, crashes>>

\* The daemon dies with its handlers; what they had not written is gone.
Crash ==
  /\ crashes < MaxCrashes
  /\ crashes' = crashes + 1
  /\ writer' = [w \in Writers |-> Idle]
  /\ reader' = NotReading
  /\ UNCHANGED <<names, files, begun>>

Step(w) == Begin(w) \/ CheckSize(w) \/ Shift(w) \/ Roll(w) \/ Open(w) \/ Write(w)

Next == \/ \E w \in Writers : Step(w)
        \/ StartList \/ SeeName \/ ReadFile \/ EndList
        \/ Crash

Spec == Init /\ [][Next]_vars

(***************************************************************************)
(* Properties                                                              *)
(***************************************************************************)

\* Every record that was written
Recorded == UNION {ToSet(files[n]) : n \in DOMAIN files}

\* An older generation holds older records, and each lists them as they were written.
InOrder == \A i, j \in Names : \A k \in DOMAIN Records(i), l \in DOMAIN Records(j) :
             i > j \/ (i = j /\ k < l) => Records(i)[k] < Records(j)[l]

NoGap == \A r \in Retained, s \in Recorded : r < s => s \in Retained

KeepsEnough == LET full == (Keep - crashes) * RotateSize
                   all  == Cardinality(Recorded)
               IN  Cardinality(Retained) >= IF full < all THEN full ELSE all

\* Rotation throws away the oldest records only: the generations, read from the last to
\* the log itself, are the records as they were written up to the newest, without a gap,
\* and at least Keep files full of them, less one for every crash in a rotation
\* (rotate_log_path_if_needed, append_line).
GenerationsKept == InOrder /\ NoGap /\ KeepsEnough

\* history.list shows every record that was there when it began and is there when it
\* ends, although the log is rotated between the two, provided that it found all
\* generations; it may show some twice.  Without all generations one that becomes the
\* next while it lists is missed, so then only a listing without a rotation counts
\* (history_files, history_list).
ListMissesNothing ==
  reader.pc = "read" /\ reader.i > Len(reader.seen) =>
    \/ reader.from \cap Retained \subseteq ToSet(reader.read)
    \/ reader.rotated /\ Len(reader.seen) <= Keep
=============================================================================
