--------------------------------- MODULE LogProofs ---------------------------------
(***************************************************************************)
(* What holds of a rotated log, whatever is kept of it and however often   *)
(* the daemon dies.                                                        *)
(*                                                                         *)
(* history.list misses no record, however many writers there are.  A       *)
(* rotation only moves a record from a generation to the next, and the     *)
(* reader reads the generations in that order, so a record that the reader *)
(* has not met yet is ahead of it.  And a record is written once, by the   *)
(* writer that has begun it, so what the reader must show can be neither   *)
(* written again behind its back nor put into a file it has read already.  *)
(*                                                                         *)
(* With one writer a rotation throws away the oldest records only.  The    *)
(* files that still have a name are all those after some file, their cut;  *)
(* a file is at most as many names on as there are newer files and deaths, *)
(* so when the last name is taken away enough newer files are full.        *)
(***************************************************************************)
EXTENDS LogFile, SequenceTheorems, FiniteSetTheorems, TLAPS

Kept(i) == ToSet(Records(i))

WriterPcs == {"idle", "check", "shift", "roll", "open", "write"}

WriterSet == [pc : WriterPcs, i : 0..Keep, file : Nat, record : Nat]
ReaderSet == [pc : {"idle", "list", "read"}, i : Nat, seen : Seq(Names), read : Seq(Nat),
              from : SUBSET Nat, rotated : BOOLEAN]

WriterOK(w) ==
  /\ writer[w] \in WriterSet
  /\ writer[w].pc = "shift" => writer[w].i >= 1
  /\ writer[w].pc = "write" => writer[w].file \in 1..Len(files)

ReaderOK == /\ reader \in ReaderSet
            /\ reader.pc = "list" => reader.i <= Keep
            /\ reader.pc = "read" => reader.i >= 1

FilesOK == /\ files \in Seq(Seq(Nat))
           /\ names \in [Names -> 0..Len(files)]
           /\ begun \in Nat

TypeOK == /\ FilesOK
          /\ writer = [w \in Writers |-> writer[w]]
          /\ \A w \in Writers : WriterOK(w)
          /\ ReaderOK

(***************************************************************************)
(* The inductive invariant                                                 *)
(***************************************************************************)
Pending(w) == writer[w].pc # "idle"

InFile(r) == \E n \in 1..Len(files) : r \in ToSet(files[n])

\* The record that a writer has begun is in no file yet, no reader asks for it, and no
\* other writer has it.
Fresh(w) == Pending(w) =>
              /\ writer[w].record <= begun
              /\ ~InFile(writer[w].record)
              /\ writer[w].record \notin reader.from
              /\ \A v \in Writers : Pending(v) /\ writer[v].record = writer[w].record => v = w

Numbered == /\ \A r : InFile(r) \/ r \in reader.from => r <= begun
            /\ \A w \in Writers : Fresh(w)

\* If each of the first n names was seen, they are seen in their order.
Ordered(n) == Len(reader.seen) = n => \A m \in 1..n : reader.seen[m] = m - 1

\* While names are looked for, without a rotation: what is to be shown is under a name
\* that was seen or is still to be looked for.
Listing ==
  reader.pc = "list" =>
    /\ Len(reader.seen) <= reader.i
    /\ Ordered(reader.i)
    /\ reader.rotated \/
         \A r \in reader.from : \E k \in Names :
           r \in Kept(k) /\ (k \in ToSet(reader.seen) \/ k >= reader.i)

\* While files are read: with all names seen, what is left of it under a name the
\* reader has passed was read; without a rotation, all of it was read or is ahead.
Reading ==
  reader.pc = "read" =>
    /\ Len(reader.seen) <= Keep + 1
    /\ Ordered(Keep + 1)
    /\ Len(reader.seen) = Keep + 1 =>
         \A k \in Names : k < reader.i - 1 => reader.from \cap Kept(k) \subseteq ToSet(reader.read)
    /\ reader.rotated \/
         \A r \in reader.from : \/ r \in ToSet(reader.read)
                                \/ \E m \in reader.i..Len(reader.seen) : r \in Kept(reader.seen[m])

ListInv == TypeOK /\ Numbered /\ Listing /\ Reading

(***************************************************************************)
(* Records of two kinds with a field changed                               *)
(***************************************************************************)
LEMMA WriterUpdate ==
  ASSUME NEW l \in WriterSet, NEW v
  PROVE  /\ [l EXCEPT !.pc = v] = [pc |-> v, i |-> l.i, file |-> l.file, record |-> l.record]
         /\ [l EXCEPT !.i = v] = [pc |-> l.pc, i |-> v, file |-> l.file, record |-> l.record]
         /\ [l EXCEPT !.file = v] = [pc |-> l.pc, i |-> l.i, file |-> v, record |-> l.record]
  BY DEF WriterSet

LEMMA ReaderUpdate ==
  ASSUME NEW l \in ReaderSet, NEW v
  PROVE  [l EXCEPT !.rotated = v] = [pc |-> l.pc, i |-> l.i, seen |-> l.seen,
                                     read |-> l.read, from |-> l.from, rotated |-> v]
  BY DEF ReaderSet

\* What the steps of writer w make of its record
Moved(w, pc, i, file, record) ==
  writer' = [writer EXCEPT ![w] = [pc |-> pc, i |-> i, file |-> file, record |-> record]]

LEMMA WriterFields ==
  ASSUME TypeOK, NEW w \in Writers, NEW v, NEW u
  PROVE  LET l == writer[w] IN
         /\ writer' = [writer EXCEPT ![w].pc = v] => Moved(w, v, l.i, l.file, l.record)
         /\ writer' = [writer EXCEPT ![w].i = v] => Moved(w, l.pc, v, l.file, l.record)
         /\ writer' = [writer EXCEPT ![w].pc = v, ![w].i = u] =>
              Moved(w, v, u, l.file, l.record)
         /\ writer' = [writer EXCEPT ![w].pc = v, ![w].file = u] =>
              Moved(w, v, l.i, u, l.record)
  <1> DEFINE l == writer[w]
             a == [pc |-> v, i |-> l.i, file |-> l.file, record |-> l.record]
             W == [writer EXCEPT ![w] = a]
  <1>1. l \in WriterSet /\ writer = [x \in Writers |-> writer[x]]
    BY DEF TypeOK, WriterOK
  <1>2. [writer EXCEPT ![w].pc = v] = W
    BY <1>1, WriterUpdate
  <1>3. [writer EXCEPT ![w].i = v] =
          [writer EXCEPT ![w] = [pc |-> l.pc, i |-> v, file |-> l.file, record |-> l.record]]
    BY <1>1, WriterUpdate
  <1>4. W[w] = a /\ W = [x \in Writers |-> W[x]]
        /\ \A x \in Writers \ {w} : W[x] = writer[x]
    BY <1>1
  <1>5. /\ [a EXCEPT !.i = u] = [pc |-> v, i |-> u, file |-> l.file, record |-> l.record]
        /\ [a EXCEPT !.file = u] = [pc |-> v, i |-> l.i, file |-> u, record |-> l.record]
    OBVIOUS
  <1>6. \A b : [W EXCEPT ![w] = b] = [writer EXCEPT ![w] = b]
    <2> HIDE DEF W, a
    <2> QED
      BY <1>1, <1>4
  <1>7. /\ [W EXCEPT ![w].i = u] = [W EXCEPT ![w] = [a EXCEPT !.i = u]]
        /\ [W EXCEPT ![w].file = u] = [W EXCEPT ![w] = [a EXCEPT !.file = u]]
    <2> HIDE DEF W, a
    <2> QED
      BY <1>4
  <1>8. /\ [writer EXCEPT ![w].pc = v, ![w].i = u] = [W EXCEPT ![w].i = u]
        /\ [writer EXCEPT ![w].pc = v, ![w].file = u] = [W EXCEPT ![w].file = u]
    <2> HIDE DEF W
    <2> QED
      BY <1>2
  <1> HIDE DEF W
  <1> QED
    BY <1>2, <1>3, <1>5, <1>6, <1>7, <1>8 DEF Moved, W

LEMMA WriterMoves ==
  ASSUME TypeOK, NEW w \in Writers
  PROVE  LET l == writer[w] IN
         /\ Begin(w) => Moved(w, "check", 0, None, begun + 1)
         /\ CheckSize(w) => \/ Moved(w, "open", l.i, l.file, l.record)
                            \/ Moved(w, "shift", Keep, l.file, l.record)
         /\ Shift(w) => \/ Moved(w, "roll", l.i, l.file, l.record)
                        \/ l.i # 1 /\ Moved(w, "shift", l.i - 1, l.file, l.record)
         /\ Roll(w) => Moved(w, "open", l.i, l.file, l.record)
         /\ Open(w) => Moved(w, "write", l.i, names'[0], l.record)
         /\ Write(w) => Moved(w, "idle", 0, None, 0)
  <1> DEFINE a == [pc |-> "check", i |-> 0, file |-> None, record |-> 0]
  <1>0. [Idle EXCEPT !.pc = "check"] = a
    BY DEF Idle
  <1>1. [Idle EXCEPT !.pc = "check", !.record = begun + 1]
          = [pc |-> "check", i |-> 0, file |-> None, record |-> begun + 1]
    <2>1. [Idle EXCEPT !.pc = "check", !.record = begun + 1] = [a EXCEPT !.record = begun + 1]
      <3> HIDE DEF a
      <3> QED
        BY <1>0
    <2>2. [a EXCEPT !.record = begun + 1]
            = [pc |-> "check", i |-> 0, file |-> None, record |-> begun + 1]
      OBVIOUS
    <2> QED
      BY <2>1, <2>2
  <1>2. Begin(w) => Moved(w, "check", 0, None, begun + 1)
    BY <1>1 DEF Begin, Moved
  <1>3. Write(w) => Moved(w, "idle", 0, None, 0)
    BY DEF Write, Moved, Idle
  <1> QED
    BY <1>2, <1>3, WriterFields DEF CheckSize, Shift, Roll, Open

(***************************************************************************)
(* Types                                                                   *)
(***************************************************************************)
LEMMA KeptOK ==
  ASSUME FilesOK, NEW k \in Names
  PROVE  /\ Records(k) \in Seq(Nat)
         /\ Kept(k) = IF names[k] = None THEN {} ELSE ToSet(files[names[k]])
         /\ names[k] # None => names[k] \in 1..Len(files)
  <1>1. names[k] \in 0..Len(files)
    BY DEF FilesOK
  <1>2. ToSet(<<>>) = {}
    BY DEF ToSet
  <1>3. files \in Seq(Seq(Nat)) /\ Len(files) \in Nat
    BY DEF FilesOK
  <1>4. names[k] # None => names[k] \in 1..Len(files) /\ files[names[k]] \in Seq(Nat)
    BY <1>1, <1>3 DEF None
  <1>5. <<>> \in Seq(Nat)
    OBVIOUS
  <1> QED
    BY <1>2, <1>4, <1>5 DEF Records, Kept

\* A writer that is given another state of its type leaves the others alone.
LEMMA MovedOK ==
  ASSUME TypeOK, NEW w \in Writers, NEW pc \in WriterPcs, NEW i \in 0..Keep, NEW f \in Nat,
         NEW r \in Nat, Moved(w, pc, i, f, r),
         pc = "shift" => i >= 1, pc = "write" => f \in 1..Len(files'), Len(files') >= Len(files)
  PROVE  /\ writer' = [v \in Writers |-> writer'[v]]
         /\ \A v \in Writers : WriterOK(v)'
         /\ writer'[w].pc = pc /\ writer'[w].record = r
         /\ \A v \in Writers \ {w} : writer'[v] = writer[v]
  <1>1. writer'[w] = [pc |-> pc, i |-> i, file |-> f, record |-> r]
        /\ writer' = [v \in Writers |-> writer'[v]]
        /\ \A v \in Writers \ {w} : writer'[v] = writer[v]
    BY DEF Moved, TypeOK
  <1>2. writer'[w] \in WriterSet
    BY <1>1 DEF WriterSet
  <1>3. WriterOK(w)'
    BY <1>1, <1>2 DEF WriterOK
  <1>4. Len(files) \in Nat /\ Len(files') \in Nat
    BY DEF TypeOK, FilesOK
  <1>5. ASSUME NEW v \in Writers \ {w}
        PROVE  WriterOK(v)'
    BY <1>1, <1>4, <1>5 DEF WriterOK, TypeOK
  <1> QED
    BY <1>1, <1>3, <1>5

\* A rotation moves a file to the next name or takes its name away; the file stays.
RotatesNames ==
  /\ names' \in [Names -> 0..Len(files)]
  /\ files' = files
  /\ \A k \in Names : \/ names'[k] = None
                      \/ names'[k] = names[k]
                      \/ k > 0 /\ names'[k] = names[k - 1]

LEMMA RotationMoves ==
  ASSUME TypeOK, NEW w \in Writers, Shift(w) \/ Roll(w)
  PROVE  /\ RotatesNames
         /\ reader' = [reader EXCEPT !.rotated = reader.pc # "idle"]
         /\ begun' = begun
  <1> DEFINE i == writer[w].i
  <1>1. names \in [Names -> 0..Len(files)] /\ Len(files) \in Nat /\ Keep \in Nat
    BY LogAssumption DEF TypeOK, FilesOK
  <1>2. ASSUME NEW j \in 0..Keep - 1, names' = Renamed(j, j + 1), files' = files
        PROVE  RotatesNames
    <2>1. j \in Names /\ j + 1 \in Names /\ (j + 1) - 1 = j /\ j + 1 > 0 /\ j + 1 # j
      BY <1>1 DEF Names
    <2>2. CASE names[j] = None
      BY <1>1, <1>2, <2>2 DEF RotatesNames, Renamed
    <2>3. CASE names[j] # None
      <3> DEFINE up == [names EXCEPT ![j + 1] = names[j]]
      <3>1. up \in [Names -> 0..Len(files)] /\ up[j + 1] = names[j]
            /\ \A k \in Names \ {j + 1} : up[k] = names[k]
        BY <1>1, <2>1
      <3>2. names' = [up EXCEPT ![j] = None]
        BY <1>2, <2>3 DEF Renamed
      <3>3. None \in 0..Len(files)
        BY <1>1 DEF None
      <3> HIDE DEF up
      <3>4. names' \in [Names -> 0..Len(files)] /\ names'[j] = None
            /\ \A k \in Names \ {j} : names'[k] = up[k]
        BY <3>1, <3>2, <3>3, <2>1
      <3> QED
        BY <3>1, <3>4, <2>1, <1>2 DEF RotatesNames
    <2> QED
      BY <2>2, <2>3
  <1>3. CASE Shift(w)
    <2>1. i \in 1..Keep
      BY <1>3 DEF Shift, TypeOK, WriterOK, WriterSet
    <2>2. CASE i = Keep
      BY <1>3, <1>1, <2>2 DEF Shift, RotatesNames, None, Names
    <2>3. CASE i # Keep
      BY <1>3, <1>1, <1>2, <2>1, <2>3 DEF Shift
    <2> QED
      BY <1>3, <2>2, <2>3 DEF Shift
  <1>4. CASE Roll(w)
    BY <1>4, <1>1, <1>2, LogAssumption DEF Roll
  <1> QED
    BY <1>3, <1>4

LEMMA RotatedKept ==
  ASSUME FilesOK, RotatesNames, NEW k \in Names
  PROVE  \/ Kept(k)' = {}
         \/ Kept(k)' = Kept(k)
         \/ k > 0 /\ k - 1 \in Names /\ Kept(k)' = Kept(k - 1)
  <1>1. k > 0 => k - 1 \in Names
    BY LogAssumption DEF Names
  <1>2. ToSet(<<>>) = {}
    BY DEF ToSet
  <1> QED
    BY <1>1, <1>2 DEF RotatesNames, Kept, Records

LEMMA AppendToSet ==
  ASSUME NEW S, NEW q \in Seq(S), NEW x
  PROVE  ToSet(Append(q, x)) = ToSet(q) \cup {x}
  <1>1. Len(q) \in Nat /\ DOMAIN q = 1..Len(q)
    BY LenProperties
  <1>2. /\ DOMAIN Append(q, x) = 1..Len(q) + 1
        /\ Append(q, x)[Len(q) + 1] = x
        /\ \A i \in 1..Len(q) : Append(q, x)[i] = q[i]
    BY <1>1
  <1> QED
    BY <1>1, <1>2 DEF ToSet

LEMMA ConcatToSet ==
  ASSUME NEW S, NEW q \in Seq(S), NEW r \in Seq(S)
  PROVE  ToSet(q \o r) = ToSet(q) \cup ToSet(r)
  <1>1. Len(q) \in Nat /\ DOMAIN q = 1..Len(q) /\ Len(r) \in Nat /\ DOMAIN r = 1..Len(r)
    BY LenProperties
  <1>2. /\ q \o r \in Seq(S) /\ Len(q \o r) = Len(q) + Len(r)
        /\ \A i \in 1..Len(q) + Len(r) :
             (q \o r)[i] = IF i <= Len(q) THEN q[i] ELSE r[i - Len(q)]
    BY ConcatProperties
  <1>3. DOMAIN (q \o r) = 1..Len(q) + Len(r)
    BY <1>2, LenProperties
  <1>4. ASSUME NEW y \in ToSet(q \o r)
        PROVE  y \in ToSet(q) \cup ToSet(r)
    BY <1>1, <1>2, <1>3 DEF ToSet
  <1>5. ASSUME NEW y \in ToSet(q)
        PROVE  y \in ToSet(q \o r)
    BY <1>1, <1>2, <1>3 DEF ToSet
  <1>6. ASSUME NEW y \in ToSet(r)
        PROVE  y \in ToSet(q \o r)
    <2>1. PICK j \in 1..Len(r) : y = r[j]
      BY <1>1 DEF ToSet
    <2>2. Len(q) + j \in 1..Len(q) + Len(r) /\ (q \o r)[Len(q) + j] = y
      BY <1>1, <1>2, <2>1
    <2> QED
      BY <1>3, <2>2 DEF ToSet
  <1> QED
    BY <1>4, <1>5, <1>6

\* What the step of writer w that opens the log does: perhaps a new empty file.
LEMMA OpenFiles ==
  ASSUME TypeOK, NEW w \in Writers, Open(w)
  PROVE  /\ FilesOK'
         /\ Len(files') >= Len(files)
         /\ \A n \in 1..Len(files') :
              ToSet(files'[n]) = IF n <= Len(files) THEN ToSet(files[n]) ELSE {}
         /\ \A k \in Names : Kept(k)' = Kept(k)
         /\ names'[0] \in 1..Len(files')
  <1>1. files \in Seq(Seq(Nat)) /\ Len(files) \in Nat /\ 0 \in Names
        /\ names \in [Names -> 0..Len(files)] /\ begun \in Nat
    BY LogAssumption DEF TypeOK, FilesOK, Names
  <1>2. ToSet(<<>>) = {}
    BY DEF ToSet
  <1>3. CASE names[0] = None
    <2>1. /\ files' = Append(files, <<>>) /\ names' = [names EXCEPT ![0] = Len(files) + 1]
          /\ begun' = begun
      BY <1>3 DEF Open
    <2>2. /\ files' \in Seq(Seq(Nat)) /\ Len(files') = Len(files) + 1
          /\ files'[Len(files) + 1] = <<>>
          /\ \A n \in 1..Len(files) : files'[n] = files[n]
      BY <1>1, <2>1, EmptySeq
    <2>3. names' \in [Names -> 0..Len(files')] /\ names'[0] = Len(files) + 1
          /\ \A k \in Names \ {0} : names'[k] = names[k]
      BY <1>1, <2>1, <2>2
    <2>4. FilesOK'
      BY <1>1, <2>1, <2>2, <2>3 DEF FilesOK
    <2>5. Kept(0) = {} /\ Kept(0)' = {}
      BY <1>1, <1>2, <1>3, <2>2, <2>3 DEF Kept, Records, None
    <2>6. ASSUME NEW k \in Names \ {0}
          PROVE  Kept(k)' = Kept(k)
      <3>1. names[k] \in 0..Len(files)
        BY <1>1
      <3> QED
        BY SMTT(30), <1>1, <2>2, <2>3, <3>1 DEF Kept, Records, None
    <2>7. ASSUME NEW n \in 1..Len(files')
          PROVE  ToSet(files'[n]) = IF n <= Len(files) THEN ToSet(files[n]) ELSE {}
      BY <1>1, <1>2, <2>2
    <2>8. \A k \in Names : Kept(k)' = Kept(k)
      BY <2>5, <2>6
    <2> QED
      BY <1>1, <2>2, <2>3, <2>4, <2>7, <2>8
  <1>4. CASE names[0] # None
    BY <1>1, <1>4 DEF Open, FilesOK, Kept, Records, None
  <1> QED
    BY <1>3, <1>4

\* What the step of writer w that writes its record does: it is added to one file.
LEMMA WriteFiles ==
  ASSUME TypeOK, NEW w \in Writers, Write(w)
  PROVE  /\ FilesOK'
         /\ Len(files') = Len(files)
         /\ \A n \in 1..Len(files) :
              /\ ToSet(files[n]) \subseteq ToSet(files'[n])
              /\ ToSet(files'[n]) \subseteq ToSet(files[n]) \cup {writer[w].record}
         /\ \A k \in Names : /\ Kept(k) \subseteq Kept(k)'
                             /\ Kept(k)' \subseteq Kept(k) \cup {writer[w].record}
  <1> DEFINE n == writer[w].file
             r == writer[w].record
  <1>1. files \in Seq(Seq(Nat)) /\ Len(files) \in Nat
        /\ names \in [Names -> 0..Len(files)] /\ begun \in Nat
    BY DEF TypeOK, FilesOK
  <1>2. n \in 1..Len(files) /\ r \in Nat /\ files[n] \in Seq(Nat)
    BY <1>1 DEF TypeOK, WriterOK, WriterSet, Write
  <1>3. files' = [files EXCEPT ![n] = Append(files[n], r)] /\ names' = names /\ begun' = begun
    BY DEF Write
  <1> HIDE DEF n, r
  <1>4. /\ files' \in Seq(Seq(Nat)) /\ Len(files') = Len(files)
        /\ \A m \in 1..Len(files) : files'[m] = IF m = n THEN Append(files[n], r) ELSE files[m]
    <2>1. Append(files[n], r) \in Seq(Nat)
      BY <1>2
    <2> QED
      BY <1>1, <1>2, <1>3, <2>1, ExceptSeq
  <1>5. ToSet(files'[n]) = ToSet(files[n]) \cup {r}
    BY <1>2, <1>4, AppendToSet
  <1>6. \A m \in 1..Len(files) : /\ ToSet(files[m]) \subseteq ToSet(files'[m])
                                 /\ ToSet(files'[m]) \subseteq ToSet(files[m]) \cup {r}
    BY <1>4, <1>5
  <1>7. ASSUME NEW k \in Names
        PROVE  Kept(k) \subseteq Kept(k)' /\ Kept(k)' \subseteq Kept(k) \cup {r}
    <2>1. names[k] \in 0..Len(files) /\ names'[k] = names[k]
      BY <1>1, <1>3
    <2>2. CASE names[k] = None
      BY <2>1, <2>2 DEF Kept, Records
    <2>3. CASE names[k] # None
      <3>1. names[k] \in 1..Len(files)
        BY <1>1, <2>1, <2>3 DEF None
      <3>2. Kept(k) = ToSet(files[names[k]]) /\ Kept(k)' = ToSet(files'[names[k]])
        BY <2>1, <2>3 DEF Kept, Records
      <3> QED
        BY <1>6, <3>1, <3>2
    <2> QED
      BY <2>2, <2>3
  <1>8. FilesOK'
    BY <1>1, <1>3, <1>4 DEF FilesOK
  <1> QED
    BY <1>4, <1>6, <1>7, <1>8 DEF r

(***************************************************************************)
(* What the steps of the reader make of its record                         *)
(***************************************************************************)
\* The only record with these fields
Reader(pc, i, seen, read, from, rotated) ==
  [pc : {pc}, i : {i}, seen : {seen}, read : {read}, from : {from}, rotated : {rotated}]

LEMMA ReaderMoves ==
  ASSUME reader \in ReaderSet
  PROVE  LET l == reader
             seen == IF names[l.i] = None THEN l.seen ELSE Append(l.seen, l.i)
         IN
         /\ StartList => reader' \in Reader("list", 0, <<>>, <<>>, Retained, FALSE)
         /\ SeeName => reader' \in IF l.i = Keep
                                   THEN Reader("read", 1, seen, l.read, l.from, l.rotated)
                                   ELSE Reader(l.pc, l.i + 1, seen, l.read, l.from, l.rotated)
         /\ ReadFile => reader' \in Reader(l.pc, l.i + 1, l.seen, l.read \o Records(NextName),
                                           l.from, l.rotated)
         /\ reader' = [reader EXCEPT !.rotated = l.pc # "idle"] =>
              reader' \in Reader(l.pc, l.i, l.seen, l.read, l.from, l.pc # "idle")
  <1> DEFINE l == reader
             seen == IF names[l.i] = None THEN l.seen ELSE Append(l.seen, l.i)
             next == l.read \o Records(NextName)
             moved == l.pc # "idle"
             from == Retained
  <1>1. l \in Reader(l.pc, l.i, l.seen, l.read, l.from, l.rotated)
    BY DEF ReaderSet, Reader
  <1>2. StartList => reader' \in Reader("list", 0, <<>>, <<>>, from, FALSE)
    <2>1. StartList => reader' = [NotReading EXCEPT !.pc = "list", !.from = from]
      BY DEF StartList
    <2> HIDE DEF from
    <2> QED
      BY <2>1 DEF NotReading, Reader
  <1>3. SeeName => reader' \in IF l.i = Keep
                               THEN Reader("read", 1, seen, l.read, l.from, l.rotated)
                               ELSE Reader(l.pc, l.i + 1, seen, l.read, l.from, l.rotated)
    <2>1. SeeName => reader' = IF l.i = Keep THEN [l EXCEPT !.pc = "read", !.seen = seen, !.i = 1]
                               ELSE [l EXCEPT !.seen = seen, !.i = l.i + 1]
      BY DEF SeeName
    <2> HIDE DEF l, seen
    <2>2. [l EXCEPT !.pc = "read", !.seen = seen, !.i = 1]
            \in Reader("read", 1, seen, l.read, l.from, l.rotated)
      BY <1>1 DEF Reader
    <2>3. [l EXCEPT !.seen = seen, !.i = l.i + 1]
            \in Reader(l.pc, l.i + 1, seen, l.read, l.from, l.rotated)
      BY <1>1 DEF Reader
    <2> QED
      BY <2>1, <2>2, <2>3
  <1>4. ReadFile => reader' \in Reader(l.pc, l.i + 1, l.seen, next, l.from, l.rotated)
    <2>1. ReadFile => reader' = [l EXCEPT !.read = next, !.i = l.i + 1]
      BY DEF ReadFile
    <2> HIDE DEF l, next
    <2> QED
      BY <1>1, <2>1 DEF Reader
  <1>5. [l EXCEPT !.rotated = moved] \in Reader(l.pc, l.i, l.seen, l.read, l.from, moved)
    <2> HIDE DEF l, moved
    <2> QED
      BY <1>1 DEF Reader
  <1> QED
    BY <1>2, <1>3, <1>4, <1>5

LEMMA ReaderType ==
  ASSUME NEW pc, NEW i, NEW seen, NEW read, NEW from, NEW rotated,
         NEW l \in Reader(pc, i, seen, read, from, rotated)
  PROVE  /\ l.pc = pc /\ l.i = i /\ l.seen = seen /\ l.read = read /\ l.from = from
         /\ l.rotated = rotated
         /\ /\ pc \in {"idle", "list", "read"} /\ i \in Nat /\ seen \in Seq(Names)
            /\ read \in Seq(Nat) /\ from \in SUBSET Nat /\ rotated \in BOOLEAN
            => l \in ReaderSet
  BY DEF Reader, ReaderSet

LEMMA RetainedOK ==
  ASSUME FilesOK
  PROVE  /\ Retained \subseteq Nat
         /\ \A r \in Retained : \E k \in Names : r \in Kept(k)
         /\ \A k \in Names : Kept(k) \subseteq Retained
  <1>1. \A k \in Names : Kept(k) \subseteq Nat
    <2> SUFFICES ASSUME NEW k \in Names
                 PROVE  Kept(k) \subseteq Nat
      OBVIOUS
    <2>1. Records(k) \in Seq(Nat)
      BY KeptOK
    <2> QED
      BY <2>1, LenProperties DEF Kept, ToSet
  <1> QED
    BY <1>1 DEF Retained, Kept

LEMMA BlankOK == /\ Idle \in WriterSet /\ Idle.pc = "idle"
                 /\ NotReading \in ReaderSet /\ NotReading.pc = "idle" /\ NotReading.from = {}
  <1>1. Idle \in WriterSet /\ Idle.pc = "idle"
    BY LogAssumption DEF Idle, WriterSet, WriterPcs, None
  <1>2. NotReading \in ReaderSet /\ NotReading.pc = "idle" /\ NotReading.from = {}
    BY EmptySeq DEF NotReading, ReaderSet
  <1> QED
    BY <1>1, <1>2

LEMMA TypeInit == Init => TypeOK
  <1> SUFFICES ASSUME Init PROVE TypeOK
    OBVIOUS
  <1>1. FilesOK
    BY EmptySeq DEF Init, FilesOK, None
  <1> QED
    BY <1>1, BlankOK DEF Init, TypeOK, WriterOK, ReaderOK

LEMMA TypeStep == TypeOK /\ [Next]_vars => TypeOK'
  <1> SUFFICES ASSUME TypeOK, [Next]_vars PROVE TypeOK'
    OBVIOUS
  <1>t. /\ FilesOK /\ ReaderOK /\ reader \in ReaderSet
        /\ \A w \in Writers : WriterOK(w) /\ writer[w].i \in 0..Keep
             /\ writer[w].file \in Nat /\ writer[w].record \in Nat
        /\ writer = [w \in Writers |-> writer[w]]
    BY DEF TypeOK, WriterOK, WriterSet, ReaderOK
  <1>k. Keep \in Nat /\ Keep >= 1 /\ 0 \in 0..Keep /\ 0 \in Nat /\ Keep \in 0..Keep
    BY LogAssumption
  <1>n. Len(files) \in Nat /\ begun \in Nat
    BY <1>t DEF FilesOK
  <1>p. {"idle", "check", "shift", "roll", "open", "write"} \subseteq WriterPcs
    BY DEF WriterPcs
  <1>i. /\ Idle \in WriterSet /\ Idle.pc = "idle"
        /\ NotReading \in ReaderSet /\ NotReading.pc = "idle"
    BY BlankOK
  <1>1. ASSUME NEW w \in Writers, Begin(w)
        PROVE  TypeOK'
    <2>1. FilesOK' /\ reader' = reader /\ Len(files') = Len(files)
      BY <1>1, <1>t DEF Begin, FilesOK
    <2> QED
      BY SMTT(30), <1>1, <1>t, <1>k, <1>n, <1>p, <2>1, WriterMoves, MovedOK DEF TypeOK, ReaderOK, None
  <1>2. ASSUME NEW w \in Writers, CheckSize(w)
        PROVE  TypeOK'
    <2>1. FilesOK' /\ reader' = reader /\ Len(files') = Len(files)
      BY <1>2, <1>t DEF CheckSize, FilesOK
    <2> QED
      BY SMTT(30), <1>2, <1>t, <1>k, <1>n, <1>p, <2>1, WriterMoves, MovedOK DEF TypeOK, ReaderOK
  <1>3. ASSUME NEW w \in Writers, Shift(w) \/ Roll(w)
        PROVE  TypeOK'
    <2>1. RotatesNames /\ reader' = [reader EXCEPT !.rotated = reader.pc # "idle"]
          /\ begun' = begun
      BY <1>3, RotationMoves
    <2>2. FilesOK' /\ Len(files') = Len(files)
      BY <1>t, <2>1 DEF FilesOK, RotatesNames
    <2>3. ReaderOK'
      <3>1. reader' \in Reader(reader.pc, reader.i, reader.seen, reader.read, reader.from,
                               reader.pc # "idle")
        BY <1>t, <2>1, ReaderMoves
      <3>2. /\ reader.pc \in {"idle", "list", "read"} /\ reader.i \in Nat
            /\ reader.seen \in Seq(Names) /\ reader.read \in Seq(Nat)
            /\ reader.from \in SUBSET Nat /\ (reader.pc # "idle") \in BOOLEAN
        BY <1>t DEF ReaderSet
      <3>3. reader' \in ReaderSet /\ reader'.pc = reader.pc /\ reader'.i = reader.i
        BY <3>1, <3>2 DEF Reader, ReaderSet
      <3> QED
        BY <1>t, <3>3 DEF ReaderOK
    <2>4. Shift(w) => writer[w].i >= 1
      BY <1>t DEF Shift, WriterOK
    <2>5. Shift(w) /\ writer[w].i # 1 => writer[w].i - 1 \in 0..Keep /\ writer[w].i - 1 >= 1
      BY <1>t, <1>k, <2>4
    <2> QED
      BY <1>3, <1>t, <1>n, <1>p, <2>2, <2>3, <2>5, WriterMoves, MovedOK DEF TypeOK
  <1>4. ASSUME NEW w \in Writers, Open(w)
        PROVE  TypeOK'
    <2>1. FilesOK' /\ Len(files') >= Len(files) /\ names'[0] \in 1..Len(files')
      BY <1>4, OpenFiles
    <2>2. reader' = reader /\ Moved(w, "write", writer[w].i, names'[0], writer[w].record)
      BY <1>4, WriterMoves DEF Open
    <2>3. names'[0] \in Nat
      BY <2>1 DEF FilesOK
    <2> QED
      BY <1>t, <1>p, <2>1, <2>2, <2>3, MovedOK DEF TypeOK, ReaderOK
  <1>5. ASSUME NEW w \in Writers, Write(w)
        PROVE  TypeOK'
    <2>1. FilesOK' /\ Len(files') = Len(files)
      BY <1>5, WriteFiles
    <2>2. reader' = reader /\ Moved(w, "idle", 0, None, 0)
      BY <1>5, WriterMoves DEF Write
    <2> QED
      BY <1>t, <1>k, <1>n, <1>p, <2>1, <2>2, MovedOK DEF TypeOK, ReaderOK, None
  <1>6. ASSUME StartList \/ SeeName \/ ReadFile \/ EndList
        PROVE  TypeOK'
    <2>1. UNCHANGED <<names, files, writer, begun>>
      BY <1>6 DEF StartList, SeeName, ReadFile, EndList
    <2>2. /\ reader.pc \in {"idle", "list", "read"} /\ reader.i \in Nat
          /\ reader.seen \in Seq(Names) /\ reader.read \in Seq(Nat)
          /\ reader.from \in SUBSET Nat /\ reader.rotated \in BOOLEAN
      BY <1>t DEF ReaderSet
    <2> SUFFICES ReaderOK'
      BY <1>t, <2>1 DEF TypeOK, FilesOK, WriterOK
    <2>3. CASE StartList
      <3> DEFINE from == Retained
      <3>1. from \in SUBSET Nat
        BY <1>t, RetainedOK
      <3>2. reader' = [NotReading EXCEPT !.pc = "list", !.from = from]
        BY <2>3 DEF StartList
      <3> HIDE DEF from
      <3>3. reader' \in ReaderSet /\ reader'.pc = "list" /\ reader'.i = 0
        BY <3>1, <3>2, EmptySeq DEF NotReading, ReaderSet
      <3> QED
        BY <1>k, <3>3 DEF ReaderOK
    <2>4. CASE SeeName
      <3> DEFINE seen == IF names[reader.i] = None THEN reader.seen
                         ELSE Append(reader.seen, reader.i)
      <3>1. reader.i \in Names
        BY <2>2, <2>4 DEF SeeName, TypeOK, ReaderOK, Names
      <3>2. seen \in Seq(Names)
        BY <2>2, <3>1
      <3>3. reader' \in IF reader.i = Keep
                        THEN Reader("read", 1, seen, reader.read, reader.from, reader.rotated)
                        ELSE Reader(reader.pc, reader.i + 1, seen, reader.read, reader.from,
                                    reader.rotated)
        BY <1>t, <2>4, ReaderMoves
      <3> HIDE DEF seen
      <3>4. CASE reader.i = Keep
        <4>1. reader' \in ReaderSet /\ reader'.pc = "read" /\ reader'.i = 1
          BY SMTT(30), <2>2, <3>2, <3>3, <3>4, ReaderType
        <4> QED
          BY <4>1 DEF ReaderOK
      <3>5. CASE reader.i # Keep
        <4>1. reader.i + 1 \in Nat
          BY <2>2
        <4>2. reader' \in ReaderSet /\ reader'.pc = "list" /\ reader'.i = reader.i + 1
          BY <2>2, <2>4, <3>2, <3>3, <3>5, <4>1, ReaderType DEF SeeName
        <4> QED
          BY <1>k, <1>t, <2>2, <2>4, <3>5, <4>2 DEF ReaderOK, SeeName
      <3> QED
        BY <3>4, <3>5
    <2>5. CASE ReadFile
      <3> DEFINE next == reader.read \o Records(NextName)
      <3>1. NextName \in Names
        BY <1>t, <2>2, <2>5, ElementOfSeq DEF ReadFile, NextName, ReaderOK
      <3>2. next \in Seq(Nat)
        BY <1>t, <2>2, <3>1, KeptOK, ConcatProperties
      <3>3. reader' \in Reader(reader.pc, reader.i + 1, reader.seen, next, reader.from,
                               reader.rotated)
        BY <1>t, <2>5, ReaderMoves
      <3>4. reader.pc = "read" /\ reader.i + 1 \in Nat /\ reader.i + 1 >= 1
        BY <2>2, <2>5 DEF ReadFile
      <3> HIDE DEF next
      <3>5. reader' \in ReaderSet /\ reader'.pc = "read" /\ reader'.i = reader.i + 1
        BY <2>2, <3>2, <3>3, <3>4, ReaderType
      <3> QED
        BY <3>4, <3>5 DEF ReaderOK
    <2>6. CASE EndList
      BY <1>i, <2>6 DEF EndList, ReaderOK
    <2> QED
      BY <1>6, <2>3, <2>4, <2>5, <2>6
  <1>7. ASSUME Crash
        PROVE  TypeOK'
    BY <1>i, <1>t, <1>7 DEF Crash, TypeOK, FilesOK, WriterOK, ReaderOK
  <1>8. CASE UNCHANGED vars
    BY <1>8 DEF vars, TypeOK, FilesOK, WriterOK, ReaderOK
  <1> QED
    BY <1>1, <1>2, <1>3, <1>4, <1>5, <1>6, <1>7, <1>8 DEF Next, Step

(***************************************************************************)
(* A record is written once                                                *)
(***************************************************************************)
LEMMA KeptInFile ==
  ASSUME FilesOK, NEW k \in Names, NEW r \in Kept(k)
  PROVE  InFile(r)
  BY KeptOK DEF InFile

LEMMA RetainedInFile ==
  ASSUME FilesOK, NEW r \in Retained
  PROVE  InFile(r)
  BY RetainedOK, KeptInFile

\* Steps that begin and write no record
LEMMA SameRecords ==
  ASSUME Numbered, begun' = begun,
         \A v \in Writers : Pending(v)' => Pending(v) /\ writer'[v].record = writer[v].record,
         \A r : InFile(r)' => InFile(r),
         \A r \in reader'.from : r \in reader.from \/ InFile(r)
  PROVE  Numbered'
  BY DEF Numbered, Fresh

LEMMA NumberedStep == TypeOK /\ Numbered /\ [Next]_vars => Numbered'
  <1> SUFFICES ASSUME TypeOK, Numbered, [Next]_vars PROVE Numbered'
    OBVIOUS
  <1>t. /\ FilesOK /\ begun \in Nat /\ Len(files) \in Nat /\ reader \in ReaderSet
        /\ FilesOK' /\ reader' \in ReaderSet
        /\ \A w \in Writers : WriterOK(w) /\ writer[w].record \in Nat
        /\ \A w \in Writers : WriterOK(w)' /\ writer'[w].record \in Nat
        /\ writer = [w \in Writers |-> writer[w]]
    BY TypeStep DEF TypeOK, FilesOK, ReaderOK, WriterOK, WriterSet
  <1>m. ASSUME NEW w \in Writers, NEW pc, NEW i, NEW f, NEW r, Moved(w, pc, i, f, r)
        PROVE  /\ writer'[w].pc = pc /\ writer'[w].record = r
               /\ \A v \in Writers \ {w} : writer'[v] = writer[v]
    BY <1>m, <1>t DEF Moved
  <1>1. ASSUME NEW w \in Writers, Begin(w)
        PROVE  Numbered'
    <2>1. /\ writer'[w].record = begun + 1 /\ writer[w].pc = "idle"
          /\ \A v \in Writers \ {w} : writer'[v] = writer[v]
          /\ begun' = begun + 1 /\ files' = files /\ reader' = reader
      BY ZenonT(40), <1>1, <1>m, WriterMoves DEF Begin
    <2>2. \A r : InFile(r)' <=> InFile(r)
      BY <2>1 DEF InFile
    <2>3. \A r : InFile(r) \/ r \in reader.from => r <= begun /\ r \in Nat
      <3>1. reader.from \subseteq Nat
        BY <1>t DEF ReaderSet
      <3>2. \A r : InFile(r) => r \in Nat
        <4> SUFFICES ASSUME NEW n \in 1..Len(files), NEW r \in ToSet(files[n])
                     PROVE  r \in Nat
          BY DEF InFile
        <4>1. files[n] \in Seq(Nat)
          BY <1>t DEF FilesOK
        <4> QED
          BY <4>1, LenProperties DEF ToSet
      <3> QED
        BY <3>1, <3>2 DEF Numbered
    <2>4. ~InFile(begun + 1) /\ begun + 1 \notin reader.from
      BY <1>t, <2>3
    <2>5. \A v \in Writers \ {w} : Pending(v) => writer[v].record <= begun
      BY DEF Numbered, Fresh
    <2>6. ASSUME NEW v \in Writers
          PROVE  Fresh(v)'
      <3>1. CASE v = w
        BY <1>t, <2>1, <2>2, <2>4, <2>5, <3>1 DEF Fresh, Pending
      <3>2. CASE v # w
        BY <1>t, <2>1, <2>2, <2>5, <3>2 DEF Fresh, Pending, Numbered
      <3> QED
        BY <3>1, <3>2
    <2> QED
      BY <1>t, <2>1, <2>2, <2>3, <2>6 DEF Numbered
  <1>2. ASSUME NEW w \in Writers, CheckSize(w) \/ Shift(w) \/ Roll(w)
        PROVE  Numbered'
    <2>1. /\ writer'[w].record = writer[w].record /\ Pending(w)
          /\ \A v \in Writers \ {w} : writer'[v] = writer[v]
      <3>1. \E pc, i, f : Moved(w, pc, i, f, writer[w].record)
        BY <1>2, WriterMoves
      <3>2. Pending(w)
        BY <1>2 DEF CheckSize, Shift, Roll, Pending
      <3> QED
        BY <1>m, <3>1, <3>2
    <2>2. begun' = begun /\ files' = files
      BY <1>2 DEF CheckSize, Shift, Roll
    <2>3. reader'.from = reader.from
      BY <1>2, <1>t DEF CheckSize, Shift, Roll, ReaderSet
    <2> QED
      BY <2>1, <2>2, <2>3, SameRecords DEF Pending, InFile
  <1>3. ASSUME NEW w \in Writers, Open(w)
        PROVE  Numbered'
    <2>1. /\ writer'[w].record = writer[w].record /\ Pending(w)
          /\ \A v \in Writers \ {w} : writer'[v] = writer[v]
      <3>1. \E pc, i, f : Moved(w, pc, i, f, writer[w].record)
        BY <1>3, WriterMoves
      <3>2. Pending(w)
        BY <1>3 DEF Open, Pending
      <3> QED
        BY <1>m, <3>1, <3>2
    <2>2. begun' = begun /\ reader' = reader
      BY <1>3 DEF Open
    <2>3. \A r : InFile(r)' => InFile(r)
      BY <1>3, <1>t, OpenFiles DEF InFile
    <2> QED
      BY <2>1, <2>2, <2>3, SameRecords DEF Pending
  <1>4. ASSUME NEW w \in Writers, Write(w)
        PROVE  Numbered'
    <2>1. /\ ~Pending(w)' /\ Pending(w)
          /\ \A v \in Writers \ {w} : writer'[v] = writer[v]
      BY <1>4, <1>m, WriterMoves DEF Write, Pending
    <2>2. begun' = begun /\ reader' = reader
      BY <1>4 DEF Write
    <2>3. \A r : InFile(r)' => InFile(r) \/ r = writer[w].record
      BY <1>4, WriteFiles DEF InFile
    <2>4. writer[w].record <= begun
      BY <2>1 DEF Numbered, Fresh
    <2>5. \A v \in Writers \ {w} : Pending(v) => writer[v].record # writer[w].record
      BY <2>1 DEF Numbered, Fresh
    <2> QED
      BY <2>1, <2>2, <2>3, <2>4, <2>5 DEF Numbered, Fresh, Pending
  <1>5. ASSUME StartList \/ SeeName \/ ReadFile \/ EndList
        PROVE  Numbered'
    <2>1. begun' = begun /\ writer' = writer /\ files' = files
      BY <1>5 DEF StartList, SeeName, ReadFile, EndList
    <2>2. \A r \in reader'.from : r \in reader.from \/ InFile(r)
      <3>1. StartList => reader'.from = Retained
        BY EmptySeq DEF StartList, NotReading
      <3>2. SeeName \/ ReadFile => reader'.from = reader.from
        BY <1>t DEF SeeName, ReadFile, ReaderSet
      <3>3. EndList => reader'.from = {}
        BY DEF EndList, NotReading
      <3> QED
        BY <1>5, <1>t, <3>1, <3>2, <3>3, RetainedInFile
    <2> QED
      BY <2>1, <2>2, SameRecords DEF Pending, InFile
  <1>6. ASSUME Crash
        PROVE  Numbered'
    <2>1. /\ begun' = begun /\ files' = files /\ reader'.from = {}
          /\ \A v \in Writers : ~Pending(v)'
      BY <1>6, BlankOK DEF Crash, Pending
    <2> QED
      BY <2>1, SameRecords DEF InFile
  <1>7. CASE UNCHANGED vars
    BY <1>7, SameRecords DEF vars, Pending, InFile
  <1> QED
    BY <1>1, <1>2, <1>3, <1>4, <1>5, <1>6, <1>7 DEF Next, Step

(***************************************************************************)
(* What is to be shown was read or is ahead of the reader                  *)
(***************************************************************************)
LEMMA SeenOK ==
  ASSUME reader \in ReaderSet
  PROVE  /\ reader.seen \in Seq(Names) /\ reader.read \in Seq(Nat) /\ reader.i \in Nat
         /\ Len(reader.seen) \in Nat /\ DOMAIN reader.seen = 1..Len(reader.seen)
         /\ \A m \in 1..Len(reader.seen) : reader.seen[m] \in Names
  BY LenProperties DEF ReaderSet

\* Steps of writers that rotate nothing: names keep what they held, and what is new
\* nobody asks for.
LEMMA GrowthKeeps ==
  ASSUME TypeOK, Listing, Reading, reader' = reader,
         \A k \in Names : /\ Kept(k) \subseteq Kept(k)'
                          /\ reader.from \cap Kept(k)' \subseteq Kept(k)
  PROVE  Listing' /\ Reading'
  <1>1. reader.seen \in Seq(Names) /\ reader.i \in Nat /\ Len(reader.seen) \in Nat
        /\ \A m \in 1..Len(reader.seen) : reader.seen[m] \in Names
    BY SeenOK DEF TypeOK, ReaderOK
  <1>2. Listing'
    BY DEF Listing, Ordered
  <1>3. Reading'
    <2> SUFFICES ASSUME reader.pc = "read" PROVE Reading'
      BY DEF Reading
    <2>1. reader.i >= 1
      BY DEF TypeOK, ReaderOK
    <2>2. ASSUME NEW r \in reader.from, NEW m \in reader.i..Len(reader.seen),
                 r \in Kept(reader.seen[m])
          PROVE  r \in Kept(reader.seen[m])'
      <3>1. reader.seen[m] \in Names
        BY <1>1, <2>1
      <3> QED
        BY <2>2, <3>1
    <2> QED
      BY <2>2 DEF Reading, Ordered
  <1> QED
    BY <1>2, <1>3

LEMMA RotationKeeps ==
  ASSUME TypeOK, Listing, Reading, RotatesNames,
         reader' = [reader EXCEPT !.rotated = reader.pc # "idle"]
  PROVE  Listing' /\ Reading'
  <1>1. /\ reader'.pc = reader.pc /\ reader'.i = reader.i /\ reader'.seen = reader.seen
        /\ reader'.read = reader.read /\ reader'.from = reader.from
        /\ reader.pc # "idle" => reader'.rotated
    <2>1. reader' \in Reader(reader.pc, reader.i, reader.seen, reader.read, reader.from,
                             reader.pc # "idle")
      BY ReaderMoves DEF TypeOK, ReaderOK
    <2> QED
      BY <2>1 DEF Reader
  <1>2. Listing'
    BY <1>1 DEF Listing, Ordered
  <1>3. Reading'
    <2> SUFFICES ASSUME reader.pc = "read" PROVE Reading'
      BY <1>1 DEF Reading
    <2>1. ASSUME Len(reader.seen) = Keep + 1, NEW k \in Names, k < reader.i - 1
          PROVE  reader.from \cap Kept(k)' \subseteq ToSet(reader.read)
      <3>1. \/ Kept(k)' = {}
            \/ Kept(k)' = Kept(k)
            \/ k > 0 /\ k - 1 \in Names /\ Kept(k)' = Kept(k - 1)
        BY RotatedKept DEF TypeOK
      <3>2. k \in Int /\ reader.i \in Nat
        BY SeenOK DEF TypeOK, ReaderOK, Names
      <3>3. k - 1 < reader.i - 1
        BY <2>1, <3>2
      <3> QED
        BY <2>1, <3>1, <3>3 DEF Reading
    <2> QED
      BY <1>1, <2>1 DEF Reading, Ordered
  <1> QED
    BY <1>2, <1>3

LEMMA SeeKeeps ==
  ASSUME TypeOK, Listing, SeeName
  PROVE  Listing' /\ Reading'
  <1> DEFINE i == reader.i
             seen == IF names[i] = None THEN reader.seen ELSE Append(reader.seen, i)
  <1>1. /\ reader.seen \in Seq(Names) /\ i \in Nat /\ Len(reader.seen) \in Nat
        /\ reader.pc = "list" /\ i <= Keep /\ Keep \in Nat /\ i \in Names
        /\ DOMAIN reader.seen = 1..Len(reader.seen)
    BY SeenOK, LogAssumption DEF TypeOK, ReaderOK, SeeName, Names
  <1>2. /\ reader'.seen = seen /\ reader'.from = reader.from /\ reader'.rotated = reader.rotated
        /\ i = Keep => reader'.pc = "read" /\ reader'.i = 1
        /\ i # Keep => reader'.pc = "list" /\ reader'.i = i + 1
    <2>1. reader' \in IF i = Keep
                      THEN Reader("read", 1, seen, reader.read, reader.from, reader.rotated)
                      ELSE Reader(reader.pc, i + 1, seen, reader.read, reader.from,
                                  reader.rotated)
      BY ReaderMoves DEF TypeOK, ReaderOK
    <2> HIDE DEF seen, i
    <2> QED
      BY <1>1, <2>1 DEF Reader
  <1>3. \A k \in Names : Kept(k)' = Kept(k)
    BY DEF SeeName, Kept, Records
  <1>4. seen \in Seq(Names) /\ Len(seen) \in Nat /\ Len(seen) <= i + 1
        /\ DOMAIN seen = 1..Len(seen)
    BY <1>1 DEF Listing
  <1>5. Len(seen) = i + 1 => \A m \in 1..i + 1 : seen[m] = m - 1
    <2> SUFFICES ASSUME Len(seen) = i + 1, NEW m \in 1..i + 1
                 PROVE  seen[m] = m - 1
      OBVIOUS
    <2>1. Len(reader.seen) <= i /\ Ordered(i)
      BY <1>1 DEF Listing
    <2>2. names[i] # None /\ Len(reader.seen) = i
      BY <1>1, <2>1
    <2>3. seen = Append(reader.seen, i)
      BY <2>2
    <2>4. CASE m = i + 1
      BY <1>1, <2>2, <2>3, <2>4
    <2>5. CASE m # i + 1
      <3>1. m \in 1..i /\ seen[m] = reader.seen[m]
        BY <1>1, <2>2, <2>3, <2>5
      <3> QED
        BY <2>1, <2>2, <3>1 DEF Ordered
    <2> QED
      BY <2>4, <2>5
  <1>6. ASSUME ~reader.rotated, NEW r \in reader.from
        PROVE  \E k \in Names : r \in Kept(k) /\ (k \in ToSet(seen) \/ k >= i + 1)
    <2>1. PICK k \in Names : r \in Kept(k) /\ (k \in ToSet(reader.seen) \/ k >= i)
      BY <1>1, <1>6 DEF Listing
    <2>2. ToSet(reader.seen) \subseteq ToSet(seen)
      BY <1>1, AppendToSet
    <2>3. k = i => k \in ToSet(seen)
      <3>1. k = i => names[i] # None
        BY <2>1, KeptOK DEF TypeOK
      <3> QED
        BY <1>1, <3>1, AppendToSet
    <2>4. k >= i => k = i \/ k >= i + 1
      BY <1>1 DEF Names
    <2> QED
      BY <2>1, <2>2, <2>3, <2>4
  <1> HIDE DEF seen
  <1>7. Listing'
    <2> SUFFICES ASSUME reader'.pc = "list" PROVE Listing'
      BY DEF Listing
    <2>1. i # Keep /\ reader'.i = i + 1
      BY <1>2
    <2> QED
      BY <1>2, <1>3, <1>4, <1>5, <1>6, <2>1 DEF Listing, Ordered
  <1>8. Reading'
    <2> SUFFICES ASSUME reader'.pc = "read" PROVE Reading'
      BY DEF Reading
    <2>1. i = Keep /\ reader'.i = 1
      BY <1>2
    <2>2. Len(reader'.seen) <= Keep + 1 /\ Ordered(Keep + 1)'
      BY <1>2, <1>4, <1>5, <2>1 DEF Ordered
    <2>3. \A k \in Names : ~(k < reader'.i - 1)
      BY <2>1 DEF Names
    <2>4. ASSUME ~reader.rotated, NEW r \in reader.from
          PROVE  \E m \in 1..Len(seen) : r \in Kept(seen[m])
      <3>1. PICK k \in Names : r \in Kept(k) /\ (k \in ToSet(seen) \/ k >= i + 1)
        BY <1>6, <2>4
      <3>2. k \in ToSet(seen)
        BY <1>1, <2>1, <3>1 DEF Names
      <3>3. PICK m \in 1..Len(seen) : seen[m] = k
        BY <1>4, <3>2 DEF ToSet
      <3> QED
        BY <3>1, <3>3
    <2>5. \A m \in 1..Len(seen) : Kept(reader.seen[m])' = Kept(seen[m])
      BY <1>2 DEF SeeName, Kept, Records
    <2>6. ASSUME ~reader'.rotated, NEW r \in reader'.from
          PROVE  \E m \in reader'.i..Len(reader'.seen) : r \in Kept(reader.seen[m])'
      <3>1. PICK m \in 1..Len(seen) : r \in Kept(seen[m])
        BY <1>2, <2>4, <2>6
      <3> QED
        BY <1>2, <2>1, <2>5, <3>1
    <2> QED
      BY <2>2, <2>3, <2>6 DEF Reading
  <1> QED
    BY <1>7, <1>8

LEMMA ReadKeeps ==
  ASSUME TypeOK, Reading, ReadFile
  PROVE  Listing' /\ Reading'
  <1> DEFINE i == reader.i
             seen == reader.seen
             next == reader.read \o Records(NextName)
  <1>1. /\ seen \in Seq(Names) /\ i \in Nat /\ i >= 1 /\ Len(seen) \in Nat /\ i <= Len(seen)
        /\ reader.pc = "read" /\ reader.read \in Seq(Nat) /\ NextName \in Names
        /\ Keep \in Nat
    BY SeenOK, LogAssumption DEF TypeOK, ReaderOK, ReadFile, NextName
  <1>2. /\ reader'.seen = seen /\ reader'.from = reader.from /\ reader'.rotated = reader.rotated
        /\ reader'.pc = "read" /\ reader'.i = i + 1 /\ reader'.read = next
    <2>1. reader' \in Reader(reader.pc, i + 1, seen, next, reader.from, reader.rotated)
      BY ReaderMoves DEF TypeOK, ReaderOK
    <2> HIDE DEF seen, i, next
    <2> QED
      BY <1>1, <2>1 DEF Reader
  <1>3. ToSet(next) = ToSet(reader.read) \cup Kept(NextName)
    <2>1. Records(NextName) \in Seq(Nat)
      BY <1>1, KeptOK DEF TypeOK
    <2> QED
      BY <1>1, <2>1, ConcatToSet DEF Kept
  <1>4. /\ \A k \in Names : Kept(k)' = Kept(k)
        /\ \A m : Kept(reader.seen[m])' = Kept(seen[m])
    BY <1>2 DEF ReadFile, Kept, Records
  <1> HIDE DEF next
  <1>5. Listing'
    BY <1>2 DEF Listing
  <1>6. ASSUME Len(seen) = Keep + 1, NEW k \in Names, k < i
        PROVE  reader.from \cap Kept(k) \subseteq ToSet(next)
    <2>1. CASE k < i - 1
      BY <1>1, <1>3, <1>6, <2>1 DEF Reading
    <2>2. CASE k = i - 1
      <3>1. NextName = k
        BY <1>1, <1>6, <2>2 DEF Reading, Ordered, NextName
      <3> QED
        BY <1>3, <3>1
    <2>3. k \in Int /\ (k < i - 1 \/ k = i - 1)
      BY <1>1, <1>6 DEF Names
    <2> QED
      BY <2>1, <2>2, <2>3
  <1>7. ASSUME ~reader.rotated, NEW r \in reader.from
        PROVE  r \in ToSet(next) \/ \E m \in i + 1..Len(seen) : r \in Kept(seen[m])
    <2>1. \/ r \in ToSet(reader.read)
          \/ \E m \in i..Len(seen) : r \in Kept(seen[m])
      BY <1>1, <1>7 DEF Reading
    <2>2. ASSUME NEW m \in i..Len(seen), r \in Kept(seen[m])
          PROVE  r \in ToSet(next) \/ m \in i + 1..Len(seen)
      BY <1>1, <1>3, <2>2 DEF NextName
    <2> QED
      BY <1>3, <2>1, <2>2
  <1>8. Reading'
    <2>1. Len(reader'.seen) <= Keep + 1 /\ Ordered(Keep + 1)'
      BY <1>1, <1>2 DEF Reading, Ordered
    <2>2. ASSUME Len(reader'.seen) = Keep + 1, NEW k \in Names, k < reader'.i - 1
          PROVE  reader'.from \cap Kept(k)' \subseteq ToSet(reader'.read)
      <3>1. k < i
        BY <1>1, <1>2, <2>2 DEF Names
      <3> QED
        BY <1>2, <1>4, <1>6, <2>2, <3>1
    <2>3. ASSUME ~reader'.rotated, NEW r \in reader'.from
          PROVE  \/ r \in ToSet(reader'.read)
                 \/ \E m \in reader'.i..Len(reader'.seen) : r \in Kept(reader.seen[m])'
      <3>1. r \in ToSet(next) \/ \E m \in i + 1..Len(seen) : r \in Kept(seen[m])
        BY <1>2, <1>7, <2>3
      <3> QED
        BY <1>2, <1>4, <3>1
    <2> QED
      BY <2>1, <2>2, <2>3 DEF Reading
  <1> QED
    BY <1>5, <1>8

LEMMA ListStep == ListInv /\ [Next]_vars => ListInv'
  <1> SUFFICES ASSUME ListInv, [Next]_vars PROVE ListInv'
    OBVIOUS
  <1>t. TypeOK /\ Numbered /\ Listing /\ Reading /\ FilesOK /\ reader \in ReaderSet
    BY DEF ListInv, TypeOK, ReaderOK
  <1> SUFFICES Listing' /\ Reading'
    BY <1>t, TypeStep, NumberedStep DEF ListInv
  <1>1. ASSUME NEW w \in Writers, Begin(w) \/ CheckSize(w)
        PROVE  Listing' /\ Reading'
    <2>1. reader' = reader /\ names' = names /\ files' = files
      BY <1>1 DEF Begin, CheckSize
    <2> QED
      BY <1>t, <2>1, GrowthKeeps DEF Kept, Records
  <1>2. ASSUME NEW w \in Writers, Shift(w) \/ Roll(w)
        PROVE  Listing' /\ Reading'
    BY <1>t, <1>2, RotationMoves, RotationKeeps
  <1>3. ASSUME NEW w \in Writers, Open(w)
        PROVE  Listing' /\ Reading'
    BY <1>t, <1>3, OpenFiles, GrowthKeeps DEF Open
  <1>4. ASSUME NEW w \in Writers, Write(w)
        PROVE  Listing' /\ Reading'
    <2>1. writer[w].record \notin reader.from
      BY <1>t, <1>4 DEF Write, Numbered, Fresh, Pending
    <2>2. reader' = reader
      BY <1>4 DEF Write
    <2> QED
      BY <1>t, <1>4, <2>1, <2>2, WriteFiles, GrowthKeeps
  <1>5. ASSUME StartList
        PROVE  Listing' /\ Reading'
    <2>1. /\ reader'.pc = "list" /\ reader'.i = 0 /\ reader'.seen = <<>>
          /\ reader'.from = Retained
      BY <1>t, <1>5, ReaderMoves, EmptySeq DEF StartList, NotReading
    <2>2. \A k \in Names : Kept(k)' = Kept(k)
      BY <1>5 DEF StartList, Kept, Records
    <2>3. \A r \in Retained : \E k \in Names : r \in Kept(k)' /\ k >= 0
      BY <1>t, <2>2, RetainedOK DEF Names
    <2> QED
      BY <2>1, <2>3 DEF Listing, Reading, Ordered
  <1>6. ASSUME EndList \/ Crash
        PROVE  Listing' /\ Reading'
    BY <1>6, BlankOK DEF EndList, Crash, Listing, Reading
  <1>7. CASE UNCHANGED vars
    BY <1>t, <1>7, GrowthKeeps DEF vars, Kept, Records
  <1> QED
    BY <1>t, <1>1, <1>2, <1>3, <1>4, <1>5, <1>6, <1>7, SeeKeeps, ReadKeeps DEF Next, Step

LEMMA ListInit == Init => ListInv
  <1> SUFFICES ASSUME Init PROVE ListInv
    OBVIOUS
  <1>1. \A r : ~InFile(r)
    BY DEF Init, InFile
  <1>2. Numbered
    BY <1>1, BlankOK DEF Init, Numbered, Fresh, Pending
  <1> QED
    BY <1>2, TypeInit, BlankOK DEF Init, ListInv, Listing, Reading

\* history.list shows every record that was there when it began and is there when it
\* ends, however many handlers append to the history and rotate it meanwhile
\* (history_files, history_list).
THEOREM ListingIsComplete == Spec => []ListMissesNothing
  <1>1. ListInv => ListMissesNothing
    <2> SUFFICES ASSUME ListInv, reader.pc = "read", reader.i > Len(reader.seen)
                 PROVE  \/ reader.from \cap Retained \subseteq ToSet(reader.read)
                        \/ reader.rotated /\ Len(reader.seen) <= Keep
      BY DEF ListMissesNothing
    <2>1. /\ reader.i \in Nat /\ Len(reader.seen) \in Nat /\ Len(reader.seen) <= Keep + 1
          /\ Keep \in Nat /\ FilesOK
      BY SeenOK, LogAssumption DEF ListInv, TypeOK, ReaderOK, Reading
    <2>2. CASE ~reader.rotated
      BY <2>1, <2>2 DEF ListInv, Reading
    <2>3. CASE Len(reader.seen) = Keep + 1
      <3>1. \A k \in Names : k < reader.i - 1
        BY <2>1, <2>3 DEF Names
      <3>2. \A k \in Names : reader.from \cap Kept(k) \subseteq ToSet(reader.read)
        BY <2>3, <3>1 DEF ListInv, Reading
      <3> QED
        BY <2>1, <3>2, RetainedOK
    <2> QED
      BY <2>1, <2>2, <2>3
  <1> QED
    BY <1>1, ListInit, ListStep, PTL DEF Spec

(***************************************************************************)
(* What a rotation throws away                                             *)
(***************************************************************************)
Sole == \A v, w \in Writers : v = w

Full(n) == Len(files[n]) >= RotateSize

\* A rotation is going on and has not moved the log itself yet.
Rotating == \E w \in Writers : writer[w].pc \in {"shift", "roll"}

\* Every name from i on was given to an older file by the rotation that goes on.
Shifted(i) == \E w \in Writers : \/ writer[w].pc = "shift" /\ i > writer[w].i
                                 \/ writer[w].pc = "roll" /\ i > 0
                                 \/ writer[w].pc = "open" /\ names[0] = None

\* Later files, and later places in a file, hold later records.
Ascending == \A m, n \in 1..Len(files) : \A k \in DOMAIN files[m], l \in DOMAIN files[n] :
               m < n \/ (m = n /\ k < l) => files[m][k] < files[n][l]

\* The record that is begun is later than all that were written.
Latest == /\ \A n \in 1..Len(files) : \A k \in DOMAIN files[n] : files[n][k] <= begun
          /\ \A w \in Writers : Pending(w) =>
               /\ writer[w].record = begun
               /\ \A n \in 1..Len(files) : \A k \in DOMAIN files[n] : files[n][k] < begun

\* The log is the newest file.  The others are full, and so is it once it is rotated.
Newest == /\ names[0] \in {None, Len(files)}
          /\ \A w \in Writers : writer[w].pc = "write" =>
               writer[w].file = Len(files) /\ names[0] = Len(files)
          /\ \A n \in 1..Len(files) : n < Len(files) \/ names[0] = None \/ Rotating => Full(n)

\* The name that a file is about to take is free.
Free == \A w \in Writers :
          /\ writer[w].pc = "shift" /\ writer[w].i < Keep => names[writer[w].i + 1] = None
          /\ writer[w].pc = "roll" => names[1] = None

Falling == \A i, j \in Names :
             i < j /\ names[i] # None /\ names[j] # None => names[i] > names[j]

\* A file is at most as many names on as there are newer files, or rotations that died.
Placed == \A i \in Names : names[i] # None =>
            i + names[i] <= Len(files) + crashes + (IF Shifted(i) THEN 1 ELSE 0)

\* The files that have a name are all those after one, and if that one was thrown away
\* then Keep full files are newer, less the rotations that died.
CutAt(c) ==
  /\ \A i \in Names : names[i] # None => names[i] > c
  /\ \A n \in c + 1..Len(files) : \E i \in Names : names[i] = n
  /\ c > 0 => \A n \in c + 1..c + Keep - crashes : n <= Len(files) /\ Full(n)

RotationInv == /\ TypeOK /\ crashes \in Nat
               /\ Ascending /\ Latest /\ Newest /\ Free /\ Falling /\ Placed
               /\ \E c \in 0..Len(files) : CutAt(c)

LEMMA RotationFacts ==
  ASSUME RotationInv
  PROVE  /\ files \in Seq(Seq(Nat)) /\ Len(files) \in Nat /\ begun \in Nat /\ crashes \in Nat
         /\ \A n \in 1..Len(files) :
              files[n] \in Seq(Nat) /\ Len(files[n]) \in Nat
              /\ DOMAIN files[n] = 1..Len(files[n]) /\ \A k \in DOMAIN files[n] : files[n][k] \in Nat
         /\ names \in [Names -> 0..Len(files)]
         /\ Keep \in Nat /\ Keep >= 1 /\ RotateSize \in Nat /\ RotateSize >= 1
         /\ Names = 0..Keep /\ None = 0
  <1>1. files \in Seq(Seq(Nat)) /\ names \in [Names -> 0..Len(files)] /\ begun \in Nat
        /\ crashes \in Nat
    BY DEF RotationInv, TypeOK, FilesOK
  <1>2. Len(files) \in Nat /\ \A n \in 1..Len(files) : files[n] \in Seq(Nat)
    BY <1>1
  <1>3. ASSUME NEW n \in 1..Len(files)
        PROVE  /\ Len(files[n]) \in Nat /\ DOMAIN files[n] = 1..Len(files[n])
               /\ \A k \in DOMAIN files[n] : files[n][k] \in Nat
    <2>1. files[n] \in Seq(Nat)
      BY <1>2
    <2> QED
      BY <2>1, LenProperties
  <1> QED
    BY <1>1, <1>2, <1>3, LogAssumption DEF Names, None

\* With one writer, what some or every writer does is what this one does.
LEMMA SoleWriter ==
  ASSUME Sole, NEW w \in Writers
  PROVE  LET pc == writer[w].pc IN
         /\ Rotating <=> pc \in {"shift", "roll"}
         /\ \A i : Shifted(i) <=> \/ pc = "shift" /\ i > writer[w].i
                                  \/ pc = "roll" /\ i > 0
                                  \/ pc = "open" /\ names[0] = None
         /\ Free <=> /\ pc = "shift" /\ writer[w].i < Keep => names[writer[w].i + 1] = None
                     /\ pc = "roll" => names[1] = None
  <1>1. \A v \in Writers : v = w
    BY DEF Sole
  <1> QED
    BY <1>1 DEF Rotating, Shifted, Free

LEMMA SoleWriterNext ==
  ASSUME Sole, NEW w \in Writers
  PROVE  LET pc == writer'[w].pc IN
         /\ Rotating' <=> pc \in {"shift", "roll"}
         /\ \A i : Shifted(i)' <=> \/ pc = "shift" /\ i > writer'[w].i
                                   \/ pc = "roll" /\ i > 0
                                   \/ pc = "open" /\ names'[0] = None
         /\ Free' <=> /\ pc = "shift" /\ writer'[w].i < Keep => names'[writer'[w].i + 1] = None
                      /\ pc = "roll" => names'[1] = None
  <1>1. \A v \in Writers : v = w
    BY DEF Sole
  <1> QED
    BY <1>1 DEF Rotating, Shifted, Free

LEMMA MovedFields ==
  ASSUME TypeOK, NEW w \in Writers, NEW pc, NEW i, NEW f, NEW r, Moved(w, pc, i, f, r)
  PROVE  /\ writer'[w].pc = pc /\ writer'[w].i = i /\ writer'[w].file = f
         /\ writer'[w].record = r
  <1>1. writer'[w] = [pc |-> pc, i |-> i, file |-> f, record |-> r]
    BY DEF Moved, TypeOK
  <1> QED
    BY <1>1

\* A step that leaves the files and their names alone.
LEMMA QuietKeeps ==
  ASSUME RotationInv, names' = names, files' = files, crashes' \in Nat, crashes' >= crashes
  PROVE  /\ Ascending' /\ Falling' /\ \E c \in 0..Len(files') : CutAt(c)'
         /\ (\A i \in Names : Shifted(i) => Shifted(i)' \/ crashes' > crashes) => Placed'
  <1>1. Ascending' /\ Falling'
    BY DEF RotationInv, Ascending, Falling
  <1>2. PICK c \in 0..Len(files) : CutAt(c)
    BY DEF RotationInv
  <1>3. CutAt(c)'
    <2>1. \A n : n \in c + 1..c + Keep - crashes' => n \in c + 1..c + Keep - crashes
      BY RotationFacts
    <2>2. /\ \A i \in Names : names[i] # None => names[i] > c
          /\ \A n \in c + 1..Len(files) : \E i \in Names : names[i] = n
          /\ c > 0 => \A n \in c + 1..c + Keep - crashes :
                       n <= Len(files) /\ Len(files[n]) >= RotateSize
      BY <1>2 DEF CutAt, Full
    <2>3. c > 0 => \A n \in c + 1..c + Keep - crashes' :
                       n <= Len(files) /\ Len(files[n]) >= RotateSize
      BY <2>1, <2>2
    <2> QED
      BY <2>2, <2>3 DEF CutAt, Full
  <1>4. ASSUME \A i \in Names : Shifted(i) => Shifted(i)' \/ crashes' > crashes
        PROVE  Placed'
    <2> SUFFICES ASSUME NEW i \in Names, names[i] # None
                 PROVE  i + names[i] <= Len(files) + crashes' + (IF Shifted(i)' THEN 1 ELSE 0)
      BY DEF Placed
    <2>1. i + names[i] <= Len(files) + crashes + (IF Shifted(i) THEN 1 ELSE 0)
      BY DEF RotationInv, Placed
    <2>2. names[i] \in Nat /\ i \in Nat /\ Len(files) \in Nat /\ crashes \in Nat
      BY RotationFacts
    <2> QED
      BY <1>4, <2>1, <2>2
  <1> QED
    BY <1>1, <1>2, <1>3, <1>4

RotationParts == /\ crashes \in Nat
                 /\ Ascending /\ Latest /\ Newest /\ Free /\ Falling /\ Placed
                 /\ \E c \in 0..Len(files) : CutAt(c)

LEMMA BeginRotation ==
  ASSUME RotationInv, Sole, NEW w \in Writers, Begin(w)
  PROVE  RotationParts'
  <1>1. /\ names' = names /\ files' = files /\ crashes' = crashes /\ begun' = begun + 1
        /\ writer[w].pc = "idle" /\ TypeOK
    BY DEF Begin, RotationInv
  <1>2. writer'[w].pc = "check" /\ writer'[w].record = begun + 1
    BY <1>1, WriterMoves, MovedFields
  <1>3. \A v \in Writers : v = w
    BY DEF Sole
  <1>4. \A i : ~Shifted(i) /\ ~Shifted(i)'
    BY <1>1, <1>2, SoleWriter, SoleWriterNext
  <1>5. Ascending' /\ Falling' /\ Placed' /\ (\E c \in 0..Len(files) : CutAt(c))'
        /\ crashes' \in Nat
    BY <1>1, <1>4, RotationFacts, QuietKeeps
  <1>6. Latest'
    <2> SUFFICES ASSUME NEW n \in 1..Len(files), NEW k \in DOMAIN files[n]
                 PROVE  files[n][k] <= begun + 1 /\ files[n][k] < begun + 1
      BY <1>1, <1>2, <1>3 DEF Latest
    <2>1. files[n][k] \in Nat /\ begun \in Nat
      BY RotationFacts
    <2>2. files[n][k] <= begun
      BY DEF Latest, RotationInv
    <2> QED
      BY <2>1, <2>2
  <1>7. Free'
    BY <1>2, SoleWriterNext
  <1>8. Newest'
    <2>1. ~Rotating' /\ \A v \in Writers : writer'[v].pc # "write"
      BY <1>2, <1>3, SoleWriterNext
    <2>2. names[0] \in {None, Len(files)}
          /\ \A n \in 1..Len(files) : n < Len(files) \/ names[0] = None => Full(n)
      BY DEF Newest, RotationInv
    <2> QED
      BY <1>1, <2>1, <2>2 DEF Newest, Full
  <1> QED
    BY <1>5, <1>6, <1>7, <1>8 DEF RotationParts

LEMMA CheckRotation ==
  ASSUME RotationInv, Sole, NEW w \in Writers, CheckSize(w)
  PROVE  RotationParts'
  <1>1. /\ names' = names /\ files' = files /\ crashes' = crashes /\ begun' = begun
        /\ writer[w].pc = "check" /\ TypeOK
    BY DEF CheckSize, RotationInv
  <1>2. \/ writer'[w].pc = "open"
        \/ writer'[w].pc = "shift" /\ writer'[w].i = Keep /\ Len(Records(0)) >= RotateSize
    <2>1. CASE Len(Records(0)) < RotateSize
      <3>1. writer' = [writer EXCEPT ![w].pc = "open"]
        BY <2>1 DEF CheckSize
      <3>2. Moved(w, "open", writer[w].i, writer[w].file, writer[w].record)
        BY <1>1, <3>1, WriterFields
      <3> QED
        BY <1>1, <3>2, MovedFields
    <2>2. CASE ~(Len(Records(0)) < RotateSize)
      <3>1. writer' = [writer EXCEPT ![w].pc = "shift", ![w].i = Keep]
        BY <2>2 DEF CheckSize
      <3>2. Len(Records(0)) \in Nat
        BY <1>1, LogAssumption, KeptOK, LenProperties DEF TypeOK, Names
      <3>3. Moved(w, "shift", Keep, writer[w].file, writer[w].record)
        BY <1>1, <3>1, WriterFields
      <3>4. writer'[w].pc = "shift" /\ writer'[w].i = Keep
        BY <1>1, <3>3, MovedFields
      <3> QED
        BY <2>2, <3>2, <3>4, RotationFacts
    <2> QED
      BY <2>1, <2>2
  <1>3. \A v \in Writers : v = w
    BY DEF Sole
  <1>r. writer'[w].record = writer[w].record
    BY <1>1, WriterMoves, MovedFields
  <1>4. \A i \in Names : ~Shifted(i)
    BY <1>1, SoleWriter
  <1>5. Ascending' /\ Falling' /\ Placed' /\ (\E c \in 0..Len(files) : CutAt(c))'
        /\ crashes' \in Nat
    BY <1>1, <1>4, RotationFacts, QuietKeeps
  <1>6. Latest'
    BY <1>1, <1>2, <1>3, <1>r DEF Latest, RotationInv, Pending
  <1>7. Free'
    BY <1>2, SoleWriterNext, RotationFacts
  <1>8. Newest'
    <2>1. writer'[w].pc = "shift" => \A n \in 1..Len(files) : Full(n)
      <3> SUFFICES ASSUME writer'[w].pc = "shift", NEW n \in 1..Len(files)
                   PROVE  Full(n)
        OBVIOUS
      <3>1. Len(Records(0)) >= RotateSize /\ RotateSize >= 1
        BY <1>2, RotationFacts
      <3>2. names[0] # None /\ Records(0) = files[names[0]]
        <4>1. Len(<<>>) = 0
          OBVIOUS
        <4> QED
          BY <3>1, <4>1, RotationFacts DEF Records
      <3>3. names[0] = Len(files)
        BY <3>2 DEF Newest, RotationInv
      <3>4. n < Len(files) \/ n = Len(files)
        BY RotationFacts
      <3> QED
        BY <3>1, <3>2, <3>3, <3>4 DEF Newest, RotationInv, Full
    <2>2. names[0] \in {None, Len(files)}
          /\ \A n \in 1..Len(files) : n < Len(files) \/ names[0] = None => Full(n)
      BY DEF Newest, RotationInv
    <2>3. Rotating' => writer'[w].pc = "shift"
      BY <1>2, SoleWriterNext
    <2> QED
      BY <1>1, <1>2, <1>3, <2>1, <2>2, <2>3 DEF Newest, Full
  <1> QED
    BY <1>5, <1>6, <1>7, <1>8 DEF RotationParts

LEMMA CrashRotation ==
  ASSUME RotationInv, Crash
  PROVE  RotationParts'
  <1>1. /\ names' = names /\ files' = files /\ crashes' = crashes + 1 /\ begun' = begun
        /\ writer' = [w \in Writers |-> Idle]
    BY DEF Crash
  <1>2. \A w \in Writers : writer'[w].pc = "idle"
    BY <1>1, BlankOK
  <1>3. ~Rotating' /\ Free' /\ \A w \in Writers : ~Pending(w)'
    BY <1>2 DEF Rotating, Free, Pending
  <1>4. Ascending' /\ Falling' /\ Placed' /\ (\E c \in 0..Len(files) : CutAt(c))'
        /\ crashes' \in Nat
    BY <1>1, RotationFacts, QuietKeeps
  <1>5. Latest'
    BY <1>1, <1>3 DEF Latest, RotationInv
  <1>6. Newest'
    <2>1. names[0] \in {None, Len(files)}
          /\ \A n \in 1..Len(files) : n < Len(files) \/ names[0] = None => Full(n)
      BY DEF Newest, RotationInv
    <2> QED
      BY <1>1, <1>2, <1>3, <2>1 DEF Newest, Full
  <1> QED
    BY <1>3, <1>4, <1>5, <1>6 DEF RotationParts

LEMMA ReadRotation ==
  ASSUME RotationInv, UNCHANGED <<names, files, writer, begun, crashes>>
  PROVE  RotationParts'
  <1>1. UNCHANGED <<names, files, writer, begun, crashes>>
    OBVIOUS
  <1>2. /\ \A i : Shifted(i)' <=> Shifted(i)
        /\ Rotating' <=> Rotating
    BY <1>1 DEF Shifted, Rotating
  <1>3. Ascending' /\ Falling' /\ Placed' /\ (\E c \in 0..Len(files) : CutAt(c))'
        /\ crashes' \in Nat
    BY <1>1, <1>2, RotationFacts, QuietKeeps
  <1>4. Latest' /\ Free'
    BY <1>1 DEF Latest, Free, Pending, RotationInv
  <1>5. Newest'
    BY <1>1, <1>2 DEF Newest, Full, RotationInv
  <1> QED
    BY <1>3, <1>4, <1>5 DEF RotationParts

\* A file takes the next name, which is free.
MovesUp(j) == /\ names' \in [Names -> 0..Len(files)]
              /\ \A k \in Names : names'[k] = IF k = j THEN None
                                              ELSE IF k = j + 1 THEN names[j] ELSE names[k]

LEMMA RenamedUp ==
  ASSUME RotationInv, NEW j \in 0..Keep - 1, names' = Renamed(j, j + 1), names[j + 1] = None
  PROVE  MovesUp(j)
  <1>1. /\ j \in Names /\ j + 1 \in Names /\ j + 1 # j /\ names \in [Names -> 0..Len(files)]
        /\ None \in 0..Len(files)
    BY RotationFacts
  <1>2. CASE names[j] = None
    <2>1. names' = names
      BY <1>2 DEF Renamed
    <2> QED
      BY <1>1, <1>2, <2>1 DEF MovesUp
  <1>3. CASE names[j] # None
    <2> DEFINE up == [names EXCEPT ![j + 1] = names[j]]
    <2>1. up \in [Names -> 0..Len(files)] /\ up[j + 1] = names[j]
          /\ \A k \in Names \ {j + 1} : up[k] = names[k]
      BY <1>1
    <2>2. names' = [up EXCEPT ![j] = None]
      BY <1>3 DEF Renamed
    <2> HIDE DEF up
    <2>3. names' \in [Names -> 0..Len(files)] /\ names'[j] = None
          /\ \A k \in Names \ {j} : names'[k] = up[k]
      BY <1>1, <2>1, <2>2
    <2> QED
      BY <1>1, <2>1, <2>3 DEF MovesUp
  <1> QED
    BY <1>2, <1>3

\* When a file takes the next name the names stay in order, and the same files have one.
LEMMA MoveKeeps ==
  ASSUME RotationInv, NEW j \in 0..Keep - 1, names[j + 1] = None, MovesUp(j),
         files' = files, crashes' = crashes
  PROVE  /\ Ascending' /\ Falling' /\ (\E c \in 0..Len(files) : CutAt(c))'
         /\ (\A k \in Names : Shifted(k) => Shifted(k)')
              /\ ~Shifted(j) /\ Shifted(j + 1)' => Placed'
  <1>1. /\ j \in Names /\ j + 1 \in Names /\ j \in Nat /\ Names = 0..Keep /\ Keep \in Nat
        /\ \A k \in Names : names[k] \in Nat
    BY RotationFacts
  <1>2. \A k \in Names : names'[k] = IF k = j THEN None
                                     ELSE IF k = j + 1 THEN names[j] ELSE names[k]
    BY DEF MovesUp
  <1>3. Ascending'
    BY DEF RotationInv, Ascending
  <1>4. Falling'
    <2> SUFFICES ASSUME NEW i \in Names, NEW k \in Names, i < k, names'[i] # None, names'[k] # None
                 PROVE  names'[i] > names'[k]
      BY DEF Falling
    <2>1. \A a, b \in Names : a < b /\ names[a] # None /\ names[b] # None => names[a] > names[b]
      BY DEF RotationInv, Falling
    <2>2. i # j /\ k # j
      BY <1>2
    <2>3. CASE i = j + 1
      BY <1>1, <1>2, <2>1, <2>2, <2>3
    <2>4. CASE k = j + 1
      <3>1. i < j /\ names'[k] = names[j] /\ names'[i] = names[i]
        BY <1>1, <1>2, <2>2, <2>4
      <3> QED
        BY <1>1, <2>1, <3>1
    <2>5. CASE i # j + 1 /\ k # j + 1
      BY <1>2, <2>1, <2>2, <2>5
    <2> QED
      BY <2>3, <2>4, <2>5
  <1>5. PICK c \in 0..Len(files) : CutAt(c)
    BY DEF RotationInv
  <1>6. CutAt(c)'
    <2>1. \A i \in Names : names'[i] # None => names'[i] > c
      BY <1>1, <1>2, <1>5 DEF CutAt
    <2>2. ASSUME NEW n \in c + 1..Len(files)
          PROVE  \E i \in Names : names'[i] = n
      <3>1. PICK i \in Names : names[i] = n
        BY <1>5 DEF CutAt
      <3>2. n # None /\ i # j + 1
        BY <3>1, RotationFacts
      <3>3. CASE i = j
        BY <1>1, <1>2, <3>1, <3>3
      <3>4. CASE i # j
        BY <1>2, <3>1, <3>2, <3>4
      <3> QED
        BY <3>3, <3>4
    <2> QED
      BY <1>5, <2>1, <2>2 DEF CutAt, Full
  <1>7. ASSUME \A k \in Names : Shifted(k) => Shifted(k)', ~Shifted(j), Shifted(j + 1)'
        PROVE  Placed'
    <2> SUFFICES ASSUME NEW k \in Names, names'[k] # None
                 PROVE  k + names'[k] <= Len(files) + crashes + (IF Shifted(k)' THEN 1 ELSE 0)
      BY DEF Placed
    <2>1. /\ Len(files) \in Nat /\ crashes \in Nat
          /\ \A i \in Names : names[i] # None =>
               i + names[i] <= Len(files) + crashes + (IF Shifted(i) THEN 1 ELSE 0)
      BY RotationFacts DEF RotationInv, Placed
    <2>2. k # j
      BY <1>2
    <2>3. CASE k = j + 1
      <3>1. names'[k] = names[j] /\ names[j] # None
        BY <1>1, <1>2, <2>3
      <3>2. j + names[j] <= Len(files) + crashes
        BY <1>1, <1>7, <2>1, <3>1
      <3> QED
        BY <1>1, <1>7, <2>1, <2>3, <3>1, <3>2
    <2>4. CASE k # j + 1
      <3>1. names'[k] = names[k] /\ names[k] # None
        BY <1>2, <2>2, <2>4
      <3>2. k + names[k] <= Len(files) + crashes + (IF Shifted(k) THEN 1 ELSE 0)
        BY <2>1, <3>1
      <3> QED
        BY <1>1, <1>7, <2>1, <3>1, <3>2
    <2> QED
      BY <2>3, <2>4
  <1> QED
    BY <1>3, <1>4, <1>5, <1>6, <1>7

LEMMA ShiftRotation ==
  ASSUME RotationInv, Sole, NEW w \in Writers, Shift(w)
  PROVE  RotationParts'
  <1>0. PICK i : i = writer[w].i
    OBVIOUS
  <1>1. /\ files' = files /\ crashes' = crashes /\ begun' = begun
        /\ writer[w].pc = "shift" /\ TypeOK
    BY DEF Shift, RotationInv
  <1>2. i \in 1..Keep /\ i \in Names /\ Keep \in Nat /\ Keep >= 1
    BY <1>0, <1>1, RotationFacts DEF TypeOK, WriterOK, WriterSet
  <1>3. IF i = 1 THEN writer'[w].pc = "roll"
        ELSE writer'[w].pc = "shift" /\ writer'[w].i = i - 1
    <2>1. CASE i = 1
      <3>1. writer' = [writer EXCEPT ![w].pc = "roll"]
        BY <1>0, <2>1 DEF Shift
      <3>2. Moved(w, "roll", writer[w].i, writer[w].file, writer[w].record)
        BY <1>1, <3>1, WriterFields
      <3> QED
        BY <1>1, <2>1, <3>2, MovedFields
    <2>2. CASE i # 1
      <3>1. writer' = [writer EXCEPT ![w].i = i - 1]
        BY <1>0, <2>2 DEF Shift
      <3>2. Moved(w, writer[w].pc, i - 1, writer[w].file, writer[w].record)
        BY <1>1, <3>1, WriterFields
      <3> QED
        BY <1>1, <2>2, <3>2, MovedFields
    <2> QED
      BY <2>1, <2>2
  <1>r. writer'[w].record = writer[w].record /\ writer'[w].pc # "write"
    BY <1>1, <1>3, WriterMoves, MovedFields
  <1>4. \A v \in Writers : v = w
    BY DEF Sole
  <1>5. /\ \A k : Shifted(k) <=> k > i
        /\ \A k \in Names : Shifted(k)' <=> k > i - 1
        /\ Rotating /\ Rotating'
    <2>1. Rotating /\ \A k : Shifted(k) <=> k > i
      BY <1>0, <1>1, SoleWriter
    <2>2. CASE i = 1
      <3>1. Rotating' /\ \A k : Shifted(k)' <=> k > 0
        BY <1>3, <2>2, SoleWriterNext
      <3> QED
        BY <2>1, <2>2, <3>1
    <2>3. CASE i # 1
      BY <1>3, <2>1, <2>3, SoleWriterNext
    <2> QED
      BY <2>2, <2>3
  <1>6. /\ names[0] \in {None, Len(files)}
        /\ \A n \in 1..Len(files) : Full(n)
    BY <1>5, RotationFacts DEF Newest, RotationInv
  <1>7. Latest'
    BY <1>1, <1>4, <1>r DEF Latest, RotationInv, Pending
  <1>8. ASSUME names'[0] = names[0]
        PROVE  Newest'
    BY <1>1, <1>4, <1>6, <1>8, <1>r DEF Newest, Full
  <1>9. CASE i = Keep
    <2>1. names' = [names EXCEPT ![Keep] = None]
      BY <1>0, <1>9 DEF Shift
    <2>2. /\ Keep \in Names /\ 0 \in Names /\ Keep # 0 /\ names'[Keep] = None
          /\ \A k \in Names \ {Keep} : names'[k] = names[k]
          /\ \A k \in Names : /\ names[k] \in Nat
                              /\ names'[k] # None => k < Keep /\ names'[k] = names[k]
      BY <1>2, <2>1, RotationFacts
    <2>3. Ascending' /\ Falling'
      BY <1>1, <2>2 DEF RotationInv, Ascending, Falling
    <2>4. Placed'
      <3> SUFFICES ASSUME NEW k \in Names, names'[k] # None
                   PROVE  k + names'[k] <= Len(files) + crashes + (IF Shifted(k)' THEN 1 ELSE 0)
        BY <1>1 DEF Placed
      <3>1. names'[k] = names[k] /\ k < Keep /\ names[k] # None
        BY <2>2
      <3>2. k + names[k] <= Len(files) + crashes + (IF Shifted(k) THEN 1 ELSE 0)
        BY <3>1 DEF RotationInv, Placed
      <3>3. ~Shifted(k) /\ k \in Nat /\ names[k] \in Nat
        BY <1>2, <1>5, <1>9, <2>2, <3>1, RotationFacts
      <3> QED
        BY <3>1, <3>2, <3>3, RotationFacts
    <2>5. Free'
      BY <1>2, <1>3, <1>9, <2>2, SoleWriterNext
    <2>6. Newest'
      BY <1>8, <2>2
    <2>7. \E c \in 0..Len(files) : CutAt(c)'
      <3>1. PICK c \in 0..Len(files) : CutAt(c)
        BY DEF RotationInv
      <3>2. CASE names[Keep] = None
        <4>1. names' = names
          BY <2>1, <3>2, RotationFacts
        <4> QED
          BY <1>1, <3>1, <4>1 DEF CutAt, Full
      <3>3. CASE names[Keep] # None
        <4>0. PICK d : d = names[Keep]
          OBVIOUS
        <4>1. d \in 0..Len(files) /\ d # 0 /\ d > c /\ Len(files) \in Nat /\ crashes \in Nat
          BY <2>2, <3>1, <3>3, <4>0, RotationFacts DEF CutAt
        <4>2. \A k \in Names \ {Keep} : names[k] # None => names[k] > d
          BY <1>2, <2>2, <3>3, <4>0, RotationFacts DEF RotationInv, Falling
        <4>3. ASSUME NEW n \in d + 1..Len(files)
              PROVE  \E k \in Names : names'[k] = n
          <5>1. n \in c + 1..Len(files) /\ n # d
            BY <4>1
          <5>2. PICK k \in Names : names[k] = n
            BY <3>1, <5>1 DEF CutAt
          <5>3. k # Keep
            BY <4>0, <5>1, <5>2
          <5> QED
            BY <2>2, <5>2, <5>3
        <4>4. Keep + d <= Len(files) + crashes
          <5>1. Keep + d <= Len(files) + crashes + (IF Shifted(Keep) THEN 1 ELSE 0)
            BY <2>2, <3>3, <4>0 DEF RotationInv, Placed
          <5>2. ~Shifted(Keep)
            BY <1>2, <1>5, <1>9
          <5> QED
            BY <1>2, <4>1, <5>1, <5>2
        <4>5. \A n \in d + 1..d + Keep - crashes : n \in 1..Len(files)
          BY <1>2, <4>1, <4>4
        <4>6. \A n \in d + 1..d + Keep - crashes : n <= Len(files) /\ Full(n)
          BY <1>6, <4>5
        <4>7. \A k \in Names : names'[k] # None => names'[k] > d
          BY <2>2, <4>2
        <4>8. CutAt(d)'
          BY <1>1, <4>3, <4>6, <4>7 DEF CutAt, Full
        <4> QED
          BY <1>1, <4>1, <4>8
      <3> QED
        BY <3>2, <3>3
    <2> QED
      BY <1>1, <1>7, <2>3, <2>4, <2>5, <2>6, <2>7, RotationFacts DEF RotationParts
  <1>10. CASE i # Keep
    <2>1. names' = Renamed(i, i + 1) /\ i \in 0..Keep - 1 /\ i + 1 \in Names /\ i < Keep
      BY SMTT(30), <1>0, <1>2, <1>10, RotationFacts DEF Shift
    <2>2. names[i + 1] = None
      BY <1>0, <1>1, <2>1, SoleWriter DEF RotationInv
    <2>3. MovesUp(i)
      BY <2>1, <2>2, RenamedUp
    <2>4. /\ names'[0] = names[0] /\ names'[i] = None /\ 0 \in Names
      <3>1. 0 \in Names /\ i # 0 /\ i + 1 # 0
        BY <1>2, RotationFacts
      <3> QED
        BY <1>2, <2>3, <3>1 DEF MovesUp
    <2>5. /\ \A k \in Names : Shifted(k) => Shifted(k)'
          /\ ~Shifted(i) /\ Shifted(i + 1)'
      BY <1>2, <1>5, <2>1, RotationFacts
    <2>6. Ascending' /\ Falling' /\ (\E c \in 0..Len(files) : CutAt(c))' /\ Placed'
      BY <1>1, <2>1, <2>2, <2>3, <2>5, MoveKeeps
    <2>7. Free'
      BY <1>2, <1>3, <2>2, <2>4, SoleWriterNext
    <2> QED
      BY <1>1, <1>7, <1>8, <2>4, <2>6, <2>7, RotationFacts DEF RotationParts
  <1> QED
    BY <1>9, <1>10


LEMMA RollRotation ==
  ASSUME RotationInv, Sole, NEW w \in Writers, Roll(w)
  PROVE  RotationParts'
  <1>1. /\ files' = files /\ crashes' = crashes /\ begun' = begun
        /\ writer[w].pc = "roll" /\ TypeOK /\ names' = Renamed(0, 0 + 1)
    BY DEF Roll, RotationInv
  <1>2. writer'[w].pc = "open" /\ writer'[w].record = writer[w].record
    BY <1>1, WriterMoves, MovedFields
  <1>3. names[0 + 1] = None /\ 0 \in 0..Keep - 1 /\ 0 \in Names
    BY <1>1, SoleWriter, RotationFacts DEF RotationInv
  <1>4. MovesUp(0)
    BY <1>1, <1>3, RenamedUp
  <1>5. names'[0] = None
    BY <1>3, <1>4 DEF MovesUp
  <1>6. \A v \in Writers : v = w
    BY DEF Sole
  <1>7. Rotating /\ (\A k : Shifted(k)') /\ ~Shifted(0)
    BY <1>1, <1>2, <1>5, SoleWriter, SoleWriterNext
  <1>8. Ascending' /\ Falling' /\ (\E c \in 0..Len(files) : CutAt(c))' /\ Placed'
    BY <1>1, <1>3, <1>4, <1>7, MoveKeeps
  <1>9. Latest'
    BY <1>1, <1>2, <1>6 DEF Latest, RotationInv, Pending
  <1>10. Newest'
    <2>1. \A n \in 1..Len(files) : Full(n)
      BY <1>7 DEF Newest, RotationInv
    <2> QED
      BY <1>1, <1>2, <1>5, <1>6, <2>1 DEF Newest, Full
  <1>11. Free'
    BY <1>2, SoleWriterNext
  <1> QED
    BY <1>1, <1>8, <1>9, <1>10, <1>11, RotationFacts DEF RotationParts

LEMMA OpenRotation ==
  ASSUME RotationInv, Sole, NEW w \in Writers, Open(w)
  PROVE  RotationParts'
  <1>1. crashes' = crashes /\ begun' = begun /\ writer[w].pc = "open" /\ TypeOK
    BY DEF Open, RotationInv
  <1>2. /\ writer'[w].pc = "write" /\ writer'[w].record = writer[w].record
        /\ writer'[w].file = names'[0]
    BY <1>1, WriterMoves, MovedFields
  <1>3. \A v \in Writers : v = w
    BY DEF Sole
  <1>4. ~Rotating' /\ Free' /\ \A k : ~Shifted(k)'
    BY <1>2, SoleWriterNext
  <1>f. /\ files \in Seq(Seq(Nat)) /\ Len(files) \in Nat /\ crashes \in Nat /\ 0 \in Names
        /\ names \in [Names -> 0..Len(files)] /\ None = 0 /\ Names \subseteq Nat
    BY RotationFacts
  <1>5. CASE names[0] = None
    <2>1. files' = Append(files, <<>>) /\ names' = [names EXCEPT ![0] = Len(files) + 1]
      BY <1>5 DEF Open
    <2>2. /\ Len(files') = Len(files) + 1 /\ DOMAIN files'[Len(files) + 1] = {}
          /\ \A n \in 1..Len(files) : files'[n] = files[n]
      BY <1>f, <2>1
    <2>3. /\ names'[0] = Len(files) + 1
          /\ \A k \in Names \ {0} : names'[k] = names[k] /\ names[k] \in 0..Len(files)
      BY <1>f, <2>1
    <2>4. \A n \in 1..Len(files') : n = Len(files) + 1 \/ n \in 1..Len(files)
      BY <1>f, <2>2
    <2>5. Ascending'
      <3> SUFFICES ASSUME NEW m \in 1..Len(files'), NEW n \in 1..Len(files'),
                          NEW k \in DOMAIN files'[m], NEW l \in DOMAIN files'[n],
                          m < n \/ (m = n /\ k < l)
                   PROVE  files'[m][k] < files'[n][l]
        BY DEF Ascending
      <3>1. m \in 1..Len(files) /\ n \in 1..Len(files)
        BY <2>2, <2>4
      <3> QED
        BY <2>2, <3>1 DEF RotationInv, Ascending
    <2>6. Latest'
      <3>1. \A n \in 1..Len(files') : \A k \in DOMAIN files'[n] :
              n \in 1..Len(files) /\ files'[n] = files[n]
        BY <2>2, <2>4
      <3> QED
        BY <1>1, <1>2, <1>3, <3>1 DEF Latest, RotationInv, Pending
    <2>7. \A n \in 1..Len(files) : Full(n) /\ Full(n)'
      BY <1>5, <2>2 DEF Newest, RotationInv, Full
    <2>8. Newest'
      <3>1. \A n \in 1..Len(files') : n < Len(files') => n \in 1..Len(files)
        BY <1>f, <2>2
      <3> QED
        BY <1>f, <1>2, <1>3, <1>4, <2>2, <2>3, <2>7, <3>1 DEF Newest
    <2>9. Falling'
      <3> SUFFICES ASSUME NEW i \in Names, NEW k \in Names, i < k, names'[i] # None, names'[k] # None
                   PROVE  names'[i] > names'[k]
        BY DEF Falling
      <3>1. k # 0 /\ names'[k] = names[k] /\ names[k] \in 0..Len(files)
        BY <1>f, <2>3
      <3>2. CASE i = 0
        BY <1>f, <2>3, <3>1, <3>2
      <3>3. CASE i # 0
        BY <2>3, <3>1, <3>3 DEF RotationInv, Falling
      <3> QED
        BY <3>2, <3>3
    <2>10. Placed'
      <3> SUFFICES ASSUME NEW k \in Names, names'[k] # None
                   PROVE  k + names'[k] <= Len(files') + crashes
        <4>1. Len(files') + crashes + 0 = Len(files') + crashes
          BY <1>f, <2>2
        <4> QED
          BY <1>1, <1>4, <4>1 DEF Placed
      <3>1. CASE k = 0
        BY <1>f, <2>2, <2>3, <3>1
      <3>2. CASE k # 0
        <4>1. names[k] # None /\ names'[k] = names[k] /\ names[k] \in Nat /\ k \in Nat
          BY <1>f, <2>3, <3>2
        <4>2. k + names[k] <= Len(files) + crashes + (IF Shifted(k) THEN 1 ELSE 0)
          BY <4>1 DEF RotationInv, Placed
        <4> QED
          BY <1>f, <2>2, <4>1, <4>2
      <3> QED
        BY <3>1, <3>2
    <2>11. PICK c \in 0..Len(files) : CutAt(c)
      BY DEF RotationInv
    <2>12. CutAt(c)'
      <3>1. \A i \in Names : names'[i] # None => names'[i] > c
        <4>1. names'[0] > c
          BY <1>f, <2>3
        <4> QED
          BY <2>3, <2>11, <4>1 DEF CutAt
      <3>2. ASSUME NEW n \in c + 1..Len(files')
            PROVE  \E i \in Names : names'[i] = n
        <4>1. CASE n = Len(files) + 1
          BY <1>f, <2>3, <4>1
        <4>2. CASE n # Len(files) + 1
          <5>0. c \in Nat /\ Len(files') = Len(files) + 1 /\ Len(files) \in Nat /\ None = 0
            BY <1>f, <2>2, <2>11
          <5>1. n \in c + 1..Len(files) /\ n # None
            BY SMTT(30), <3>2, <4>2, <5>0
          <5>2. PICK i \in Names : names[i] = n
            BY <2>11, <5>1 DEF CutAt
          <5>3. i # 0
            BY <1>5, <5>1, <5>2
          <5> QED
            BY <2>3, <5>2, <5>3
        <4> QED
          BY <4>1, <4>2
      <3>3. ASSUME c > 0, NEW n \in c + 1..c + Keep - crashes
            PROVE  n <= Len(files') /\ Full(n)'
        <4>1. n <= Len(files) /\ Full(n) /\ n \in 1..Len(files)
          BY <1>f, <2>11, <3>3, RotationFacts DEF CutAt
        <4> QED
          BY <1>f, <2>2, <2>7, <4>1
      <3> QED
        BY <1>1, <3>1, <3>2, <3>3 DEF CutAt
    <2>13. \E d \in 0..Len(files') : CutAt(d)'
      BY <1>f, <2>2, <2>11, <2>12
    <2> QED
      BY <1>1, <1>4, <1>f, <2>5, <2>6, <2>8, <2>9, <2>10, <2>13 DEF RotationParts
  <1>6. CASE names[0] # None
    <2>1. names' = names /\ files' = files
      BY <1>6 DEF Open
    <2>2. \A k : ~Shifted(k)
      BY <1>1, <1>6, SoleWriter
    <2>3. Ascending' /\ Falling' /\ Placed' /\ (\E c \in 0..Len(files) : CutAt(c))'
      BY <1>1, <1>f, <2>1, <2>2, QuietKeeps
    <2>4. Latest'
      BY <1>1, <1>2, <1>3, <2>1 DEF Latest, RotationInv, Pending
    <2>5. Newest'
      <3>1. names[0] = Len(files) /\ \A n \in 1..Len(files) : n < Len(files) => Full(n)
        BY <1>6 DEF Newest, RotationInv
      <3> QED
        BY <1>2, <1>3, <1>4, <1>6, <2>1, <3>1 DEF Newest, Full
    <2> QED
      BY <1>1, <1>4, <1>f, <2>3, <2>4, <2>5 DEF RotationParts
  <1> QED
    BY <1>5, <1>6

LEMMA WriteRotation ==
  ASSUME RotationInv, Sole, NEW w \in Writers, Write(w)
  PROVE  RotationParts'
  <1>1. /\ crashes' = crashes /\ begun' = begun /\ names' = names
        /\ writer[w].pc = "write" /\ TypeOK
    BY DEF Write, RotationInv
  <1>2. writer'[w].pc = "idle"
    BY <1>1, WriterMoves, MovedFields
  <1>3. \A v \in Writers : v = w
    BY DEF Sole
  <1>4. ~Rotating' /\ Free' /\ \A k : ~Shifted(k)' /\ ~Shifted(k)
    BY <1>1, <1>2, SoleWriter, SoleWriterNext
  <1>f. /\ files \in Seq(Seq(Nat)) /\ Len(files) \in Nat /\ crashes \in Nat /\ begun \in Nat
        /\ \A m \in 1..Len(files) :
              files[m] \in Seq(Nat) /\ Len(files[m]) \in Nat
              /\ DOMAIN files[m] = 1..Len(files[m]) /\ \A k \in DOMAIN files[m] : files[m][k] \in Nat
        /\ RotateSize \in Nat
    BY RotationFacts
  <1>5. PICK n : n = Len(files)
    OBVIOUS
  <1>6. /\ writer[w].file = n /\ names[0] = n /\ writer[w].record = begun
        /\ \A m \in 1..Len(files) : \A k \in DOMAIN files[m] : files[m][k] < begun
    BY <1>1, <1>5 DEF RotationInv, Newest, Latest, Pending
  <1>7. n \in 1..Len(files)
    BY <1>1, <1>6 DEF TypeOK, WriterOK
  <1>8. files' = [files EXCEPT ![n] = Append(files[n], begun)]
    BY <1>6 DEF Write
  <1>9. Append(files[n], begun) \in Seq(Nat)
    BY <1>f, <1>7
  <1>10. /\ Len(files') = Len(files)
         /\ \A m \in 1..Len(files) : files'[m] = IF m = n THEN Append(files[n], begun) ELSE files[m]
    BY <1>f, <1>7, <1>8, <1>9, ExceptSeq
  <1>11. /\ Len(files'[n]) = Len(files[n]) + 1 /\ DOMAIN files'[n] = 1..Len(files[n]) + 1
         /\ files'[n][Len(files[n]) + 1] = begun
         /\ \A k \in 1..Len(files[n]) : files'[n][k] = files[n][k]
    <2>1. files[n] \in Seq(Nat) /\ files'[n] = Append(files[n], begun)
      BY <1>f, <1>7, <1>10
    <2> QED
      BY <1>f, <2>1
  <1>12. ASSUME NEW m \in 1..Len(files), NEW k \in DOMAIN files'[m]
         PROVE  \/ k \in DOMAIN files[m] /\ files'[m][k] = files[m][k]
                \/ m = n /\ k = Len(files[n]) + 1 /\ files'[m][k] = begun
    <2>1. CASE m = n
      <3>1. k \in 1..Len(files[n]) + 1 /\ DOMAIN files[n] = 1..Len(files[n])
            /\ Len(files[n]) \in Nat
        BY <1>f, <1>7, <1>11, <2>1
      <3> QED
        BY <1>11, <2>1, <3>1
    <2>2. CASE m # n
      BY <1>10, <2>2
    <2> QED
      BY <2>1, <2>2
  <1>13. Ascending'
    <2> SUFFICES ASSUME NEW a \in 1..Len(files), NEW b \in 1..Len(files),
                        NEW k \in DOMAIN files'[a], NEW l \in DOMAIN files'[b],
                        a < b \/ (a = b /\ k < l)
                 PROVE  files'[a][k] < files'[b][l]
      BY <1>10 DEF Ascending
    <2>1. k \in DOMAIN files[a] /\ files'[a][k] = files[a][k]
      <3> SUFFICES ASSUME a = n, k = Len(files[n]) + 1
                   PROVE  FALSE
        BY <1>12
      <3>1. a = b /\ k < l
        BY <1>5, <1>f
      <3> QED
        BY <1>f, <1>7, <1>11, <3>1
    <2>2. CASE l \in DOMAIN files[b] /\ files'[b][l] = files[b][l]
      BY <2>1, <2>2 DEF RotationInv, Ascending
    <2>3. CASE files'[b][l] = begun
      BY <1>6, <2>1, <2>3
    <2> QED
      BY <1>12, <2>2, <2>3
  <1>14. Latest'
    <2>1. \A m \in 1..Len(files) : \A k \in DOMAIN files'[m] : files'[m][k] <= begun
      <3> SUFFICES ASSUME NEW m \in 1..Len(files), NEW k \in DOMAIN files'[m]
                   PROVE  files'[m][k] <= begun
        OBVIOUS
      <3>1. CASE k \in DOMAIN files[m] /\ files'[m][k] = files[m][k]
        BY <1>f, <1>6, <3>1
      <3>2. CASE files'[m][k] = begun
        BY <1>f, <3>2
      <3> QED
        BY <1>12, <3>1, <3>2
    <2>2. \A v \in Writers : ~Pending(v)'
      BY <1>2, <1>3 DEF Pending
    <2> QED
      BY <1>1, <1>10, <2>1, <2>2 DEF Latest
  <1>15. \A m \in 1..Len(files) : Full(m) => Full(m)'
    <2> SUFFICES ASSUME NEW m \in 1..Len(files)
                 PROVE  Len(files'[m]) >= Len(files[m])
      BY <1>f, <1>10 DEF Full
    <2>1. Len(files[m]) \in Nat
      BY <1>f
    <2> QED
      BY <1>10, <1>11, <2>1
  <1>16. Newest'
    <2>1. names[0] = Len(files) /\ \A m \in 1..Len(files) : m < Len(files) => Full(m)
      BY <1>5, <1>6 DEF RotationInv, Newest
    <2>2. names[0] # None
      BY <1>6, <1>7 DEF None
    <2> QED
      BY <1>1, <1>2, <1>3, <1>4, <1>10, <1>15, <2>1, <2>2 DEF Newest
  <1>17. Falling'
    BY <1>1 DEF RotationInv, Falling
  <1>18. Placed'
    BY <1>1, <1>4, <1>10 DEF RotationInv, Placed
  <1>19. PICK c \in 0..Len(files) : CutAt(c)
    BY DEF RotationInv
  <1>20. CutAt(c)'
    <2>1. /\ \A i \in Names : names[i] # None => names[i] > c
          /\ \A m \in c + 1..Len(files) : \E i \in Names : names[i] = m
          /\ c > 0 => \A m \in c + 1..c + Keep - crashes : m <= Len(files) /\ Full(m)
      BY <1>19 DEF CutAt
    <2>2. \A m \in c + 1..c + Keep - crashes : m <= Len(files) => m \in 1..Len(files)
      BY <1>f, RotationFacts
    <2> QED
      BY <1>1, <1>10, <1>15, <2>1, <2>2 DEF CutAt
  <1> QED
    BY <1>1, <1>f, <1>4, <1>10, <1>13, <1>14, <1>16, <1>17, <1>18, <1>19, <1>20 DEF RotationParts

LEMMA RotationStep == Sole /\ RotationInv /\ [Next]_vars => RotationInv'
  <1> SUFFICES ASSUME Sole, RotationInv, [Next]_vars
               PROVE  RotationInv'
    OBVIOUS
  <1>1. TypeOK'
    BY TypeStep DEF RotationInv
  <1>2. ASSUME StartList \/ SeeName \/ ReadFile \/ EndList \/ UNCHANGED vars
        PROVE  RotationParts'
    BY <1>2, ReadRotation DEF StartList, SeeName, ReadFile, EndList, vars
  <1>3. RotationParts'
    BY <1>2, BeginRotation, CheckRotation, ShiftRotation, RollRotation, OpenRotation,
       WriteRotation, CrashRotation DEF Next, Step
  <1> QED
    BY <1>1, <1>3 DEF RotationInv, RotationParts

LEMMA RotationInit == Init => RotationInv
  <1> SUFFICES ASSUME Init PROVE RotationInv
    OBVIOUS
  <1>1. /\ TypeOK /\ Len(files) = 0 /\ crashes = 0 /\ 0 \in 0..Len(files)
        /\ \A i \in Names : names[i] = None
        /\ \A w \in Writers : writer[w].pc = "idle"
    BY TypeInit, BlankOK DEF Init
  <1>2. 0 \in Names
    BY LogAssumption DEF Names
  <1>3. Ascending /\ Latest /\ Newest
    BY <1>1, <1>2 DEF Ascending, Latest, Newest, Pending
  <1>4. Free /\ Falling /\ Placed
    BY <1>1 DEF Free, Falling, Placed
  <1>5. CutAt(0)
    BY <1>1 DEF CutAt
  <1> QED
    BY <1>1, <1>3, <1>4, <1>5 DEF RotationInv

(***************************************************************************)
(* From the files to the records                                           *)
(***************************************************************************)
LEMMA RecordsOf ==
  ASSUME RotationInv
  PROVE  /\ \A i \in Names : \A k \in DOMAIN Records(i) :
              /\ names[i] \in 1..Len(files) /\ Records(i) = files[names[i]]
              /\ k \in DOMAIN files[names[i]]
         /\ \A r \in Retained : \E i \in Names : \E k \in DOMAIN files[names[i]] :
              names[i] \in 1..Len(files) /\ r = files[names[i]][k]
         /\ \A i \in Names : names[i] # None =>
              \A k \in DOMAIN files[names[i]] : files[names[i]][k] \in Retained
         /\ \A s : s \in Recorded <=>
              \E n \in 1..Len(files) : \E k \in DOMAIN files[n] : s = files[n][k]
  <1>f. /\ names \in [Names -> 0..Len(files)] /\ None = 0 /\ Len(files) \in Nat
        /\ DOMAIN files = 1..Len(files)
    BY RotationFacts, LenProperties
  <1>1. ASSUME NEW i \in Names, NEW k \in DOMAIN Records(i)
        PROVE  /\ names[i] \in 1..Len(files) /\ Records(i) = files[names[i]]
               /\ k \in DOMAIN files[names[i]]
    <2>1. DOMAIN <<>> = {}
      OBVIOUS
    <2>2. names[i] # None
      BY <2>1 DEF Records
    <2> QED
      BY <1>f, <2>2 DEF Records
  <1>2. ASSUME NEW r \in Retained
        PROVE  \E i \in Names : \E k \in DOMAIN files[names[i]] :
                 names[i] \in 1..Len(files) /\ r = files[names[i]][k]
    <2>1. PICK i \in Names : r \in ToSet(Records(i))
      BY DEF Retained
    <2>2. PICK k \in DOMAIN Records(i) : r = Records(i)[k]
      BY <2>1 DEF ToSet
    <2> QED
      BY <1>1, <2>2
  <1>3. ASSUME NEW i \in Names, names[i] # None, NEW k \in DOMAIN files[names[i]]
        PROVE  files[names[i]][k] \in Retained
    <2>1. files[names[i]][k] \in ToSet(Records(i))
      BY <1>3 DEF Records, ToSet
    <2> QED
      BY <2>1 DEF Retained
  <1>4. \A s : s \in Recorded <=>
          \E n \in 1..Len(files) : \E k \in DOMAIN files[n] : s = files[n][k]
    BY <1>f DEF Recorded, ToSet
  <1> QED
    BY <1>1, <1>2, <1>3, <1>4

LEMMA RecordsInOrder == RotationInv => InOrder
  <1> SUFFICES ASSUME RotationInv, NEW i \in Names, NEW j \in Names,
                      NEW k \in DOMAIN Records(i), NEW l \in DOMAIN Records(j),
                      i > j \/ (i = j /\ k < l)
               PROVE  Records(i)[k] < Records(j)[l]
    BY DEF InOrder
  <1> DEFINE m == names[i]
             n == names[j]
  <1>1. /\ m \in 1..Len(files) /\ Records(i) = files[m] /\ k \in DOMAIN files[m]
        /\ n \in 1..Len(files) /\ Records(j) = files[n] /\ l \in DOMAIN files[n]
    BY RecordsOf
  <1>2. m < n \/ (m = n /\ k < l)
    <2>1. CASE i > j
      <3>1. names[j] > names[i]
        <4>0. None = 0 /\ i \in Nat /\ j \in Nat /\ Len(files) \in Nat
          BY LogAssumption, RotationFacts DEF Names
        <4>1. names[i] # None /\ names[j] # None /\ j < i
          BY <1>1, <2>1, <4>0
        <4> QED
          BY <4>1 DEF RotationInv, Falling
      <3> QED
        BY <1>1, <3>1, RotationFacts
    <2> QED
      BY <2>1
  <1> HIDE DEF m, n
  <1> QED
    BY <1>1, <1>2 DEF RotationInv, Ascending

LEMMA RecordsNoGap == RotationInv => NoGap
  <1> SUFFICES ASSUME RotationInv, NEW r \in Retained, NEW s \in Recorded, r < s
               PROVE  s \in Retained
    BY DEF NoGap
  <1>1. PICK i \in Names : \E k \in DOMAIN files[names[i]] :
          names[i] \in 1..Len(files) /\ r = files[names[i]][k]
    BY RecordsOf
  <1>2. PICK k \in DOMAIN files[names[i]] : names[i] \in 1..Len(files) /\ r = files[names[i]][k]
    BY <1>1
  <1>3. PICK n \in 1..Len(files) : \E l \in DOMAIN files[n] : s = files[n][l]
    BY RecordsOf
  <1>4. PICK l \in DOMAIN files[n] : s = files[n][l]
    BY <1>3
  <1>5. PICK m : m = names[i]
    OBVIOUS
  <1>6. r \in Nat /\ s \in Nat /\ m \in Nat /\ n \in Nat
    <2>1. \A a \in 1..Len(files) : \A b \in DOMAIN files[a] : files[a][b] \in Nat
      BY RotationFacts
    <2>2. r \in Nat /\ s \in Nat
      BY <1>2, <1>4, <2>1
    <2>3. m \in Nat /\ n \in Nat
      BY <1>2, <1>3, <1>5
    <2> QED
      BY <2>2, <2>3
  <1>7. ~(n < m)
    <2> SUFFICES ASSUME n < m
                 PROVE  s < r
      BY <1>6
    <2> QED
      BY <1>2, <1>4, <1>5 DEF RotationInv, Ascending
  <1>8. PICK c \in 0..Len(files) : CutAt(c)
    BY DEF RotationInv
  <1>9. m > c
    BY <1>2, <1>5, <1>8, RotationFacts DEF CutAt
  <1>10. n \in c + 1..Len(files)
    BY <1>6, <1>7, <1>9, RotationFacts
  <1>11. PICK j \in Names : names[j] = n
    BY <1>8, <1>10 DEF CutAt
  <1>12. names[j] # None
    BY <1>11, RotationFacts
  <1> QED
    BY <1>4, <1>11, <1>12, RecordsOf

LEMMA UpToCardinality ==
  ASSUME NEW n \in Nat
  PROVE  IsFiniteSet(1..n) /\ Cardinality(1..n) = n
  <1>1. /\ IsFiniteSet(1..n)
        /\ Cardinality(1..n) = IF 1 > n THEN 0 ELSE n - 1 + 1
    BY FS_Interval
  <1> QED
    BY <1>1

LEMMA ManyRecords ==
  ASSUME RotationInv, NEW c \in 0..Len(files), CutAt(c), c > 0, Keep - crashes >= 0
  PROVE  Cardinality(Retained) >= (Keep - crashes) * RotateSize
  <1> DEFINE K == Keep - crashes
             S == (1..K) \X (1..RotateSize)
             f == [p \in S |-> files[c + p[1]][p[2]]]
  <1>f. /\ Len(files) \in Nat /\ crashes \in Nat /\ begun \in Nat /\ K \in Nat /\ Keep \in Nat
        /\ RotateSize \in Nat /\ names \in [Names -> 0..Len(files)] /\ None = 0
        /\ \A n \in 1..Len(files) :
             DOMAIN files[n] = 1..Len(files[n]) /\ Len(files[n]) \in Nat
    BY RotationFacts
  <1>1. ASSUME NEW a \in 1..K, NEW b \in 1..RotateSize
        PROVE  /\ c + a \in 1..Len(files) /\ b \in DOMAIN files[c + a]
               /\ files[c + a][b] \in Retained
    <2>1. c + a \in c + 1..c + Keep - crashes
      BY <1>f
    <2>2. c + a <= Len(files) /\ Full(c + a)
      BY <2>1 DEF CutAt
    <2>3. c + a \in 1..Len(files) /\ b \in DOMAIN files[c + a]
      BY <1>f, <2>2 DEF Full
    <2>4. c + a \in c + 1..Len(files)
      BY <1>f, <2>2
    <2>5. PICK i \in Names : names[i] = c + a
      BY <2>4 DEF CutAt
    <2>6. names[i] # None
      BY <1>f, <2>5
    <2> QED
      BY <2>3, <2>5, <2>6, RecordsOf
  <1>2. /\ Retained \in SUBSET Nat /\ \A r \in Retained : r <= begun
    <2>1. Retained \subseteq Nat
      BY RetainedOK DEF RotationInv, TypeOK
    <2>2. \A r \in Retained : r <= begun
      BY RecordsOf DEF RotationInv, Latest
    <2> QED
      BY <2>1, <2>2
  <1>3. IsFiniteSet(Retained)
    BY <1>f, <1>2, FS_BoundedSetOfNaturals
  <1>4. f \in [S -> Retained]
    BY <1>1
  <1>5. ASSUME NEW p \in S, NEW q \in S, f[p] = f[q]
        PROVE  p = q
    <2>1. PICK a \in 1..K, b \in 1..RotateSize : p = <<a, b>>
      OBVIOUS
    <2>2. PICK d \in 1..K, e \in 1..RotateSize : q = <<d, e>>
      OBVIOUS
    <2>3. files[c + a][b] = files[c + d][e]
      BY <1>5, <2>1, <2>2
    <2>4. /\ c + a \in 1..Len(files) /\ b \in DOMAIN files[c + a]
          /\ c + d \in 1..Len(files) /\ e \in DOMAIN files[c + d]
      BY <1>1
    <2>5. files[c + a][b] \in Nat
      BY <1>1, <1>2
    <2>6. /\ c + a < c + d \/ (c + a = c + d /\ b < e) => files[c + a][b] < files[c + d][e]
          /\ c + d < c + a \/ (c + d = c + a /\ e < b) => files[c + d][e] < files[c + a][b]
      BY <2>4 DEF RotationInv, Ascending
    <2>7. a = d /\ b = e
      <3>1. ~(files[c + a][b] < files[c + d][e]) /\ ~(files[c + d][e] < files[c + a][b])
        BY <2>3, <2>5
      <3>2. /\ ~(c + a < c + d) /\ ~(c + d < c + a)
            /\ ~(c + a = c + d /\ b < e) /\ ~(c + d = c + a /\ e < b)
        BY <2>6, <3>1
      <3>3. c \in Nat /\ a \in Nat /\ d \in Nat /\ b \in Nat /\ e \in Nat
        BY <1>f
      <3> QED
        BY <3>2, <3>3
    <2> QED
      BY <2>1, <2>2, <2>7
  <1>6. f \in Injection(S, Retained)
    <2> HIDE DEF f, S
    <2> QED
      BY <1>4, <1>5 DEF Injection, IsInjective
  <1>7. /\ IsFiniteSet(1..K) /\ Cardinality(1..K) = K
        /\ IsFiniteSet(1..RotateSize) /\ Cardinality(1..RotateSize) = RotateSize
    BY <1>f, UpToCardinality
  <1>8. Cardinality(S) = K * RotateSize
    <2> DEFINE A == 1..K
               B == 1..RotateSize
    <2>1. IsFiniteSet(A) /\ IsFiniteSet(B)
      BY <1>7
    <2>2. Cardinality(A) = K /\ Cardinality(B) = RotateSize
      BY <1>7
    <2>3. S = A \X B
      OBVIOUS
    <2> HIDE DEF A, B, K, S
    <2>4. Cardinality(A \X B) = Cardinality(A) * Cardinality(B)
      BY <2>1, FS_Product
    <2> QED
      BY <2>2, <2>3, <2>4
  <1>9. Cardinality(S) <= Cardinality(Retained)
    BY <1>3, <1>6, FS_Injection
  <1>10. Cardinality(S) \in Nat /\ Cardinality(Retained) \in Nat
    <2>1. IsFiniteSet(S)
      BY <1>7, FS_Product
    <2> QED
      BY <1>3, <2>1, FS_CardinalityType
  <1> QED
    BY <1>8, <1>9, <1>10

LEMMA RecordsEnough == RotationInv => KeepsEnough
  <1> SUFFICES ASSUME RotationInv PROVE KeepsEnough
    OBVIOUS
  <1> DEFINE full == (Keep - crashes) * RotateSize
             all == Cardinality(Recorded)
             kept == Cardinality(Retained)
  <1>f. /\ Len(files) \in Nat /\ crashes \in Nat /\ begun \in Nat /\ Keep \in Nat
        /\ RotateSize \in Nat /\ None = 0 /\ RotateSize >= 1
    BY RotationFacts
  <1>1. \A r \in Recorded : r \in Nat /\ r <= begun
    <2> SUFFICES ASSUME NEW r \in Recorded
                 PROVE  r \in Nat /\ r <= begun
      OBVIOUS
    <2>1. PICK n \in 1..Len(files) : \E k \in DOMAIN files[n] : r = files[n][k]
      BY RecordsOf
    <2> QED
      BY <2>1, RotationFacts DEF RotationInv, Latest
  <1>2. Retained \subseteq Recorded
    BY RecordsOf
  <1>3. IsFiniteSet(Recorded) /\ IsFiniteSet(Retained)
    <2>1. Recorded \in SUBSET Nat /\ Retained \in SUBSET Nat
      BY <1>1, <1>2
    <2> QED
      BY <1>1, <1>2, <1>f, <2>1, FS_BoundedSetOfNaturals
  <1>4. all \in Nat /\ kept \in Nat
    BY <1>3, FS_CardinalityType
  <1>5. PICK c \in 0..Len(files) : CutAt(c)
    BY DEF RotationInv
  <1>6. CASE c = 0
    <2>1. ASSUME NEW s \in Recorded
          PROVE  s \in Retained
      <3>1. PICK n \in 1..Len(files) : \E k \in DOMAIN files[n] : s = files[n][k]
        BY RecordsOf
      <3>2. n \in c + 1..Len(files) /\ n # None
        BY <1>f, <1>6
      <3>3. PICK i \in Names : names[i] = n
        BY <1>5, <3>2 DEF CutAt
      <3> QED
        BY <3>1, <3>2, <3>3, RecordsOf
    <2>2. kept = all
      <3>1. Recorded = Retained
        BY <1>2, <2>1
      <3> QED
        BY <3>1
    <2>3. full \in Int
      BY <1>f
    <2> HIDE DEF full, all, kept
    <2>4. kept >= IF full < all THEN full ELSE all
      BY <1>4, <2>2, <2>3
    <2> QED
      BY <2>4 DEF KeepsEnough, full, all, kept
  <1>7. CASE c > 0 /\ Keep - crashes >= 0
    <2>1. kept >= full /\ full \in Int
      BY <1>5, <1>7, <1>f, ManyRecords
    <2> HIDE DEF full, all, kept
    <2>2. kept >= IF full < all THEN full ELSE all
      BY <1>4, <2>1
    <2> QED
      BY <2>2 DEF KeepsEnough, full, all, kept
  <1>8. CASE Keep - crashes < 0
    <2>1. full \in Int /\ full < 0
      <3>1. \A a \in Int, b \in Nat : a < 0 /\ b >= 1 => a * b \in Int /\ a * b < 0
        OBVIOUS
      <3> QED
        BY <1>8, <1>f, <3>1
    <2> HIDE DEF full, all, kept
    <2>2. kept >= IF full < all THEN full ELSE all
      BY <1>4, <2>1
    <2> QED
      BY <2>2 DEF KeepsEnough, full, all, kept
  <1> QED
    BY <1>6, <1>7, <1>8, <1>f

\* Of a log with one writer only the oldest records are thrown away, however often the
\* daemon dies and wherever in a rotation: what the generations hold is in order, has no
\* gap, and is at least Keep files full less one for every death
\* (rotate_log_path_if_needed, append_line).  With two writers it does not hold: both may
\* find the log full, and the second rotates the new log over the first's.
THEOREM RotationKeepsNewest == Sole /\ Spec => []GenerationsKept
  <1>1. RotationInv => GenerationsKept
    BY RecordsInOrder, RecordsNoGap, RecordsEnough DEF GenerationsKept
  <1>2. CASE Sole
    BY <1>1, <1>2, RotationInit, RotationStep, PTL DEF Spec
  <1> QED
    BY <1>2

=============================================================================
