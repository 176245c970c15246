----------------------------- MODULE FileOpsProofs -----------------------------
(***************************************************************************)
(* What fs_write, fs_move, fs_copy and fs_rename do to the tree, for every *)
(* set of paths, every tree and every number of requests and crashes, when *)
(* the daemon serves one request at a time.  The argument is one           *)
(* invariant: at every point of a request the whole tree is a function of  *)
(* the tree the request has found and of what is still to be done.         *)
(***************************************************************************)
EXTENDS FileOps, SequenceTheorems, TLAPS

OneHandler == \E t : Thread = {t}

(***************************************************************************)
(* Paths                                                                   *)
(***************************************************************************)
Name == UNION {ToSet(p) : p \in Path}

LEMMA PathOK ==
  ASSUME NEW p \in Path
  PROVE  /\ p \in Seq(Name) /\ Len(p) \in Nat /\ Len(p) >= 1
         /\ \A n \in 1..Len(p) : SubSeq(p, 1, n) \in Path
  <1>1. p \in Seq(Name) /\ p # <<>> /\ \A n \in 1..Len(p) : SubSeq(p, 1, n) \in Path
    BY FileOpsAssumption DEF Name
  <1> QED
    BY <1>1, EmptySeq

LEMMA PrefixDef ==
  ASSUME NEW p \in Seq(Name), NEW q \in Seq(Name)
  PROVE  IsPrefix(p, q) <=> Len(p) <= Len(q) /\ \A i \in 1..Len(p) : p[i] = q[i]
  <1>1. Len(p) \in Nat /\ Len(q) \in Nat
    OBVIOUS
  <1>2. CASE Len(p) <= Len(q)
    <2>1. \A i \in 1..Len(p) : p[i] \in Name /\ q[i] \in Name
      BY <1>1, <1>2, ElementOfSeq
    <2>2. /\ SubSeq(p, 1, Len(p)) \in Seq(Name) /\ Len(SubSeq(p, 1, Len(p))) = Len(p)
          /\ \A i \in 1..Len(p) : SubSeq(p, 1, Len(p))[i] = p[i]
      BY <1>1, <2>1, SubSeqProperties
    <2>3. /\ SubSeq(q, 1, Len(p)) \in Seq(Name) /\ Len(SubSeq(q, 1, Len(p))) = Len(p)
          /\ \A i \in 1..Len(p) : SubSeq(q, 1, Len(p))[i] = q[i]
      BY <1>1, <2>1, SubSeqProperties
    <2>4. SubSeq(p, 1, Len(p)) = SubSeq(q, 1, Len(p)) <=> \A i \in 1..Len(p) : p[i] = q[i]
      BY <2>2, <2>3, SeqEqual
    <2> QED
      BY <1>2, <2>4 DEF IsPrefix
  <1> QED
    BY <1>1, <1>2 DEF IsPrefix

LEMMA PrefixSelf ==
  ASSUME NEW p \in Seq(Name)
  PROVE  IsPrefix(p, p)
  BY PrefixDef

LEMMA PrefixTransitive ==
  ASSUME NEW p \in Seq(Name), NEW q \in Seq(Name), NEW r \in Seq(Name),
         IsPrefix(p, q), IsPrefix(q, r)
  PROVE  IsPrefix(p, r)
  <1>1. Len(p) \in Nat /\ Len(q) \in Nat /\ Len(r) \in Nat
    OBVIOUS
  <1> QED
    BY <1>1, PrefixDef

LEMMA PrefixComparable ==
  ASSUME NEW p \in Seq(Name), NEW q \in Seq(Name), NEW r \in Seq(Name),
         IsPrefix(p, r), IsPrefix(q, r)
  PROVE  IsPrefix(p, q) \/ IsPrefix(q, p)
  <1>1. Len(p) \in Nat /\ Len(q) \in Nat /\ Len(r) \in Nat
    OBVIOUS
  <1>2. /\ Len(p) <= Len(r) /\ \A i \in 1..Len(p) : p[i] = r[i]
        /\ Len(q) <= Len(r) /\ \A i \in 1..Len(q) : q[i] = r[i]
    BY PrefixDef
  <1>3. CASE Len(p) <= Len(q)
    BY <1>1, <1>2, <1>3, PrefixDef
  <1>4. CASE Len(q) <= Len(p)
    BY <1>1, <1>2, <1>4, PrefixDef
  <1> QED
    BY <1>1, <1>3, <1>4

LEMMA PrefixAntisymmetric ==
  ASSUME NEW p \in Seq(Name), NEW q \in Seq(Name), IsPrefix(p, q), Len(q) <= Len(p)
  PROVE  p = q
  <1>1. Len(p) \in Nat /\ Len(q) \in Nat
    OBVIOUS
  <1>2. Len(p) = Len(q) /\ \A i \in 1..Len(p) : p[i] = q[i]
    BY <1>1, PrefixDef
  <1> QED
    BY <1>2, SeqEqual

LEMMA AncestorDef ==
  ASSUME NEW q \in Path
  PROVE  /\ Ancestors(q) \subseteq Path
         /\ \A a \in Path : a \in Ancestors(q) <=> IsPrefix(a, q) /\ a # q
  <1>1. q \in Seq(Name) /\ Len(q) \in Nat /\ \A n \in 1..Len(q) : SubSeq(q, 1, n) \in Path
    BY PathOK
  <1>2. Ancestors(q) \subseteq Path
    <2>1. \A n \in 1..Len(q) - 1 : n \in 1..Len(q)
      BY <1>1
    <2> QED
      BY <1>1, <2>1 DEF Ancestors
  <1>3. \A n \in 1..Len(q) : /\ Len(SubSeq(q, 1, n)) = n
                             /\ \A i \in 1..n : SubSeq(q, 1, n)[i] = q[i]
    <2> SUFFICES ASSUME NEW n \in 1..Len(q)
                 PROVE  /\ Len(SubSeq(q, 1, n)) = n
                        /\ \A i \in 1..n : SubSeq(q, 1, n)[i] = q[i]
      OBVIOUS
    <2>1. \A i \in 1..n : q[i] \in Name
      BY <1>1, ElementOfSeq
    <2> QED
      BY <1>1, <2>1, SubSeqProperties
  <1>4. ASSUME NEW a \in Ancestors(q)
        PROVE  IsPrefix(a, q) /\ a # q
    <2>1. PICK n \in 1..Len(q) - 1 : a = SubSeq(q, 1, n)
      BY DEF Ancestors
    <2>2. a \in Seq(Name) /\ Len(a) = n /\ \A i \in 1..n : a[i] = q[i]
      BY <1>1, <1>2, <1>3, <2>1, PathOK
    <2> QED
      BY <1>1, <2>2, PrefixDef
  <1>5. ASSUME NEW a \in Path, IsPrefix(a, q), a # q
        PROVE  a \in Ancestors(q)
    <2>1. a \in Seq(Name) /\ Len(a) \in Nat /\ Len(a) >= 1
      BY PathOK
    <2>2. Len(a) <= Len(q) /\ \A i \in 1..Len(a) : a[i] = q[i]
      BY <1>1, <1>5, <2>1, PrefixDef
    <2>3. Len(a) # Len(q)
      BY <1>1, <1>5, <2>1, <2>2, PrefixAntisymmetric
    <2>4. Len(a) \in 1..Len(q) - 1 /\ Len(a) \in 1..Len(q)
      BY <1>1, <2>1, <2>2, <2>3
    <2> DEFINE b == SubSeq(q, 1, Len(a))
    <2>5. b \in Seq(Name) /\ Len(b) = Len(a) /\ \A i \in 1..Len(a) : b[i] = a[i]
      BY <1>1, <1>3, <2>2, <2>4, PathOK
    <2> HIDE DEF b
    <2>6. a = b
      BY <2>1, <2>5, SeqEqual
    <2> QED
      BY <2>4, <2>6 DEF Ancestors, b
  <1> QED
    BY <1>2, <1>4, <1>5

\* An entry at or below q, found at or below p
LEMMA ShiftOK ==
  ASSUME NEW p \in Seq(Name), NEW q \in Seq(Name), NEW x \in Seq(Name), IsPrefix(q, x)
  PROVE  /\ Shift(x, q, p) \in Seq(Name)
         /\ Len(Shift(x, q, p)) = Len(p) + Len(x) - Len(q)
         /\ \A i \in 1..Len(p) : Shift(x, q, p)[i] = p[i]
         /\ \A i \in 1..Len(x) - Len(q) : Shift(x, q, p)[Len(p) + i] = x[Len(q) + i]
         /\ IsPrefix(p, Shift(x, q, p))
  <1> DEFINE s == SubSeq(x, Len(q) + 1, Len(x))
  <1>1. Len(p) \in Nat /\ Len(q) \in Nat /\ Len(x) \in Nat /\ Len(q) <= Len(x)
    BY PrefixDef
  <1>2. \A i \in Len(q) + 1..Len(x) : x[i] \in Name
    BY <1>1, ElementOfSeq
  <1>3. /\ s \in Seq(Name) /\ Len(s) = Len(x) - Len(q)
        /\ \A i \in 1..Len(x) - Len(q) : s[i] = x[Len(q) + i]
    BY <1>1, <1>2, SubSeqProperties
  <1> HIDE DEF s
  <1>4. /\ p \o s \in Seq(Name) /\ Len(p \o s) = Len(p) + Len(s)
        /\ \A i \in 1..Len(p) + Len(s) : (p \o s)[i] = IF i <= Len(p) THEN p[i]
                                                       ELSE s[i - Len(p)]
    BY <1>3, ConcatProperties
  <1>5. Shift(x, q, p) = p \o s
    BY DEF Shift, s
  <1>6. \A i \in 1..Len(p) : (p \o s)[i] = p[i]
    BY <1>1, <1>3, <1>4
  <1>7. \A i \in 1..Len(x) - Len(q) : (p \o s)[Len(p) + i] = x[Len(q) + i]
    BY <1>1, <1>3, <1>4
  <1>8. IsPrefix(p, p \o s)
    <2> DEFINE c == p \o s
    <2>1. c \in Seq(Name) /\ Len(p) <= Len(c) /\ \A i \in 1..Len(p) : p[i] = c[i]
      BY <1>1, <1>3, <1>4, <1>6
    <2> HIDE DEF c
    <2>2. IsPrefix(p, c)
      BY <2>1, PrefixDef
    <2> QED
      BY <2>2 DEF c
  <1> QED
    BY <1>1, <1>3, <1>4, <1>5, <1>6, <1>7, <1>8

LEMMA ShiftBack ==
  ASSUME NEW p \in Seq(Name), NEW q \in Seq(Name), NEW x \in Seq(Name), IsPrefix(q, x)
  PROVE  Shift(Shift(x, q, p), p, q) = x
  <1> DEFINE s == Shift(x, q, p)
             r == Shift(s, p, q)
  <1>1. /\ s \in Seq(Name) /\ Len(s) = Len(p) + Len(x) - Len(q) /\ IsPrefix(p, s)
        /\ \A i \in 1..Len(x) - Len(q) : s[Len(p) + i] = x[Len(q) + i]
    BY ShiftOK
  <1> HIDE DEF s
  <1>2. /\ r \in Seq(Name) /\ Len(r) = Len(q) + Len(s) - Len(p)
        /\ \A i \in 1..Len(q) : r[i] = q[i]
        /\ \A i \in 1..Len(s) - Len(p) : r[Len(q) + i] = s[Len(p) + i]
    BY <1>1, ShiftOK
  <1>3. Len(p) \in Nat /\ Len(q) \in Nat /\ Len(x) \in Nat
        /\ Len(q) <= Len(x) /\ \A i \in 1..Len(q) : q[i] = x[i]
    BY PrefixDef
  <1> HIDE DEF r
  <1>4. Len(r) = Len(x)
    BY <1>1, <1>2, <1>3
  <1>5. ASSUME NEW i \in 1..Len(x)
        PROVE  r[i] = x[i]
    <2>1. CASE i <= Len(q)
      BY <1>2, <1>3, <2>1
    <2>2. CASE i > Len(q)
      <3> DEFINE j == i - Len(q)
      <3>1. j \in 1..Len(x) - Len(q) /\ Len(q) + j = i /\ Len(s) - Len(p) = Len(x) - Len(q)
        BY <1>1, <1>3, <2>2
      <3> HIDE DEF j
      <3> QED
        BY <1>1, <1>2, <3>1
    <2> QED
      BY <1>3, <2>1, <2>2
  <1>6. r = x
    BY <1>2, <1>4, <1>5, SeqEqual
  <1> QED
    BY <1>6 DEF r, s

LEMMA ShiftSelf ==
  ASSUME NEW p \in Seq(Name), NEW q \in Seq(Name)
  PROVE  Shift(q, q, p) = p
  <1>1. IsPrefix(q, q) /\ Len(p) \in Nat /\ Len(q) \in Nat
    BY PrefixSelf
  <1> DEFINE s == Shift(q, q, p)
  <1>2. /\ s \in Seq(Name) /\ Len(s) = Len(p) + Len(q) - Len(q)
        /\ \A i \in 1..Len(p) : s[i] = p[i]
    BY <1>1, ShiftOK
  <1> HIDE DEF s
  <1>3. Len(s) = Len(p)
    BY <1>1, <1>2
  <1>4. s = p
    BY <1>2, <1>3, SeqEqual
  <1> QED
    BY <1>4 DEF s

LEMMA ShiftMonotone ==
  ASSUME NEW p \in Seq(Name), NEW q \in Seq(Name), NEW a \in Seq(Name), NEW x \in Seq(Name),
         IsPrefix(q, a), IsPrefix(a, x)
  PROVE  /\ IsPrefix(Shift(a, q, p), Shift(x, q, p))
         /\ a # x => Shift(a, q, p) # Shift(x, q, p)
  <1> DEFINE s == Shift(a, q, p)
             r == Shift(x, q, p)
  <1>0. IsPrefix(q, x)
    BY PrefixTransitive
  <1>1. /\ s \in Seq(Name) /\ Len(s) = Len(p) + Len(a) - Len(q)
        /\ \A i \in 1..Len(p) : s[i] = p[i]
        /\ \A i \in 1..Len(a) - Len(q) : s[Len(p) + i] = a[Len(q) + i]
    BY ZenonT(40), ShiftOK
  <1>2. /\ r \in Seq(Name) /\ Len(r) = Len(p) + Len(x) - Len(q)
        /\ \A i \in 1..Len(p) : r[i] = p[i]
        /\ \A i \in 1..Len(x) - Len(q) : r[Len(p) + i] = x[Len(q) + i]
    BY ZenonT(40), <1>0, ShiftOK
  <1>3. /\ Len(p) \in Nat /\ Len(q) \in Nat /\ Len(a) \in Nat /\ Len(x) \in Nat
        /\ Len(q) <= Len(a) /\ Len(a) <= Len(x) /\ \A i \in 1..Len(a) : a[i] = x[i]
    BY PrefixDef
  <1> HIDE DEF s, r
  <1>4. ASSUME NEW i \in 1..Len(s)
        PROVE  s[i] = r[i]
    <2>1. CASE i <= Len(p)
      BY <1>1, <1>2, <1>3, <2>1
    <2>2. CASE i > Len(p)
      <3> DEFINE j == i - Len(p)
      <3>1. /\ j \in 1..Len(a) - Len(q) /\ j \in 1..Len(x) - Len(q) /\ Len(p) + j = i
            /\ Len(q) + j \in 1..Len(a)
        BY <1>1, <1>3, <2>2
      <3> HIDE DEF j
      <3> QED
        BY <1>1, <1>2, <1>3, <3>1
    <2> QED
      BY <1>3, <2>1, <2>2
  <1>5. IsPrefix(s, r)
    BY SMTT(30), <1>1, <1>2, <1>3, <1>4, PrefixDef
  <1>6. a # x => s # r
    <2> SUFFICES ASSUME s = r PROVE a = x
      OBVIOUS
    <2>1. Len(a) = Len(x)
      BY <1>1, <1>2, <1>3
    <2> QED
      BY <1>3, <2>1, SeqEqual
  <1> QED
    BY <1>5, <1>6 DEF s, r

\* What the proofs about the tree need of the order of paths
LEMMA PathOrder ==
  /\ \A p \in Path : IsPrefix(p, p)
  /\ \A p, q, r \in Path : IsPrefix(p, q) /\ IsPrefix(q, r) => IsPrefix(p, r)
  /\ \A p, q, r \in Path :
       IsPrefix(p, r) /\ IsPrefix(q, r) => IsPrefix(p, q) \/ IsPrefix(q, p)
  /\ \A p, q \in Path : IsPrefix(p, q) /\ IsPrefix(q, p) => p = q
  /\ \A q \in Path : Ancestors(q) \subseteq Path
  /\ \A p, q \in Path : p \in Ancestors(q) <=> IsPrefix(p, q) /\ p # q
  <1>0. \A p \in Path : p \in Seq(Name)
    BY PathOK
  <1>1. \A p \in Path : IsPrefix(p, p)
    BY <1>0, PrefixSelf
  <1>2. \A p, q, r \in Path : IsPrefix(p, q) /\ IsPrefix(q, r) => IsPrefix(p, r)
    BY <1>0, PrefixTransitive
  <1>3. \A p, q, r \in Path :
          IsPrefix(p, r) /\ IsPrefix(q, r) => IsPrefix(p, q) \/ IsPrefix(q, p)
    BY <1>0, PrefixComparable
  <1>4. ASSUME NEW p \in Path, NEW q \in Path, IsPrefix(p, q), IsPrefix(q, p)
        PROVE  p = q
    <2>1. p \in Seq(Name) /\ q \in Seq(Name) /\ Len(q) <= Len(p)
      BY <1>0, <1>4, PrefixDef
    <2> QED
      BY <1>4, <2>1, PrefixAntisymmetric
  <1>5. \A q \in Path : Ancestors(q) \subseteq Path
    BY AncestorDef
  <1>6. \A p, q \in Path : p \in Ancestors(q) <=> IsPrefix(p, q) /\ p # q
    BY AncestorDef
  <1> QED
    BY <1>1, <1>2, <1>3, <1>4, <1>5, <1>6

\* Path holds every beginning of its paths.
LEMMA PrefixInPath ==
  ASSUME NEW a \in Seq(Name), NEW x \in Path, IsPrefix(a, x), Len(a) >= 1
  PROVE  a \in Path
  <1>1. /\ x \in Seq(Name) /\ Len(x) \in Nat /\ Len(a) \in Nat
        /\ \A n \in 1..Len(x) : SubSeq(x, 1, n) \in Path
    BY PathOK
  <1>2. Len(a) <= Len(x)
    BY <1>1, PrefixDef
  <1>3. Len(a) \in 1..Len(x)
    BY <1>1, <1>2
  <1>4. a = SubSeq(x, 1, Len(a))
    <2> DEFINE c == SubSeq(x, 1, Len(a))
    <2>1. \A i \in 1..Len(a) : x[i] \in Name
      BY <1>1, <1>2, ElementOfSeq
    <2>2. c \in Seq(Name) /\ Len(c) = Len(a) /\ \A i \in 1..Len(a) : c[i] = x[i]
      BY <1>1, <1>2, <2>1, SubSeqProperties
    <2>3. \A i \in 1..Len(a) : a[i] = x[i]
      BY <1>1, PrefixDef
    <2> HIDE DEF c
    <2>4. a = c
      BY <2>2, <2>3, SeqEqual
    <2> QED
      BY <2>4 DEF c
  <1> QED
    BY <1>1, <1>3, <1>4

\* Where the entries at and below q are found at and below p
LEMMA ShiftPath ==
  ASSUME NEW p \in Path, NEW q \in Path, NEW x \in Path, IsPrefix(q, x),
         Shift(x, q, p) \in Path
  PROVE  /\ IsPrefix(p, Shift(x, q, p))
         /\ Shift(Shift(x, q, p), p, q) = x
         /\ Shift(x, q, p) = p => x = q
         /\ \A a \in Path : IsPrefix(q, a) /\ IsPrefix(a, x) =>
              /\ Shift(a, q, p) \in Path
              /\ a # x => Shift(a, q, p) \in Ancestors(Shift(x, q, p))
  <1>1. p \in Seq(Name) /\ q \in Seq(Name) /\ x \in Seq(Name) /\ Len(p) \in Nat /\ Len(p) >= 1
    BY PathOK
  <1>2. IsPrefix(p, Shift(x, q, p)) /\ Shift(Shift(x, q, p), p, q) = x
    BY <1>1, ShiftOK, ShiftBack
  <1>3. Shift(x, q, p) = p => x = q
    BY <1>1, <1>2, ShiftSelf
  <1>4. ASSUME NEW a \in Path, IsPrefix(q, a), IsPrefix(a, x)
        PROVE  /\ Shift(a, q, p) \in Path
               /\ a # x => Shift(a, q, p) \in Ancestors(Shift(x, q, p))
    <2> DEFINE s == Shift(a, q, p)
    <2>1. a \in Seq(Name) /\ Len(a) \in Nat /\ Len(q) \in Nat
      BY <1>1, PathOK
    <2>2. Len(q) <= Len(a)
      BY <1>1, <1>4, <2>1, PrefixDef
    <2>3. s \in Seq(Name) /\ Len(s) = Len(p) + Len(a) - Len(q)
      BY <1>1, <1>4, <2>1, ShiftOK
    <2>4. IsPrefix(s, Shift(x, q, p)) /\ (a # x => s # Shift(x, q, p))
      BY <1>1, <1>4, <2>1, ShiftMonotone
    <2> HIDE DEF s
    <2>5. Len(s) >= 1
      BY <1>1, <2>1, <2>2, <2>3
    <2>6. s \in Path
      BY <2>3, <2>4, <2>5, PrefixInPath
    <2>7. a # x => s \in Ancestors(Shift(x, q, p))
      BY <2>4, <2>6, PathOrder
    <2> QED
      BY <2>6, <2>7 DEF s
  <1> QED
    BY <1>2, <1>3, <1>4

(***************************************************************************)
(* The inductive invariant                                                 *)
(***************************************************************************)

\* Everything is in a directory.
IsTree(f) == \A x \in Path : f[x] # None => \A a \in Ancestors(x) : f[a] = Dir

Transfers == {"move", "copy", "rename"}

\* What was asked of the tree b for the request l
Asked(l, b) ==
  /\ IsTree(b)
  /\ l.op \in Transfers \cup {"write"}
  /\ l.target \in Named
  /\ l.op \in Transfers =>
       l.path \in Named /\ l.path # l.target /\ b[l.path] # None
  /\ l.op = "write" =>
       /\ ~Denied(l.target)
       /\ b[l.target] # Dir
       /\ l.existed = (b[l.target] # None)
       /\ l.existed => l.overwrite

\* The tree b with the parents of the target; from there on nothing is put into itself.
Ready(l, b) ==
  /\ \A a \in Ancestors(l.target) : b[a] \in {None, Dir}
  /\ l.op \in Transfers => ~IsPrefix(l.path, l.target)

\* What is at x in g with the target's entries removed, but for those in todo
Cleared(g, l, x) == IF IsPrefix(l.target, x) /\ x \notin l.todo THEN None ELSE g[x]

\* ... with the entries of the source copied, but for those in todo
Copied(g, l, x) ==
  IF ~IsPrefix(l.target, x) THEN g[x]
  ELSE IF Shift(x, l.target, l.path) \in Path \ l.todo THEN g[Shift(x, l.target, l.path)]
  ELSE None

\* ... with the temporary file written, and with the old file removed
Written(g, l, x) == IF x = Temp(l.target) THEN File(l.text) ELSE g[x]

Replaced(g, l, x) == IF x = l.target THEN None ELSE Written(g, l, x)

\* Where the request l stands at a label, with the tree f and the tree b it has found
Stands(at, l, f, b) ==
  LET g == WithParents(b, l.target)
  IN  \/ /\ at = "create_parents" /\ l.op # "rename" /\ l.todo = {}
         /\ l.op \in Transfers /\ b[l.path] = Dir => ~IsPrefix(l.path, l.target)
         /\ \A x \in Path : f[x] = b[x]
      \/ /\ at = "check_target" /\ l.op \in Transfers /\ Ready(l, b) /\ l.todo = {}
         /\ \A x \in Path : f[x] = g[x]
      \/ /\ at = "remove" /\ l.op \in Transfers /\ Ready(l, b)
         /\ l.overwrite /\ l.todo \subseteq Under(l.target)
         /\ \A x \in Path : f[x] = Cleared(g, l, x)
      \/ /\ at = "place" /\ l.op \in Transfers /\ Ready(l, b)
         /\ l.overwrite \/ g[l.target] = None
         /\ l.todo = {}
         /\ \A x \in Path : f[x] = Cleared(g, l, x)
      \/ /\ at = "copy_entry" /\ l.op = "copy" /\ Ready(l, b)
         /\ ~IsPrefix(l.target, l.path) /\ l.todo \subseteq Under(l.path)
         /\ \A x \in Path : f[x] = Copied(g, l, x)
      \/ /\ at = "write_temp" /\ l.op = "write" /\ Ready(l, b)
         /\ \A x \in Path : f[x] = g[x]
      \/ /\ at = "remove_old" /\ l.op = "write" /\ Ready(l, b)
         /\ l.existed /\ g[Temp(l.target)] # Dir
         /\ \A x \in Path : f[x] = Written(g, l, x)
      \/ /\ at = "place" /\ l.op = "write" /\ Ready(l, b)
         /\ g[Temp(l.target)] # Dir
         /\ \A x \in Path : f[x] = Replaced(g, l, x)

Fields(op, p, q, overwrite, existed, text, todo) ==
  [op : {op}, path : {p}, target : {q}, overwrite : {overwrite}, existed : {existed},
   text : {text}, todo : {todo}]

RequestOK(l) == l \in Fields(l.op, l.path, l.target, l.overwrite, l.existed, l.text, l.todo)

TypeOK == /\ tree = [x \in Path |-> tree[x]]
          /\ pc = [t \in Thread |-> pc[t]]
          /\ local = [t \in Thread |-> local[t]]
          /\ answer = [t \in Thread |-> answer[t]]
          /\ aux_before = [t \in Thread |-> aux_before[t]]
          /\ \A t \in Thread : RequestOK(local[t])

Serving(t) == pc[t] # "idle" =>
                /\ Asked(local[t], aux_before[t])
                /\ Stands(pc[t], local[t], tree, aux_before[t])

TreeInv == TypeOK /\ IsTree(tree) /\ \A t \in Thread : Serving(t)

(***************************************************************************)
(* What the operations do to a tree                                        *)
(***************************************************************************)
LEMMA Kinds ==
  /\ None # Dir /\ None.kind # "file" /\ Dir.kind # "file"
  /\ \A text : File(text) # None /\ File(text) # Dir
  BY DEF None, Dir, File

LEMMA NothingBelow ==
  ASSUME NEW f, IsTree(f), NEW q \in Path, NEW x \in Path, IsPrefix(q, x), x # q, f[q] # Dir
  PROVE  f[x] = None
  BY PathOrder DEF IsTree

LEMMA SameTree ==
  ASSUME NEW f, IsTree(f), NEW g, \A x \in Path : g[x] = f[x]
  PROVE  IsTree(g)
  BY PathOrder DEF IsTree

LEMMA PutKeepsTree ==
  ASSUME NEW f, IsTree(f), NEW q \in Path, NEW v, NEW g,
         \A x \in Path : g[x] = IF x = q THEN v ELSE f[x],
         v = None \/ \A a \in Ancestors(q) : f[a] = Dir,
         v = Dir \/ \A x \in Path : IsPrefix(q, x) /\ x # q => f[x] = None
  PROVE  IsTree(g)
  <1> SUFFICES ASSUME NEW x \in Path, g[x] # None, NEW a \in Ancestors(x)
               PROVE  g[a] = Dir
    BY DEF IsTree
  <1>1. a \in Path /\ IsPrefix(a, x) /\ a # x
    BY PathOrder
  <1>2. CASE x = q
    BY <1>1, <1>2
  <1>3. CASE x # q
    <2>1. f[x] # None /\ f[a] = Dir
      BY <1>1, <1>3 DEF IsTree
    <2>2. a = q => v = Dir
      BY <1>1, <1>3, <2>1
    <2> QED
      BY <1>1, <2>1, <2>2
  <1> QED
    BY <1>2, <1>3

LEMMA ParentsKeepTree ==
  ASSUME NEW f, IsTree(f), NEW q \in Path, \A a \in Ancestors(q) : f[a] \in {None, Dir}
  PROVE  IsTree(WithParents(f, q))
  <1> DEFINE g == WithParents(f, q)
  <1>1. \A x \in Path : g[x] = IF x \in Ancestors(q) THEN Dir ELSE f[x]
    BY DEF WithParents
  <1> HIDE DEF g
  <1>2. ASSUME NEW x \in Path, g[x] # None, NEW a \in Ancestors(x)
        PROVE  g[a] = Dir
    <2>1. a \in Path /\ IsPrefix(a, x) /\ a # x
      BY PathOrder
    <2>2. CASE x \in Ancestors(q)
      BY <1>1, <2>1, <2>2, PathOrder
    <2>3. CASE x \notin Ancestors(q)
      BY <1>1, <1>2, <2>1, <2>3 DEF IsTree
    <2> QED
      BY <2>2, <2>3
  <1>3. IsTree(g)
    BY <1>2 DEF IsTree
  <1> QED
    BY <1>3 DEF g

\* Removing all that is put where it was is what keeps a move a tree.
LEMMA TransferKeepsTree ==
  ASSUME NEW f, IsTree(f), NEW p \in Path, NEW q \in Path, ~IsPrefix(p, q),
         \A a \in Ancestors(q) : f[a] = Dir
  PROVE  IsTree(Transferred(f, p, q, FALSE))
  <1> DEFINE g == Transferred(f, p, q, FALSE)
  <1>1. \A x \in Path :
          g[x] = IF IsPrefix(q, x)
                   THEN IF Shift(x, q, p) \in Path THEN f[Shift(x, q, p)] ELSE None
                 ELSE IF IsPrefix(p, x) THEN None ELSE f[x]
    BY DEF Transferred
  <1> HIDE DEF g
  <1>2. ASSUME NEW x \in Path, g[x] # None, NEW a \in Ancestors(x)
        PROVE  g[a] = Dir
    <2>1. a \in Path /\ IsPrefix(a, x) /\ a # x
      BY PathOrder
    <2>2. CASE ~IsPrefix(q, x)
      <3>1. ~IsPrefix(p, x) /\ f[x] # None
        BY <1>1, <1>2, <2>2
      <3>2. ~IsPrefix(q, a) /\ ~IsPrefix(p, a)
        BY <2>1, <2>2, <3>1, PathOrder
      <3>3. f[a] = Dir
        BY <3>1 DEF IsTree
      <3> QED
        BY <1>1, <2>1, <3>2, <3>3
    <2>3. CASE IsPrefix(q, x)
      <3>1. Shift(x, q, p) \in Path /\ f[Shift(x, q, p)] # None
        BY <1>1, <1>2, <2>3
      <3>2. CASE IsPrefix(q, a)
        <4>1. Shift(a, q, p) \in Path /\ Shift(a, q, p) \in Ancestors(Shift(x, q, p))
          BY <2>1, <2>3, <3>1, <3>2, ShiftPath
        <4>2. f[Shift(a, q, p)] = Dir
          BY <3>1, <4>1 DEF IsTree
        <4> QED
          BY <1>1, <2>1, <3>2, <4>1, <4>2
      <3>3. CASE ~IsPrefix(q, a)
        <4>1. a \in Ancestors(q)
          BY <2>1, <2>3, <3>3, PathOrder
        <4>2. ~IsPrefix(p, a)
          BY <2>1, <4>1, PathOrder
        <4> QED
          BY <1>1, <2>1, <3>3, <4>1, <4>2
      <3> QED
        BY <3>2, <3>3
    <2> QED
      BY <2>2, <2>3
  <1>3. IsTree(g)
    BY <1>2 DEF IsTree
  <1> QED
    BY <1>3 DEF g

\* A rename stays in its directory.
LEMMA FrontOK ==
  ASSUME NEW p \in Path
  PROVE  Len(Front(p)) = Len(p) - 1 /\ \A i \in 1..Len(p) - 1 : Front(p)[i] = p[i]
  <1>1. p \in Seq(Name) /\ Len(p) \in Nat /\ Len(p) >= 1
    BY PathOK
  <1>2. PICK n \in Nat : Len(p) = n + 1
    <2>1. \A m \in Nat : m >= 1 => \E n \in Nat : m = n + 1
      OBVIOUS
    <2> QED
      BY <1>1, <2>1
  <1>3. \A i \in 1..n : p[i] \in Name
    BY <1>1, <1>2, ElementOfSeq
  <1>4. Len(SubSeq(p, 1, n)) = n /\ \A i \in 1..n : SubSeq(p, 1, n)[i] = p[i]
    BY <1>3, SubSeqProperties
  <1>5. Len(p) - 1 = n
    BY <1>2
  <1> QED
    BY <1>4, <1>5 DEF Front

LEMMA SameDirectory ==
  ASSUME NEW p \in Path, NEW q \in Path, Front(p) = Front(q), p # q
  PROVE  ~IsPrefix(p, q) /\ \A a \in Path : a \in Ancestors(q) => a \in Ancestors(p)
  <1>1. /\ p \in Seq(Name) /\ Len(p) \in Nat /\ Len(p) >= 1
        /\ q \in Seq(Name) /\ Len(q) \in Nat /\ Len(q) >= 1
    BY PathOK
  <1>2. Len(p) = Len(q) /\ \A i \in 1..Len(p) - 1 : p[i] = q[i]
    BY <1>1, FrontOK
  <1>3. ~IsPrefix(p, q)
    BY <1>1, <1>2, PrefixAntisymmetric
  <1>4. ASSUME NEW a \in Path, a \in Ancestors(q)
        PROVE  a \in Ancestors(p)
    <2>1. a \in Seq(Name) /\ Len(a) \in Nat /\ IsPrefix(a, q) /\ a # q
      BY <1>4, PathOK, PathOrder
    <2>2. Len(a) <= Len(q) /\ \A i \in 1..Len(a) : a[i] = q[i]
      BY <1>1, <2>1, PrefixDef
    <2>3. Len(a) # Len(q)
      BY <1>1, <2>1, <2>2, PrefixAntisymmetric
    <2>4. Len(a) <= Len(p) /\ \A i \in 1..Len(a) : a[i] = p[i]
      BY <1>1, <1>2, <2>1, <2>2, <2>3
    <2>5. IsPrefix(a, p)
      BY <1>1, <2>1, <2>4, PrefixDef
    <2>6. a # p
      BY <1>1, <1>2, <2>3
    <2> QED
      BY <2>5, <2>6, PathOrder
  <1> QED
    BY <1>3, <1>4

(***************************************************************************)
(* Requests                                                                *)
(***************************************************************************)
LEMMA NewTodo ==
  ASSUME NEW l, RequestOK(l), NEW todo, NEW m, m = [l EXCEPT !.todo = todo]
  PROVE  /\ RequestOK(m)
         /\ m.op = l.op /\ m.path = l.path /\ m.target = l.target
         /\ m.overwrite = l.overwrite /\ m.existed = l.existed /\ m.text = l.text
         /\ m.todo = todo
         /\ \A b : Asked(l, b) => Asked(m, b)
  <1>1. m \in Fields(l.op, l.path, l.target, l.overwrite, l.existed, l.text, todo)
    BY DEF RequestOK, Fields
  <1>2. /\ m.op = l.op /\ m.path = l.path /\ m.target = l.target
        /\ m.overwrite = l.overwrite /\ m.existed = l.existed /\ m.text = l.text
        /\ m.todo = todo
    BY <1>1 DEF Fields
  <1>3. RequestOK(m)
    BY <1>1, <1>2 DEF RequestOK
  <1>4. \A b : Asked(l, b) => Asked(m, b)
    BY <1>2 DEF Asked
  <1> QED
    BY <1>2, <1>3, <1>4

LEMMA BlankOK == RequestOK(Blank)
  <1>1. Blank \in Fields("mkdir", <<>>, <<>>, FALSE, FALSE, 0, {})
    BY DEF Blank, Fields
  <1>2. /\ Blank.op = "mkdir" /\ Blank.path = <<>> /\ Blank.target = <<>> /\ Blank.text = 0
        /\ Blank.todo = {} /\ Blank.overwrite = FALSE /\ Blank.existed = FALSE
    BY DEF Blank
  <1> QED
    BY <1>1, <1>2 DEF RequestOK

LEMMA Serves ==
  ASSUME TreeInv, NEW t \in Thread, pc[t] # "idle"
  PROVE  /\ TypeOK /\ RequestOK(local[t]) /\ IsTree(tree)
         /\ Asked(local[t], aux_before[t])
         /\ Stands(pc[t], local[t], tree, aux_before[t])
         /\ local[t].target \in Path
         /\ local[t].op \in Transfers => local[t].path \in Path
  BY DEF TreeInv, TypeOK, Serving, Asked, Named

\* The request goes on.
LEMMA GoesOn ==
  ASSUME NEW t, Thread = {t}, TypeOK, NEW label, Goto(t, label),
         tree' = [x \in Path |-> tree'[x]], IsTree(tree'),
         local' = [x \in Thread |-> local'[x]], RequestOK(local'[t]),
         Asked(local'[t], aux_before[t]), Stands(label, local'[t], tree', aux_before[t])
  PROVE  TreeInv'
  <1>1. /\ pc' = [pc EXCEPT ![t] = label] /\ pc' = [x \in Thread |-> pc'[x]] /\ pc'[t] = label
        /\ aux_before' = aux_before /\ answer' = answer
    BY DEF Goto, TypeOK
  <1>2. TypeOK'
    BY <1>1 DEF TypeOK
  <1>3. Serving(t)'
    BY <1>1 DEF Serving
  <1>4. IsTree(tree)'
    BY DEF IsTree, Ancestors, Dir, None
  <1> QED
    BY <1>2, <1>3, <1>4 DEF TreeInv

\* The request is answered.
LEMMA Ends ==
  ASSUME NEW t, Thread = {t}, TypeOK, NEW a, Answer(t, a),
         tree' = [x \in Path |-> tree'[x]], IsTree(tree')
  PROVE  TreeInv'
  <1>1. /\ pc' = [x \in Thread |-> pc'[x]] /\ pc'[t] = "idle"
        /\ local' = [x \in Thread |-> local'[x]] /\ local'[t] = Blank
        /\ answer' = [x \in Thread |-> answer'[x]]
        /\ aux_before' = [x \in Thread |-> aux_before'[x]]
    BY DEF Answer, TypeOK
  <1>2. RequestOK(local'[t])
    BY <1>1, BlankOK
  <1>3. TypeOK'
    BY <1>1, <1>2 DEF TypeOK
  <1>4. Serving(t)'
    BY <1>1 DEF Serving
  <1>5. IsTree(tree)'
    BY DEF IsTree, Ancestors, Dir, None
  <1> QED
    BY <1>3, <1>4, <1>5 DEF TreeInv

LEMMA Fails ==
  ASSUME NEW t, Thread = {t}, TreeInv, Fail(t)
  PROVE  TreeInv'
  <1>1. TypeOK /\ IsTree(tree) /\ tree' = tree /\ Answer(t, "error")
    BY DEF TreeInv, Fail
  <1>2. tree' = [x \in Path |-> tree'[x]]
    BY <1>1 DEF TypeOK
  <1> QED
    BY <1>1, <1>2, Ends

(***************************************************************************)
(* The invariant is kept                                                   *)
(***************************************************************************)
LEMMA InitTree ==
  ASSUME NEW t, Thread = {t}, Init
  PROVE  TreeInv
  <1>1. TypeOK
    BY BlankOK DEF Init, TypeOK
  <1>2. IsTree(tree)
    <2> SUFFICES ASSUME NEW x \in Path, tree[x] # None, NEW a \in Ancestors(x)
                 PROVE  tree[a] = Dir
      BY DEF IsTree
    <2>1. x \in DOMAIN InitialFiles \cup InitialDirs
      BY DEF Init
    <2>2. a \in InitialDirs /\ a \notin DOMAIN InitialFiles
      BY <2>1, WorkspaceAssumption
    <2>3. a \in Path
      BY PathOrder
    <2> QED
      BY <2>2, <2>3 DEF Init
  <1>3. Serving(t)
    BY DEF Init, Serving
  <1> QED
    BY <1>1, <1>2, <1>3 DEF TreeInv

LEMMA Starts ==
  ASSUME NEW t, Thread = {t}, TreeInv, NEW label, NEW l, Start(t, label, l),
         RequestOK(l), Asked(l, tree), Stands(label, l, tree, tree)
  PROVE  TreeInv'
  <1>1. TypeOK /\ IsTree(tree)
    BY DEF TreeInv
  <1>2. /\ tree' = tree /\ pc' = [x \in Thread |-> pc'[x]] /\ pc'[t] = label
        /\ local' = [x \in Thread |-> local'[x]] /\ local'[t] = l
        /\ answer' = [x \in Thread |-> answer'[x]]
        /\ aux_before' = [x \in Thread |-> aux_before'[x]] /\ aux_before'[t] = tree
    BY <1>1 DEF Start, TypeOK
  <1>3. TypeOK'
    BY <1>1, <1>2 DEF TypeOK
  <1>4. Serving(t)'
    BY <1>2 DEF Serving
  <1>5. IsTree(tree)'
    BY <1>1, <1>2 DEF IsTree, Ancestors, Dir, None
  <1> QED
    BY <1>3, <1>4, <1>5 DEF TreeInv

\* Parents that are all there are not made.
LEMMA ParentsThere ==
  ASSUME NEW f, NEW q \in Path, \A a \in Ancestors(q) : f[a] = Dir
  PROVE  \A x \in Path : f[x] = WithParents(f, q)[x]
  BY DEF WithParents

LEMMA TransferStep ==
  ASSUME NEW t, Thread = {t}, TreeInv, Transfer(t)
  PROVE  TreeInv'
  <1>0. TypeOK /\ IsTree(tree)
    BY DEF TreeInv
  <1>1. PICK op \in Transfers, p \in Named, q \in Named, overwrite \in BOOLEAN :
          /\ Valid(op, p, q)
          /\ LET request == [Blank EXCEPT !.op = op, !.path = p, !.target = q,
                                          !.overwrite = overwrite]
             IN  \/ (op = "rename" \/ InDirectory(q)) /\ Start(t, "check_target", request)
                 \/ op # "rename" /\ NoParent(q) /\ Start(t, "create_parents", request)
    BY ZenonT(40) DEF Transfer, Transfers
  <1> DEFINE l == [Blank EXCEPT !.op = op, !.path = p, !.target = q, !.overwrite = overwrite]
  <1>2. l \in Fields(op, p, q, overwrite, FALSE, 0, {})
    BY DEF Blank, Fields
  <1>3. \/ (op = "rename" \/ InDirectory(q)) /\ Start(t, "check_target", l)
        \/ op # "rename" /\ NoParent(q) /\ Start(t, "create_parents", l)
    BY <1>1
  <1> HIDE DEF l
  <1>4. l.op = op /\ l.path = p /\ l.target = q /\ l.todo = {}
    BY <1>2 DEF Fields
  <1>5. RequestOK(l)
    <2>1. l.overwrite = overwrite /\ l.existed = FALSE /\ l.text = 0
      BY <1>2 DEF Fields
    <2> QED
      BY <1>2, <1>4, <2>1 DEF RequestOK
  <1>6. p \in Path /\ q \in Path /\ p # q /\ tree[p] # None
    BY <1>1 DEF Valid, Exists, Named
  <1>7. Asked(l, tree)
    BY <1>0, <1>1, <1>4, <1>6 DEF Asked, Transfers
  <1>8. op # "rename" /\ tree[p] = Dir => ~IsPrefix(p, q)
    BY <1>1 DEF Valid
  <1>9. CASE op # "rename" /\ NoParent(q) /\ Start(t, "create_parents", l)
    <2>1. Stands("create_parents", l, tree, tree)
      BY <1>4, <1>8, <1>9 DEF Stands
    <2> QED
      BY <1>5, <1>7, <1>9, <2>1, Starts
  <1>10. CASE (op = "rename" \/ InDirectory(q)) /\ Start(t, "check_target", l)
    <2>1. /\ ~IsPrefix(p, q)
          /\ \A a \in Ancestors(q) : tree[a] = Dir
      <3>1. CASE op = "rename"
        <4>1. Front(p) = Front(q)
          BY <1>1, <3>1 DEF Valid
        <4>2. ~IsPrefix(p, q) /\ \A a \in Path : a \in Ancestors(q) => a \in Ancestors(p)
          BY <1>6, <4>1, SameDirectory
        <4>3. \A a \in Ancestors(p) : tree[a] = Dir
          BY <1>0, <1>6 DEF IsTree
        <4> QED
          BY <1>6, <4>2, <4>3, PathOrder
      <3>2. CASE op # "rename"
        <4>1. \A a \in Ancestors(q) : tree[a] = Dir
          BY <1>10, <3>2 DEF InDirectory
        <4>2. ~IsPrefix(p, q)
          BY <1>6, <1>8, <3>2, <4>1, PathOrder
        <4> QED
          BY <4>1, <4>2
      <3> QED
        BY <3>1, <3>2
    <2>2. \A x \in Path : tree[x] = WithParents(tree, q)[x]
      BY <1>6, <2>1, ParentsThere
    <2>3. Ready(l, tree)
      BY <1>4, <2>1 DEF Ready
    <2>4. Stands("check_target", l, tree, tree)
      BY <1>1, <1>4, <2>2, <2>3 DEF Stands, Transfers
    <2> QED
      BY <1>5, <1>7, <1>10, <2>4, Starts
  <1> QED
    BY <1>3, <1>9, <1>10

LEMMA WriteStep ==
  ASSUME NEW t, Thread = {t}, TreeInv, Write(t)
  PROVE  TreeInv'
  <1>0. TypeOK /\ IsTree(tree)
    BY DEF TreeInv
  <1>1. PICK q \in Named, overwrite \in BOOLEAN :
          /\ ~Denied(q)
          /\ tree[q] # Dir
          /\ Exists(q) => overwrite
          /\ LET request == [Blank EXCEPT !.op = "write", !.target = q,
                               !.overwrite = overwrite, !.existed = Exists(q),
                               !.text = requests + 1]
             IN  \/ InDirectory(q) /\ Start(t, "write_temp", request)
                 \/ NoParent(q) /\ Start(t, "create_parents", request)
    BY DEF Write
  <1> DEFINE l == [Blank EXCEPT !.op = "write", !.target = q, !.overwrite = overwrite,
                                !.existed = Exists(q), !.text = requests + 1]
  <1>2. l \in Fields("write", <<>>, q, overwrite, Exists(q), requests + 1, {})
    BY DEF Blank, Fields
  <1>3. \/ InDirectory(q) /\ Start(t, "write_temp", l)
        \/ NoParent(q) /\ Start(t, "create_parents", l)
    BY <1>1
  <1> HIDE DEF l
  <1>4. l.op = "write" /\ l.target = q /\ l.todo = {}
    BY <1>2 DEF Fields
  <1>5. l.existed = Exists(q) /\ l.overwrite = overwrite
    BY <1>2 DEF Fields
  <1>6. RequestOK(l)
    <2>1. l.path = <<>> /\ l.text = requests + 1
      BY <1>2 DEF Fields
    <2> QED
      BY <1>2, <1>4, <1>5, <2>1 DEF RequestOK
  <1>7. q \in Path
    BY DEF Named
  <1>8. Asked(l, tree)
    BY <1>0, <1>1, <1>4, <1>5 DEF Asked, Transfers, Exists
  <1>9. CASE NoParent(q) /\ Start(t, "create_parents", l)
    <2>1. Stands("create_parents", l, tree, tree)
      BY <1>4 DEF Stands, Transfers
    <2> QED
      BY <1>6, <1>8, <1>9, <2>1, Starts
  <1>10. CASE InDirectory(q) /\ Start(t, "write_temp", l)
    <2>1. \A a \in Ancestors(q) : tree[a] = Dir
      BY <1>10 DEF InDirectory
    <2>2. \A x \in Path : tree[x] = WithParents(tree, q)[x]
      BY <1>7, <2>1, ParentsThere
    <2>3. Ready(l, tree)
      BY <1>4, <2>1 DEF Ready, Transfers
    <2>4. Stands("write_temp", l, tree, tree)
      BY <1>4, <2>2, <2>3 DEF Stands
    <2> QED
      BY <1>6, <1>8, <1>10, <2>4, Starts
  <1> QED
    BY <1>3, <1>9, <1>10

LEMMA CreateParentsStep ==
  ASSUME NEW t, Thread = {t}, TreeInv, CreateParents(t)
  PROVE  TreeInv'
  <1> DEFINE l == local[t]
             b == aux_before[t]
             g == WithParents(b, l.target)
  <1>1. t \in Thread /\ pc[t] = "create_parents" /\ pc[t] # "idle"
    BY DEF CreateParents, At
  <1>2. /\ TypeOK /\ RequestOK(l) /\ IsTree(tree) /\ Asked(l, b) /\ l.target \in Path
        /\ Stands("create_parents", l, tree, b)
        /\ l.op \in Transfers => l.path \in Path
    BY <1>1, Serves
  <1>3. /\ l.op # "rename" /\ l.todo = {}
        /\ l.op \in Transfers /\ b[l.path] = Dir => ~IsPrefix(l.path, l.target)
        /\ \A x \in Path : tree[x] = b[x]
    BY <1>2 DEF Stands
  <1>4. l.op \in Transfers \cup {"write"} /\ IsTree(b)
    BY <1>2 DEF Asked
  <1>5. CASE CanCreateParents(l.target)
    <2>1. /\ tree' = WithParents(tree, l.target) /\ local' = local
          /\ Goto(t, IF l.op = "write" THEN "write_temp" ELSE "check_target")
      BY <1>5 DEF CreateParents
    <2>2. \A a \in Ancestors(l.target) : tree[a] \in {None, Dir}
      BY <1>5 DEF CanCreateParents
    <2>3. IsTree(tree')
      BY <1>2, <2>1, <2>2, ParentsKeepTree
    <2>4. \A x \in Path : tree'[x] = g[x]
      BY <1>3, <2>1 DEF WithParents
    <2>5. \A a \in Ancestors(l.target) : b[a] \in {None, Dir}
      BY <1>2, <1>3, <2>2, PathOrder
    <2>6. Ready(l, b)
      <3>1. ASSUME l.op \in Transfers, IsPrefix(l.path, l.target)
            PROVE  FALSE
        <4>1. b[l.path] # None /\ l.path # l.target /\ l.path \in Path
          BY <1>2, <3>1 DEF Asked
        <4>2. l.path \in Ancestors(l.target)
          BY <1>2, <3>1, <4>1, PathOrder
        <4> QED
          BY <1>3, <2>5, <3>1, <4>1, <4>2
      <3> QED
        BY <2>5, <3>1 DEF Ready
    <2>7. tree' = [x \in Path |-> tree'[x]] /\ local' = [x \in Thread |-> local'[x]]
      BY <1>2, <2>1 DEF TypeOK, WithParents
    <2>8. CASE l.op = "write"
      <3>1. Stands("write_temp", l, tree', b)
        BY <2>4, <2>6, <2>8 DEF Stands
      <3> QED
        BY <1>2, <2>1, <2>3, <2>7, <2>8, <3>1, GoesOn
    <2>9. CASE l.op # "write"
      <3>1. l.op \in Transfers
        BY <1>4, <2>9
      <3>2. Stands("check_target", l, tree', b)
        BY <1>3, <2>4, <2>6, <3>1 DEF Stands
      <3> QED
        BY <1>2, <2>1, <2>3, <2>7, <2>9, <3>2, GoesOn
    <2> QED
      BY <2>8, <2>9
  <1>6. CASE ~CanCreateParents(l.target)
    BY <1>6, Fails DEF CreateParents
  <1> QED
    BY <1>5, <1>6

\* What is at the target when the target is looked for is all that is there.
LEMMA CheckTargetStep ==
  ASSUME NEW t, Thread = {t}, TreeInv, CheckTarget(t)
  PROVE  TreeInv'
  <1> DEFINE l == local[t]
             b == aux_before[t]
             g == WithParents(b, l.target)
             q == l.target
             m == [l EXCEPT !.todo = Present(q)]
  <1>1. t \in Thread /\ pc[t] = "check_target" /\ pc[t] # "idle"
    BY DEF CheckTarget, At
  <1>2. /\ TypeOK /\ RequestOK(l) /\ IsTree(tree) /\ Asked(l, b) /\ q \in Path
        /\ Stands("check_target", l, tree, b)
    BY <1>1, Serves
  <1>3. /\ l.op \in Transfers /\ Ready(l, b) /\ l.todo = {}
        /\ \A x \in Path : tree[x] = g[x]
    BY <1>2 DEF Stands
  <1>4. CASE ~Exists(q)
    <2>1. Goto(t, "place") /\ local' = local /\ tree' = tree
      BY <1>4 DEF CheckTarget
    <2>2. tree[q] = None
      BY <1>4 DEF Exists
    <2>3. ASSUME NEW x \in Path
          PROVE  tree[x] = Cleared(g, l, x)
      <3>1. IsPrefix(q, x) => tree[x] = None
        BY <1>2, <2>2, Kinds, NothingBelow
      <3> QED
        BY <1>3, <3>1 DEF Cleared
    <2>4. g[l.target] = None
      BY <1>2, <1>3, <2>2
    <2>5. Stands("place", l, tree', b)
      BY <1>3, <2>1, <2>3, <2>4 DEF Stands
    <2>6. tree' = [x \in Path |-> tree'[x]] /\ local' = [x \in Thread |-> local'[x]]
      BY <1>2, <2>1 DEF TypeOK
    <2> QED
      BY <1>2, <2>1, <2>5, <2>6, GoesOn
  <1>5. CASE Exists(q) /\ l.overwrite
    <2>1. Goto(t, "remove") /\ local' = [local EXCEPT ![t].todo = Present(q)] /\ tree' = tree
      BY <1>5 DEF CheckTarget
    <2>2. local' = [x \in Thread |-> local'[x]] /\ local'[t] = m
      BY <1>1, <1>2, <2>1 DEF TypeOK
    <2>3. /\ RequestOK(m) /\ Asked(m, b) /\ m.op = l.op /\ m.path = l.path
          /\ m.target = q /\ m.overwrite = l.overwrite /\ m.todo = Present(q)
      BY <1>2, NewTodo
    <2> HIDE DEF m
    <2>4. Present(q) \subseteq Under(q)
      BY DEF Present
    <2>5. ASSUME NEW x \in Path
          PROVE  tree[x] = Cleared(g, m, x)
      <3>1. IsPrefix(q, x) /\ x \notin Present(q) => tree[x] = None
        BY DEF Present, Under, Exists
      <3> QED
        BY <1>3, <2>3, <3>1 DEF Cleared
    <2>6. Ready(m, b)
      BY <1>3, <2>3 DEF Ready
    <2>7. m.overwrite
      BY <1>5, <2>3
    <2>8. Stands("remove", m, tree', b)
      BY <1>3, <2>1, <2>3, <2>4, <2>5, <2>6, <2>7 DEF Stands
    <2>9. tree' = [x \in Path |-> tree'[x]]
      BY <1>2, <2>1 DEF TypeOK
    <2> QED
      BY <1>2, <2>1, <2>2, <2>3, <2>8, <2>9, GoesOn
  <1>6. CASE Exists(q) /\ ~l.overwrite
    BY <1>6, Fails DEF CheckTarget
  <1> QED
    BY <1>4, <1>5, <1>6

LEMMA RemoveEntryStep ==
  ASSUME NEW t, Thread = {t}, TreeInv, RemoveEntry(t)
  PROVE  TreeInv'
  <1> DEFINE l == local[t]
             b == aux_before[t]
             g == WithParents(b, l.target)
  <1>1. t \in Thread /\ pc[t] = "remove" /\ pc[t] # "idle"
    BY DEF RemoveEntry, At
  <1>2. /\ TypeOK /\ RequestOK(l) /\ IsTree(tree) /\ Asked(l, b) /\ l.target \in Path
        /\ Stands("remove", l, tree, b)
    BY <1>1, Serves
  <1>3. /\ l.op \in Transfers /\ Ready(l, b) /\ l.overwrite
        /\ l.todo \subseteq Under(l.target)
        /\ \A x \in Path : tree[x] = Cleared(g, l, x)
    BY <1>2 DEF Stands
  <1>4. PICK r \in l.todo :
          IF Empty(r)
          THEN /\ tree' = [tree EXCEPT ![r] = None]
               /\ local' = [local EXCEPT ![t].todo = l.todo \ {r}]
               /\ Goto(t, IF l.todo = {r} THEN "place" ELSE "remove")
          ELSE Fail(t)
    BY DEF RemoveEntry
  <1>5. r \in Path /\ IsPrefix(l.target, r)
    BY <1>3 DEF Under
  <1> DEFINE m == [l EXCEPT !.todo = l.todo \ {r}]
  <1>6. CASE Empty(r)
    <2>1. /\ tree' = [tree EXCEPT ![r] = None]
          /\ local' = [local EXCEPT ![t].todo = l.todo \ {r}]
          /\ Goto(t, IF l.todo = {r} THEN "place" ELSE "remove")
      BY <1>4, <1>6
    <2>2. local' = [x \in Thread |-> local'[x]] /\ local'[t] = m
      BY <1>1, <1>2, <2>1 DEF TypeOK
    <2>3. /\ RequestOK(m) /\ Asked(m, b) /\ m.op = l.op /\ m.path = l.path
          /\ m.target = l.target /\ m.overwrite = l.overwrite /\ m.todo = l.todo \ {r}
      BY <1>2, NewTodo
    <2> HIDE DEF m
    <2>4. \A x \in Path : tree'[x] = IF x = r THEN None ELSE tree[x]
      BY <1>2, <2>1 DEF TypeOK
    <2>5. \A x \in Path : IsPrefix(r, x) /\ x # r => tree[x] = None
      BY <1>6 DEF Empty, Present, Under, Exists
    <2>6. IsTree(tree')
      BY <1>2, <1>5, <2>4, <2>5, PutKeepsTree
    <2>7. \A x \in Path : tree'[x] = Cleared(g, m, x)
      BY <1>3, <1>5, <2>3, <2>4 DEF Cleared
    <2>8. Ready(m, b)
      BY <1>3, <2>3 DEF Ready
    <2>9. m.overwrite /\ m.op \in Transfers
      BY <1>3, <2>3
    <2>10. tree' = [x \in Path |-> tree'[x]]
      BY <1>2, <2>1 DEF TypeOK
    <2>11. CASE l.todo = {r}
      <3>1. m.todo = {}
        BY <2>3, <2>11
      <3>2. Stands("place", m, tree', b)
        BY <2>3, <2>7, <2>8, <2>9, <3>1 DEF Stands
      <3>3. Goto(t, "place")
        BY <2>1, <2>11
      <3> QED
        BY <1>2, <2>2, <2>3, <2>6, <2>10, <3>2, <3>3, GoesOn
    <2>12. CASE l.todo # {r}
      <3>1. m.todo \subseteq Under(m.target)
        BY <1>3, <2>3
      <3>2. Stands("remove", m, tree', b)
        BY <2>3, <2>7, <2>8, <2>9, <3>1 DEF Stands
      <3>3. Goto(t, "remove")
        BY <2>1, <2>12
      <3> QED
        BY <1>2, <2>2, <2>3, <2>6, <2>10, <3>2, <3>3, GoesOn
    <2> QED
      BY <2>11, <2>12
  <1>7. CASE ~Empty(r)
    BY <1>4, <1>7, Fails
  <1> QED
    BY <1>6, <1>7

LEMMA PlaceTransferStep ==
  ASSUME NEW t, Thread = {t}, TreeInv, PlaceTransfer(t)
  PROVE  TreeInv'
  <1> DEFINE l == local[t]
  <1>1. t \in Thread /\ pc[t] = "place" /\ pc[t] # "idle" /\ l.op \in Transfers
    BY DEF PlaceTransfer, At, Transfers
  <1>2. TypeOK /\ IsTree(tree) /\ l.target \in Path /\ l.path \in Path
    BY <1>1, Serves
  <1>3. CASE CanRename(l.path, l.target)
    <2>1. tree' = Transferred(tree, l.path, l.target, FALSE) /\ Answer(t, "ok")
      BY <1>3 DEF PlaceTransfer
    <2>2. ~IsPrefix(l.path, l.target) /\ \A a \in Ancestors(l.target) : tree[a] = Dir
      BY <1>3 DEF CanRename, InDirectory
    <2>3. IsTree(tree')
      BY <1>2, <2>1, <2>2, TransferKeepsTree
    <2>4. tree' = [x \in Path |-> tree'[x]]
      BY <2>1 DEF Transferred
    <2> QED
      BY <1>2, <2>1, <2>3, <2>4, Ends
  <1>4. CASE ~CanRename(l.path, l.target)
    BY <1>4, Fails DEF PlaceTransfer
  <1> QED
    BY <1>3, <1>4

\* Paths at and below p when neither p nor q is within the other
LEMMA Apart ==
  ASSUME NEW p \in Path, NEW q \in Path, ~IsPrefix(p, q), ~IsPrefix(q, p),
         NEW x \in Path, IsPrefix(p, x)
  PROVE  ~IsPrefix(q, x) /\ x \notin Ancestors(q)
  BY PathOrder

\* Where a request puts its source when there is one: the target is empty, and the source
\* is outside it and as the tree b had it.
LEMMA AtPlace ==
  ASSUME NEW t, Thread = {t}, TreeInv, pc[t] = "place", local[t].op \in Transfers,
         tree[local[t].path] # None
  PROVE  LET l == local[t]
             b == aux_before[t]
             g == WithParents(b, l.target)
         IN  /\ Ready(l, b) /\ ~IsPrefix(l.path, l.target) /\ ~IsPrefix(l.target, l.path)
             /\ \A x \in Path : tree[x] = IF IsPrefix(l.target, x) THEN None ELSE g[x]
  <1> DEFINE l == local[t]
             b == aux_before[t]
             g == WithParents(b, l.target)
  <1>1. t \in Thread /\ pc[t] # "idle"
    OBVIOUS
  <1>2. /\ IsTree(tree) /\ l.target \in Path /\ l.path \in Path
        /\ Stands("place", l, tree, b)
    BY <1>1, Serves
  <1>3. /\ Ready(l, b) /\ l.todo = {}
        /\ \A x \in Path : tree[x] = Cleared(g, l, x)
    BY <1>2 DEF Stands, Transfers
  <1>4. \A x \in Path : tree[x] = IF IsPrefix(l.target, x) THEN None ELSE g[x]
    BY <1>3 DEF Cleared
  <1>5. ~IsPrefix(l.path, l.target)
    BY <1>3 DEF Ready
  <1> QED
    BY <1>2, <1>3, <1>4, <1>5

LEMMA PlaceCopyStep ==
  ASSUME NEW t, Thread = {t}, TreeInv, PlaceCopy(t)
  PROVE  TreeInv'
  <1> DEFINE l == local[t]
             b == aux_before[t]
             p == l.path
             q == l.target
             g == WithParents(b, q)
             m == [l EXCEPT !.todo = Present(p)]
  <1>1. t \in Thread /\ pc[t] = "place" /\ pc[t] # "idle" /\ l.op = "copy" /\ l.op \in Transfers
    BY DEF PlaceCopy, At, Transfers
  <1>2. TypeOK /\ RequestOK(l) /\ IsTree(tree) /\ Asked(l, b) /\ q \in Path /\ p \in Path
    BY <1>1, Serves
  <1>3. CASE Exists(p)
    <2>1. /\ Goto(t, "copy_entry") /\ tree' = tree
          /\ local' = [local EXCEPT ![t].todo = Present(p)]
      BY <1>3 DEF PlaceCopy
    <2>2. /\ Ready(l, b) /\ ~IsPrefix(p, q) /\ ~IsPrefix(q, p)
          /\ \A x \in Path : tree[x] = IF IsPrefix(q, x) THEN None ELSE g[x]
      BY <1>1, <1>3, AtPlace DEF Exists
    <2>3. local' = [x \in Thread |-> local'[x]] /\ local'[t] = m
      BY <1>1, <1>2, <2>1 DEF TypeOK
    <2>4. /\ RequestOK(m) /\ Asked(m, b) /\ m.op = "copy" /\ m.path = p
          /\ m.target = q /\ m.todo = Present(p)
      BY <1>1, <1>2, NewTodo
    <2> HIDE DEF m
    <2>5. ASSUME NEW x \in Path, IsPrefix(q, x), Shift(x, q, p) \in Path \ Present(p)
          PROVE  g[Shift(x, q, p)] = None
      <3>1. IsPrefix(p, Shift(x, q, p))
        BY <1>2, <2>5, ShiftPath
      <3>2. tree[Shift(x, q, p)] = None
        BY <2>5, <3>1 DEF Present, Under, Exists
      <3>3. ~IsPrefix(q, Shift(x, q, p))
        BY <1>2, <2>2, <2>5, <3>1, Apart
      <3> QED
        BY <2>2, <2>5, <3>2, <3>3
    <2>6. \A x \in Path : tree[x] = Copied(g, m, x)
      BY <2>2, <2>4, <2>5 DEF Copied
    <2>7. Ready(m, b)
      BY <1>1, <2>2, <2>4 DEF Ready
    <2>8. m.todo \subseteq Under(p)
      BY <2>4 DEF Present
    <2>9. Stands("copy_entry", m, tree', b)
      BY <2>1, <2>2, <2>4, <2>6, <2>7, <2>8 DEF Stands
    <2>10. tree' = [x \in Path |-> tree'[x]]
      BY <1>2, <2>1 DEF TypeOK
    <2> QED
      BY <1>2, <2>1, <2>3, <2>4, <2>9, <2>10, GoesOn
  <1>4. CASE ~Exists(p)
    BY <1>4, Fails DEF PlaceCopy
  <1> QED
    BY <1>3, <1>4

\* Copying the entry r: what is at its new place is not a file, and the tree is the copy
\* of all but the entries left.
LEMMA CopiesEntry ==
  ASSUME NEW t, Thread = {t}, TreeInv, CopyEntry(t)
  PROVE  LET l == local[t]
             b == aux_before[t]
             g == WithParents(b, l.target)
         IN  \/ Fail(t)
             \/ \E r \in l.todo :
                  LET q == Shift(r, l.path, l.target)
                  IN  /\ r \in Path /\ q \in Path
                      /\ tree[q] = None \/ (tree[r] = Dir /\ tree[q] = Dir)
                      /\ \A a \in Ancestors(q) : tree[a] = Dir
                      /\ tree' = [tree EXCEPT ![q] = tree[r]]
                      /\ \A x \in Path :
                           tree'[x] = IF ~IsPrefix(l.target, x) THEN g[x]
                                      ELSE IF Shift(x, l.target, l.path)
                                                \in Path \ (l.todo \ {r})
                                        THEN g[Shift(x, l.target, l.path)]
                                      ELSE None
                      /\ IF l.todo = {r} THEN Answer(t, "ok")
                         ELSE /\ Goto(t, "copy_entry")
                              /\ local' = [local EXCEPT ![t].todo = @ \ {r}]
  <1> DEFINE l == local[t]
             b == aux_before[t]
             g == WithParents(b, l.target)
  <1>1. t \in Thread /\ pc[t] = "copy_entry" /\ pc[t] # "idle"
    BY DEF CopyEntry, At
  <1>2. /\ TypeOK /\ Asked(l, b) /\ l.target \in Path /\ Stands("copy_entry", l, tree, b)
        /\ l.op \in Transfers => l.path \in Path
    BY <1>1, Serves
  <1>3. /\ l.op = "copy" /\ Ready(l, b) /\ ~IsPrefix(l.target, l.path)
        /\ l.todo \subseteq Under(l.path)
        /\ \A x \in Path : tree[x] = Copied(g, l, x)
    BY <1>2 DEF Stands
  <1>4. l.path \in Path /\ ~IsPrefix(l.path, l.target)
    BY <1>2, <1>3 DEF Ready, Transfers
  <1>5. PICK r \in l.todo :
          LET q == Shift(r, l.path, l.target)
          IN  IF /\ Exists(r) /\ q \in Path /\ InDirectory(q)
                 /\ ~Exists(q) \/ (tree[r] = Dir /\ tree[q] = Dir)
              THEN /\ tree' = [tree EXCEPT ![q] = tree[r]]
                   /\ IF l.todo = {r} THEN Answer(t, "ok")
                      ELSE /\ Goto(t, "copy_entry")
                           /\ local' = [local EXCEPT ![t].todo = @ \ {r}]
              ELSE Fail(t)
    BY DEF CopyEntry
  <1> DEFINE q == Shift(r, l.path, l.target)
             Can == /\ Exists(r) /\ q \in Path /\ InDirectory(q)
                    /\ ~Exists(q) \/ (tree[r] = Dir /\ tree[q] = Dir)
  <1>6. r \in Path /\ IsPrefix(l.path, r)
    BY <1>3 DEF Under
  <1>7. ~IsPrefix(l.target, r)
    BY <1>2, <1>3, <1>4, <1>6, Apart
  <1>8. tree[r] = g[r]
    BY <1>3, <1>6, <1>7 DEF Copied
  <1>9. CASE Can
    <2>1. /\ tree' = [tree EXCEPT ![q] = tree[r]]
          /\ IF l.todo = {r} THEN Answer(t, "ok")
             ELSE /\ Goto(t, "copy_entry")
                  /\ local' = [local EXCEPT ![t].todo = @ \ {r}]
      BY <1>5, <1>9
    <2>2. /\ q \in Path /\ (tree[q] = None \/ (tree[r] = Dir /\ tree[q] = Dir))
          /\ \A a \in Ancestors(q) : tree[a] = Dir
      BY <1>9 DEF Exists, InDirectory
    <2>3. IsPrefix(l.target, q) /\ Shift(q, l.target, l.path) = r
      BY <1>2, <1>4, <1>6, <2>2, ShiftPath
    <2> HIDE DEF q
    <2>4. \A x \in Path : tree'[x] = IF x = q THEN tree[r] ELSE tree[x]
      BY <1>2, <2>1 DEF TypeOK
    <2>5. ASSUME NEW x \in Path, IsPrefix(l.target, x), Shift(x, l.target, l.path) = r
          PROVE  x = q
      BY <1>2, <1>4, <1>6, <2>5, ShiftPath DEF q
    <2>6. ASSUME NEW x \in Path
          PROVE  tree'[x] = IF ~IsPrefix(l.target, x) THEN g[x]
                            ELSE IF Shift(x, l.target, l.path) \in Path \ (l.todo \ {r})
                              THEN g[Shift(x, l.target, l.path)]
                            ELSE None
      <3>1. CASE x = q
        BY <1>6, <1>8, <2>2, <2>3, <2>4, <3>1
      <3>2. CASE x # q
        BY <1>3, <2>4, <2>5, <3>2 DEF Copied
      <3> QED
        BY <3>1, <3>2
    <2> QED
      BY <1>6, <2>1, <2>2, <2>6 DEF q
  <1>10. CASE ~Can
    BY <1>5, <1>10
  <1> QED
    BY <1>9, <1>10

LEMMA CopyEntryStep ==
  ASSUME NEW t, Thread = {t}, TreeInv, CopyEntry(t)
  PROVE  TreeInv'
  <1> DEFINE l == local[t]
             b == aux_before[t]
             g == WithParents(b, l.target)
  <1>1. t \in Thread /\ pc[t] = "copy_entry" /\ pc[t] # "idle"
    BY DEF CopyEntry, At
  <1>2. /\ TypeOK /\ RequestOK(l) /\ IsTree(tree) /\ Asked(l, b)
        /\ Stands("copy_entry", l, tree, b)
    BY <1>1, Serves
  <1>3. /\ l.op = "copy" /\ Ready(l, b) /\ ~IsPrefix(l.target, l.path)
        /\ l.todo \subseteq Under(l.path)
    BY <1>2 DEF Stands
  <1>4. CASE Fail(t)
    BY <1>4, Fails
  <1>5. ASSUME NEW r \in l.todo, NEW q \in Path, r \in Path,
               tree[q] = None \/ (tree[r] = Dir /\ tree[q] = Dir),
               \A a \in Ancestors(q) : tree[a] = Dir,
               tree' = [tree EXCEPT ![q] = tree[r]],
               \A x \in Path :
                 tree'[x] = IF ~IsPrefix(l.target, x) THEN g[x]
                            ELSE IF Shift(x, l.target, l.path) \in Path \ (l.todo \ {r})
                              THEN g[Shift(x, l.target, l.path)]
                            ELSE None,
               IF l.todo = {r} THEN Answer(t, "ok")
               ELSE Goto(t, "copy_entry") /\ local' = [local EXCEPT ![t].todo = @ \ {r}]
        PROVE  TreeInv'
    <2>1. \A x \in Path : tree'[x] = IF x = q THEN tree[r] ELSE tree[x]
      BY <1>2, <1>5 DEF TypeOK
    <2>2. tree[r] = Dir \/ \A x \in Path : IsPrefix(q, x) /\ x # q => tree[x] = None
      BY <1>2, <1>5, Kinds, NothingBelow
    <2>3. IsTree(tree')
      <3> DEFINE v == tree[r]
      <3>1. /\ IsTree(tree) /\ q \in Path /\ \A a \in Ancestors(q) : tree[a] = Dir
            /\ \A x \in Path : tree'[x] = IF x = q THEN v ELSE tree[x]
            /\ v = Dir \/ \A x \in Path : IsPrefix(q, x) /\ x # q => tree[x] = None
        BY <1>2, <1>5, <2>1, <2>2
      <3> HIDE DEF v
      <3> QED
        BY <3>1, PutKeepsTree
    <2>4. tree' = [x \in Path |-> tree'[x]]
      BY <1>2, <1>5 DEF TypeOK
    <2>5. CASE l.todo = {r}
      BY <1>2, <1>5, <2>3, <2>4, <2>5, Ends
    <2>6. CASE l.todo # {r}
      <3> DEFINE m == [l EXCEPT !.todo = l.todo \ {r}]
      <3>1. Goto(t, "copy_entry") /\ local' = [local EXCEPT ![t].todo = @ \ {r}]
        BY <1>5, <2>6
      <3>2. local' = [x \in Thread |-> local'[x]] /\ local'[t] = m
        BY <1>1, <1>2, <3>1 DEF TypeOK
      <3>3. /\ RequestOK(m) /\ Asked(m, b) /\ m.op = "copy" /\ m.path = l.path
            /\ m.target = l.target /\ m.todo = l.todo \ {r}
        BY <1>2, <1>3, NewTodo
      <3> HIDE DEF m
      <3>4. Ready(m, b)
        BY <1>3, <3>3 DEF Ready
      <3>5. \A x \in Path : tree'[x] = Copied(g, m, x)
        BY <1>5, <3>3 DEF Copied
      <3>6. m.todo \subseteq Under(m.path)
        BY <1>3, <3>3
      <3>7. Stands("copy_entry", m, tree', b)
        BY <1>3, <3>3, <3>4, <3>5, <3>6 DEF Stands
      <3> QED
        BY <1>2, <2>3, <2>4, <3>1, <3>2, <3>3, <3>7, GoesOn
    <2> QED
      BY <2>5, <2>6
  <1> QED
    BY <1>4, <1>5, CopiesEntry

LEMMA WriteOK ==
  ASSUME TreeInv, NEW t \in Thread, pc[t] # "idle", local[t].op = "write"
  PROVE  LET q == local[t].target
             b == aux_before[t]
         IN  /\ q \in Named /\ q \in Path /\ Temp(q) \in Path /\ Temp(q) \notin Named /\ Temp(q) # q
             /\ IsTree(b) /\ b[q] # Dir /\ q \notin Ancestors(q)
             /\ WithParents(b, q)[q] = b[q]
             /\ ~local[t].existed => b[q] = None
             /\ local[t].existed => local[t].overwrite
  <1> DEFINE q == local[t].target
             b == aux_before[t]
  <1>1. Asked(local[t], b)
    BY Serves
  <1>2. q \in Named /\ ~Denied(q) /\ IsTree(b) /\ b[q] # Dir
    BY <1>1 DEF Asked
  <1>3. /\ ~local[t].existed => b[q] = None
        /\ local[t].existed => local[t].overwrite
    BY <1>1 DEF Asked
  <1>4. q \in Path /\ Temp(q) \in Path /\ Temp(q) \notin Named
    BY <1>2, WorkspaceAssumption DEF Named
  <1>5. q \notin Ancestors(q)
    BY <1>4, PathOrder
  <1>6. WithParents(b, q)[q] = b[q]
    BY <1>4, <1>5 DEF WithParents
  <1> QED
    BY <1>2, <1>3, <1>4, <1>5, <1>6

LEMMA WriteTempStep ==
  ASSUME NEW t, Thread = {t}, TreeInv, WriteTemp(t)
  PROVE  TreeInv'
  <1> DEFINE l == local[t]
             b == aux_before[t]
             q == l.target
             g == WithParents(b, q)
             v == File(l.text)
             temp == Temp(q)
  <1>1. t \in Thread /\ pc[t] = "write_temp" /\ pc[t] # "idle"
    BY DEF WriteTemp, At
  <1>2. /\ TypeOK /\ RequestOK(l) /\ IsTree(tree) /\ Asked(l, b)
        /\ Stands("write_temp", l, tree, b)
    BY <1>1, Serves
  <1>3. /\ l.op = "write" /\ Ready(l, b)
        /\ \A x \in Path : tree[x] = g[x]
    BY <1>2 DEF Stands
  <1>4. /\ q \in Path /\ temp \in Path /\ temp # q /\ g[q] = b[q]
        /\ ~l.existed => b[q] = None
    BY <1>1, <1>3, WriteOK
  <1>5. CASE InDirectory(temp) /\ tree[temp] # Dir
    <2>1. /\ tree' = [tree EXCEPT ![temp] = v] /\ local' = local
          /\ Goto(t, IF l.existed THEN "remove_old" ELSE "place")
      BY <1>5 DEF WriteTemp
    <2>2. \A x \in Path : tree'[x] = IF x = temp THEN v ELSE tree[x]
      BY <1>2, <1>4, <2>1 DEF TypeOK
    <2>3. \A a \in Ancestors(temp) : tree[a] = Dir
      BY <1>5 DEF InDirectory
    <2>4. \A x \in Path : IsPrefix(temp, x) /\ x # temp => tree[x] = None
      BY <1>2, <1>4, <1>5, NothingBelow
    <2>5. IsTree(tree')
      <3> HIDE DEF v, temp
      <3> QED
        BY <1>2, <1>4, <2>2, <2>3, <2>4, PutKeepsTree
    <2>6. tree' = [x \in Path |-> tree'[x]] /\ local' = [x \in Thread |-> local'[x]]
      BY <1>2, <2>1 DEF TypeOK
    <2>7. g[temp] # Dir
      BY <1>3, <1>4, <1>5
    <2>8. \A x \in Path : tree'[x] = Written(g, l, x)
      BY <1>3, <2>2 DEF Written
    <2>9. CASE l.existed
      <3>1. Stands("remove_old", l, tree', b)
        BY <1>3, <2>7, <2>8, <2>9 DEF Stands
      <3> QED
        BY <1>2, <2>1, <2>5, <2>6, <2>9, <3>1, GoesOn
    <2>10. CASE ~l.existed
      <3>1. \A x \in Path : tree'[x] = Replaced(g, l, x)
        BY <1>4, <2>8, <2>10 DEF Replaced, Written
      <3>2. Stands("place", l, tree', b)
        BY <1>3, <2>7, <3>1 DEF Stands
      <3> QED
        BY <1>2, <2>1, <2>5, <2>6, <2>10, <3>2, GoesOn
    <2> QED
      BY <2>9, <2>10
  <1>6. CASE ~(InDirectory(temp) /\ tree[temp] # Dir)
    BY <1>6, Fails DEF WriteTemp
  <1> QED
    BY <1>5, <1>6

LEMMA RemoveOldStep ==
  ASSUME NEW t, Thread = {t}, TreeInv, RemoveOld(t)
  PROVE  TreeInv'
  <1> DEFINE l == local[t]
             b == aux_before[t]
             q == l.target
             g == WithParents(b, q)
             temp == Temp(q)
  <1>1. t \in Thread /\ pc[t] = "remove_old" /\ pc[t] # "idle"
    BY DEF RemoveOld, At
  <1>2. /\ TypeOK /\ RequestOK(l) /\ IsTree(tree) /\ Asked(l, b)
        /\ Stands("remove_old", l, tree, b)
    BY <1>1, Serves
  <1>3. /\ l.op = "write" /\ Ready(l, b) /\ g[temp] # Dir
        /\ \A x \in Path : tree[x] = Written(g, l, x)
    BY <1>2 DEF Stands
  <1>4. q \in Path /\ temp \in Path /\ temp # q
    BY <1>1, <1>3, WriteOK
  <1>5. CASE Empty(q)
    <2>1. tree' = [tree EXCEPT ![q] = None] /\ local' = local /\ Goto(t, "place")
      BY <1>5 DEF RemoveOld
    <2>2. \A x \in Path : tree'[x] = IF x = q THEN None ELSE tree[x]
      BY <1>2, <1>4, <2>1 DEF TypeOK
    <2>3. \A x \in Path : IsPrefix(q, x) /\ x # q => tree[x] = None
      BY <1>5 DEF Empty, Present, Under, Exists
    <2>4. IsTree(tree')
      BY <1>2, <1>4, <2>2, <2>3, PutKeepsTree
    <2>5. tree' = [x \in Path |-> tree'[x]] /\ local' = [x \in Thread |-> local'[x]]
      BY <1>2, <2>1 DEF TypeOK
    <2>6. \A x \in Path : tree'[x] = Replaced(g, l, x)
      BY <1>3, <2>2 DEF Replaced
    <2>7. Stands("place", l, tree', b)
      BY <1>3, <2>6 DEF Stands
    <2> QED
      BY <1>2, <2>1, <2>4, <2>5, <2>7, GoesOn
  <1>6. CASE ~Empty(q)
    <2>1. tree' = [tree EXCEPT ![temp] = None] /\ Answer(t, "error")
      BY <1>6 DEF RemoveOld
    <2>2. \A x \in Path : tree'[x] = IF x = temp THEN None ELSE tree[x]
      BY <1>2, <1>4, <2>1 DEF TypeOK
    <2>3. tree[temp] # Dir
      BY <1>3, <1>4, Kinds DEF Written
    <2>4. \A x \in Path : IsPrefix(temp, x) /\ x # temp => tree[x] = None
      BY <1>2, <1>4, <2>3, NothingBelow
    <2>5. IsTree(tree')
      <3> HIDE DEF temp
      <3> QED
        BY <1>2, <1>4, <2>2, <2>4, PutKeepsTree
    <2>6. tree' = [x \in Path |-> tree'[x]]
      BY <1>2, <2>1 DEF TypeOK
    <2> QED
      BY <1>2, <2>1, <2>5, <2>6, Ends
  <1> QED
    BY <1>5, <1>6

\* Where a write puts its temporary file: the old file is gone, nothing is below either.
LEMMA AtPlaceWrite ==
  ASSUME NEW t, Thread = {t}, TreeInv, pc[t] = "place", local[t].op = "write"
  PROVE  LET l == local[t]
             q == l.target
             g == WithParents(aux_before[t], q)
         IN  /\ q \in Path /\ Temp(q) \in Path /\ Temp(q) # q /\ g[q] = aux_before[t][q]
             /\ IsTree(tree) /\ tree[Temp(q)] = File(l.text) /\ ~IsPrefix(q, Temp(q))
             /\ \A x \in Path : tree[x] = Replaced(g, l, x)
             /\ \A x \in Path : IsPrefix(q, x) => tree[x] = None
             /\ \A x \in Path : IsPrefix(Temp(q), x) /\ x # Temp(q) => tree[x] = None
             /\ \A x \in Path : IsPrefix(q, x) /\ x # q => g[x] = None
  <1> DEFINE l == local[t]
             b == aux_before[t]
             q == l.target
             g == WithParents(b, q)
             temp == Temp(q)
  <1>1. t \in Thread /\ pc[t] # "idle"
    OBVIOUS
  <1>2. /\ IsTree(tree) /\ Stands("place", l, tree, b)
    BY <1>1, Serves
  <1>3. \A x \in Path : tree[x] = Replaced(g, l, x)
    BY <1>2 DEF Stands, Transfers
  <1>4. /\ q \in Path /\ temp \in Path /\ temp # q /\ g[q] = b[q] /\ IsTree(b) /\ b[q] # Dir
    BY <1>1, WriteOK
  <1>5. tree[temp] = File(l.text) /\ tree[q] = None
    BY <1>3, <1>4 DEF Replaced, Written
  <1>6. \A x \in Path : IsPrefix(q, x) => tree[x] = None
    BY <1>2, <1>4, <1>5, Kinds, NothingBelow
  <1>7. \A x \in Path : IsPrefix(temp, x) /\ x # temp => tree[x] = None
    <2> HIDE DEF temp
    <2> QED
      BY <1>2, <1>4, <1>5, Kinds, NothingBelow
  <1>8. ~IsPrefix(q, temp)
    BY <1>4, <1>5, <1>6, Kinds
  <1>9. ASSUME NEW x \in Path, IsPrefix(q, x), x # q
        PROVE  g[x] = None
    <2>1. b[x] = None
      BY <1>4, <1>9, NothingBelow
    <2>2. x \notin Ancestors(q)
      BY <1>4, <1>9, PathOrder
    <2> QED
      BY <2>1, <2>2 DEF WithParents
  <1> QED
    BY <1>2, <1>3, <1>4, <1>5, <1>6, <1>7, <1>8, <1>9

LEMMA PlaceWriteStep ==
  ASSUME NEW t, Thread = {t}, TreeInv, PlaceWrite(t)
  PROVE  TreeInv'
  <1> DEFINE q == local[t].target
             temp == Temp(q)
  <1>1. pc[t] = "place" /\ local[t].op = "write"
    BY DEF PlaceWrite, At
  <1>2. /\ TypeOK /\ IsTree(tree) /\ q \in Path /\ temp \in Path /\ temp # q
        /\ tree[temp] = File(local[t].text)
        /\ \A x \in Path : IsPrefix(temp, x) /\ x # temp => tree[x] = None
    BY <1>1, AtPlaceWrite DEF TreeInv
  <1>3. CASE CanRename(temp, q)
    <2>1. tree' = Transferred(tree, temp, q, FALSE) /\ Answer(t, "ok")
      BY <1>3 DEF PlaceWrite
    <2>2. ~IsPrefix(temp, q) /\ \A a \in Ancestors(q) : tree[a] = Dir
      BY <1>3 DEF CanRename, InDirectory
    <2>3. IsTree(tree')
      BY <1>2, <2>1, <2>2, TransferKeepsTree
    <2>4. tree' = [x \in Path |-> tree'[x]]
      BY <2>1 DEF Transferred
    <2> QED
      BY <1>2, <2>1, <2>3, <2>4, Ends
  <1>4. CASE ~CanRename(temp, q)
    <2>1. /\ tree' = [tree EXCEPT ![temp] = IF @ = Dir /\ ~Empty(temp) THEN @ ELSE None]
          /\ Answer(t, "error")
      BY <1>4 DEF PlaceWrite
    <2>2. \A x \in Path : tree'[x] = IF x = temp THEN None ELSE tree[x]
      BY <1>2, <2>1, Kinds DEF TypeOK
    <2>3. IsTree(tree')
      <3> HIDE DEF temp
      <3> QED
        BY <1>2, <2>2, PutKeepsTree
    <2>4. tree' = [x \in Path |-> tree'[x]]
      BY <1>2, <2>1 DEF TypeOK
    <2> QED
      BY <1>2, <2>1, <2>3, <2>4, Ends
  <1> QED
    BY <1>3, <1>4

\* mkdir makes what is missing above and at its path.
LEMMA Makes ==
  ASSUME NEW t, Thread = {t}, TreeInv, Mkdir(t)
  PROVE  /\ IsTree(tree') /\ tree' = [x \in Path |-> tree'[x]]
         /\ \A x \in Path : tree'[x] = tree[x] \/ tree[x] = None
  <1>1. PICK p \in Named : /\ ~Exists(p) /\ CanCreateParents(p)
                           /\ tree' = [WithParents(tree, p) EXCEPT ![p] = Dir]
    BY DEF Mkdir
  <1>2. p \in Path /\ IsTree(tree) /\ tree = [x \in Path |-> tree[x]]
    BY DEF Named, TreeInv, TypeOK
  <1>3. tree[p] = None /\ \A a \in Ancestors(p) : tree[a] \in {None, Dir}
    BY <1>1 DEF Exists, CanCreateParents
  <1> DEFINE g == WithParents(tree, p)
  <1>4. /\ \A x \in Path : g[x] = IF x \in Ancestors(p) THEN Dir ELSE tree[x]
        /\ \A x \in Path : tree'[x] = IF x = p THEN Dir ELSE g[x]
        /\ tree' = [x \in Path |-> tree'[x]]
    BY <1>1 DEF WithParents
  <1>5. IsTree(g)
    BY <1>2, <1>3, ParentsKeepTree
  <1> HIDE DEF g
  <1>6. \A a \in Ancestors(p) : g[a] = Dir
    BY <1>2, <1>4, PathOrder
  <1>7. IsTree(tree')
    <2> DEFINE v == Dir
    <2>1. /\ \A x \in Path : tree'[x] = IF x = p THEN v ELSE g[x]
          /\ v = Dir
      BY <1>4
    <2> HIDE DEF v
    <2> QED
      BY <1>2, <1>5, <1>6, <2>1, PutKeepsTree
  <1>8. \A x \in Path : tree'[x] = tree[x] \/ tree[x] = None
    BY <1>3, <1>4
  <1> QED
    BY <1>4, <1>7, <1>8

LEMMA MkdirStep ==
  ASSUME NEW t, Thread = {t}, TreeInv, Mkdir(t)
  PROVE  TreeInv'
  <1>1. IsTree(tree') /\ tree' = [x \in Path |-> tree'[x]]
    BY Makes
  <1>2. /\ pc[t] = "idle" /\ pc' = pc /\ local' = local /\ aux_before' = aux_before
        /\ answer' = [x \in Thread |-> answer'[x]]
    BY DEF Mkdir, At, TreeInv, TypeOK
  <1>3. TypeOK'
    BY <1>1, <1>2 DEF TreeInv, TypeOK
  <1>4. Serving(t)'
    BY <1>2 DEF Serving
  <1>5. IsTree(tree)'
    BY <1>1 DEF IsTree, Ancestors, Dir, None
  <1> QED
    BY <1>3, <1>4, <1>5 DEF TreeInv

LEMMA CrashStep ==
  ASSUME NEW t, Thread = {t}, TreeInv, Crash
  PROVE  TreeInv'
  <1>1. /\ tree' = tree /\ pc' = [x \in Thread |-> "idle"] /\ local' = [x \in Thread |-> Blank]
        /\ aux_before' = [x \in Thread |-> <<>>] /\ answer' = [x \in Thread |-> "none"]
    BY DEF Crash
  <1>2. TypeOK'
    BY <1>1, BlankOK DEF TreeInv, TypeOK
  <1>3. Serving(t)'
    BY <1>1 DEF Serving
  <1>4. IsTree(tree)'
    BY <1>1 DEF TreeInv, IsTree, Ancestors, Dir, None
  <1> QED
    BY <1>2, <1>3, <1>4 DEF TreeInv

LEMMA TreeStep ==
  ASSUME NEW t, Thread = {t}, TreeInv, [Next]_vars
  PROVE  TreeInv'
  <1>1. CASE UNCHANGED vars
    BY <1>1 DEF vars, TreeInv, TypeOK, Serving, IsTree, Ancestors, Dir, None
  <1>2. CASE Transfer(t)
    BY <1>2, TransferStep
  <1>3. CASE Write(t)
    BY <1>3, WriteStep
  <1>4. CASE Mkdir(t)
    BY <1>4, MkdirStep
  <1>5. CASE Crash
    BY <1>5, CrashStep
  <1>6. CASE CreateParents(t)
    BY <1>6, CreateParentsStep
  <1>7. CASE CheckTarget(t)
    BY <1>7, CheckTargetStep
  <1>8. CASE RemoveEntry(t)
    BY <1>8, RemoveEntryStep
  <1>9. CASE PlaceTransfer(t)
    BY <1>9, PlaceTransferStep
  <1>10. CASE PlaceCopy(t)
    BY <1>10, PlaceCopyStep
  <1>11. CASE CopyEntry(t)
    BY <1>11, CopyEntryStep
  <1>12. CASE WriteTemp(t)
    BY <1>12, WriteTempStep
  <1>13. CASE RemoveOld(t)
    BY <1>13, RemoveOldStep
  <1>14. CASE PlaceWrite(t)
    BY <1>14, PlaceWriteStep
  <1> QED
    BY <1>1, <1>2, <1>3, <1>4, <1>5, <1>6, <1>7, <1>8, <1>9, <1>10, <1>11, <1>12, <1>13, <1>14
    DEF Next, Step

\* The tree is a tree, and at every point of a request it is the tree the request has
\* found with what the request has done to it so far (fs_write, fs_move, fs_copy and
\* fs_rename when the daemon serves one request at a time, whenever it dies).
THEOREM TreeIsAccounted ==
  ASSUME OneHandler
  PROVE  Spec => []TreeInv
  <1>1. PICK t : Thread = {t}
    BY DEF OneHandler
  <1>2. Init => TreeInv
    BY <1>1, InitTree
  <1>3. TreeInv /\ [Next]_vars => TreeInv'
    BY <1>1, TreeStep
  <1> QED
    BY <1>2, <1>3, PTL DEF Spec

(***************************************************************************)
(* The source of a transfer                                                *)
(***************************************************************************)
LEMMA SourceUntouched ==
  ASSUME TreeInv, NEW t \in Thread, pc[t] # "idle", local[t].op \in Transfers,
         ~IsPrefix(local[t].target, local[t].path), NEW x \in Under(local[t].path)
  PROVE  tree[x] = aux_before[t][x]
  <1> DEFINE l == local[t]
             b == aux_before[t]
             g == WithParents(b, l.target)
  <1>1. l.target \in Path /\ l.path \in Path /\ Stands(pc[t], l, tree, b)
    BY Serves
  <1>2. x \in Path /\ IsPrefix(l.path, x)
    BY DEF Under
  <1>3. CASE \A y \in Path : tree[y] = b[y]
    BY <1>2, <1>3
  <1>4. CASE Ready(l, b) /\ pc[t] # "create_parents"
    <2>1. ~IsPrefix(l.target, x) /\ x \notin Ancestors(l.target)
      BY <1>1, <1>2, <1>4, Apart DEF Ready
    <2>2. g[x] = b[x]
      BY <1>2, <2>1 DEF WithParents
    <2>3. \/ \A y \in Path : tree[y] = g[y]
          \/ \A y \in Path : tree[y] = Cleared(g, l, y)
          \/ \A y \in Path : tree[y] = Copied(g, l, y)
      BY <1>1, <1>4 DEF Stands, Transfers
    <2>4. tree[x] = g[x]
      BY <1>2, <2>1, <2>3 DEF Cleared, Copied
    <2> QED
      BY <2>2, <2>4
  <1> QED
    BY <1>1, <1>3, <1>4 DEF Stands

\* Until it succeeds, a move, copy or rename has not touched its source, however far it
\* has come and wherever it fails or dies (fs_move, fs_copy and fs_rename).
THEOREM SourcesAlwaysSurvive ==
  ASSUME OneHandler
  PROVE  Spec => []SourceSurvives
  <1>1. TreeInv => SourceSurvives
    BY SourceUntouched DEF SourceSurvives, At, Transfers
  <1> QED
    BY <1>1, TreeIsAccounted, PTL

(***************************************************************************)
(* No text is lost without leave                                           *)
(***************************************************************************)

\* A rename of p to q takes every entry from p to its place under q.
LEMMA TransferKeepsTexts ==
  ASSUME NEW p \in Path, NEW q \in Path, CanRename(p, q),
         NEW x \in Path, tree[x] # None, ~IsPrefix(q, x)
  PROVE  \E y \in Path : Transferred(tree, p, q, FALSE)[y] = tree[x]
  <1>1. CASE IsPrefix(p, x)
    <2> DEFINE y == Shift(x, p, q)
    <2>1. y \in Path
      BY <1>1 DEF CanRename, Present, Under, Exists
    <2>2. IsPrefix(q, y) /\ Shift(y, q, p) = x
      BY <1>1, <2>1, ShiftPath
    <2> HIDE DEF y
    <2>3. Transferred(tree, p, q, FALSE)[y] = tree[x]
      BY <2>1, <2>2 DEF Transferred
    <2> QED
      BY <2>1, <2>3
  <1>2. CASE ~IsPrefix(p, x)
    <2>1. Transferred(tree, p, q, FALSE)[x] = tree[x]
      BY <1>2 DEF Transferred
    <2> QED
      BY <2>1
  <1> QED
    BY <1>1, <1>2

LEMMA TextStep ==
  ASSUME NEW t, Thread = {t}, TreeInv, [Next]_vars,
         NEW p \in Named, tree[p].kind = "file", \A y \in Path : tree'[y] # tree[p]
  PROVE  pc[t] # "idle" /\ local[t].overwrite /\ IsPrefix(local[t].target, p)
  <1> DEFINE l == local[t]
             b == aux_before[t]
             q == l.target
             g == WithParents(b, q)
  <1>1. /\ t \in Thread /\ p \in Path /\ tree[p] # None /\ tree[p] # Dir
        /\ tree'[p] # tree[p] /\ tree = [x \in Path |-> tree[x]] /\ IsTree(tree)
    BY Kinds DEF Named, TreeInv, TypeOK
  <1>2. tree' # tree
    BY <1>1
  <1>3. ~Mkdir(t)
    BY <1>1, Makes
  <1>4. ~Fail(t)
    BY <1>2 DEF Fail
  <1>5. CASE CreateParents(t)
    <2>1. tree' = WithParents(tree, q) /\ CanCreateParents(q)
      BY <1>4, <1>5 DEF CreateParents
    <2>2. p \notin Ancestors(q)
      BY <1>1, <2>1 DEF CanCreateParents
    <2> QED
      BY <1>1, <2>1, <2>2 DEF WithParents
  <1>6. CASE RemoveEntry(t)
    <2>1. pc[t] = "remove" /\ pc[t] # "idle"
      BY <1>6 DEF RemoveEntry, At
    <2>2. Stands("remove", l, tree, b)
      BY <1>1, <2>1, Serves
    <2>3. l.overwrite /\ l.todo \subseteq Under(q)
      BY <2>2 DEF Stands
    <2>4. PICK r \in l.todo : tree' = [tree EXCEPT ![r] = None]
      BY <1>4, <1>6 DEF RemoveEntry
    <2>5. p = r
      BY <1>1, <2>4
    <2> QED
      BY <2>1, <2>3, <2>5 DEF Under
  <1>7. CASE PlaceTransfer(t)
    <2>1. /\ pc[t] = "place" /\ pc[t] # "idle" /\ l.op \in Transfers
          /\ CanRename(l.path, q) /\ tree' = Transferred(tree, l.path, q, FALSE)
      BY <1>4, <1>7 DEF PlaceTransfer, At, Transfers
    <2>2. q \in Path /\ l.path \in Path
      BY <1>1, <2>1, Serves
    <2>3. tree[l.path] # None
      BY <2>1 DEF CanRename, Exists
    <2>4. IsPrefix(q, p) => tree[p] = None
      BY <1>1, <2>1, <2>3, AtPlace
    <2> QED
      BY ZenonT(40), <1>1, <2>1, <2>2, <2>4, TransferKeepsTexts
  <1>8. CASE CopyEntry(t)
    <2>1. PICK r \in l.todo :
            LET y == Shift(r, l.path, q)
            IN  /\ tree[y] = None \/ (tree[r] = Dir /\ tree[y] = Dir)
                /\ tree' = [tree EXCEPT ![y] = tree[r]]
      BY <1>4, <1>8, CopiesEntry
    <2> DEFINE y == Shift(r, l.path, q)
    <2>2. /\ tree[y] = None \/ (tree[r] = Dir /\ tree[y] = Dir)
          /\ tree' = [tree EXCEPT ![y] = tree[r]]
      BY <2>1
    <2> HIDE DEF y
    <2>3. p # y
      BY <1>1, <2>2
    <2> QED
      BY <1>1, <2>2, <2>3
  <1>9. CASE WriteTemp(t)
    <2>1. /\ pc[t] = "write_temp" /\ pc[t] # "idle"
          /\ tree' = [tree EXCEPT ![Temp(q)] = File(l.text)]
      BY <1>4, <1>9 DEF WriteTemp, At
    <2>2. Stands("write_temp", l, tree, b)
      BY <1>1, <2>1, Serves
    <2>3. l.op = "write"
      BY <2>2 DEF Stands
    <2>4. Temp(q) \notin Named
      BY <1>1, <2>1, <2>3, WriteOK
    <2> QED
      BY <1>1, <2>1, <2>4
  <1>10. CASE RemoveOld(t)
    <2>1. /\ pc[t] = "remove_old" /\ pc[t] # "idle"
          /\ tree' = [tree EXCEPT ![q] = None] \/ tree' = [tree EXCEPT ![Temp(q)] = None]
      BY <1>10 DEF RemoveOld, At
    <2>2. Stands("remove_old", l, tree, b)
      BY <1>1, <2>1, Serves
    <2>3. l.op = "write" /\ l.existed
      BY <2>2 DEF Stands
    <2>4. Temp(q) \notin Named /\ l.overwrite /\ q \in Path
      BY <1>1, <2>1, <2>3, WriteOK
    <2>5. p = q
      BY <1>1, <2>1, <2>4
    <2>6. IsPrefix(q, p)
      BY <2>4, <2>5, PathOrder
    <2> QED
      BY <2>1, <2>4, <2>6
  <1>11. CASE PlaceWrite(t)
    <2>1. pc[t] = "place" /\ pc[t] # "idle" /\ l.op = "write"
      BY <1>11 DEF PlaceWrite, At
    <2>2. /\ q \in Path /\ Temp(q) \in Path
          /\ IsPrefix(q, p) => tree[p] = None
      BY <1>1, <2>1, AtPlaceWrite
    <2>3. Temp(q) # p
      BY <1>1, <2>1, WriteOK
    <2>4. CASE CanRename(Temp(q), q)
      <3>1. tree' = Transferred(tree, Temp(q), q, FALSE)
        BY <1>11, <2>4 DEF PlaceWrite
      <3> QED
        BY ZenonT(40), <1>1, <2>2, <2>4, <3>1, TransferKeepsTexts
    <2>5. CASE ~CanRename(Temp(q), q)
      <3>1. \E v : tree' = [tree EXCEPT ![Temp(q)] = v]
        BY <1>11, <2>5 DEF PlaceWrite
      <3> QED
        BY <1>1, <2>3, <3>1
    <2> QED
      BY <2>4, <2>5
  <1>12. \/ CreateParents(t) \/ RemoveEntry(t) \/ PlaceTransfer(t) \/ CopyEntry(t)
         \/ WriteTemp(t) \/ RemoveOld(t) \/ PlaceWrite(t)
    <2>1. ~CheckTarget(t) /\ ~PlaceCopy(t)
      BY <1>2, <1>4 DEF CheckTarget, PlaceCopy
    <2>2. ~Crash
      BY <1>2 DEF Crash
    <2>3. ~Transfer(t) /\ ~Write(t)
      BY ZenonT(40), <1>2 DEF Transfer, Write, Start
    <2> QED
      BY <1>2, <1>3, <2>1, <2>2, <2>3 DEF Next, Step, vars
  <1> QED
    BY <1>5, <1>6, <1>7, <1>8, <1>9, <1>10, <1>11, <1>12

\* A text leaves the workspace only from the target of a request that may overwrite, or
\* from below it, whatever the request fails at and whenever the daemon dies (fs_write,
\* fs_mkdir, fs_move, fs_copy and fs_rename, one at a time).
THEOREM TextsAlwaysSurvive ==
  ASSUME OneHandler
  PROVE  Spec => TextsSurvive
  <1> DEFINE Kept ==
        \A p \in Named :
          tree[p].kind = "file" /\ (\A q \in Path : tree'[q] # tree[p]) =>
            \E t \in Thread : /\ ~At(t, "idle") /\ local[t].overwrite
                              /\ IsPrefix(local[t].target, p)
  <1>1. PICK w : Thread = {w}
    BY DEF OneHandler
  <1>2. TreeInv /\ [Next]_vars => [Kept]_vars
    BY <1>1, TextStep DEF At
  <1>3. Init => TreeInv
    BY <1>1, InitTree
  <1>4. TreeInv /\ [Next]_vars => TreeInv'
    BY <1>1, TreeStep
  <1> QED
    BY <1>2, <1>3, <1>4, PTL DEF Spec, TextsSurvive

(***************************************************************************)
(* Success is the whole request, as if in one step                         *)
(***************************************************************************)

\* What is put at or below q is at or below p, and not at or below q.
LEMMA PutFromOutside ==
  ASSUME NEW p \in Path, NEW q \in Path, ~IsPrefix(p, q), ~IsPrefix(q, p),
         NEW x \in Path, IsPrefix(q, x), Shift(x, q, p) \in Path
  PROVE  ~IsPrefix(q, Shift(x, q, p))
  <1>1. IsPrefix(p, Shift(x, q, p))
    BY ShiftPath
  <1> QED
    BY <1>1, Apart

LEMMA MovesAtOnce ==
  ASSUME NEW t, Thread = {t}, TreeInv, PlaceTransfer(t), ~Fail(t)
  PROVE  tree' = Wanted(aux_before[t], local[t])
  <1> DEFINE l == local[t]
             b == aux_before[t]
             g == WithParents(b, l.target)
  <1>1. /\ t \in Thread /\ pc[t] = "place" /\ pc[t] # "idle"
        /\ l.op \in Transfers /\ l.op \in {"move", "rename"}
        /\ CanRename(l.path, l.target)
        /\ tree' = Transferred(tree, l.path, l.target, FALSE)
    BY DEF PlaceTransfer, At, Transfers
  <1>2. l.target \in Path /\ l.path \in Path
    BY <1>1, Serves
  <1>3. tree[l.path] # None
    BY <1>1 DEF CanRename, Exists
  <1>4. /\ ~IsPrefix(l.path, l.target) /\ ~IsPrefix(l.target, l.path)
        /\ \A x \in Path : ~IsPrefix(l.target, x) => tree[x] = g[x]
    BY <1>1, <1>3, AtPlace
  <1> HIDE DEF g
  <1>5. Transferred(tree, l.path, l.target, FALSE) = Transferred(g, l.path, l.target, FALSE)
    <2>1. \A x \in Path : IsPrefix(l.target, x) /\ Shift(x, l.target, l.path) \in Path =>
            tree[Shift(x, l.target, l.path)] = g[Shift(x, l.target, l.path)]
      BY <1>2, <1>4, PutFromOutside
    <2> QED
      BY <1>4, <2>1 DEF Transferred
  <1> QED
    BY <1>1, <1>5 DEF Wanted, g

LEMMA CopiesAtOnce ==
  ASSUME NEW t, Thread = {t}, TreeInv, CopyEntry(t), ~Fail(t), pc'[t] = "idle"
  PROVE  tree' = Wanted(aux_before[t], local[t])
  <1> DEFINE l == local[t]
             b == aux_before[t]
             g == WithParents(b, l.target)
  <1>1. t \in Thread /\ pc[t] = "copy_entry" /\ pc[t] # "idle"
    BY DEF CopyEntry, At
  <1>2. TypeOK /\ Stands("copy_entry", l, tree, b)
    BY <1>1, Serves
  <1>3. l.op = "copy" /\ ~IsPrefix(l.target, l.path) /\ Ready(l, b)
    BY <1>2 DEF Stands
  <1>4. PICK r \in l.todo :
          /\ \E y \in Path : tree' = [tree EXCEPT ![y] = tree[r]]
          /\ \A x \in Path :
               tree'[x] = IF ~IsPrefix(l.target, x) THEN g[x]
                          ELSE IF Shift(x, l.target, l.path) \in Path \ (l.todo \ {r})
                            THEN g[Shift(x, l.target, l.path)]
                          ELSE None
          /\ IF l.todo = {r} THEN Answer(t, "ok") ELSE Goto(t, "copy_entry")
    BY CopiesEntry
  <1>5. l.todo = {r}
    BY <1>1, <1>2, <1>4 DEF Goto, TypeOK
  <1>6. \A x \in Path :
          tree'[x] = IF IsPrefix(l.target, x)
                       THEN IF Shift(x, l.target, l.path) \in Path
                              THEN g[Shift(x, l.target, l.path)] ELSE None
                     ELSE g[x]
    BY <1>4, <1>5
  <1>7. tree' = [x \in Path |-> tree'[x]]
    BY <1>2, <1>4 DEF TypeOK
  <1> HIDE DEF g
  <1>8. tree' = Transferred(g, l.path, l.target, TRUE)
    BY <1>6, <1>7 DEF Transferred
  <1> QED
    BY <1>3, <1>8 DEF Wanted, g

LEMMA WritesAtOnce ==
  ASSUME NEW t, Thread = {t}, TreeInv, PlaceWrite(t), CanRename(Temp(local[t].target), local[t].target)
  PROVE  tree' = Wanted(aux_before[t], local[t])
  <1> DEFINE l == local[t]
             b == aux_before[t]
             q == l.target
             temp == Temp(q)
             g == WithParents(b, q)
             v == File(l.text)
  <1>1. /\ t \in Thread /\ pc[t] = "place" /\ l.op = "write"
        /\ tree' = Transferred(tree, temp, q, FALSE)
    BY DEF PlaceWrite, At
  <1>2. /\ q \in Path /\ temp \in Path /\ temp # q
        /\ tree[temp] = v /\ ~IsPrefix(q, temp)
        /\ \A x \in Path : tree[x] = Replaced(g, l, x)
        /\ \A x \in Path : IsPrefix(temp, x) /\ x # temp => tree[x] = None
        /\ \A x \in Path : IsPrefix(q, x) /\ x # q => g[x] = None
    BY <1>1, AtPlaceWrite
  <1>3. \A x \in Path : x # q /\ x # temp => tree[x] = g[x]
    BY <1>2 DEF Replaced, Written
  <1>4. \A x \in Path : x \in DOMAIN g /\ g = [y \in Path |-> g[y]]
    BY DEF WithParents
  <1> HIDE DEF g, v, temp
  <1>5. ASSUME NEW x \in Path
        PROVE  tree'[x] = IF x = temp THEN None ELSE IF x = q THEN v ELSE g[x]
    <2>1. CASE ~IsPrefix(q, x)
      <3>1. tree'[x] = IF IsPrefix(temp, x) THEN None ELSE tree[x]
        BY <1>1, <2>1 DEF Transferred
      <3>2. x # q
        BY <2>1, PathOrder
      <3>3. IsPrefix(temp, temp)
        BY <1>2, PathOrder
      <3> QED
        BY <1>2, <1>3, <3>1, <3>2, <3>3
    <2>2. CASE IsPrefix(q, x)
      <3> DEFINE s == Shift(x, q, temp)
      <3>1. tree'[x] = IF s \in Path THEN tree[s] ELSE None
        BY <1>1, <2>2 DEF Transferred
      <3>2. x # temp
        BY <1>2, <2>2
      <3>3. CASE x = q
        <4>1. q \in Seq(Name) /\ temp \in Seq(Name)
          BY <1>2, PathOK
        <4>2. s = temp
          BY <3>3, <4>1, ShiftSelf
        <4> QED
          BY <1>2, <3>1, <3>2, <3>3, <4>2
      <3>4. CASE x # q
        <4>1. s \in Path => IsPrefix(temp, s) /\ s # temp
          BY <1>2, <2>2, <3>4, ShiftPath
        <4> HIDE DEF s
        <4>2. tree'[x] = None
          BY <1>2, <3>1, <4>1
        <4> QED
          BY <1>2, <2>2, <3>2, <3>4, <4>2
      <3> QED
        BY <3>3, <3>4
    <2> QED
      BY <2>1, <2>2
  <1>6. tree' = [x \in Path |-> tree'[x]]
    BY <1>1 DEF Transferred
  <1>7. tree' = [g EXCEPT ![q] = v, ![temp] = None]
    BY <1>2, <1>4, <1>5, <1>6
  <1> QED
    BY <1>1, <1>7 DEF Wanted, g, v, temp

LEMMA OnceStep ==
  ASSUME NEW t, Thread = {t}, TreeInv, [Next]_vars, Succeeds(t)
  PROVE  tree' = Wanted(aux_before[t], local[t])
  <1>1. /\ t \in Thread /\ pc[t] # "idle" /\ pc'[t] = "idle" /\ answer'[t] = "ok"
        /\ pc = [x \in Thread |-> pc[x]] /\ answer = [x \in Thread |-> answer[x]]
    BY DEF Succeeds, At, TreeInv, TypeOK
  <1>2. ~Fail(t)
    BY <1>1 DEF Fail, Answer
  <1>3. \A label \in Labels \ {"idle"} : ~Goto(t, label)
    BY <1>1 DEF Goto
  <1>4. ~CreateParents(t) /\ ~CheckTarget(t) /\ ~RemoveEntry(t) /\ ~PlaceCopy(t) /\ ~WriteTemp(t)
    BY <1>2, <1>3 DEF CreateParents, CheckTarget, RemoveEntry, PlaceCopy, WriteTemp, Labels
  <1>5. ~RemoveOld(t)
    BY <1>1, <1>3 DEF RemoveOld, Answer, Labels
  <1>6. ~Crash
    BY <1>1 DEF Crash
  <1>7. ~Transfer(t) /\ ~Write(t) /\ ~Mkdir(t)
    BY ZenonT(40), <1>1 DEF Transfer, Write, Mkdir, Start, At
  <1>8. CASE PlaceTransfer(t)
    BY <1>2, <1>8, MovesAtOnce
  <1>9. CASE CopyEntry(t)
    BY <1>1, <1>2, <1>9, CopiesAtOnce
  <1>10. CASE PlaceWrite(t)
    <2>1. CanRename(Temp(local[t].target), local[t].target)
      BY <1>1, <1>10 DEF PlaceWrite, Answer
    <2> QED
      BY <1>10, <2>1, WritesAtOnce
  <1> QED
    BY <1>1, <1>4, <1>5, <1>6, <1>7, <1>8, <1>9, <1>10 DEF Next, Step, vars

\* A request that is answered with success has turned the tree it found into the tree it
\* was asked for, and nothing else has changed (fs_write, fs_move, fs_copy and fs_rename,
\* one at a time, for all trees, with all targets that are removed and parents that are
\* made on the way).
THEOREM SuccessIsAsIfAtOnce ==
  ASSUME OneHandler
  PROVE  Spec => AsIfAtOnce
  <1> DEFINE Once ==
        \A t \in Thread : Succeeds(t) => tree' = Wanted(aux_before[t], local[t])
  <1>1. PICK w : Thread = {w}
    BY DEF OneHandler
  <1>2. TreeInv /\ [Next]_vars => [Once]_vars
    BY <1>1, OnceStep
  <1>3. Init => TreeInv
    BY <1>1, InitTree
  <1>4. TreeInv /\ [Next]_vars => TreeInv'
    BY <1>1, TreeStep
  <1> QED
    BY <1>2, <1>3, <1>4, PTL DEF Spec, AsIfAtOnce
=============================================================================
