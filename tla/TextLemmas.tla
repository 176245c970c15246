--------------------------------- MODULE TextLemmas ---------------------------------
(***************************************************************************)
(* Texts of every length.  A text that is made of another symbol by symbol *)
(* is what FlattenSeq makes of it (Mapped); what holds of all of them is   *)
(* shown by induction over a set, of numbers or of texts, that holds with  *)
(* each member the next one.  The codec is such a map (Coded), so what it  *)
(* keeps of a file's bytes follows from what it makes of one symbol.       *)
(***************************************************************************)
EXTENDS TextCodec, Integers, FiniteSetTheorems, SequenceTheorems, WellFoundedInduction, TLAPS

(***************************************************************************)
(* Induction over the natural numbers, for a set: a number that is not in  *)
(* it would have a least one below it, and the numbers below each number   *)
(* are finite sets, ordered by strict inclusion.                           *)
(***************************************************************************)
LEMMA SetInduction ==
  ASSUME NEW S, 0 \in S, \A n \in Nat : n \in S => n + 1 \in S
  PROVE  Nat \subseteq S
  <1> DEFINE Below(n) == IF n = 0 THEN {} ELSE 1..n
             T == {Below(n) : n \in Nat \ S}
  <1> SUFFICES ASSUME NEW k \in Nat, k \notin S
               PROVE  FALSE
    OBVIOUS
  <1>1. T \subseteq FiniteSubsetsOf(Nat) /\ T # {}
    <2>1. \A n \in Nat : 1..n \in SUBSET Nat /\ IsFiniteSet(1..n)
      BY FS_Interval
    <2>2. {} \in SUBSET Nat /\ IsFiniteSet({})
      BY FS_EmptySet
    <2>3. \A n \in Nat : Below(n) \in SUBSET Nat /\ IsFiniteSet(Below(n))
      BY <2>1, <2>2
    <2>4. \A n \in Nat : Below(n) \in FiniteSubsetsOf(Nat)
      BY <2>3 DEF FiniteSubsetsOf
    <2> HIDE DEF Below
    <2> QED
      BY <2>4
  <1>2. PICK A \in T : \A B \in T : ~(<<B, A>> \in StrictSubsetOrdering(Nat))
    <2> HIDE DEF T
    <2> QED
      BY <1>1, FS_StrictSubsetOrderingWellFounded, WFMin
  <1>3. PICK n \in Nat \ S : A = Below(n)
    OBVIOUS
  <1>4. n # 0 /\ n - 1 \in Nat /\ (n - 1) + 1 = n
    OBVIOUS
  <1>5. n - 1 \in Nat \ S
    BY <1>4
  <1>6. Below(n - 1) \subseteq Below(n) /\ n \in Below(n) /\ n \notin Below(n - 1)
        /\ Below(n) \subseteq Nat
    BY <1>4
  <1>7. <<Below(n - 1), Below(n)>> \in StrictSubsetOrdering(Nat)
    <2> HIDE DEF Below
    <2> QED
      BY <1>6 DEF StrictSubsetOrdering
  <1> QED
    BY <1>2, <1>3, <1>5, <1>7

(***************************************************************************)
(* Joining sequences                                                       *)
(***************************************************************************)
\* The function FlattenSeq chooses: what the first i sequences are joined
Joins(q, f) == f = [i \in 1..Len(q) |-> IF i = 1 THEN q[i] ELSE f[i - 1] \o q[i]]

Joined(q) == CHOOSE f : Joins(q, f)

LEMMA FlattenIs ==
  ASSUME NEW q, Len(q) # 0
  PROVE  FlattenSeq(q) = Joined(q)[Len(q)]
  BY DEF FlattenSeq, Joins, Joined

LEMMA FlattenEmpty == FlattenSeq(<<>>) = <<>>
  BY DEF FlattenSeq

LEMMA JoinsAppend ==
  ASSUME NEW X, NEW q \in Seq(Seq(X)), NEW s \in Seq(X), NEW f, Joins(q, f), Len(q) # 0,
         \A i \in 1..Len(q) : f[i] \in Seq(X)
  PROVE  Joins(Append(q, s), [i \in 1..Len(q) + 1 |-> IF i = Len(q) + 1 THEN f[Len(q)] \o s ELSE f[i]])
  <1> DEFINE n == Len(q)
             g == [i \in 1..n + 1 |-> IF i = n + 1 THEN f[n] \o s ELSE f[i]]
             a == Append(q, s)
  <1>1. n \in Nat /\ n >= 1 /\ Len(a) = n + 1 /\ a[n + 1] = s /\ \A i \in 1..n : a[i] = q[i]
    OBVIOUS
  <1>2. \A i \in 1..n : f[i] = IF i = 1 THEN q[i] ELSE f[i - 1] \o q[i]
    <2> HIDE DEF n
    <2>1. f = [i \in 1..n |-> IF i = 1 THEN q[i] ELSE f[i - 1] \o q[i]]
      BY DEF Joins, n
    <2> DEFINE h == [i \in 1..n |-> IF i = 1 THEN q[i] ELSE f[i - 1] \o q[i]]
    <2>2. \A i \in 1..n : h[i] = IF i = 1 THEN q[i] ELSE f[i - 1] \o q[i]
      OBVIOUS
    <2> HIDE DEF h
    <2> QED
      BY <2>1, <2>2 DEF h
  <1> HIDE DEF n, a
  <1>3. ASSUME NEW i \in 1..n + 1
        PROVE  g[i] = IF i = 1 THEN a[i] ELSE g[i - 1] \o a[i]
    <2>1. CASE i = n + 1
      <3>1. i # 1 /\ i - 1 \in 1..n + 1 /\ i - 1 # n + 1 /\ i - 1 = n
        BY <1>1, <2>1
      <3>2. g[i - 1] = f[n] /\ g[i] = f[n] \o s
        BY <2>1, <3>1
      <3> QED
        BY <1>1, <2>1, <3>1, <3>2
    <2>2. CASE i # n + 1
      <3>1. i \in 1..n /\ g[i] = f[i] /\ a[i] = q[i]
        BY <1>1, <2>2
      <3>2. i # 1 => i - 1 \in 1..n + 1 /\ i - 1 # n + 1
        BY <1>1, <3>1
      <3>3. i # 1 => g[i - 1] = f[i - 1]
        BY <3>2
      <3> HIDE DEF g
      <3> QED
        BY <1>2, <3>1, <3>3
    <2> QED
      BY <2>1, <2>2
  <1>4. g = [i \in 1..n + 1 |-> g[i]]
    OBVIOUS
  <1> HIDE DEF g
  <1>5. g = [i \in 1..n + 1 |-> IF i = 1 THEN a[i] ELSE g[i - 1] \o a[i]]
    BY <1>3, <1>4
  <1>6. Joins(a, g)
    BY <1>1, <1>5 DEF Joins
  <1> QED
    BY <1>6 DEF g, a, n

LEMMA JoinsAgree ==
  ASSUME NEW X, NEW q \in Seq(Seq(X)), NEW s \in Seq(X), NEW f, Joins(q, f),
         NEW g, Joins(Append(q, s), g)
  PROVE  /\ \A i \in 1..Len(q) : g[i] = f[i]
         /\ g[Len(q) + 1] = IF Len(q) = 0 THEN s ELSE f[Len(q)] \o s
  <1> DEFINE n == Len(q)
             a == Append(q, s)
             S == {i \in Nat : i \in 1..n => g[i] = f[i]}
             F == [i \in 1..n |-> IF i = 1 THEN q[i] ELSE f[i - 1] \o q[i]]
             G == [i \in 1..n + 1 |-> IF i = 1 THEN a[i] ELSE g[i - 1] \o a[i]]
  <1>1. n \in Nat /\ Len(a) = n + 1 /\ a[n + 1] = s /\ \A i \in 1..n : a[i] = q[i]
    OBVIOUS
  <1>2. f = F /\ g = G
    BY <1>1 DEF Joins
  <1>3. /\ \A i \in 1..n : F[i] = IF i = 1 THEN q[i] ELSE f[i - 1] \o q[i]
        /\ \A i \in 1..n + 1 : G[i] = IF i = 1 THEN a[i] ELSE g[i - 1] \o a[i]
    OBVIOUS
  <1> HIDE DEF F, G, n, a
  <1>4. /\ \A i \in 1..n : f[i] = IF i = 1 THEN q[i] ELSE f[i - 1] \o q[i]
        /\ \A i \in 1..n + 1 : g[i] = IF i = 1 THEN a[i] ELSE g[i - 1] \o a[i]
    BY <1>2, <1>3
  <1>5. 0 \in S
    BY <1>1
  <1>6. ASSUME NEW i \in Nat, i \in S
        PROVE  i + 1 \in S
    <2> SUFFICES ASSUME i + 1 \in 1..n
                 PROVE  g[i + 1] = f[i + 1]
      OBVIOUS
    <2>1. i + 1 \in 1..n + 1 /\ (i + 1) - 1 = i /\ a[i + 1] = q[i + 1]
      BY <1>1
    <2>2. CASE i = 0
      BY <1>4, <2>1, <2>2
    <2>3. CASE i # 0
      <3>1. i \in 1..n /\ i + 1 # 1
        BY <1>1, <2>3
      <3> QED
        BY <1>4, <1>6, <2>1, <3>1
    <2> QED
      BY <2>2, <2>3
  <1>7. Nat \subseteq S
    <2> HIDE DEF S
    <2> QED
      BY <1>5, <1>6, SetInduction
  <1>8. \A i \in 1..n : g[i] = f[i]
    BY <1>1, <1>7
  <1>9. g[n + 1] = IF n = 0 THEN s ELSE f[n] \o s
    <2>1. n + 1 \in 1..n + 1 /\ (n + 1) - 1 = n /\ (n # 0 => n \in 1..n /\ n + 1 # 1)
      BY <1>1
    <2> QED
      BY <1>1, <1>4, <1>8, <2>1
  <1> QED
    BY <1>8, <1>9 DEF n

LEMMA JoinsExist ==
  ASSUME NEW X
  PROVE  \A q \in Seq(Seq(X)) : \E f \in [1..Len(q) -> Seq(X)] : Joins(q, f)
  <1> DEFINE Good(q) == \E f \in [1..Len(q) -> Seq(X)] : Joins(q, f)
             S == {n \in Nat : \A q \in Seq(Seq(X)) : Len(q) = n => Good(q)}
  <1>1. 0 \in S
    <2> SUFFICES ASSUME NEW q \in Seq(Seq(X)), Len(q) = 0
                 PROVE  Good(q)
      OBVIOUS
    <2> DEFINE f == [i \in 1..Len(q) |-> <<>>]
    <2>1. 1..Len(q) = {}
      OBVIOUS
    <2>2. f \in [1..Len(q) -> Seq(X)] /\ Joins(q, f)
      BY <2>1 DEF Joins
    <2> QED
      BY <2>2
  <1>2. ASSUME NEW n \in Nat, n \in S
        PROVE  n + 1 \in S
    <2> SUFFICES ASSUME NEW a \in Seq(Seq(X)), Len(a) = n + 1
                 PROVE  Good(a)
      OBVIOUS
    <2>1. a # <<>>
      OBVIOUS
    <2>2. PICK q \in Seq(Seq(X)), s \in Seq(X) : a = Append(q, s)
      BY <2>1, SequenceEmptyOrAppend
    <2>3. Len(q) = n
      BY <2>2
    <2>4. PICK f \in [1..Len(q) -> Seq(X)] : Joins(q, f)
      BY <1>2, <2>3
    <2>5. CASE n = 0
      <3> DEFINE g == [i \in 1..1 |-> s]
      <3>1. Len(a) = 1 /\ a[1] = s
        BY <2>2, <2>3, <2>5
      <3>2. g = [i \in 1..1 |-> IF i = 1 THEN a[i] ELSE g[i - 1] \o a[i]]
        BY <3>1
      <3>3. g \in [1..1 -> Seq(X)]
        OBVIOUS
      <3> HIDE DEF g
      <3>4. Joins(a, g)
        BY <3>1, <3>2 DEF Joins
      <3> QED
        BY <3>1, <3>3, <3>4
    <2>6. CASE n # 0
      <3> DEFINE g == [i \in 1..Len(q) + 1 |-> IF i = Len(q) + 1 THEN f[Len(q)] \o s ELSE f[i]]
      <3>1. Len(q) # 0 /\ \A i \in 1..Len(q) : f[i] \in Seq(X)
        BY <2>3, <2>6
      <3>2. Joins(Append(q, s), g)
        BY <2>4, <3>1, JoinsAppend
      <3>3. f[Len(q)] \o s \in Seq(X)
        BY <2>3, <2>6
      <3>4. g \in [1..Len(q) + 1 -> Seq(X)]
        BY <3>1, <3>3, <2>3
      <3> HIDE DEF g
      <3> QED
        BY <2>2, <2>3, <3>2, <3>4
    <2> QED
      BY <2>5, <2>6
  <1>3. Nat \subseteq S
    <2> HIDE DEF S
    <2> QED
      BY <1>1, <1>2, SetInduction
  <1> QED
    BY <1>3

LEMMA FlattenAppend ==
  ASSUME NEW X, NEW q \in Seq(Seq(X)), NEW s \in Seq(X)
  PROVE  /\ FlattenSeq(q) \in Seq(X)
         /\ FlattenSeq(Append(q, s)) = FlattenSeq(q) \o s
  <1> DEFINE f == Joined(q)
             g == Joined(Append(q, s))
  <1>1. Append(q, s) \in Seq(Seq(X)) /\ Len(Append(q, s)) = Len(q) + 1 /\ Len(q) \in Nat
    OBVIOUS
  <1>2. Joins(q, f) /\ Joins(Append(q, s), g)
    <2>1. (\E e : Joins(q, e)) /\ (\E e : Joins(Append(q, s), e))
      BY <1>1, JoinsExist
    <2> QED
      BY <2>1 DEF Joined
  <1>3. FlattenSeq(Append(q, s)) = g[Len(q) + 1]
    <2>1. Len(Append(q, s)) # 0
      BY <1>1
    <2>2. FlattenSeq(Append(q, s)) = Joined(Append(q, s))[Len(Append(q, s))]
      BY <2>1, FlattenIs
    <2> QED
      BY <1>1, <2>2
  <1> HIDE DEF f, g
  <1>4. g[Len(q) + 1] = IF Len(q) = 0 THEN s ELSE f[Len(q)] \o s
    BY <1>2, JoinsAgree
  <1>5. CASE Len(q) = 0
    <2>1. q = <<>> /\ <<>> \o s = s
      BY <1>5
    <2>2. FlattenSeq(q) = <<>> /\ <<>> \in Seq(X)
      BY <2>1, FlattenEmpty
    <2>3. FlattenSeq(Append(q, s)) = s
      BY <1>1, <1>3, <1>4, <1>5
    <2> QED
      BY <2>1, <2>2, <2>3
  <1>6. CASE Len(q) # 0
    <2>1. FlattenSeq(q) = f[Len(q)]
      BY <1>6, FlattenIs DEF f
    <2>2. PICK e \in [1..Len(q) -> Seq(X)] : Joins(q, e)
      BY JoinsExist
    <2>3. Len(q) \in 1..Len(q)
      BY <1>1, <1>6
    <2>4. PICK h : Joins(Append(q, s), h)
      BY <1>2
    <2>5. h[Len(q)] = f[Len(q)] /\ h[Len(q)] = e[Len(q)]
      BY <1>2, <2>2, <2>3, <2>4, JoinsAgree
    <2>6. f[Len(q)] \in Seq(X)
      BY <2>2, <2>3, <2>5
    <2> QED
      BY <1>3, <1>4, <1>6, <2>1, <2>6
  <1> QED
    BY <1>5, <1>6

(***************************************************************************)
(* Induction over sequences                                                *)
(***************************************************************************)
LEMMA SeqInduction ==
  ASSUME NEW C, NEW S, <<>> \in S, \A s \in Seq(C), c \in C : s \in S => Append(s, c) \in S
  PROVE  Seq(C) \subseteq S
  <1> DEFINE T == {n \in Nat : \A s \in Seq(C) : Len(s) = n => s \in S}
  <1>1. 0 \in T
    <2>1. \A s \in Seq(C) : Len(s) = 0 => s = <<>>
      OBVIOUS
    <2> QED
      BY <2>1
  <1>2. ASSUME NEW n \in Nat, n \in T
        PROVE  n + 1 \in T
    <2> SUFFICES ASSUME NEW a \in Seq(C), Len(a) = n + 1
                 PROVE  a \in S
      OBVIOUS
    <2>1. a # <<>>
      OBVIOUS
    <2>2. PICK s \in Seq(C), c \in C : a = Append(s, c)
      BY <2>1, SequenceEmptyOrAppend
    <2>3. Len(s) = n
      BY <2>2
    <2> QED
      BY <1>2, <2>2, <2>3
  <1>3. Nat \subseteq T
    <2> HIDE DEF T
    <2> QED
      BY <1>1, <1>2, SetInduction
  <1> QED
    BY <1>3

(***************************************************************************)
(* A text made symbol by symbol                                            *)
(***************************************************************************)
\* Each symbol of s replaced by what h makes of it
Mapped(h, s) == FlattenSeq([i \in DOMAIN s |-> h[s[i]]])

\* What makes a text of X of each symbol of C
Maker(C, X) == [C -> Seq(X)]

LEMMA MappedEmpty == \A h : Mapped(h, <<>>) = <<>>
  <1> SUFFICES ASSUME NEW h PROVE Mapped(h, <<>>) = <<>>
    OBVIOUS
  <1>1. [i \in DOMAIN <<>> |-> h[<<>>[i]]] = <<>>
    OBVIOUS
  <1> QED
    BY <1>1, FlattenEmpty DEF Mapped

LEMMA MappedAppend ==
  ASSUME NEW C, NEW X, NEW h \in Maker(C, X), NEW s \in Seq(C), NEW c \in C
  PROVE  /\ Mapped(h, s) \in Seq(X)
         /\ Mapped(h, Append(s, c)) = Mapped(h, s) \o h[c]
  <1> DEFINE q == [i \in 1..Len(s) |-> h[s[i]]]
             a == Append(s, c)
             p == [i \in 1..Len(a) |-> h[a[i]]]
  <1>1. /\ Len(s) \in Nat /\ DOMAIN s = 1..Len(s) /\ \A i \in 1..Len(s) : s[i] \in C
        /\ Len(a) = Len(s) + 1 /\ DOMAIN a = 1..Len(a) /\ a[Len(s) + 1] = c
        /\ \A i \in 1..Len(s) : a[i] = s[i]
    OBVIOUS
  <1>2. q \in Seq(Seq(X)) /\ h[c] \in Seq(X) /\ Len(q) = Len(s)
    BY <1>1 DEF Maker
  <1>3. p = Append(q, h[c])
    <2>1. /\ Len(Append(q, h[c])) = Len(s) + 1 /\ Append(q, h[c]) \in Seq(Seq(X))
          /\ Append(q, h[c])[Len(s) + 1] = h[c]
          /\ \A i \in 1..Len(s) : Append(q, h[c])[i] = q[i]
      BY <1>2, AppendProperties
    <2>2. \A i \in 1..Len(s) : q[i] = h[s[i]]
      OBVIOUS
    <2>3. p \in Seq(Seq(X)) /\ Len(p) = Len(s) + 1
      <3>1. \A i \in 1..Len(a) : a[i] \in C
        BY <1>1
      <3> HIDE DEF a
      <3> QED
        BY <1>1, <3>1 DEF Maker
    <2>4. \A i \in 1..Len(s) + 1 : p[i] = h[a[i]]
      BY <1>1
    <2> HIDE DEF p, q, a
    <2>5. \A i \in 1..Len(s) + 1 : p[i] = Append(q, h[c])[i]
      <3> SUFFICES ASSUME NEW i \in 1..Len(s) + 1
                   PROVE  p[i] = Append(q, h[c])[i]
        OBVIOUS
      <3>1. CASE i = Len(s) + 1
        BY <1>1, <2>1, <2>4, <3>1
      <3>2. CASE i # Len(s) + 1
        <4>1. i \in 1..Len(s)
          BY <1>1, <3>2
        <4>2. Append(q, h[c])[i] = q[i] /\ q[i] = h[s[i]]
          BY <2>1, <2>2, <4>1
        <4>3. p[i] = h[a[i]] /\ a[i] = s[i]
          BY <1>1, <2>4, <4>1
        <4> QED
          BY <4>2, <4>3
      <3> QED
        BY <3>1, <3>2
    <2> QED
      BY <2>1, <2>3, <2>5, SeqEqual
  <1>4. Mapped(h, s) = FlattenSeq(q) /\ Mapped(h, a) = FlattenSeq(p)
    BY <1>1 DEF Mapped
  <1> HIDE DEF q, p
  <1> QED
    BY <1>2, <1>3, <1>4, FlattenAppend

LEMMA MappedSteps ==
  ASSUME NEW C, NEW X, NEW h \in Maker(C, X)
  PROVE  \A s \in Seq(C), c \in C :
           /\ Mapped(h, s) \in Seq(X) /\ h[c] \in Seq(X) /\ Append(s, c) \in Seq(C)
           /\ Mapped(h, Append(s, c)) = Mapped(h, s) \o h[c]
  <1> SUFFICES ASSUME NEW s \in Seq(C), NEW c \in C
               PROVE  /\ Mapped(h, s) \in Seq(X) /\ h[c] \in Seq(X) /\ Append(s, c) \in Seq(C)
                      /\ Mapped(h, Append(s, c)) = Mapped(h, s) \o h[c]
    OBVIOUS
  <1>1. Mapped(h, s) \in Seq(X) /\ Mapped(h, Append(s, c)) = Mapped(h, s) \o h[c]
    BY MappedAppend
  <1>2. h[c] \in Seq(X) /\ Append(s, c) \in Seq(C)
    BY DEF Maker
  <1> QED
    BY <1>1, <1>2

LEMMA MappedOne ==
  ASSUME NEW C, NEW X, NEW h \in Maker(C, X), NEW c \in C
  PROVE  Mapped(h, <<c>>) = h[c]
  <1>1. <<>> \in Seq(C) /\ Append(<<>>, c) = <<c>> /\ h[c] \in Seq(X)
    BY DEF Maker
  <1>2. PICK e \in Seq(C) : e = <<>>
    BY <1>1
  <1>3. Mapped(h, Append(e, c)) = Mapped(h, e) \o h[c]
    BY MappedAppend
  <1>4. Mapped(h, e) = <<>> /\ Append(e, c) = <<c>>
    BY <1>2, MappedEmpty
  <1> QED
    BY <1>1, <1>3, <1>4

LEMMA MappedConcat ==
  ASSUME NEW C, NEW X, NEW h \in Maker(C, X), NEW s \in Seq(C)
  PROVE  \A t \in Seq(C) : Mapped(h, s \o t) = Mapped(h, s) \o Mapped(h, t)
  <1> DEFINE S == {t \in Seq(C) : Mapped(h, s \o t) = Mapped(h, s) \o Mapped(h, t)}
  <1>0. Mapped(h, s) \in Seq(X) /\ \A t \in Seq(C) : Mapped(h, t) \in Seq(X)
    <2>1. CASE C = {}
      <3>1. \A t \in Seq(C) : t = <<>>
        BY <2>1
      <3> QED
        BY <3>1, MappedEmpty
    <2>2. CASE C # {}
      <3>1. PICK c \in C : TRUE
        BY <2>2
      <3> QED
        BY MappedAppend
    <2> QED
      BY <2>1, <2>2
  <1>1. <<>> \in S
    BY <1>0, MappedEmpty
  <1>2. ASSUME NEW t \in Seq(C), NEW c \in C, t \in S
        PROVE  Append(t, c) \in S
    <2>1. s \o Append(t, c) = Append(s \o t, c) /\ s \o t \in Seq(C) /\ Append(t, c) \in Seq(C)
      OBVIOUS
    <2>2. Mapped(h, s \o Append(t, c)) = (Mapped(h, s) \o Mapped(h, t)) \o h[c]
      <3>1. Mapped(h, Append(s \o t, c)) = Mapped(h, s \o t) \o h[c]
        <4>1. PICK e \in Seq(C) : e = s \o t
          BY <2>1
        <4>2. Mapped(h, Append(e, c)) = Mapped(h, e) \o h[c]
          BY MappedAppend
        <4> QED
          BY <4>1, <4>2
      <3> QED
        BY <1>2, <2>1, <3>1
    <2>3. Mapped(h, Append(t, c)) = Mapped(h, t) \o h[c] /\ h[c] \in Seq(X)
      BY MappedSteps
    <2>4. (Mapped(h, s) \o Mapped(h, t)) \o h[c] = Mapped(h, s) \o (Mapped(h, t) \o h[c])
      <3>1. Mapped(h, s) \in Seq(X) /\ Mapped(h, t) \in Seq(X) /\ h[c] \in Seq(X)
        BY <1>0, <2>3
      <3>2. PICK a \in Seq(X), b \in Seq(X), e \in Seq(X) :
               a = Mapped(h, s) /\ b = Mapped(h, t) /\ e = h[c]
        BY <3>1
      <3>3. (a \o b) \o e = a \o (b \o e)
        BY ConcatAssociative, SMTT(30)
      <3> QED
        BY <3>2, <3>3
    <2> QED
      BY <2>1, <2>2, <2>3, <2>4
  <1>3. Seq(C) \subseteq S
    <2> HIDE DEF S
    <2> QED
      BY <1>1, <1>2, SeqInduction
  <1> QED
    BY <1>3

\* What one map makes of what another has made, the first map makes at once if it treats
\* each symbol as what the other makes of it.
LEMMA MappedTwice ==
  ASSUME NEW C, NEW X, NEW Y, NEW h \in Maker(C, X), NEW g \in Maker(X, Y),
         NEW f \in Maker(C, Y), \A c \in C : Mapped(g, h[c]) = f[c]
  PROVE  \A s \in Seq(C) : Mapped(g, Mapped(h, s)) = Mapped(f, s)
  <1> DEFINE S == {s \in Seq(C) : Mapped(g, Mapped(h, s)) = Mapped(f, s)}
  <1>1. <<>> \in S
    BY MappedEmpty
  <1>2. ASSUME NEW s \in Seq(C), NEW c \in C, s \in S
        PROVE  Append(s, c) \in S
    <2>1. /\ Mapped(h, s) \in Seq(X) /\ h[c] \in Seq(X) /\ Append(s, c) \in Seq(C)
          /\ Mapped(h, Append(s, c)) = Mapped(h, s) \o h[c]
          /\ Mapped(f, Append(s, c)) = Mapped(f, s) \o f[c]
      <3>1. \A a \in Seq(C), b \in C :
              /\ Mapped(h, a) \in Seq(X) /\ h[b] \in Seq(X) /\ Append(a, b) \in Seq(C)
              /\ Mapped(h, Append(a, b)) = Mapped(h, a) \o h[b]
        BY MappedSteps
      <3>2. \A a \in Seq(C), b \in C : Mapped(f, Append(a, b)) = Mapped(f, a) \o f[b]
        BY MappedSteps
      <3> QED
        BY <3>1, <3>2
    <2>2. Mapped(g, Mapped(h, s) \o h[c]) = Mapped(g, Mapped(h, s)) \o Mapped(g, h[c])
      <3>1. \A t \in Seq(X) : Mapped(g, Mapped(h, s) \o t) = Mapped(g, Mapped(h, s)) \o Mapped(g, t)
        BY <2>1, MappedConcat
      <3> QED
        BY <2>1, <3>1
    <2> QED
      BY <1>2, <2>1, <2>2
  <1>3. Seq(C) \subseteq S
    <2> HIDE DEF S
    <2> QED
      BY <1>1, <1>2, SeqInduction
  <1> QED
    BY <1>3

(***************************************************************************)
(* The codec                                                               *)
(***************************************************************************)
\* What becomes of a symbol
Code(crlf, c) == IF c = CR THEN <<>> ELSE IF c = NL /\ crlf THEN <<CR, NL>> ELSE <<c>>

Coding(C, crlf) == [c \in C |-> Code(crlf, c)]

Coded(C, crlf, text) == Mapped(Coding(C, crlf), text)

HasEnds(C) == NL \in C /\ CR \in C

LEMMA CodingFacts ==
  ASSUME NEW C, HasEnds(C), NEW crlf
  PROVE  /\ Coding(C, crlf) \in Maker(C, C)
         /\ \A c \in C : Coding(C, crlf)[c] = Code(crlf, c)
  <1>1. /\ <<>> \in Seq(C) /\ <<CR, NL>> \in Seq(C)
        /\ \A c \in C : <<c>> \in Seq(C)
    BY DEF HasEnds
  <1>2. \A c \in C : Code(crlf, c) \in Seq(C)
    BY <1>1 DEF Code
  <1> QED
    BY <1>2 DEF Coding, Maker

\* The text as it grows by one symbol
LEMMA CodedSteps ==
  ASSUME NEW C, HasEnds(C), NEW crlf
  PROVE  /\ Coded(C, crlf, <<>>) = <<>>
         /\ \A s \in Seq(C), c \in C :
              /\ Append(s, c) \in Seq(C) /\ Coded(C, crlf, s) \in Seq(C)
              /\ Coded(C, crlf, Append(s, c)) = Coded(C, crlf, s) \o Code(crlf, c)
  <1>1. Coded(C, crlf, <<>>) = <<>>
    BY MappedEmpty DEF Coded
  <1>2. Coding(C, crlf) \in Maker(C, C)
    BY CodingFacts
  <1>3. \A s \in Seq(C), c \in C :
           /\ Mapped(Coding(C, crlf), s) \in Seq(C) /\ Append(s, c) \in Seq(C)
           /\ Mapped(Coding(C, crlf), Append(s, c)) =
                Mapped(Coding(C, crlf), s) \o Coding(C, crlf)[c]
    BY <1>2, MappedSteps
  <1>4. \A c \in C : Coding(C, crlf)[c] = Code(crlf, c)
    BY CodingFacts
  <1> QED
    BY <1>1, <1>3, <1>4 DEF Coded

LEMMA CodedType ==
  ASSUME NEW C, HasEnds(C), NEW crlf, NEW text \in Seq(C)
  PROVE  Coded(C, crlf, text) \in Seq(C)
  <1>1. CR \in C
    BY DEF HasEnds
  <1> QED
    BY <1>1, CodedSteps

LEMMA CodedConcat ==
  ASSUME NEW C, HasEnds(C), NEW crlf, NEW s \in Seq(C), NEW t \in Seq(C)
  PROVE  Coded(C, crlf, s \o t) = Coded(C, crlf, s) \o Coded(C, crlf, t)
  <1>1. Coding(C, crlf) \in Maker(C, C)
    BY CodingFacts
  <1> QED
    BY <1>1, MappedConcat DEF Coded

LEMMA CodedOne ==
  ASSUME NEW C, HasEnds(C), NEW crlf, NEW c \in C
  PROVE  Coded(C, crlf, <<c>>) = Code(crlf, c)
  <1>1. Coding(C, crlf) \in Maker(C, C)
    BY CodingFacts
  <1>2. Mapped(Coding(C, crlf), <<c>>) = Coding(C, crlf)[c]
    BY <1>1, MappedOne
  <1> QED
    BY <1>2, CodingFacts DEF Coded

LEMMA WithoutCrIs ==
  ASSUME NEW C, HasEnds(C), NEW text \in Seq(C)
  PROVE  WithoutCr(text) = Coded(C, FALSE, text)
  <1> DEFINE h == Coding(C, FALSE)
             p == [i \in DOMAIN text |-> IF text[i] = CR THEN <<>> ELSE <<text[i]>>]
             q == [i \in DOMAIN text |-> h[text[i]]]
  <1>1. \A i \in DOMAIN text : text[i] \in C
    OBVIOUS
  <1>2. \A c \in C : h[c] = IF c = CR THEN <<>> ELSE <<c>>
    <2>1. \A c \in C : h[c] = Code(FALSE, c)
      BY CodingFacts
    <2> HIDE DEF h
    <2> QED
      BY <2>1 DEF Code
  <1> HIDE DEF h
  <1>3. p = q
    BY <1>1, <1>2
  <1> QED
    BY <1>3 DEF WithoutCr, Coded, Mapped, h

\* Coding what was coded is coding at once.
LEMMA CodedTwice ==
  ASSUME NEW C, HasEnds(C), NEW a, NEW b, NEW text \in Seq(C)
  PROVE  Coded(C, a, Coded(C, b, text)) = Coded(C, a, text)
  <1> DEFINE g == Coding(C, a)
             h == Coding(C, b)
  <1>1. g \in Maker(C, C) /\ h \in Maker(C, C)
    BY CodingFacts
  <1>2. NL \in C /\ CR \in C /\ NL # CR
    BY LineBreaksDiffer DEF HasEnds
  <1>3. /\ \A c \in C : g[c] = IF c = CR THEN <<>> ELSE IF c = NL /\ a THEN <<CR, NL>> ELSE <<c>>
        /\ \A c \in C : h[c] = IF c = CR THEN <<>> ELSE IF c = NL /\ b THEN <<CR, NL>> ELSE <<c>>
    BY CodingFacts DEF Code
  <1> HIDE DEF g, h
  <1>4. \A c \in C : Mapped(g, <<c>>) = g[c]
    BY <1>1, MappedOne
  <1>5. Mapped(g, <<CR, NL>>) = g[NL]
    <2>1. <<CR>> \in Seq(C) /\ <<NL>> \in Seq(C)
      BY <1>2
    <2>2. <<CR, NL>> = <<CR>> \o <<NL>>
      OBVIOUS
    <2>3. Mapped(g, <<CR>> \o <<NL>>) = Mapped(g, <<CR>>) \o Mapped(g, <<NL>>)
      <3>1. PICK e \in Seq(C), f \in Seq(C) : e = <<CR>> /\ f = <<NL>>
        BY <2>1
      <3>2. Mapped(g, e \o f) = Mapped(g, e) \o Mapped(g, f)
        <4>1. g \in Maker(C, C)
          BY <1>1
        <4> QED
          BY <4>1, MappedConcat
      <3> QED
        BY <3>1, <3>2
    <2>4. Mapped(g, <<CR>>) = <<>> /\ Mapped(g, <<NL>>) = g[NL]
      BY <1>2, <1>3, <1>4
    <2>5. <<>> \o g[NL] = g[NL]
      <3>1. g[NL] \in Seq(C)
        BY <1>1, <1>2 DEF Maker
      <3> QED
        BY <3>1
    <2> QED
      BY <2>1, <2>2, <2>3, <2>4, <2>5
  <1>6. ASSUME NEW c \in C
        PROVE  Mapped(g, h[c]) = g[c]
    <2>1. CASE c = CR
      BY <1>2, <1>3, <2>1, MappedEmpty
    <2>2. CASE c = NL /\ b
      <3>1. h[c] = <<CR, NL>>
        BY <1>2, <1>3, <2>2
      <3> QED
        BY <1>5, <2>2, <3>1
    <2>3. CASE c # CR /\ ~(c = NL /\ b)
      <3>1. h[c] = <<c>>
        BY <1>3, <2>3
      <3> QED
        BY <1>4, <3>1
    <2> QED
      BY <2>1, <2>2, <2>3
  <1>7. \A s \in Seq(C) : Mapped(g, Mapped(h, s)) = Mapped(g, s)
    BY <1>1, <1>6, MappedTwice
  <1> QED
    BY <1>7 DEF Coded, g, h

\* Without CRLF line ends there is no CR.
LEMMA CodedWithoutCr ==
  ASSUME NEW C, HasEnds(C)
  PROVE  \A s \in Seq(C) : \A i \in DOMAIN Coded(C, FALSE, s) : Coded(C, FALSE, s)[i] # CR
  <1> DEFINE S == {s \in Seq(C) : \A i \in DOMAIN Coded(C, FALSE, s) : Coded(C, FALSE, s)[i] # CR}
  <1>s. /\ Coded(C, FALSE, <<>>) = <<>>
        /\ \A s \in Seq(C), c \in C :
              /\ Append(s, c) \in Seq(C) /\ Coded(C, FALSE, s) \in Seq(C)
              /\ Coded(C, FALSE, Append(s, c)) = Coded(C, FALSE, s) \o Code(FALSE, c)
    BY CodedSteps
  <1>c. \A c : Code(FALSE, c) = IF c = CR THEN <<>> ELSE <<c>>
    BY DEF Code
  <1>1. <<>> \in S
    <2>1. <<>> \in Seq(C) /\ DOMAIN <<>> = {}
      OBVIOUS
    <2> QED
      BY <1>s, <2>1
  <1>2. ASSUME NEW s \in Seq(C), NEW c \in C, s \in S
        PROVE  Append(s, c) \in S
    <2>1. PICK w \in Seq(C) : w = Coded(C, FALSE, s)
      BY <1>s
    <2>2. \A i \in DOMAIN w : w[i] # CR
      BY <1>2, <2>1
    <2>3. CASE c = CR
      <3>1. Coded(C, FALSE, Append(s, c)) = w
        <4>1. w \o <<>> = w
          OBVIOUS
        <4> QED
          BY <1>s, <1>c, <2>1, <2>3, <4>1
      <3> QED
        BY <1>s, <2>2, <3>1
    <2>4. CASE c # CR
      <3>1. Coded(C, FALSE, Append(s, c)) = w \o <<c>>
        BY <1>s, <1>c, <2>1, <2>4
      <3>2. \A i \in DOMAIN (w \o <<c>>) :
              (w \o <<c>>)[i] = c \/ (i \in DOMAIN w /\ (w \o <<c>>)[i] = w[i])
        <4>1. /\ Len(w \o <<c>>) = Len(w) + 1 /\ DOMAIN (w \o <<c>>) = 1..Len(w) + 1
              /\ Len(w) \in Nat /\ DOMAIN w = 1..Len(w) /\ (w \o <<c>>)[Len(w) + 1] = c
              /\ \A i \in 1..Len(w) : (w \o <<c>>)[i] = w[i]
          OBVIOUS
        <4> QED
          BY <4>1
      <3> QED
        BY <1>s, <2>2, <2>4, <3>1, <3>2
    <2> QED
      BY <2>3, <2>4
  <1>3. Seq(C) \subseteq S
    <2> HIDE DEF S
    <2> QED
      BY <1>1, <1>2, SeqInduction
  <1> QED
    BY <1>3

\* What encode_text writes
LEMMA EncodeIs ==
  ASSUME NEW C, HasEnds(C), NEW crlf, NEW bom, NEW text \in Seq(C)
  PROVE  EncodeText(text, crlf, bom) =
           IF bom THEN <<Bom>> \o Coded(C, crlf, text) ELSE Coded(C, crlf, text)
  <1> DEFINE kept == WithoutCr(text)
             h    == Coding(C, crlf)
             p    == [i \in DOMAIN kept |->
                        IF kept[i] = NL /\ crlf THEN <<CR, NL>> ELSE <<kept[i]>>]
             q    == [i \in DOMAIN kept |-> h[kept[i]]]
  <1>1. kept = Coded(C, FALSE, text) /\ kept \in Seq(C)
    BY WithoutCrIs, CodedType
  <1>2. \A i \in DOMAIN kept : kept[i] \in C /\ kept[i] # CR
    BY <1>1, LenProperties, CodedWithoutCr
  <1>3. \A c \in C : h[c] = IF c = CR THEN <<>> ELSE IF c = NL /\ crlf THEN <<CR, NL>> ELSE <<c>>
    BY CodingFacts DEF Code
  <1> HIDE DEF kept, h
  <1>4. p = q
    BY <1>2, <1>3
  <1>5. FlattenSeq(p) = Coded(C, crlf, kept)
    BY <1>4 DEF Coded, Mapped, h
  <1>6. Coded(C, crlf, kept) = Coded(C, crlf, text)
    BY <1>1, CodedTwice
  <1> HIDE DEF p
  <1> QED
    BY <1>5, <1>6 DEF EncodeText, p, kept

(***************************************************************************)
(* Marks                                                                   *)
(***************************************************************************)
Unmarked(text) == text = <<>> \/ Head(text) # Bom

LEMMA FileTextOf ==
  ASSUME NEW C, NEW raw \in Seq(C)
  PROVE  /\ FileText(raw) \in Seq(C)
         /\ FileBom(raw) => raw = <<Bom>> \o FileText(raw)
         /\ ~FileBom(raw) => FileText(raw) = raw
         /\ FileBom(raw) \in BOOLEAN /\ FileCrlf(raw) \in BOOLEAN
  <1>1. CASE FileBom(raw)
    <2>1. raw # <<>> /\ Head(raw) = Bom /\ FileText(raw) = Tail(raw)
      BY <1>1 DEF FileBom, FileText
    <2>2. Tail(raw) \in Seq(C) /\ raw = <<Head(raw)>> \o Tail(raw)
      BY <2>1
    <2> QED
      BY <1>1, <2>1, <2>2 DEF FileBom, FileCrlf
  <1>2. CASE ~FileBom(raw)
    BY <1>2 DEF FileText, FileBom, FileCrlf
  <1> QED
    BY <1>1, <1>2

LEMMA FileTextUnmarked ==
  ASSUME NEW text, Unmarked(text)
  PROVE  FileText(text) = text /\ ~FileBom(text)
  BY DEF Unmarked, FileText, FileBom

LEMMA FileTextMarked ==
  ASSUME NEW C, NEW text \in Seq(C)
  PROVE  FileText(<<Bom>> \o text) = text /\ FileBom(<<Bom>> \o text)
  <1>1. /\ <<Bom>> \o text # <<>> /\ Head(<<Bom>> \o text) = Bom
        /\ Tail(<<Bom>> \o text) = text
    OBVIOUS
  <1> QED
    BY <1>1 DEF FileText, FileBom

\* What a rewrite writes, mark included
Marked(raw, text) == IF FileBom(raw) THEN <<Bom>> \o text ELSE text

LEMMA RewriteIs ==
  ASSUME NEW C, HasEnds(C), Bom \in C, NEW raw \in Seq(C), NEW text \in Seq(C)
  PROVE  /\ Marked(raw, text) \in Seq(C)
         /\ Rewrite(raw, text) = Coded(C, FileCrlf(raw), Marked(raw, text))
  <1> DEFINE k == FileCrlf(raw)
  <1>1. EncodeText(text, k, FileBom(raw)) =
           IF FileBom(raw) THEN <<Bom>> \o Coded(C, k, text) ELSE Coded(C, k, text)
    BY EncodeIs
  <1>2. Coded(C, k, <<Bom>> \o text) = <<Bom>> \o Coded(C, k, text)
    <2>0. <<Bom>> \in Seq(C)
      OBVIOUS
    <2>1. PICK e \in Seq(C) : e = <<Bom>>
      BY <2>0
    <2>2. Coded(C, k, e \o text) = Coded(C, k, e) \o Coded(C, k, text)
      BY CodedConcat
    <2>3. Coded(C, k, <<Bom>>) = Code(k, Bom)
      BY CodedOne
    <2>4. Code(k, Bom) = <<Bom>>
      BY BomIsNoLineBreak DEF Code
    <2> QED
      BY <2>1, <2>2, <2>3, <2>4
  <1>3. <<Bom>> \o text \in Seq(C)
    OBVIOUS
  <1> QED
    BY <1>1, <1>2, <1>3 DEF Rewrite, Marked

LEMMA BackupIs ==
  ASSUME NEW C, HasEnds(C), Bom \in C, NEW raw \in Seq(C)
  PROVE  Backup(raw) = Coded(C, FileCrlf(raw), raw)
  <1>1. FileText(raw) \in Seq(C) /\ Marked(raw, FileText(raw)) = raw
    BY FileTextOf DEF Marked
  <1> QED
    BY <1>1, RewriteIs DEF Backup

(***************************************************************************)
(* Line ends                                                               *)
(***************************************************************************)
\* With CRLF line ends there is no bare NL.
LEMMA CodedWithCr ==
  ASSUME NEW C, HasEnds(C)
  PROVE  \A s \in Seq(C) : \A i \in DOMAIN Coded(C, TRUE, s) :
           Coded(C, TRUE, s)[i] = NL => i > 1 /\ Coded(C, TRUE, s)[i - 1] = CR
  <1> DEFINE Dressed(w) == \A i \in DOMAIN w : w[i] = NL => i > 1 /\ w[i - 1] = CR
             S == {s \in Seq(C) : Dressed(Coded(C, TRUE, s))}
  <1>s. /\ Coded(C, TRUE, <<>>) = <<>>
        /\ \A s \in Seq(C), c \in C :
              /\ Append(s, c) \in Seq(C) /\ Coded(C, TRUE, s) \in Seq(C)
              /\ Coded(C, TRUE, Append(s, c)) = Coded(C, TRUE, s) \o Code(TRUE, c)
    BY CodedSteps
  <1>c. \A c : Code(TRUE, c) = IF c = CR THEN <<>> ELSE IF c = NL THEN <<CR, NL>> ELSE <<c>>
    BY DEF Code
  <1>1. <<>> \in S
    <2>1. <<>> \in Seq(C) /\ DOMAIN <<>> = {}
      OBVIOUS
    <2> QED
      BY <1>s, <2>1
  <1>2. ASSUME NEW s \in Seq(C), NEW c \in C, s \in S
        PROVE  Append(s, c) \in S
    <2>1. PICK w \in Seq(C) : w = Coded(C, TRUE, s)
      BY <1>s
    <2>2. Dressed(w)
      BY <1>2, <2>1
    <2>3. Append(s, c) \in Seq(C) /\ Coded(C, TRUE, Append(s, c)) = w \o Code(TRUE, c)
      BY <1>s, <2>1
    <2>4. CASE c = CR
      <3>1. w \o <<>> = w
        OBVIOUS
      <3> QED
        BY <1>c, <2>2, <2>3, <2>4, <3>1
    <2>5. CASE c = NL
      <3>1. c # CR
        BY <2>5, LineBreaksDiffer
      <3>2. CR \in C /\ NL \in C
        BY DEF HasEnds
      <3>3. PICK v : v = w \o <<CR, NL>>
        OBVIOUS
      <3>4. Code(TRUE, c) = <<CR, NL>>
        BY <1>c, <2>5, <3>1
      <3>5. /\ DOMAIN v = 1..Len(w) + 2 /\ Len(w) \in Nat /\ DOMAIN w = 1..Len(w)
            /\ \A i \in 1..Len(w) : v[i] = w[i]
            /\ v[Len(w) + 1] = CR /\ v[Len(w) + 2] = NL
        BY <3>2, <3>3
      <3>6. Dressed(v)
        <4> SUFFICES ASSUME NEW i \in DOMAIN v, v[i] = NL
                     PROVE  i > 1 /\ v[i - 1] = CR
          OBVIOUS
        <4>1. CASE i \in 1..Len(w)
          <5>1. i > 1 /\ w[i - 1] = CR
            BY <2>2, <3>5, <4>1
          <5>2. i - 1 \in 1..Len(w)
            BY <3>5, <4>1, <5>1
          <5> QED
            BY <3>5, <5>1, <5>2
        <4>2. CASE i = Len(w) + 1
          BY <3>5, <4>2, LineBreaksDiffer
        <4>3. CASE i = Len(w) + 2
          <5>1. i > 1 /\ i - 1 = Len(w) + 1
            BY <3>5, <4>3
          <5> QED
            BY <3>5, <5>1
        <4> QED
          BY <3>5, <4>1, <4>2, <4>3
      <3> QED
        BY <2>3, <3>3, <3>4, <3>6
    <2>6. CASE c # CR /\ c # NL
      <3>1. PICK v : v = w \o <<c>>
        OBVIOUS
      <3>2. Code(TRUE, c) = <<c>>
        BY <1>c, <2>6
      <3>3. /\ DOMAIN v = 1..Len(w) + 1 /\ Len(w) \in Nat /\ DOMAIN w = 1..Len(w)
            /\ \A i \in 1..Len(w) : v[i] = w[i]
            /\ v[Len(w) + 1] = c
        BY <3>1
      <3>4. Dressed(v)
        <4> SUFFICES ASSUME NEW i \in DOMAIN v, v[i] = NL
                     PROVE  i > 1 /\ v[i - 1] = CR
          OBVIOUS
        <4>1. i \in 1..Len(w)
          BY <2>6, <3>3
        <4>2. i > 1 /\ w[i - 1] = CR
          BY <2>2, <3>3, <4>1
        <4>3. i - 1 \in 1..Len(w)
          BY <3>3, <4>1, <4>2
        <4> QED
          BY <3>3, <4>2, <4>3
      <3> QED
        BY <2>3, <3>1, <3>2, <3>4
    <2> QED
      BY <2>4, <2>5, <2>6
  <1>3. Seq(C) \subseteq S
    <2> HIDE DEF S
    <2> QED
      BY <1>1, <1>2, SeqInduction
  <1> QED
    BY <1>3

\* The style of a text without line ends does not show.
LEMMA CodedWithoutNl ==
  ASSUME NEW C, HasEnds(C)
  PROVE  \A s \in Seq(C) :
           \/ Coded(C, TRUE, s) = Coded(C, FALSE, s)
           \/ \E i \in DOMAIN Coded(C, TRUE, s) : Coded(C, TRUE, s)[i] = NL
  <1> DEFINE Broken(w) == \E i \in DOMAIN w : w[i] = NL
             S == {s \in Seq(C) : Coded(C, TRUE, s) = Coded(C, FALSE, s)
                                    \/ Broken(Coded(C, TRUE, s))}
  <1>s. /\ Coded(C, TRUE, <<>>) = <<>>
        /\ \A s \in Seq(C), c \in C :
              /\ Append(s, c) \in Seq(C) /\ Coded(C, TRUE, s) \in Seq(C)
              /\ Coded(C, TRUE, Append(s, c)) = Coded(C, TRUE, s) \o Code(TRUE, c)
    BY CodedSteps
  <1>t. /\ Coded(C, FALSE, <<>>) = <<>>
        /\ \A s \in Seq(C), c \in C :
              /\ Append(s, c) \in Seq(C) /\ Coded(C, FALSE, s) \in Seq(C)
              /\ Coded(C, FALSE, Append(s, c)) = Coded(C, FALSE, s) \o Code(FALSE, c)
    BY CodedSteps
  <1>1. <<>> \in S
    <2>1. <<>> \in Seq(C)
      OBVIOUS
    <2> QED
      BY <1>s, <1>t, <2>1
  <1>2. ASSUME NEW s \in Seq(C), NEW c \in C, s \in S
        PROVE  Append(s, c) \in S
    <2>1. PICK w \in Seq(C) : w = Coded(C, TRUE, s)
      BY <1>s
    <2>2. /\ Append(s, c) \in Seq(C) /\ Coded(C, TRUE, Append(s, c)) = w \o Code(TRUE, c)
          /\ Coded(C, FALSE, Append(s, c)) = Coded(C, FALSE, s) \o Code(FALSE, c)
          /\ w = Coded(C, FALSE, s) \/ Broken(w)
      BY <1>2, <1>s, <1>t, <2>1
    <2>3. CR \in C /\ NL \in C
      BY DEF HasEnds
    <2>4. Code(TRUE, c) \in Seq(C)
      BY <2>3 DEF Code
    <2>5. PICK d \in Seq(C) : d = Code(TRUE, c)
      BY <2>4
    <2>6. CASE Broken(w)
      <3>1. \A i \in DOMAIN w : i \in DOMAIN (w \o d) /\ (w \o d)[i] = w[i]
        OBVIOUS
      <3>2. Broken(w \o d)
        BY <2>6, <3>1
      <3> QED
        BY <2>2, <2>5, <3>2
    <2>7. CASE w = Coded(C, FALSE, s) /\ c # NL
      <3>1. Code(TRUE, c) = Code(FALSE, c)
        BY <2>7 DEF Code
      <3> QED
        BY <2>2, <2>7, <3>1
    <2>8. CASE c = NL
      <3>1. d = <<CR, NL>>
        BY <2>5, <2>8, LineBreaksDiffer DEF Code
      <3>2. PICK v : v = w \o <<CR, NL>>
        OBVIOUS
      <3>3. Len(w) + 2 \in DOMAIN v /\ v[Len(w) + 2] = NL
        BY <2>3, <3>2
      <3>4. Broken(v)
        BY <3>3
      <3> QED
        BY <2>2, <2>5, <3>1, <3>2, <3>4
    <2> QED
      BY <2>2, <2>6, <2>7, <2>8
  <1>3. Seq(C) \subseteq S
    <2> HIDE DEF S
    <2> QED
      BY <1>1, <1>2, SeqInduction
  <1> QED
    BY <1>3

(***************************************************************************)
(* What backups and rewrites keep                                          *)
(***************************************************************************)
\* The bytes of a text in one style have that style, so writing them again changes nothing.
LEMMA CodedStyle ==
  ASSUME NEW C, HasEnds(C), NEW k \in BOOLEAN, NEW s \in Seq(C)
  PROVE  LET w == Coded(C, k, s)
         IN  /\ w \in Seq(C)
             /\ \A i \in DOMAIN w : w[i] = NL => (k <=> i > 1 /\ w[i - 1] = CR)
             /\ ~k => \A i \in DOMAIN w : w[i] # CR
             /\ Coded(C, FileCrlf(w), w) = w
  <1>1. PICK w \in Seq(C) : w = Coded(C, k, s)
    BY CodedType
  <1>2. DOMAIN w = 1..Len(w) /\ Len(w) \in Nat
    OBVIOUS
  <1>3. Coded(C, FileCrlf(w), w) = Coded(C, FileCrlf(w), s)
    BY <1>1, CodedTwice
  <1>4. FileCrlf(w) \in BOOLEAN
    BY DEF FileCrlf
  <1>5. CASE k = FALSE
    <2>1. \A i \in DOMAIN w : w[i] # CR
      BY <1>1, <1>5, CodedWithoutCr
    <2>2. \A i \in DOMAIN w : i > 1 => i - 1 \in DOMAIN w
      BY <1>2
    <2>3. FileCrlf(w) = FALSE
      BY <1>2, <2>1 DEF FileCrlf
    <2> QED
      BY <1>1, <1>3, <1>5, <2>1, <2>2, <2>3
  <1>6. CASE k = TRUE
    <2>1. \A i \in DOMAIN w : w[i] = NL => i > 1 /\ w[i - 1] = CR
      BY <1>1, <1>6, CodedWithCr
    <2>2. CASE FileCrlf(w) = TRUE
      BY <1>1, <1>3, <1>6, <2>1, <2>2
    <2>3. CASE FileCrlf(w) = FALSE
      <3>1. ASSUME NEW i \in DOMAIN w, w[i] = NL
            PROVE  FALSE
        <4>1. i - 1 \in 1..Len(w) - 1 /\ w[i - 1] = CR /\ (i - 1) + 1 = i
          BY <1>2, <2>1, <3>1
        <4>2. w[(i - 1) + 1] = NL
          BY <3>1, <4>1
        <4> QED
          BY <2>3, <4>1, <4>2 DEF FileCrlf
      <3>2. Coded(C, TRUE, s) = Coded(C, FALSE, s)
        BY <1>1, <1>6, <3>1, CodedWithoutNl
      <3> QED
        BY <1>1, <1>3, <1>6, <2>1, <2>3, <3>2
    <2> QED
      BY <1>4, <2>2, <2>3
  <1> QED
    BY <1>5, <1>6

LEMMA RewriteKeeps ==
  ASSUME NEW C, HasEnds(C), Bom \in C, NEW raw \in Seq(C), NEW text \in Seq(C)
  PROVE  LET w == Rewrite(raw, text)
         IN  /\ w \in Seq(C)
             /\ FileBom(raw) => FileBom(w)
             /\ \A i \in DOMAIN w :
                  w[i] = NL => (FileCrlf(raw) <=> i > 1 /\ w[i - 1] = CR)
             /\ ~FileCrlf(raw) => \A i \in DOMAIN w : w[i] # CR
             /\ Backup(w) = w
  <1>1. FileCrlf(raw) \in BOOLEAN /\ FileBom(raw) \in BOOLEAN
    BY DEF FileCrlf, FileBom
  <1>2. PICK m \in Seq(C) : m = Marked(raw, text)
    BY RewriteIs
  <1>3. PICK w \in Seq(C) : w = Rewrite(raw, text)
    BY <1>1, CodedType, RewriteIs
  <1>4. w = Coded(C, FileCrlf(raw), m)
    BY <1>2, <1>3, RewriteIs
  <1>5. /\ \A i \in DOMAIN w : w[i] = NL => (FileCrlf(raw) <=> i > 1 /\ w[i - 1] = CR)
        /\ ~FileCrlf(raw) => \A i \in DOMAIN w : w[i] # CR
        /\ Coded(C, FileCrlf(w), w) = w
    BY <1>1, <1>4, CodedStyle
  <1>6. FileBom(raw) => FileBom(w)
    <2>1. EncodeText(text, FileCrlf(raw), FileBom(raw)) =
             IF FileBom(raw) THEN <<Bom>> \o Coded(C, FileCrlf(raw), text)
                             ELSE Coded(C, FileCrlf(raw), text)
      BY EncodeIs
    <2>2. PICK c \in Seq(C) : c = Coded(C, FileCrlf(raw), text)
      BY CodedType
    <2>3. FileBom(<<Bom>> \o c)
      BY FileTextMarked
    <2> QED
      BY <1>3, <2>1, <2>2, <2>3 DEF Rewrite
  <1>7. Backup(w) = w
    BY <1>5, BackupIs
  <1> QED
    BY <1>3, <1>5, <1>6, <1>7

LEMMA BackupKeeps ==
  ASSUME NEW C, HasEnds(C), Bom \in C, NEW raw \in Seq(C)
  PROVE  /\ Backup(raw) \in Seq(C)
         /\ FileBom(raw) => FileBom(Backup(raw))
         /\ WithoutCr(Backup(raw)) = WithoutCr(raw)
  <1>1. FileText(raw) \in Seq(C)
    BY FileTextOf
  <1>2. Backup(raw) \in Seq(C) /\ (FileBom(raw) => FileBom(Backup(raw)))
    BY <1>1, RewriteKeeps DEF Backup
  <1>3. Backup(raw) = Coded(C, FileCrlf(raw), raw)
    BY BackupIs
  <1>4. WithoutCr(raw) = Coded(C, FALSE, raw)
    BY WithoutCrIs
  <1>5. PICK b \in Seq(C) : b = Backup(raw)
    BY <1>2
  <1>6. WithoutCr(b) = Coded(C, FALSE, b)
    BY WithoutCrIs
  <1>7. Coded(C, FALSE, b) = Coded(C, FALSE, raw)
    <2>1. b = Coded(C, FileCrlf(raw), raw)
      BY <1>3, <1>5
    <2>2. Coded(C, FALSE, Coded(C, FileCrlf(raw), raw)) = Coded(C, FALSE, raw)
      BY CodedTwice
    <2> QED
      BY <2>1, <2>2
  <1> QED
    BY <1>2, <1>4, <1>5, <1>6, <1>7

\* A text without a mark is read back, line ends aside.
LEMMA RewriteReadsBack ==
  ASSUME NEW C, HasEnds(C), Bom \notin C, NEW raw, NEW text \in Seq(C)
  PROVE  /\ Rewrite(raw, text) \in Seq(C \cup {Bom})
         /\ FileText(Rewrite(raw, text)) \in Seq(C)
         /\ WithoutCr(FileText(Rewrite(raw, text))) = WithoutCr(text)
  <1>1. PICK c \in Seq(C) : c = Coded(C, FileCrlf(raw), text)
    BY CodedType
  <1>2. Rewrite(raw, text) = IF FileBom(raw) THEN <<Bom>> \o c ELSE c
    BY <1>1, EncodeIs DEF Rewrite
  <1>3. FileText(<<Bom>> \o c) = c
    BY FileTextMarked
  <1>4. FileText(c) = c
    <2>1. c = <<>> \/ Head(c) \in C
      OBVIOUS
    <2>2. Unmarked(c)
      BY <2>1 DEF Unmarked
    <2> QED
      BY <2>2, FileTextUnmarked
  <1>5. c \in Seq(C \cup {Bom}) /\ <<Bom>> \o c \in Seq(C \cup {Bom})
    <2>1. c \in Seq(C \cup {Bom}) /\ <<Bom>> \in Seq(C \cup {Bom})
      OBVIOUS
    <2> QED
      BY <2>1
  <1>6. WithoutCr(c) = WithoutCr(text)
    <2>1. WithoutCr(c) = Coded(C, FALSE, c) /\ WithoutCr(text) = Coded(C, FALSE, text)
      BY WithoutCrIs
    <2>2. Coded(C, FALSE, c) = Coded(C, FALSE, text)
      BY <1>1, CodedTwice
    <2> QED
      BY <2>1, <2>2
  <1>7. PICK w : w = Rewrite(raw, text)
    OBVIOUS
  <1>8. w \in Seq(C \cup {Bom}) /\ FileText(w) = c
    BY <1>2, <1>3, <1>4, <1>5, <1>7
  <1> QED
    BY <1>6, <1>7, <1>8

\* What is staged on a content rebases on it and applies to it, unless it names another
\* content that the file should have.
LEMMA StagedFits ==
  ASSUME NEW d, NEW e,
         e \in [operation : {e.operation}, line_start : {e.line_start},
                line_end : {e.line_end}, selector : {e.selector},
                expected_content : {e.expected_content}, new_content : {e.new_content}],
         CanStage(e, d), e.operation = "replace_content" => e.expected_content \in {<<>>, d}
  PROVE  CanRebase(Stage(e, d), d) /\ CanApply(Stage(e, d), d)
  <1>1. PICK s : s = Stage(e, d)
    OBVIOUS
  <1>2. /\ s.operation = e.operation /\ s.selector = e.selector
        /\ s.line_start = e.line_start /\ s.line_end = e.line_end
        /\ s.expected_content = ExpectedContent(e, d)
    BY <1>1 DEF Stage
  <1>3. TargetText(s, d) = TargetText(e, d)
    BY <1>2 DEF TargetText
  <1>4. CanApply(s, d)
    BY <1>2 DEF CanStage, CanApply
  <1>5. CASE e.operation = "replace_content"
    <2>1. s.expected_content = <<>> \/ s.expected_content = d
      BY <1>2, <1>5 DEF ExpectedContent
    <2> QED
      BY <1>1, <1>2, <1>4, <1>5, <2>1 DEF CanRebase
  <1>6. CASE e.operation = "replace_range"
    <2>1. s.expected_content = RangeText(d, e.line_start, e.line_end)
      BY <1>2, <1>6 DEF ExpectedContent
    <2>2. ValidRange(e.line_start, e.line_end, d)
      BY <1>6 DEF CanStage, CanApply, BlockOps
    <2> QED
      BY <1>1, <1>2, <1>4, <1>6, <2>1, <2>2 DEF CanRebase
  <1>7. CASE e.operation \in BlockOps
    <2>1. s.expected_content = TargetText(e, d)
      BY <1>2, <1>7 DEF ExpectedContent, BlockOps
    <2>2. Resolvable(d, e.selector)
      BY <1>7 DEF CanStage, CanApply, BlockOps
    <2> QED
      BY <1>1, <1>2, <1>3, <1>4, <1>7, <2>1, <2>2 DEF CanRebase
  <1> QED
    BY <1>5, <1>6, <1>7 DEF CanStage, CanApply
=============================================================================
