--------------------------- MODULE TextCheckProofs ---------------------------
(***************************************************************************)
(* What holds of every file, whatever its symbols and its length, and of   *)
(* every edit: the properties TextCheck states, and those MarkupCheck      *)
(* states of Markdown and HTML files.  What the codec makes of a text      *)
(* comes from TextLemmas; what the scan for candidates finds, what reading *)
(* and joining lines makes of a text, what an edit does to the sections of *)
(* a document and which tags are open where is proved here first.          *)
(***************************************************************************)
EXTENDS TextCheck, MarkupCheck, TextLemmas

(***************************************************************************)
(* The least and the greatest of some numbers                              *)
(***************************************************************************)
LEMMA LeastExists ==
  ASSUME NEW A \in SUBSET Nat, A # {}
  PROVE  \E x \in A : \A y \in A : x <= y
  <1> SUFFICES ASSUME \A x \in A : \E y \in A : ~(x <= y)
               PROVE  FALSE
    OBVIOUS
  <1> DEFINE S == {n \in Nat : \A k \in A : n < k}
  <1>1. 0 \in S
    <2> SUFFICES ASSUME NEW k \in A PROVE 0 < k
      OBVIOUS
    <2>1. PICK y \in A : ~(k <= y)
      OBVIOUS
    <2> QED
      BY <2>1
  <1>2. ASSUME NEW n \in Nat, n \in S
        PROVE  n + 1 \in S
    <2> SUFFICES ASSUME NEW k \in A PROVE n + 1 < k
      OBVIOUS
    <2>1. PICK y \in A : ~(k <= y)
      OBVIOUS
    <2>2. n < y /\ y \in Nat /\ k \in Nat
      BY <1>2
    <2> QED
      BY <2>1, <2>2
  <1>3. Nat \subseteq S
    <2> HIDE DEF S
    <2> QED
      BY <1>1, <1>2, SetInduction
  <1>4. PICK k \in A : TRUE
    OBVIOUS
  <1> QED
    BY <1>3, <1>4

LEMMA MinIs ==
  ASSUME NEW A \in SUBSET Nat, A # {}
  PROVE  Min(A) \in A /\ \A y \in A : Min(A) <= y
  BY LeastExists DEF Min

(***************************************************************************)
(* Scanning for candidates                                                 *)
(***************************************************************************)
Hits(d, q, pos) == {i \in pos..Len(d) : OccursAt(d, q, i)}

Allowed(d, sel, i) == IF AnchorsAllow(d, sel, i) THEN <<i>> ELSE <<>>

\* The function that LocateCandidates chooses
Scans(d, sel, f) ==
  f = [pos \in 1..Len(d) + 1 |->
         IF Hits(d, sel.query, pos) = {} THEN <<>>
         ELSE Allowed(d, sel, Min(Hits(d, sel.query, pos)))
                \o f[Min(Hits(d, sel.query, pos)) + Len(sel.query)]]

Scan(d, sel) == CHOOSE f : Scans(d, sel, f)

LEMMA LocateIs ==
  ASSUME NEW d, NEW sel
  PROVE  LocateCandidates(d, sel) = IF sel.query = <<>> THEN <<>> ELSE Scan(d, sel)[1]
  BY DEF LocateCandidates, Scan, Scans, Hits, Allowed

LEMMA HitsAre ==
  ASSUME NEW C, NEW d \in Seq(C), NEW q \in Seq(C), q # <<>>
  PROVE  \A pos \in 1..Len(d) + 1 :
           Hits(d, q, pos) # {} =>
             /\ Min(Hits(d, q, pos)) \in pos..Len(d)
             /\ OccursAt(d, q, Min(Hits(d, q, pos)))
             /\ \A i \in pos..Len(d) : OccursAt(d, q, i) => Min(Hits(d, q, pos)) <= i
             /\ Min(Hits(d, q, pos)) + Len(q) \in pos + 1..Len(d) + 1
  <1> SUFFICES ASSUME NEW pos \in 1..Len(d) + 1, Hits(d, q, pos) # {}
               PROVE  /\ Min(Hits(d, q, pos)) \in pos..Len(d)
                      /\ OccursAt(d, q, Min(Hits(d, q, pos)))
                      /\ \A i \in pos..Len(d) :
                           OccursAt(d, q, i) => Min(Hits(d, q, pos)) <= i
                      /\ Min(Hits(d, q, pos)) + Len(q) \in pos + 1..Len(d) + 1
    OBVIOUS
  <1>1. Len(d) \in Nat /\ Len(q) \in Nat /\ Len(q) >= 1
    OBVIOUS
  <1>2. Hits(d, q, pos) \in SUBSET Nat
    BY <1>1 DEF Hits
  <1>3. PICK m : m = Min(Hits(d, q, pos))
    OBVIOUS
  <1>4. m \in Hits(d, q, pos) /\ \A i \in Hits(d, q, pos) : m <= i
    BY <1>2, <1>3, MinIs
  <1>5. m \in pos..Len(d) /\ OccursAt(d, q, m)
    BY <1>4 DEF Hits
  <1>6. m + Len(q) <= Len(d) + 1
    BY <1>5 DEF OccursAt
  <1>7. \A i \in pos..Len(d) : OccursAt(d, q, i) => m <= i
    BY <1>4 DEF Hits
  <1> QED
    BY <1>1, <1>3, <1>5, <1>6, <1>7

LEMMA ScanExists ==
  ASSUME NEW C, NEW d \in Seq(C), NEW sel, sel.query \in Seq(C), sel.query # <<>>
  PROVE  Scans(d, sel, Scan(d, sel))
  <1> DEFINE q == sel.query
             h(pos) == Hits(d, q, pos)
             step(f, pos) == IF h(pos) = {} THEN <<>>
                             ELSE Allowed(d, sel, Min(h(pos))) \o f[Min(h(pos)) + Len(q)]
             Good(f, k) == /\ f = [pos \in 1..Len(d) + 1 |-> f[pos]]
                           /\ \A pos \in 1..Len(d) + 1 :
                                pos + k >= Len(d) + 2 => f[pos] = step(f, pos)
             S == {k \in Nat : \E f : Good(f, k)}
  <1>0. Len(d) \in Nat
    OBVIOUS
  <1>h. \A pos \in 1..Len(d) + 1 : h(pos) # {} => Min(h(pos)) + Len(q) \in pos + 1..Len(d) + 1
    BY HitsAre
  <1> HIDE DEF h, q
  <1>1. 0 \in S
    <2> DEFINE f == [pos \in 1..Len(d) + 1 |-> <<>>]
    <2>1. Good(f, 0)
      BY <1>0
    <2> QED
      BY <2>1
  <1>2. ASSUME NEW k \in Nat, k \in S
        PROVE  k + 1 \in S
    <2>1. PICK f : Good(f, k)
      BY <1>2
    <2> DEFINE at == Len(d) + 2 - (k + 1)
    <2>2. CASE at \notin 1..Len(d) + 1
      <3>1. \A pos \in 1..Len(d) + 1 :
              pos + (k + 1) >= Len(d) + 2 => pos + k >= Len(d) + 2
        BY <1>0, <2>2
      <3>2. Good(f, k + 1)
        BY <2>1, <3>1
      <3> HIDE DEF Good
      <3> QED
        BY <3>2
    <2>3. CASE at \in 1..Len(d) + 1
      <3> DEFINE g == [pos \in 1..Len(d) + 1 |-> IF pos = at THEN step(f, at) ELSE f[pos]]
      <3>1. \A pos \in 1..Len(d) + 1 : pos # at => g[pos] = f[pos]
        OBVIOUS
      <3>2. g[at] = step(f, at)
        BY <2>3
      <3>3. g = [pos \in 1..Len(d) + 1 |-> g[pos]]
        OBVIOUS
      <3> HIDE DEF g
      <3>4. ASSUME NEW pos \in 1..Len(d) + 1, pos >= at
            PROVE  step(g, pos) = step(f, pos)
        <4>1. CASE h(pos) = {}
          BY <4>1
        <4>2. CASE h(pos) # {}
          <5>1. /\ Min(h(pos)) + Len(q) \in pos + 1..Len(d) + 1
            BY <1>h, <4>2
          <5>2. Min(h(pos)) + Len(q) \in 1..Len(d) + 1 /\ Min(h(pos)) + Len(q) # at
            BY <1>0, <3>4, <5>1
          <5>3. g[Min(h(pos)) + Len(q)] = f[Min(h(pos)) + Len(q)]
            BY <3>1, <5>2
          <5> QED
            BY <4>2, <5>3
        <4> QED
          BY <4>1, <4>2
      <3>5. ASSUME NEW pos \in 1..Len(d) + 1, pos + (k + 1) >= Len(d) + 2
            PROVE  g[pos] = step(g, pos)
        <4>1. pos >= at
          BY <1>0, <3>5
        <4>2. step(g, pos) = step(f, pos)
          BY <3>4, <4>1
        <4>3. CASE pos = at
          BY <3>2, <4>2, <4>3
        <4>4. CASE pos # at
          <5>1. pos + k >= Len(d) + 2
            BY <1>0, <3>5, <4>4
          <5>2. f[pos] = step(f, pos)
            BY <2>1, <5>1
          <5> QED
            BY <3>1, <4>2, <4>4, <5>2
        <4> QED
          BY <4>3, <4>4
      <3>6. Good(g, k + 1)
        BY <3>3, <3>5
      <3> HIDE DEF Good
      <3> QED
        BY <3>6
    <2> QED
      BY <2>2, <2>3
  <1>3. Nat \subseteq S
    <2> HIDE DEF S
    <2> QED
      BY <1>1, <1>2, SetInduction
  <1>4. PICK f : Good(f, Len(d) + 1)
    <2>1. \A n \in Nat : n \in S
      <3> HIDE DEF S
      <3> QED
        BY <1>3
    <2>2. \A n \in Nat : \E f : Good(f, n)
      <3> HIDE DEF Good
      <3> QED
        BY <2>1
    <2>3. Len(d) + 1 \in Nat
      BY <1>0
    <2> HIDE DEF Good
    <2> QED
      BY <2>2, <2>3
  <1>5. \A pos \in 1..Len(d) + 1 : f[pos] = step(f, pos)
    <2>1. \A pos \in 1..Len(d) + 1 : pos + (Len(d) + 1) >= Len(d) + 2
      BY <1>0
    <2> HIDE DEF step
    <2> QED
      BY <1>4, <2>1
  <1>6. f = [pos \in 1..Len(d) + 1 |-> step(f, pos)]
    BY <1>4, <1>5
  <1>7. Scans(d, sel, f)
    BY <1>6 DEF Scans, h, q
  <1> QED
    BY <1>7 DEF Scan

\* The occurrences from pos on, numbered
NumberedFrom(d, q, pos, S) ==
  /\ S \in SUBSET Matches(d, q) /\ \A i \in S : i >= pos
  /\ \A i, j \in S : i < j => i + Len(q) <= j
  /\ \A m \in Matches(d, q) : m >= pos => \E i \in S : m \in i..i + Len(q) - 1

\* What the scan from pos on has found
FoundFrom(d, sel, pos, found) ==
  \E S : /\ NumberedFrom(d, sel.query, pos, S)
         /\ found \in Seq(S)
         /\ \A i \in S : AnchorsAllow(d, sel, i) <=> \E k \in DOMAIN found : found[k] = i
         /\ \A k, l \in DOMAIN found : k < l => found[k] < found[l]

\* A match is numbered, and those after it are numbered from its end on.
LEMMA FoundStep ==
  ASSUME NEW C, NEW d \in Seq(C), NEW sel, sel.query \in Seq(C), sel.query # <<>>,
         NEW pos \in 1..Len(d) + 1, Hits(d, sel.query, pos) # {}, NEW rest,
         FoundFrom(d, sel, Min(Hits(d, sel.query, pos)) + Len(sel.query), rest)
  PROVE  FoundFrom(d, sel, pos, Allowed(d, sel, Min(Hits(d, sel.query, pos))) \o rest)
  <1>1. PICK q \in Seq(C) : q = sel.query /\ q # <<>>
    OBVIOUS
  <1>2. PICK m : m = Min(Hits(d, sel.query, pos))
    OBVIOUS
  <1>3. /\ m \in pos..Len(d) /\ OccursAt(d, q, m)
        /\ \A i \in pos..Len(d) : OccursAt(d, q, i) => m <= i
    BY <1>1, <1>2, HitsAre
  <1>4. Len(q) \in Nat /\ Len(q) >= 1 /\ Len(d) \in Nat /\ m \in Nat /\ pos \in Nat
    BY <1>1, <1>3
  <1>5. PICK T : /\ NumberedFrom(d, q, m + Len(q), T)
                 /\ rest \in Seq(T)
                 /\ \A i \in T : AnchorsAllow(d, sel, i) <=> \E k \in DOMAIN rest : rest[k] = i
                 /\ \A k, l \in DOMAIN rest : k < l => rest[k] < rest[l]
    BY <1>1, <1>2 DEF FoundFrom
  <1> DEFINE S == {m} \cup T
             M == Matches(d, q)
  <1>6. M = {i \in 1..Len(d) : OccursAt(d, q, i)}
    BY <1>1 DEF Matches
  <1>7. T \in SUBSET M /\ T \subseteq Nat /\ m \notin T /\ \A i \in T : i >= m + Len(q)
    <2>1. T \in SUBSET M /\ \A i \in T : i >= m + Len(q)
      BY <1>5 DEF NumberedFrom
    <2>2. T \subseteq Nat
      BY <1>6, <2>1
    <2> QED
      BY <1>4, <2>1, <2>2
  <1>8. NumberedFrom(d, q, pos, S)
    <2>1. m \in M
      BY <1>3, <1>4, <1>6
    <2>2. S \in SUBSET M /\ \A i \in S : i >= pos
      BY <1>3, <1>4, <1>7, <2>1
    <2>3. \A i, j \in S : i < j => i + Len(q) <= j
      <3>1. \A i, j \in T : i < j => i + Len(q) <= j
        BY <1>5 DEF NumberedFrom
      <3>2. \A i \in T : m + Len(q) <= i /\ ~(i < m)
        BY <1>4, <1>7
      <3> QED
        BY <1>4, <3>1, <3>2
    <2>4. ASSUME NEW i \in M, i >= pos
          PROVE  \E j \in S : i \in j..j + Len(q) - 1
      <3>1. i \in Nat /\ m <= i
        BY <1>3, <1>4, <1>6, <2>4
      <3>2. CASE i >= m + Len(q)
        BY <1>5, <2>4, <3>2 DEF NumberedFrom
      <3>3. CASE i < m + Len(q)
        <4>1. i \in m..m + Len(q) - 1
          BY <1>4, <3>1, <3>3
        <4> QED
          BY <4>1
      <3> QED
        BY <1>4, <3>1, <3>2, <3>3
    <2> HIDE DEF S, M
    <2> QED
      BY <2>2, <2>3, <2>4 DEF NumberedFrom, M
  <1>9. PICK found : found = Allowed(d, sel, m) \o rest
    OBVIOUS
  <1>r. /\ DOMAIN rest = 1..Len(rest) /\ Len(rest) \in Nat
        /\ \A k \in 1..Len(rest) : rest[k] \in T
    BY <1>5
  <1>10. CASE ~AnchorsAllow(d, sel, m)
    <2>1. found = rest
      BY <1>5, <1>9, <1>10 DEF Allowed
    <2>2. \A k \in DOMAIN rest : rest[k] # m
      BY <1>7, <1>r
    <2>3. /\ found \in Seq(S)
          /\ \A i \in S : AnchorsAllow(d, sel, i) <=> \E k \in DOMAIN found : found[k] = i
      BY <1>5, <1>10, <2>1, <2>2
    <2> HIDE DEF S
    <2> QED
      BY <1>1, <1>2, <1>5, <1>8, <1>9, <2>1, <2>3 DEF FoundFrom
  <1>11. CASE AnchorsAllow(d, sel, m)
    <2>1. found = <<m>> \o rest
      BY <1>9, <1>11 DEF Allowed
    <2>2. /\ Len(found) = Len(rest) + 1 /\ DOMAIN found = 1..Len(rest) + 1
          /\ found[1] = m /\ \A k \in 2..Len(rest) + 1 : found[k] = rest[k - 1]
          /\ found \in Seq(S)
      <3>1. <<m>> \in Seq(S) /\ rest \in Seq(S) /\ Len(<<m>>) = 1 /\ <<m>>[1] = m
        BY <1>5
      <3> HIDE DEF S
      <3>2. \A k \in 1..Len(rest) + 1 : found[k] = IF k <= 1 THEN m ELSE rest[k - 1]
        BY <1>r, <2>1, <3>1
      <3>3. found \in Seq(S) /\ Len(found) = Len(rest) + 1
        BY <2>1, <3>1
      <3> QED
        BY <1>r, <3>2, <3>3
    <2>3. ASSUME NEW i \in S
          PROVE  AnchorsAllow(d, sel, i) <=> \E k \in DOMAIN found : found[k] = i
      <3>1. CASE i = m
        <4>1. 1 \in DOMAIN found
          BY <1>r, <2>2
        <4> QED
          BY <1>11, <2>2, <3>1, <4>1
      <3>2. CASE i \in T /\ i # m
        <4>1. AnchorsAllow(d, sel, i) <=> \E k \in DOMAIN rest : rest[k] = i
          BY <1>5, <3>2
        <4>2. ASSUME NEW k \in DOMAIN rest, rest[k] = i
              PROVE  \E l \in DOMAIN found : found[l] = i
          <5>1. k + 1 \in 2..Len(rest) + 1 /\ (k + 1) - 1 = k /\ k + 1 \in DOMAIN found
            BY <1>r, <2>2
          <5> QED
            BY <2>2, <4>2, <5>1
        <4>3. ASSUME NEW l \in DOMAIN found, found[l] = i
              PROVE  \E k \in DOMAIN rest : rest[k] = i
          <5>1. l # 1
            BY <2>2, <3>2, <4>3
          <5>2. l \in 2..Len(rest) + 1 /\ l - 1 \in DOMAIN rest
            BY <1>r, <2>2, <5>1
          <5> QED
            BY <2>2, <4>3, <5>2
        <4> QED
          BY <4>1, <4>2, <4>3
      <3> QED
        BY <3>1, <3>2
    <2>4. ASSUME NEW k \in DOMAIN found, NEW l \in DOMAIN found, k < l
          PROVE  found[k] < found[l]
      <3>1. l \in 2..Len(rest) + 1 /\ l - 1 \in DOMAIN rest /\ found[l] = rest[l - 1]
        BY <1>r, <2>2, <2>4
      <3>2. CASE k = 1
        <4>1. rest[l - 1] \in T
          BY <1>r, <3>1
        <4>2. rest[l - 1] \in Nat /\ rest[l - 1] >= m + Len(q)
          BY <1>7, <4>1
        <4> QED
          BY <1>4, <2>2, <3>1, <3>2, <4>2
      <3>3. CASE k # 1
        <4>1. k \in 2..Len(rest) + 1 /\ k - 1 \in DOMAIN rest /\ k - 1 < l - 1
          BY <1>r, <2>2, <2>4, <3>1, <3>3
        <4>2. found[k] = rest[k - 1]
          BY <2>2, <4>1
        <4> QED
          BY <1>5, <3>1, <4>1, <4>2
      <3> QED
        BY <3>2, <3>3
    <2>5. /\ NumberedFrom(d, sel.query, pos, S) /\ found \in Seq(S)
          /\ \A i \in S : AnchorsAllow(d, sel, i) <=> \E k \in DOMAIN found : found[k] = i
          /\ \A k, l \in DOMAIN found : k < l => found[k] < found[l]
      <3> HIDE DEF S
      <3> QED
        BY <1>1, <1>8, <2>2, <2>3, <2>4
    <2>6. FoundFrom(d, sel, pos, found)
      <3> HIDE DEF S
      <3> QED
        BY <2>5 DEF FoundFrom
    <2> QED
      BY <1>2, <1>9, <2>6
  <1> QED
    BY <1>10, <1>11

LEMMA FoundNone ==
  ASSUME NEW d, NEW sel, NEW pos,
         Hits(d, sel.query, pos) = {}, Len(d) \in Nat, pos \in Nat
  PROVE  FoundFrom(d, sel, pos, <<>>)
  <1> DEFINE q == sel.query
  <1>1. \A m \in Matches(d, q) : ~(m >= pos)
    <2> SUFFICES ASSUME NEW m \in Matches(d, q), m >= pos PROVE FALSE
      OBVIOUS
    <2>1. m \in DOMAIN d /\ OccursAt(d, q, m)
      BY DEF Matches
    <2> QED
      BY <2>1 DEF Hits
  <1>2. NumberedFrom(d, q, pos, {})
    BY <1>1 DEF NumberedFrom
  <1>3. <<>> \in Seq({}) /\ DOMAIN <<>> = {}
    OBVIOUS
  <1> HIDE DEF q
  <1> QED
    BY <1>2, <1>3 DEF FoundFrom, q

LEMMA ScanFinds ==
  ASSUME NEW C, NEW d \in Seq(C), NEW sel, sel.query \in Seq(C), sel.query # <<>>
  PROVE  FoundFrom(d, sel, 1, Scan(d, sel)[1])
  <1> DEFINE f == Scan(d, sel)
             n == Len(d)
             h(pos) == Hits(d, sel.query, pos)
             S == {k \in Nat : \A pos \in 1..n + 1 :
                     pos + k >= n + 1 => FoundFrom(d, sel, pos, f[pos])}
  <1>0. n \in Nat
    OBVIOUS
  <1>1. \A pos \in 1..n + 1 :
          f[pos] = IF h(pos) = {} THEN <<>>
                   ELSE Allowed(d, sel, Min(h(pos))) \o f[Min(h(pos)) + Len(sel.query)]
    <2> DEFINE g == [pos \in 1..n + 1 |->
                       IF h(pos) = {} THEN <<>>
                       ELSE Allowed(d, sel, Min(h(pos))) \o f[Min(h(pos)) + Len(sel.query)]]
    <2>1. Scans(d, sel, f)
      BY ScanExists
    <2>2. f = g
      <3> HIDE DEF f
      <3> QED
        BY <2>1 DEF Scans
    <2> HIDE DEF f
    <2>3. \A pos \in 1..n + 1 :
            g[pos] = IF h(pos) = {} THEN <<>>
                     ELSE Allowed(d, sel, Min(h(pos))) \o f[Min(h(pos)) + Len(sel.query)]
      OBVIOUS
    <2> HIDE DEF g
    <2> QED
      BY <2>2, <2>3
  <1>2. \A pos \in 1..n + 1 : h(pos) # {} => Min(h(pos)) + Len(sel.query) \in pos + 1..n + 1
    BY HitsAre
  <1> HIDE DEF f
  <1>3. ASSUME NEW pos \in 1..n + 1, h(pos) = {}
        PROVE  FoundFrom(d, sel, pos, f[pos])
    BY <1>0, <1>1, <1>3, FoundNone
  <1>4. ASSUME NEW pos \in 1..n + 1, h(pos) # {},
               FoundFrom(d, sel, Min(h(pos)) + Len(sel.query), f[Min(h(pos)) + Len(sel.query)])
        PROVE  FoundFrom(d, sel, pos, f[pos])
    <2>1. f[pos] = Allowed(d, sel, Min(h(pos))) \o f[Min(h(pos)) + Len(sel.query)]
      BY <1>1, <1>4
    <2> QED
      BY <1>4, <2>1, FoundStep
  <1> HIDE DEF h, n
  <1>5. 0 \in S
    <2>1. \A pos \in 1..n + 1 : pos + 0 >= n + 1 => h(pos) = {}
      BY <1>0, <1>2
    <2> QED
      BY <1>3, <2>1
  <1>6. ASSUME NEW k \in Nat, k \in S
        PROVE  k + 1 \in S
    <2> SUFFICES ASSUME NEW pos \in 1..n + 1, pos + (k + 1) >= n + 1
                 PROVE  FoundFrom(d, sel, pos, f[pos])
      OBVIOUS
    <2>1. CASE h(pos) = {}
      BY <1>3, <2>1
    <2>2. CASE h(pos) # {}
      <3>1. PICK p \in pos + 1..n + 1 : p = Min(h(pos)) + Len(sel.query)
        BY <1>2, <2>2
      <3>2. p \in 1..n + 1 /\ p + k >= n + 1
        BY <1>0, <3>1
      <3>3. FoundFrom(d, sel, p, f[p])
        BY <1>6, <3>2
      <3> QED
        BY <1>4, <2>2, <3>1, <3>3
    <2> QED
      BY <2>1, <2>2
  <1>7. n \in S
    <2> HIDE DEF S
    <2>1. Nat \subseteq S
      BY <1>5, <1>6, SetInduction
    <2> QED
      BY <1>0, <2>1
  <1>8. 1 \in 1..n + 1 /\ 1 + n >= n + 1
    BY <1>0
  <1> QED
    BY <1>7, <1>8 DEF f

\* The occurrences that are numbered are the same for everybody.
LEMMA NumberedOnce ==
  ASSUME NEW C, NEW d \in Seq(C), NEW q \in Seq(C),
         NEW S, NumberedFrom(d, q, 1, S), NEW T, NumberedFrom(d, q, 1, T)
  PROVE  S = T
  <1>1. Matches(d, q) \in SUBSET Nat /\ \A m \in Matches(d, q) : m >= 1
    BY DEF Matches
  <1>2. S \subseteq Matches(d, q) /\ T \subseteq Matches(d, q)
    BY DEF NumberedFrom
  <1>3. ASSUME NEW A, NumberedFrom(d, q, 1, A), NEW B, NumberedFrom(d, q, 1, B),
               NEW k \in A \ B, \A i \in Nat : i < k => (i \in A <=> i \in B)
        PROVE  FALSE
    <2>1. A \subseteq Matches(d, q) /\ B \subseteq Matches(d, q)
      BY <1>3 DEF NumberedFrom
    <2>2. k \in Matches(d, q) /\ k \in Nat /\ k >= 1
      BY <1>1, <1>3, <2>1
    <2>3. PICK i \in B : k \in i..i + Len(q) - 1
      BY <1>3, <2>2 DEF NumberedFrom
    <2>4. i \in Nat /\ i # k /\ Len(q) \in Nat
      BY <1>1, <1>3, <2>1
    <2>5. i < k
      BY <2>2, <2>3, <2>4
    <2>6. i \in A
      BY <1>3, <2>4, <2>5
    <2>7. i + Len(q) <= k
      BY <1>3, <2>5, <2>6 DEF NumberedFrom
    <2> QED
      BY <2>2, <2>3, <2>4, <2>7
  <1> DEFINE D == (S \ T) \cup (T \ S)
  <1>4. CASE D # {}
    <2>1. D \in SUBSET Nat
      BY <1>1, <1>2
    <2>2. PICK k \in D : \A i \in D : k <= i
      <3> HIDE DEF D
      <3> QED
        BY <1>4, <2>1, LeastExists
    <2>3. \A i \in Nat : i < k => (i \in S <=> i \in T)
      BY <2>1, <2>2
    <2> QED
      BY <1>3, <2>2, <2>3
  <1> QED
    BY <1>4

LEMMA NumberedIs ==
  ASSUME NEW C, NEW d \in Seq(C), NEW q \in Seq(C), NEW S, NumberedFrom(d, q, 1, S)
  PROVE  Numbered(d, q) = S
  <1> DEFINE Good(T) == /\ \A i, j \in T : i < j => i + Len(q) <= j
                        /\ \A m \in Matches(d, q) : \E i \in T : m \in i..i + Len(q) - 1
  <1>1. \A m \in Matches(d, q) : m >= 1
    BY DEF Matches
  <1>2. \A T \in SUBSET Matches(d, q) : Good(T) <=> NumberedFrom(d, q, 1, T)
    BY <1>1 DEF NumberedFrom
  <1>3. S \in SUBSET Matches(d, q)
    BY DEF NumberedFrom
  <1>4. Numbered(d, q) = CHOOSE T \in SUBSET Matches(d, q) : Good(T)
    BY DEF Numbered
  <1> HIDE DEF Good
  <1>5. \E T \in SUBSET Matches(d, q) : Good(T)
    BY <1>2, <1>3
  <1>6. Numbered(d, q) \in SUBSET Matches(d, q) /\ Good(Numbered(d, q))
    BY <1>4, <1>5
  <1>7. PICK T : T = Numbered(d, q)
    OBVIOUS
  <1>8. NumberedFrom(d, q, 1, T)
    BY <1>2, <1>6, <1>7
  <1> QED
    BY <1>7, <1>8, NumberedOnce

(***************************************************************************)
(* Reading lines                                                           *)
(***************************************************************************)
LEMMA MaxIs ==
  ASSUME NEW n \in Nat, NEW A \in SUBSET (1..n), A # {}
  PROVE  Max(A) \in A /\ \A y \in A : y <= Max(A)
  <1> DEFINE B == {n - x : x \in A}
  <1>0. \A x \in A : x \in Nat /\ x <= n /\ n - x \in Nat
    OBVIOUS
  <1>1. B \in SUBSET Nat /\ B # {}
    BY <1>0
  <1>2. PICK b \in B : \A c \in B : b <= c
    <2> HIDE DEF B
    <2> QED
      BY <1>1, LeastExists
  <1>3. PICK x \in A : b = n - x
    OBVIOUS
  <1>4. \A y \in A : n - y \in B
    OBVIOUS
  <1>5. ASSUME NEW y \in A
        PROVE  x >= y
    <2>1. n - x <= n - y
      BY <1>2, <1>3, <1>4
    <2> QED
      BY <1>0, <2>1
  <1>6. Max(A) \in A /\ \A y \in A : Max(A) >= y
    BY <1>5 DEF Max
  <1> QED
    BY <1>0, <1>6

\* The function that FoldLeft chooses: what the symbols at the places s are read as
ReadStep(d, f, s) ==
  IF s = {} THEN <<<<>>>> ELSE ReadSymbol(f[s \ {Max(s)}], d[Max(s)])

Reads(d, f) == f = [s \in SUBSET DOMAIN d |-> ReadStep(d, f, s)]

Reading(d) == CHOOSE f : Reads(d, f)

LEMMA ReadLinesIs ==
  ASSUME NEW d
  PROVE  ReadLines(d) = Reading(d)[DOMAIN d]
  BY DEF ReadLines, FoldLeft, MapThenFoldSet, Reading, Reads, ReadStep

LEMMA ReadingExists ==
  ASSUME NEW C, NEW d \in Seq(C)
  PROVE  \A s \in SUBSET DOMAIN d : Reading(d)[s] = ReadStep(d, Reading(d), s)
  <1> DEFINE D == DOMAIN d
             Good(f, k) == /\ f = [s \in SUBSET D |-> f[s]]
                           /\ \A s \in SUBSET D : s \subseteq 1..k => f[s] = ReadStep(d, f, s)
             S == {k \in Nat : \E f : Good(f, k)}
  <1>0. D = 1..Len(d) /\ Len(d) \in Nat
    OBVIOUS
  <1> HIDE DEF D
  <1>1. 0 \in S
    <2> DEFINE f == [s \in SUBSET D |-> <<<<>>>>]
    <2>1. \A s \in SUBSET D : s \subseteq 1..0 => s = {}
      OBVIOUS
    <2>2. \A s \in SUBSET D : s \subseteq 1..0 => f[s] = ReadStep(d, f, s)
      BY <2>1 DEF ReadStep
    <2>3. f = [s \in SUBSET D |-> f[s]]
      OBVIOUS
    <2> HIDE DEF f
    <2>4. Good(f, 0)
      BY <2>2, <2>3
    <2> HIDE DEF Good
    <2> QED
      BY <2>4
  <1>2. ASSUME NEW k \in Nat, k \in S
        PROVE  k + 1 \in S
    <2>1. PICK f : Good(f, k)
      <3> HIDE DEF Good
      <3> QED
        BY <1>2
    <2> DEFINE g == [s \in SUBSET D |-> IF s \subseteq 1..k THEN f[s] ELSE ReadStep(d, f, s)]
    <2>2. /\ g = [s \in SUBSET D |-> g[s]]
          /\ \A s \in SUBSET D : g[s] = IF s \subseteq 1..k THEN f[s] ELSE ReadStep(d, f, s)
      OBVIOUS
    <2> HIDE DEF g
    <2>3. ASSUME NEW s \in SUBSET D, s \subseteq 1..k + 1
          PROVE  g[s] = ReadStep(d, g, s)
      <3>1. g[s] = ReadStep(d, f, s)
        BY <2>1, <2>2
      <3>2. CASE s = {}
        BY <3>1, <3>2 DEF ReadStep
      <3>3. CASE s # {}
        <4>1. Max(s) \in s /\ \A y \in s : y <= Max(s)
          <5>1. k + 1 \in Nat /\ s \in SUBSET (1..k + 1)
            BY <2>3
          <5> QED
            BY <3>3, <5>1, MaxIs
        <4>m. PICK m : m = Max(s)
          OBVIOUS
        <4>2. s \ {m} \in SUBSET D /\ s \ {m} \subseteq 1..k
          <5>1. \A y \in s \ {m} : y \in 1..k + 1 /\ m \in 1..k + 1 /\ y <= m /\ y # m
            BY <2>3, <4>1, <4>m
          <5>2. \A y \in s \ {m} : y \in 1..k
            BY <5>1
          <5> QED
            BY <5>2
        <4>3. g[s \ {Max(s)}] = f[s \ {Max(s)}]
          BY <2>2, <4>2, <4>m
        <4> QED
          BY <3>1, <3>3, <4>3 DEF ReadStep
      <3> QED
        BY <3>2, <3>3
    <2>4. Good(g, k + 1)
      BY <2>2, <2>3
    <2> HIDE DEF Good
    <2> QED
      BY <2>4
  <1>3. \E f : Good(f, Len(d))
    <2>1. Nat \subseteq S
      <3> HIDE DEF S
      <3> QED
        BY <1>1, <1>2, SetInduction
    <2> HIDE DEF Good
    <2> QED
      BY <1>0, <2>1
  <1>4. PICK f : Good(f, Len(d))
    BY <1>3
  <1>5. \A s \in SUBSET D : f[s] = ReadStep(d, f, s)
    BY <1>0, <1>4
  <1>6. f = [s \in SUBSET D |-> f[s]]
    BY <1>4
  <1>7. f = [s \in SUBSET D |-> ReadStep(d, f, s)]
    BY <1>5, <1>6
  <1>8. Reads(d, f)
    BY <1>7 DEF Reads, D
  <1>9. PICK g : g = Reading(d)
    OBVIOUS
  <1>10. Reads(d, g)
    BY <1>8, <1>9 DEF Reading
  <1> DEFINE h == [s \in SUBSET D |-> ReadStep(d, g, s)]
  <1>11. g = h
    BY <1>10 DEF Reads, D
  <1>12. \A s \in SUBSET D : h[s] = ReadStep(d, g, s)
    OBVIOUS
  <1> HIDE DEF h
  <1> QED
    BY <1>9, <1>11, <1>12 DEF D

\* A text is read symbol by symbol.
LEMMA ReadLinesSteps ==
  ASSUME NEW C
  PROVE  /\ ReadLines(<<>>) = <<<<>>>>
         /\ \A s \in Seq(C), c \in C : ReadLines(Append(s, c)) = ReadSymbol(ReadLines(s), c)
  <1>1. ReadLines(<<>>) = <<<<>>>>
    <2>1. <<>> \in Seq(C)
      OBVIOUS
    <2>2. PICK e \in Seq(C) : e = <<>>
      BY <2>1
    <2>3. DOMAIN e = {}
      BY <2>2
    <2>4. Reading(e)[{}] = ReadStep(e, Reading(e), {})
      BY <2>3, ReadingExists
    <2>5. ReadLines(e) = Reading(e)[{}]
      BY <2>3, ReadLinesIs
    <2> QED
      BY <2>2, <2>4, <2>5 DEF ReadStep
  <1>2. ASSUME NEW s \in Seq(C), NEW c \in C
        PROVE  ReadLines(Append(s, c)) = ReadSymbol(ReadLines(s), c)
    <2>0. Append(s, c) \in Seq(C)
      OBVIOUS
    <2>1. PICK a \in Seq(C) : a = Append(s, c)
      BY <2>0
    <2>2. PICK n \in Nat : n = Len(s)
      OBVIOUS
    <2>3. /\ DOMAIN s = 1..n /\ DOMAIN a = 1..n + 1 /\ a[n + 1] = c
          /\ \A i \in 1..n : a[i] = s[i]
      BY <2>1, <2>2
    <2>4. PICK f : f = Reading(s)
      OBVIOUS
    <2>5. PICK g : g = Reading(a)
      OBVIOUS
    <2>6. ASSUME NEW i \in Nat, i >= 1
          PROVE  /\ i <= n => f[1..i] = ReadSymbol(f[1..i - 1], s[i])
                 /\ i <= n + 1 => g[1..i] = ReadSymbol(g[1..i - 1], a[i])
      <3>1. 1..i \in SUBSET (1..i) /\ 1..i # {}
        <4>1. i \in 1..i
          BY <2>6
        <4> QED
          BY <4>1
      <3>2. Max(1..i) = i
        <4>1. Max(1..i) \in 1..i /\ \A y \in 1..i : y <= Max(1..i)
          BY <3>1, MaxIs
        <4> QED
          BY <2>6, <4>1
      <3>3. (1..i) \ {i} = 1..i - 1
        BY <2>6
      <3>4. \A d, h : ReadStep(d, h, 1..i) = ReadSymbol(h[1..i - 1], d[i])
        BY <3>1, <3>2, <3>3 DEF ReadStep
      <3>5. i <= n => f[1..i] = ReadStep(s, f, 1..i)
        <4>1. i <= n => 1..i \in SUBSET DOMAIN s
          BY <2>3
        <4> QED
          BY <2>4, <4>1, ReadingExists
      <3>6. i <= n + 1 => g[1..i] = ReadStep(a, g, 1..i)
        <4>1. i <= n + 1 => 1..i \in SUBSET DOMAIN a
          BY <2>3
        <4> QED
          BY <2>5, <4>1, ReadingExists
      <3> QED
        BY <3>4, <3>5, <3>6
    <2> DEFINE S == {i \in Nat : i <= n => f[1..i] = g[1..i]}
    <2>7. 0 \in S
      <3>1. 1..0 = {}
        OBVIOUS
      <3>2. {} \in SUBSET DOMAIN s /\ {} \in SUBSET DOMAIN a
        OBVIOUS
      <3>3. f[{}] = ReadStep(s, f, {}) /\ g[{}] = ReadStep(a, g, {})
        BY <2>4, <2>5, <3>2, ReadingExists
      <3>4. f[{}] = g[{}]
        BY <3>3 DEF ReadStep
      <3> QED
        BY <3>1, <3>4
    <2>8. ASSUME NEW i \in Nat, i \in S
          PROVE  i + 1 \in S
      <3> SUFFICES ASSUME i + 1 <= n
                   PROVE  f[1..i + 1] = g[1..i + 1]
        OBVIOUS
      <3>1. i + 1 \in Nat /\ i + 1 >= 1 /\ i + 1 - 1 = i /\ i <= n /\ i + 1 <= n + 1
            /\ i + 1 \in 1..n
        OBVIOUS
      <3>2. f[1..i + 1] = ReadSymbol(f[1..i], s[i + 1])
        BY <2>6, <3>1
      <3>3. g[1..i + 1] = ReadSymbol(g[1..i], a[i + 1])
        BY <2>6, <3>1
      <3>4. f[1..i] = g[1..i] /\ a[i + 1] = s[i + 1]
        BY <2>3, <2>8, <3>1
      <3> QED
        BY <3>2, <3>3, <3>4
    <2>9. Nat \subseteq S
      <3> HIDE DEF S
      <3> QED
        BY <2>7, <2>8, SetInduction
    <2>10. f[1..n] = g[1..n]
      BY <2>9
    <2>11. g[1..n + 1] = ReadSymbol(g[1..n], c)
      <3>1. n + 1 \in Nat /\ n + 1 >= 1 /\ n + 1 - 1 = n
        OBVIOUS
      <3> QED
        BY <2>3, <2>6, <3>1
    <2>12. ReadLines(s) = f[1..n] /\ ReadLines(a) = g[1..n + 1]
      BY <2>3, <2>4, <2>5, ReadLinesIs
    <2> QED
      BY <2>1, <2>10, <2>11, <2>12
  <1> QED
    BY <1>1, <1>2

\* A line: text without line ends
Line(C) == Seq(C \ {NL, CR})

LEMMA FrontAndLast ==
  ASSUME NEW X, NEW ls \in Seq(X), NEW l \in X
  PROVE  Front(Append(ls, l)) = ls /\ Last(Append(ls, l)) = l
  <1>1. PICK a \in Seq(X) : a = Append(ls, l)
    BY AppendProperties
  <1>2. /\ Len(ls) \in Nat /\ Len(a) = Len(ls) + 1 /\ a[Len(ls) + 1] = l
        /\ \A i \in 1..Len(ls) : a[i] = ls[i] /\ a[i] \in X
    BY <1>1
  <1>3. /\ SubSeq(a, 1, Len(ls)) \in Seq(X) /\ Len(SubSeq(a, 1, Len(ls))) = Len(ls)
        /\ \A i \in 1..Len(ls) : SubSeq(a, 1, Len(ls))[i] = a[i]
    <2>1. Len(ls) \in Int /\ 1 \in Int
      BY <1>2
    <2>2. /\ SubSeq(a, 1, Len(ls)) \in Seq(X)
          /\ Len(SubSeq(a, 1, Len(ls))) = IF 1 <= Len(ls) THEN Len(ls) - 1 + 1 ELSE 0
          /\ \A i \in 1..Len(ls) - 1 + 1 : SubSeq(a, 1, Len(ls))[i] = a[1 + i - 1]
      BY <1>2, <2>1, SubSeqProperties
    <2> QED
      BY <1>2, <2>2
  <1>4. SubSeq(a, 1, Len(ls)) = ls
    BY <1>2, <1>3, SeqEqual
  <1>5. Front(a) = ls
    BY <1>2, <1>4 DEF Front
  <1>6. Last(a) = l
    BY <1>2 DEF Last
  <1> QED
    BY <1>1, <1>5, <1>6

LEMMA ConcatAppend ==
  ASSUME NEW X, NEW u \in Seq(X), NEW v \in Seq(X), NEW c \in X
  PROVE  u \o Append(v, c) = Append(u \o v, c)
  OBVIOUS

\* What has been read: lines, and at the end the one that is being read
LEMMA ReadSymbolIs ==
  ASSUME NEW C, NEW ls \in Seq(Line(C)), NEW l \in Line(C), NEW c \in C
  PROVE  /\ c = CR => ReadSymbol(Append(ls, l), c) = Append(ls, l)
         /\ c = NL => ReadSymbol(Append(ls, l), c) = Append(Append(ls, l), <<>>)
         /\ c \notin {NL, CR} => /\ ReadSymbol(Append(ls, l), c) = Append(ls, Append(l, c))
                                 /\ Append(l, c) \in Line(C)
  <1>1. PICK a : a = Append(ls, l)
    OBVIOUS
  <1>2. Last(a) = l /\ Front(a) = ls
    BY <1>1, FrontAndLast
  <1>4. c \notin {NL, CR} => Append(l, c) \in Line(C)
    BY DEF Line
  <1> QED
    BY <1>1, <1>2, <1>4, LineBreaksDiffer DEF ReadSymbol

LEMMA ReadLinesType ==
  ASSUME NEW C
  PROVE  \A d \in Seq(C) : \E ls \in Seq(Line(C)), l \in Line(C) : ReadLines(d) = Append(ls, l)
  <1> DEFINE Good(d) == \E ls \in Seq(Line(C)), l \in Line(C) : ReadLines(d) = Append(ls, l)
             S == {d \in Seq(C) : Good(d)}
  <1>0. <<>> \in Line(C) /\ <<>> \in Seq(Line(C)) /\ <<>> \in Seq(C)
    BY DEF Line
  <1>s. /\ ReadLines(<<>>) = <<<<>>>>
        /\ \A s \in Seq(C), c \in C : ReadLines(Append(s, c)) = ReadSymbol(ReadLines(s), c)
    BY ReadLinesSteps
  <1>1. <<>> \in S
    <2>1. PICK e \in Seq(Line(C)), k \in Line(C) : e = <<>> /\ k = <<>>
      BY <1>0
    <2>2. <<<<>>>> = Append(e, k)
      BY <2>1
    <2>3. Good(<<>>)
      BY <1>s, <2>2
    <2> QED
      BY <1>0, <2>3
  <1>2. ASSUME NEW d \in Seq(C), NEW c \in C, d \in S
        PROVE  Append(d, c) \in S
    <2>1. PICK ls \in Seq(Line(C)), l \in Line(C) : ReadLines(d) = Append(ls, l)
      BY <1>2
    <2>2. ReadLines(Append(d, c)) = ReadSymbol(Append(ls, l), c)
      BY <1>s, <2>1
    <2>3. CASE c = CR
      BY <2>1, <2>2, <2>3, ReadSymbolIs
    <2>4. CASE c = NL
      <3>1. ReadLines(Append(d, c)) = Append(Append(ls, l), <<>>)
        BY <2>2, <2>4, ReadSymbolIs
      <3>2. PICK k \in Line(C) : k = <<>>
        BY <1>0
      <3>3. PICK a \in Seq(Line(C)) : a = Append(ls, l)
        BY AppendProperties
      <3>4. ReadLines(Append(d, c)) = Append(a, k)
        BY <3>1, <3>2, <3>3
      <3> QED
        BY <3>4
    <2>5. CASE c \notin {NL, CR}
      <3>1. ReadLines(Append(d, c)) = Append(ls, Append(l, c)) /\ Append(l, c) \in Line(C)
        BY <2>2, <2>5, ReadSymbolIs
      <3>2. PICK k \in Line(C) : k = Append(l, c)
        BY <3>1
      <3>3. ReadLines(Append(d, c)) = Append(ls, k)
        BY <3>1, <3>2
      <3> QED
        BY <3>3
    <2>6. Append(d, c) \in Seq(C)
      OBVIOUS
    <2>7. Good(Append(d, c))
      BY <2>3, <2>4, <2>5
    <2> HIDE DEF Good
    <2> QED
      BY <2>6, <2>7
  <1>3. Seq(C) \subseteq S
    <2> HIDE DEF S
    <2> QED
      BY <1>1, <1>2, SeqInduction
  <1> QED
    BY <1>3

\* A line is read into the line that is being read.
LEMMA LineIsRead ==
  ASSUME NEW C, NEW d \in Seq(C), NEW ls \in Seq(Line(C)), NEW l \in Line(C),
         ReadLines(d) = Append(ls, l)
  PROVE  \A t \in Line(C) : ReadLines(d \o t) = Append(ls, l \o t) /\ l \o t \in Line(C)
  <1> DEFINE B == C \ {NL, CR}
             S == {t \in Seq(B) : ReadLines(d \o t) = Append(ls, l \o t)}
  <1>s. \A s \in Seq(C), c \in C : ReadLines(Append(s, c)) = ReadSymbol(ReadLines(s), c)
    BY ReadLinesSteps
  <1>t. \A t \in Seq(B) : l \o t \in Seq(B) /\ d \o t \in Seq(C) /\ t \in Seq(C)
    <2> SUFFICES ASSUME NEW t \in Seq(B)
                 PROVE  l \o t \in Seq(B) /\ d \o t \in Seq(C) /\ t \in Seq(C)
      OBVIOUS
    <2>1. t \in Seq(C) /\ l \in Seq(B)
      BY DEF Line
    <2> QED
      BY <2>1
  <1>1. <<>> \in S
    <2>1. d \o <<>> = d /\ l \o <<>> = l /\ <<>> \in Seq(B)
      BY DEF Line
    <2> QED
      BY <2>1
  <1>2. ASSUME NEW t \in Seq(B), NEW c \in B, t \in S
        PROVE  Append(t, c) \in S
    <2>1. c \in C /\ c \notin {NL, CR} /\ Append(t, c) \in Seq(B)
      OBVIOUS
    <2>2. PICK e \in Seq(C) : e = d \o t
      BY <1>t
    <2>3. PICK k \in Line(C) : k = l \o t
      BY <1>t DEF Line
    <2>4. d \o Append(t, c) = Append(e, c) /\ l \o Append(t, c) = Append(k, c)
      <3>1. l \in Seq(B)
        BY DEF Line
      <3>2. d \o Append(t, c) = Append(d \o t, c)
        <4>1. t \in Seq(C)
          BY <1>t
        <4> HIDE DEF B, S
        <4> QED
          BY <2>1, <4>1, ConcatAppend
      <3>3. l \o Append(t, c) = Append(l \o t, c)
        <4> HIDE DEF B, S
        <4> QED
          BY <3>1, ConcatAppend
      <3> QED
        BY <2>2, <2>3, <3>2, <3>3
    <2>5. ReadLines(e) = Append(ls, k)
      BY <1>2, <2>2, <2>3
    <2>6. ReadLines(Append(e, c)) = ReadSymbol(Append(ls, k), c)
      BY <1>s, <2>1, <2>5
    <2>7. ReadSymbol(Append(ls, k), c) = Append(ls, Append(k, c))
      BY <2>1, ReadSymbolIs
    <2> QED
      BY <2>1, <2>4, <2>6, <2>7
  <1>3. Seq(B) \subseteq S
    <2> HIDE DEF S, B
    <2> QED
      BY <1>1, <1>2, SeqInduction
  <1> QED
    BY <1>3, <1>t DEF Line

(***************************************************************************)
(* Joining lines and reading them again                                    *)
(***************************************************************************)
\* The line l with its end
Ended(C) == [l \in Line(C) |-> Append(l, NL)]

LEMMA EndedIs ==
  ASSUME NEW C, NL \in C
  PROVE  /\ Ended(C) \in Maker(Line(C), C)
         /\ \A l \in Line(C) : Ended(C)[l] = Append(l, NL) /\ l \in Seq(C)
  <1>1. ASSUME NEW l \in Line(C)
        PROVE  l \in Seq(C) /\ Append(l, NL) \in Seq(C)
    <2>1. l \in Seq(C)
      BY DEF Line
    <2> QED
      BY <2>1, AppendProperties
  <1> QED
    BY <1>1 DEF Ended, Maker

LEMMA JoinLinesEmpty == \A tr : JoinLines(<<>>, tr) = <<>>
  <1> SUFFICES ASSUME NEW tr PROVE JoinLines(<<>>, tr) = <<>>
    OBVIOUS
  <1>1. [i \in DOMAIN <<>> |-> IF i < Len(<<>>) \/ tr THEN Append(<<>>[i], NL) ELSE <<>>[i]] = <<>>
    OBVIOUS
  <1> QED
    BY <1>1, FlattenEmpty DEF JoinLines

LEMMA JoinLinesEnded ==
  ASSUME NEW C, NL \in C, NEW ls \in Seq(Line(C))
  PROVE  JoinLines(ls, TRUE) = Mapped(Ended(C), ls)
  <1>1. \A i \in DOMAIN ls : Ended(C)[ls[i]] = Append(ls[i], NL)
    BY EndedIs
  <1>2. [i \in DOMAIN ls |-> IF i < Len(ls) \/ TRUE THEN Append(ls[i], NL) ELSE ls[i]]
          = [i \in DOMAIN ls |-> Ended(C)[ls[i]]]
    BY <1>1
  <1> QED
    BY <1>2 DEF JoinLines, Mapped

LEMMA JoinLinesOpen ==
  ASSUME NEW C, NL \in C, NEW ls \in Seq(Line(C)), NEW l \in Line(C)
  PROVE  JoinLines(Append(ls, l), FALSE) = Mapped(Ended(C), ls) \o l
  <1> DEFINE n == Len(ls)
             a == Append(ls, l)
             q == [i \in 1..n |-> Ended(C)[ls[i]]]
             p == [i \in 1..n + 1 |-> IF i < n + 1 \/ FALSE THEN Append(a[i], NL) ELSE a[i]]
  <1>1. /\ n \in Nat /\ DOMAIN ls = 1..n /\ DOMAIN a = 1..n + 1 /\ Len(a) = n + 1
        /\ a[n + 1] = l /\ \A i \in 1..n : a[i] = ls[i] /\ ls[i] \in Line(C)
    BY AppendProperties
  <1>2. /\ \A i \in 1..n : q[i] = Append(ls[i], NL) /\ q[i] \in Seq(C)
        /\ l \in Seq(C)
    <2>1. l \in Seq(C)
      BY EndedIs
    <2>2. ASSUME NEW i \in 1..n
          PROVE  q[i] = Append(ls[i], NL) /\ q[i] \in Seq(C)
      <3>1. ls[i] \in Line(C)
        BY <1>1
      <3>2. Ended(C)[ls[i]] = Append(ls[i], NL) /\ ls[i] \in Seq(C)
        BY <3>1, EndedIs
      <3>3. Append(ls[i], NL) \in Seq(C)
        BY <3>2, AppendProperties
      <3> QED
        BY <3>2, <3>3
    <2> QED
      BY <2>1, <2>2
  <1>3. JoinLines(a, FALSE) = FlattenSeq(p)
    BY <1>1 DEF JoinLines
  <1>4. Mapped(Ended(C), ls) = FlattenSeq(q)
    BY <1>1 DEF Mapped
  <1>5. p = [i \in 1..n + 1 |-> IF i < n + 1 THEN Append(ls[i], NL) ELSE l]
    <2>1. ASSUME NEW i \in 1..n + 1
          PROVE  (IF i < n + 1 \/ FALSE THEN Append(a[i], NL) ELSE a[i])
                   = IF i < n + 1 THEN Append(ls[i], NL) ELSE l
      <3>1. CASE i < n + 1
        <4>1. i \in 1..n
          BY <1>1, <3>1
        <4> HIDE DEF a, n
        <4> QED
          BY <1>1, <3>1, <4>1
      <3>2. CASE ~(i < n + 1)
        <4>1. i = n + 1
          BY <1>1, <3>2
        <4> HIDE DEF a, n
        <4> QED
          BY <1>1, <3>2, <4>1
      <3> QED
        BY <3>1, <3>2
    <2> HIDE DEF a, n
    <2> QED
      BY <2>1
  <1>6. /\ \A i \in 1..n : p[i] = Append(ls[i], NL)
        /\ p[n + 1] = l /\ DOMAIN p = 1..n + 1
    <2> HIDE DEF n
    <2> QED
      BY <1>1, <1>5
  <1>7. q \in Seq(Seq(C)) /\ Len(q) = n
    <2> HIDE DEF n, a, p
    <2> QED
      BY <1>1, <1>2
  <1>8. p = Append(q, l)
    <2>1. PICK b \in Seq(Seq(C)) : b = Append(q, l)
      <3> HIDE DEF q
      <3> QED
        BY <1>2, <1>7, AppendProperties
    <2>2. Len(b) = n + 1 /\ b[n + 1] = l /\ \A i \in 1..n : b[i] = q[i]
      <3> HIDE DEF q, n
      <3> QED
        BY <1>1, <1>2, <1>7, <2>1, AppendProperties
    <2>3. p = b
      <3>1. b = [i \in 1..n + 1 |-> b[i]]
        <4> HIDE DEF n
        <4> QED
          BY <2>2
      <3>2. \A i \in 1..n + 1 : i \in 1..n \/ i = n + 1
        BY <1>1
      <3>3. \A i \in 1..n + 1 : p[i] = b[i]
        <4> HIDE DEF p, q, n
        <4> QED
          BY <1>2, <1>6, <2>2, <3>2
      <3>4. p = [i \in 1..n + 1 |-> p[i]]
        OBVIOUS
      <3> HIDE DEF p, q, n
      <3> QED
        BY <3>1, <3>3, <3>4
    <2> QED
      BY <2>1, <2>3
  <1> HIDE DEF p, q
  <1>9. FlattenSeq(Append(q, l)) = FlattenSeq(q) \o l
    BY <1>2, <1>7, FlattenAppend
  <1> QED
    BY <1>3, <1>4, <1>8, <1>9

\* Lines that all have their end are read as they are, with an empty one begun.
LEMMA ReadEnded ==
  ASSUME NEW C, NL \in C
  PROVE  \A ls \in Seq(Line(C)) :
           /\ ReadLines(Mapped(Ended(C), ls)) = Append(ls, <<>>)
           /\ Mapped(Ended(C), ls) \in Seq(C)
           /\ Mapped(Ended(C), ls) = <<>> \/ Last(Mapped(Ended(C), ls)) = NL
  <1> DEFINE M(ls) == Mapped(Ended(C), ls)
             Good(ls) == /\ ReadLines(M(ls)) = Append(ls, <<>>)
                         /\ M(ls) = <<>> \/ Last(M(ls)) = NL
             S == {ls \in Seq(Line(C)) : Good(ls)}
  <1>0. <<>> \in Line(C) /\ <<>> \in Seq(Line(C))
    BY DEF Line
  <1>e. PICK e \in Line(C) : e = <<>>
    BY <1>0
  <1>s. /\ ReadLines(<<>>) = <<<<>>>>
        /\ \A s \in Seq(C), c \in C : ReadLines(Append(s, c)) = ReadSymbol(ReadLines(s), c)
    BY ReadLinesSteps
  <1>m. \A ls \in Seq(Line(C)), l \in Line(C) :
          /\ M(ls) \in Seq(C) /\ Append(ls, l) \in Seq(Line(C))
          /\ M(Append(ls, l)) = M(ls) \o Append(l, NL)
    <2>1. PICK h \in Maker(Line(C), C) : h = Ended(C)
      BY EndedIs
    <2>2. \A s \in Seq(Line(C)), c \in Line(C) :
            /\ Mapped(h, s) \in Seq(C) /\ h[c] \in Seq(C) /\ Append(s, c) \in Seq(Line(C))
            /\ Mapped(h, Append(s, c)) = Mapped(h, s) \o h[c]
      BY MappedSteps
    <2>3. \A l \in Line(C) : h[l] = Append(l, NL)
      BY <2>1, EndedIs
    <2> QED
      BY <2>1, <2>2, <2>3
  <1>1. <<>> \in S
    <2>1. M(<<>>) = <<>>
      BY MappedEmpty
    <2>2. <<<<>>>> = Append(<<>>, <<>>)
      OBVIOUS
    <2>3. Good(<<>>)
      BY <1>s, <2>1, <2>2
    <2> HIDE DEF Good
    <2> QED
      BY <1>0, <2>3
  <1>2. ASSUME NEW ls \in Seq(Line(C)), NEW l \in Line(C), ls \in S
        PROVE  Append(ls, l) \in S
    <2>1. PICK m \in Seq(C) : m = M(ls)
      BY <1>m
    <2>2. ReadLines(m) = Append(ls, e)
      BY <1>2, <1>e, <2>1
    <2>3. ReadLines(m \o l) = Append(ls, e \o l)
      <3>1. \A t \in Line(C) : ReadLines(m \o t) = Append(ls, e \o t) /\ e \o t \in Line(C)
        BY <2>2, LineIsRead, ZenonT(30)
      <3> QED
        BY <3>1
    <2>4. e \o l = l /\ l \in Seq(C)
      BY <1>e, EndedIs DEF Line
    <2>5. PICK k \in Seq(C) : k = m \o l
      BY <2>4, ConcatProperties
    <2>6. m \o Append(l, NL) = Append(k, NL)
      <3>1. m \o Append(l, NL) = Append(m \o l, NL)
        BY <2>4, ConcatAppend
      <3> QED
        BY <2>5, <3>1
    <2>7. M(Append(ls, l)) = Append(k, NL)
      BY <1>m, <2>1, <2>6
    <2>8. ReadLines(Append(k, NL)) = ReadSymbol(Append(ls, l), NL)
      BY <1>s, <2>3, <2>4, <2>5
    <2>9. ReadSymbol(Append(ls, l), NL) = Append(Append(ls, l), <<>>)
      BY ReadSymbolIs
    <2>10. Last(Append(k, NL)) = NL
      BY FrontAndLast
    <2>11. Good(Append(ls, l))
      <3> HIDE DEF M
      <3> QED
        BY <2>7, <2>8, <2>9, <2>10
    <2> HIDE DEF Good, M
    <2> QED
      BY <1>m, <2>11
  <1>3. Seq(Line(C)) \subseteq S
    <2> HIDE DEF S
    <2> QED
      BY <1>1, <1>2, SeqInduction
  <1> HIDE DEF M
  <1>4. \A ls \in Seq(Line(C)) : Good(ls) /\ M(ls) \in Seq(C)
    BY <1>3, <1>m, <1>e
  <1> QED
    BY <1>4 DEF M

LEMMA LinesType ==
  ASSUME NEW C, NEW d \in Seq(C)
  PROVE  Lines(d) \in Seq(Line(C))
  <1>1. PICK ls \in Seq(Line(C)), l \in Line(C) : ReadLines(d) = Append(ls, l)
    BY ReadLinesType
  <1>2. Front(ReadLines(d)) = ls
    BY <1>1, FrontAndLast
  <1>3. Append(ls, l) \in Seq(Line(C))
    BY AppendProperties
  <1> QED
    BY <1>1, <1>2, <1>3 DEF Lines

\* Lines joined and read again are the same lines, but for an empty one that had no end.
LEMMA LinesJoined ==
  ASSUME NEW C, NL \in C, NEW ls \in Seq(Line(C)), NEW tr \in BOOLEAN
  PROVE  Lines(JoinLines(ls, tr))
           = IF ~tr /\ ls # <<>> /\ Last(ls) = <<>> THEN Front(ls) ELSE ls
  <1>0. <<>> \in Line(C)
    BY DEF Line
  <1>1. PICK e \in Line(C) : e = <<>>
    <2>1. <<>> \in Line(C)
      BY DEF Line
    <2> QED
      BY <2>1
  <1>2. ASSUME NEW d, NEW m \in Seq(Line(C)), ReadLines(d) = Append(m, e),
               d = <<>> \/ Last(d) = NL
        PROVE  Lines(d) = m
    <2>1. Front(Append(m, e)) = m /\ Last(Append(m, e)) = e
      BY FrontAndLast
    <2> QED
      BY <1>1, <1>2, <2>1 DEF Lines
  <1>3. \A m \in Seq(Line(C)) :
          /\ ReadLines(Mapped(Ended(C), m)) = Append(m, e)
          /\ Mapped(Ended(C), m) \in Seq(C)
          /\ Mapped(Ended(C), m) = <<>> \/ Last(Mapped(Ended(C), m)) = NL
    BY <1>1, ReadEnded
  <1>4. CASE tr
    <2>1. JoinLines(ls, TRUE) = Mapped(Ended(C), ls)
      BY JoinLinesEnded
    <2>2. Lines(Mapped(Ended(C), ls)) = ls
      BY <1>2, <1>3
    <2> QED
      BY <1>4, <2>1, <2>2
  <1>5. CASE ~tr /\ ls = <<>>
    <2>1. JoinLines(ls, tr) = <<>>
      BY <1>5, JoinLinesEmpty
    <2>2. ReadLines(<<>>) = <<<<>>>>
      BY ReadLinesSteps
    <2>3. <<>> \in Seq(Line(C)) /\ <<<<>>>> = Append(<<>>, <<>>)
      OBVIOUS
    <2>4. PICK m \in Seq(Line(C)) : m = <<>>
      BY <2>3
    <2>5. ReadLines(m) = Append(m, e)
      BY <1>1, <2>2, <2>3, <2>4
    <2>6. Lines(m) = m
      BY <1>2, <2>4, <2>5
    <2> QED
      BY <1>5, <2>1, <2>4, <2>6
  <1>6. CASE ~tr /\ ls # <<>>
    <2>1. PICK m \in Seq(Line(C)), l \in Line(C) : ls = Append(m, l)
      BY <1>6, SequenceEmptyOrAppend
    <2>2. JoinLines(ls, tr) = Mapped(Ended(C), m) \o l
      <3>1. JoinLines(Append(m, l), FALSE) = Mapped(Ended(C), m) \o l
        BY JoinLinesOpen
      <3> QED
        BY <1>6, <2>1, <3>1
    <2>3. PICK t \in Seq(C) : t = Mapped(Ended(C), m)
      BY <1>3
    <2>4. ReadLines(t) = Append(m, e) /\ (t = <<>> \/ Last(t) = NL)
      BY <1>3, <2>3
    <2>5. Front(ls) = m /\ Last(ls) = l
      BY <2>1, FrontAndLast
    <2>6. CASE l = e
      <3>1. t \o <<>> = t
        BY ConcatEmptySeq
      <3>2. JoinLines(ls, tr) = t
        BY <1>1, <2>2, <2>3, <2>6, <3>1
      <3>3. Lines(t) = m
        BY <1>2, <2>4
      <3> QED
        BY <1>1, <1>6, <2>5, <2>6, <3>2, <3>3
    <2>7. CASE l # e
      <3>1. ReadLines(t \o l) = Append(m, e \o l)
        <4>1. \A k \in Line(C) : ReadLines(t \o k) = Append(m, e \o k) /\ e \o k \in Line(C)
          BY <2>4, LineIsRead, ZenonT(30)
        <4> QED
          BY <4>1
      <3>2. <<>> \o l = l
        BY DEF Line
      <3>3. ReadLines(t \o l) = Append(m, l)
        BY <1>1, <3>1, <3>2
      <3>4. Last(Append(m, l)) # <<>>
        BY <1>1, <2>7, FrontAndLast
      <3>5. Lines(t \o l) = Append(m, l)
        BY <3>3, <3>4 DEF Lines
      <3> QED
        BY <1>1, <2>1, <2>2, <2>3, <2>5, <2>7, <3>5
    <2> QED
      BY <2>6, <2>7
  <1> QED
    BY <1>4, <1>5, <1>6

(***************************************************************************)
(* Replacing a range                                                       *)
(***************************************************************************)
\* The lines put in the place of those from first to last
Spliced(old, put, first, last) ==
  SubSeq(old, 1, first - 1) \o put \o SubSeq(old, last + 1, Len(old))

IsSplice(w, X, old, put, first, last) ==
  LET n == first - 1 + Len(put) + Len(old) - last
  IN  /\ w \in Seq(X) /\ Len(w) = n
      /\ \A k \in 1..n : w[k] = IF k < first THEN old[k]
                                ELSE IF k < first + Len(put) THEN put[k - first + 1]
                                ELSE old[k - Len(put) + last - first + 1]

LEMMA SplicedIs ==
  ASSUME NEW X, NEW old \in Seq(X), NEW put \in Seq(X), NEW first \in Nat, NEW last \in Nat,
         first # 0, first <= last, last <= Len(old)
  PROVE  IsSplice(Spliced(old, put, first, last), X, old, put, first, last)
  <1>0. Len(old) \in Nat /\ Len(put) \in Nat /\ \A i \in 1..Len(old) : old[i] \in X
    OBVIOUS
  <1>1. PICK u : u = SubSeq(old, 1, first - 1)
    OBVIOUS
  <1>2. PICK v : v = SubSeq(old, last + 1, Len(old))
    OBVIOUS
  <1>3. /\ u \in Seq(X) /\ Len(u) = first - 1
        /\ \A i \in 1..first - 1 : u[i] = old[i]
    <2>1. 1 \in Int /\ first - 1 \in Int /\ \A i \in 1..first - 1 : old[i] \in X
      BY <1>0
    <2>2. /\ u \in Seq(X)
          /\ Len(u) = IF 1 <= first - 1 THEN first - 1 - 1 + 1 ELSE 0
          /\ \A i \in 1..first - 1 - 1 + 1 : u[i] = old[1 + i - 1]
      BY <1>1, <2>1, SubSeqProperties
    <2> QED
      BY <2>2
  <1>4. /\ v \in Seq(X) /\ Len(v) = Len(old) - last
        /\ \A i \in 1..Len(old) - last : v[i] = old[last + i]
    <2>1. last + 1 \in Int /\ Len(old) \in Int /\ \A i \in last + 1..Len(old) : old[i] \in X
      BY <1>0
    <2>2. /\ v \in Seq(X)
          /\ Len(v) = IF last + 1 <= Len(old) THEN Len(old) - (last + 1) + 1 ELSE 0
          /\ \A i \in 1..Len(old) - (last + 1) + 1 : v[i] = old[last + 1 + i - 1]
      BY <1>2, <2>1, SubSeqProperties
    <2> QED
      BY <1>0, <2>2
  <1>5. PICK w : w = u \o put
    OBVIOUS
  <1>6. /\ w \in Seq(X) /\ Len(w) = first - 1 + Len(put)
        /\ \A i \in 1..first - 1 + Len(put) :
             w[i] = IF i < first THEN old[i] ELSE put[i - first + 1]
    <2>1. /\ w \in Seq(X) /\ Len(w) = first - 1 + Len(put)
          /\ \A i \in 1..first - 1 + Len(put) :
               w[i] = IF i <= first - 1 THEN u[i] ELSE put[i - (first - 1)]
      <3>1. /\ u \o put \in Seq(X) /\ Len(u \o put) = Len(u) + Len(put)
            /\ \A i \in 1..Len(u) + Len(put) :
                 (u \o put)[i] = IF i <= Len(u) THEN u[i] ELSE put[i - Len(u)]
        BY <1>3, ConcatProperties
      <3>2. Len(u) = first - 1
        BY <1>3
      <3> QED
        BY <1>5, <3>1, <3>2
    <2>2. \A i \in 1..first - 1 + Len(put) :
            /\ i <= first - 1 <=> i < first
            /\ i < first => i \in 1..first - 1
            /\ i - (first - 1) = i - first + 1
      BY <1>0
    <2> QED
      BY <1>3, <2>1, <2>2
  <1>7. PICK z : z = w \o v
    OBVIOUS
  <1>8. /\ z \in Seq(X) /\ Len(z) = first - 1 + Len(put) + (Len(old) - last)
        /\ \A i \in 1..first - 1 + Len(put) + (Len(old) - last) :
             z[i] = IF i <= first - 1 + Len(put) THEN w[i] ELSE v[i - (first - 1 + Len(put))]
    <2>1. /\ w \o v \in Seq(X) /\ Len(w \o v) = Len(w) + Len(v)
          /\ \A i \in 1..Len(w) + Len(v) :
               (w \o v)[i] = IF i <= Len(w) THEN w[i] ELSE v[i - Len(w)]
      <3>1. w \in Seq(X) /\ v \in Seq(X)
        BY <1>4, <1>6
      <3> QED
        BY <3>1, ConcatProperties
    <2>2. Len(w) = first - 1 + Len(put) /\ Len(v) = Len(old) - last
      BY <1>4, <1>6
    <2> QED
      BY <1>7, <2>1, <2>2
  <1>9. Spliced(old, put, first, last) = z
    BY <1>1, <1>2, <1>5, <1>7 DEF Spliced
  <1>10. ASSUME NEW k \in 1..first - 1 + Len(put) + Len(old) - last
         PROVE  z[k] = IF k < first THEN old[k]
                       ELSE IF k < first + Len(put) THEN put[k - first + 1]
                       ELSE old[k - Len(put) + last - first + 1]
    <2>0. k \in 1..first - 1 + Len(put) + (Len(old) - last)
      BY <1>0
    <2>1. CASE k <= first - 1 + Len(put)
      <3>1. k \in 1..first - 1 + Len(put) /\ k < first + Len(put)
        BY <1>0, <2>1
      <3>2. z[k] = IF k < first THEN old[k] ELSE put[k - first + 1]
        BY <1>6, <1>8, <2>0, <2>1, <3>1
      <3> QED
        BY <3>1, <3>2
    <2>2. CASE ~(k <= first - 1 + Len(put))
      <3>1. /\ ~(k < first) /\ ~(k < first + Len(put))
            /\ k - (first - 1 + Len(put)) \in 1..Len(old) - last
            /\ last + (k - (first - 1 + Len(put))) = k - Len(put) + last - first + 1
        BY <1>0, <2>0, <2>2
      <3>2. z[k] = v[k - (first - 1 + Len(put))]
        BY <1>8, <2>0, <2>2
      <3>3. v[k - (first - 1 + Len(put))] = old[last + (k - (first - 1 + Len(put)))]
        BY <1>4, <3>1
      <3> QED
        BY <3>1, <3>2, <3>3
    <2> QED
      BY <2>1, <2>2
  <1>11. first - 1 + Len(put) + (Len(old) - last) = first - 1 + Len(put) + Len(old) - last
    BY <1>0
  <1>12. IsSplice(z, X, old, put, first, last)
    BY <1>8, <1>10, <1>11 DEF IsSplice
  <1> QED
    BY <1>9, <1>12

(***************************************************************************)
(* The properties                                                          *)
(***************************************************************************)
TypeOK == doc \in Seq(Character) /\ edit \in Change

LEMMA TextsAreTyped == Spec => []TypeOK
  <1>1. Init => TypeOK
    BY TextAssumption DEF Init, TypeOK
  <1>2. TypeOK /\ [Grow]_<<doc, edit>> => TypeOK'
    <2> SUFFICES ASSUME TypeOK, [Grow]_<<doc, edit>>
                 PROVE  TypeOK'
      OBVIOUS
    <2>1. CASE Grow
      <3>1. PICK c \in Symbols : doc' = Append(doc, c)
        BY <2>1 DEF Grow
      <3>2. c \in Character
        BY DEF Character
      <3> QED
        BY <2>1, <3>1, <3>2 DEF Grow, TypeOK
    <2>2. CASE UNCHANGED <<doc, edit>>
      BY <2>2 DEF TypeOK
    <2> QED
      BY <2>1, <2>2
  <1> QED
    BY <1>1, <1>2, PTL DEF Spec

LEMMA CharacterHasEnds == HasEnds(Character) /\ Bom \in Character
  BY DEF HasEnds, Character

\* Whatever the bytes of a file and the text it is to have, its backup has its mark and,
\* line ends aside, its text; the rewritten file has the mark and the line ends of the old
\* one; and its own backup is that file to the byte (read_text_file, encode_text,
\* patch_apply).
THEOREM BytesAreAlwaysKept == Spec => []BytesAreKept
  <1>1. TypeOK => BytesAreKept
    <2> SUFFICES ASSUME TypeOK
                 PROVE  BytesAreKept
      OBVIOUS
    <2> DEFINE text == edit.new_content
    <2>1. doc \in Seq(Character) /\ text \in Seq(Character)
      BY DEF TypeOK, Change
    <2>2. BackupKeepsText
      BY <2>1, BackupKeeps, CharacterHasEnds DEF BackupKeepsText
    <2> HIDE DEF text
    <2>3. PICK w : w = Rewrite(doc, text)
      OBVIOUS
    <2>4. /\ w \in Seq(Character)
          /\ FileBom(doc) => FileBom(w)
          /\ \A i \in DOMAIN w :
               w[i] = NL => (FileCrlf(doc) <=> i > 1 /\ w[i - 1] = CR)
          /\ ~FileCrlf(doc) => \A i \in DOMAIN w : w[i] # CR
          /\ Backup(w) = w
      BY <2>1, <2>3, RewriteKeeps, CharacterHasEnds
    <2>5. ~FileCrlf(doc) => CR \notin ToSet(w)
      BY <2>4 DEF ToSet
    <2>6. Written = w
      BY <2>3 DEF Written, text
    <2> QED
      BY <2>2, <2>4, <2>5, <2>6 DEF BytesAreKept, StyleIsKept
  <1> QED
    BY <1>1, TextsAreTyped, PTL

\* An edit that is accepted for a content can be applied to it, whatever the selector, and
\* a change that was staged on a content rebases on it (change_can_rebase_on_content,
\* apply_change_to_content, edit_*).
THEOREM StagingAlwaysAgrees == Spec => []StagingAgrees
  <1>1. TypeOK => StagingAgrees
    <2> SUFFICES ASSUME TypeOK
                 PROVE  StagingAgrees
      OBVIOUS
    <2>1. edit \in Change
      BY DEF TypeOK
    <2>2. CanRebase(edit, doc) => CanApply(edit, doc)
      BY DEF CanRebase, CanApply
    <2>3. ASSUME CanApply(edit, doc), edit.expected_content = <<>>
          PROVE  CanRebase(Stage(edit, doc), doc)
      BY <2>1, <2>3, StagedFits DEF Change, CanStage
    <2> QED
      BY <2>2, <2>3 DEF StagingAgrees, CanStage
  <1> QED
    BY <1>1, TextsAreTyped, PTL

\* The candidates of a selector are, in every text, the occurrences a reader would number
\* that its anchors allow, in document order, and two of them never overlap
\* (locate_candidates).
THEOREM CandidatesAreAlwaysNumbered == Spec => []CandidatesAreNumbered
  <1>1. TypeOK => CandidatesAreNumbered
    <2> SUFFICES ASSUME TypeOK, edit.operation \in BlockOps
                 PROVE  LET sel == edit.selector
                            found == LocateCandidates(doc, sel)
                        IN  /\ ToSet(found) =
                                 {i \in Numbered(doc, sel.query) : AnchorsAllow(doc, sel, i)}
                            /\ \A i, j \in DOMAIN found : i < j => found[i] < found[j]
      BY DEF CandidatesAreNumbered
    <2>1. PICK d, sel, q : d = doc /\ sel = edit.selector /\ q = sel.query
      OBVIOUS
    <2>2. d \in Seq(Character) /\ q \in Seq(Character)
      BY <2>1 DEF TypeOK, Change, Selector
    <2>3. PICK found : found = LocateCandidates(d, sel)
      OBVIOUS
    <2>4. FoundFrom(d, sel, 1, found)
      <3>1. CASE q = <<>>
        <4>1. found = <<>>
          BY <2>1, <2>3, <3>1, LocateIs
        <4>2. Matches(d, q) = {}
          BY <3>1 DEF Matches
        <4>3. NumberedFrom(d, q, 1, {})
          BY <4>2 DEF NumberedFrom
        <4>4. <<>> \in Seq({}) /\ DOMAIN <<>> = {}
          OBVIOUS
        <4> QED
          BY <2>1, <4>1, <4>3, <4>4 DEF FoundFrom
      <3>2. CASE q # <<>>
        BY <2>1, <2>2, <2>3, <3>2, LocateIs, ScanFinds
      <3> QED
        BY <3>1, <3>2
    <2>5. PICK S : /\ NumberedFrom(d, q, 1, S)
                   /\ found \in Seq(S)
                   /\ \A i \in S : AnchorsAllow(d, sel, i) <=> \E k \in DOMAIN found : found[k] = i
                   /\ \A k, l \in DOMAIN found : k < l => found[k] < found[l]
      BY <2>1, <2>4 DEF FoundFrom
    <2>6. Numbered(d, q) = S
      BY <2>2, <2>5, NumberedIs
    <2>7. \A k \in DOMAIN found : found[k] \in S
      BY <2>5
    <2>8. ToSet(found) = {i \in S : AnchorsAllow(d, sel, i)}
      BY <2>5, <2>7 DEF ToSet
    <2> QED
      BY <2>1, <2>3, <2>5, <2>6, <2>8
  <1> QED
    BY <1>1, TextsAreTyped, PTL

\* Replacing a range of lines keeps every other line of every text, whatever its line ends;
\* at worst an empty line at the end of the result is lost (make_document_from_content,
\* apply_change_to_content).
THEOREM RangeReplacementAlwaysKeepsText == Spec => []RangeReplacementKeepsText
  <1>1. TypeOK => RangeReplacementKeepsText
    <2> SUFFICES ASSUME TypeOK, edit.operation = "replace_range", CanApply(edit, doc)
                 PROVE  LET new == Lines(ApplyChange(edit, doc))
                        IN  \/ new = WantedLines
                            \/ new = Front(WantedLines) /\ Last(WantedLines) = <<>>
      BY DEF RangeReplacementKeepsText
    <2>1. PICK first, last : first = edit.line_start /\ last = edit.line_end
      OBVIOUS
    <2>2. PICK old, put : old = Lines(doc) /\ put = Lines(edit.new_content)
      OBVIOUS
    <2>3. PICK X : X = Line(Character)
      OBVIOUS
    <2>4. first \in Nat /\ last \in Nat
      BY <2>1 DEF TypeOK, Change
    <2>5. old \in Seq(X) /\ put \in Seq(X)
      <3>1. doc \in Seq(Character) /\ edit.new_content \in Seq(Character)
        BY DEF TypeOK, Change
      <3> QED
        BY <2>2, <2>3, <3>1, LinesType
    <2>6. first # 0 /\ first <= last /\ last <= Len(old)
      <3>1. ValidRange(first, last, doc)
        BY <2>1 DEF CanApply, BlockOps
      <3> QED
        BY <2>2, <3>1 DEF ValidRange
    <2>7. PICK w : w = Spliced(old, put, first, last)
      OBVIOUS
    <2>8. PICK n : n = first - 1 + Len(put) + Len(old) - last
      OBVIOUS
    <2>9. /\ w \in Seq(X) /\ Len(w) = n
          /\ \A k \in 1..n : w[k] = IF k < first THEN old[k]
                                    ELSE IF k < first + Len(put) THEN put[k - first + 1]
                                    ELSE old[k - Len(put) + last - first + 1]
      <3>1. IsSplice(w, X, old, put, first, last)
        BY <2>4, <2>5, <2>6, <2>7, SplicedIs
      <3> QED
        BY <2>8, <3>1 DEF IsSplice
    <2>10. WantedLines = w
      <3>1. WantedLines = [k \in 1..n |-> IF k < first THEN old[k]
                                          ELSE IF k < first + Len(put) THEN put[k - first + 1]
                                          ELSE old[k - Len(put) + last - first + 1]]
        BY <2>1, <2>2, <2>8 DEF WantedLines
      <3>2. w = [k \in 1..n |-> w[k]]
        BY <2>9
      <3> QED
        BY <2>9, <3>1, <3>2
    <2>11. PICK tr \in BOOLEAN : ApplyChange(edit, doc) = JoinLines(w, tr)
      <3> DEFINE t == EndsWithNewline(doc) \/ EndsWithNewline(edit.new_content)
      <3>1. ReplaceRange(edit, doc) = JoinLines(w, t)
        BY <2>1, <2>2, <2>7 DEF ReplaceRange, Spliced
      <3>2. t \in BOOLEAN
        OBVIOUS
      <3>3. ApplyChange(edit, doc) = ReplaceRange(edit, doc)
        BY DEF ApplyChange
      <3> HIDE DEF t
      <3> QED
        BY <3>1, <3>2, <3>3
    <2>12. Lines(JoinLines(w, tr))
             = IF ~tr /\ w # <<>> /\ Last(w) = <<>> THEN Front(w) ELSE w
      <3>1. NL \in Character
        BY CharacterHasEnds DEF HasEnds
      <3> QED
        BY <2>3, <2>9, <3>1, LinesJoined
    <2> QED
      BY <2>10, <2>11, <2>12
  <1> QED
    BY <1>1, TextsAreTyped, PTL

(***************************************************************************)
(* What MarkupCheck drives                                                 *)
(***************************************************************************)
\* Files, tags, attributes and edits are what the constants say.
MarkupTypes ==
  \/ form = "markdown" /\ subject \in MdDocSet /\ change \in MdEditSet
  \/ form = "html" /\ subject \in Seq(TagSet)
  \/ form = "attrs" /\ subject \in AttrTextSet /\ change \in AttrEditSet

LEMMA MarkupIsTyped == MarkupSpec => []MarkupTypes
  <1>1. MarkupInit => MarkupTypes
    <2> SUFFICES ASSUME MarkupInit PROVE MarkupTypes
      OBVIOUS
    <2>1. <<>> \in Seq(MdLineSet) /\ <<>> \in Seq(TagSet)
      OBVIOUS
    <2>2. MdEmpty \in MdDocSet /\ MdDoc(<<>>, FALSE) \in MdDocSet
      BY <2>1 DEF MdEmpty, MdDoc, MdDocSet
    <2>3. CASE form = "markdown" /\ subject \in {MdEmpty, MdDoc(<<>>, FALSE)} /\ change \in MdEdits
      BY <2>2, <2>3, MarkupAssumption DEF MarkupTypes
    <2>4. CASE form = "html" /\ subject = <<>>
      BY <2>1, <2>4 DEF MarkupTypes
    <2>5. CASE form = "attrs" /\ subject \in AttrTexts /\ change \in AttrEdits
      BY <2>5, MarkupAssumption DEF MarkupTypes
    <2> QED
      BY <2>3, <2>4, <2>5 DEF MarkupInit
  <1>2. MarkupTypes /\ [MarkupGrow]_structureVars => MarkupTypes'
    <2> SUFFICES ASSUME MarkupTypes, [MarkupGrow]_structureVars PROVE MarkupTypes'
      OBVIOUS
    <2>1. CASE UNCHANGED structureVars
      BY <2>1 DEF MarkupTypes, structureVars
    <2>2. ASSUME form = "markdown", UNCHANGED <<form, change>>,
                 NEW l \in MdLines, subject' = [subject EXCEPT !.lines = Append(@, l)]
          PROVE  MarkupTypes'
      <3>1. subject \in MdDocSet /\ change \in MdEditSet
        BY <2>2 DEF MarkupTypes
      <3>2. l \in MdLineSet
        BY MarkupAssumption
      <3>3. subject.lines \in Seq(MdLineSet)
        BY <3>1 DEF MdDocSet
      <3>4. Append(subject.lines, l) \in Seq(MdLineSet)
        BY <3>2, <3>3
      <3>5. PICK next \in Seq(MdLineSet) : next = Append(subject.lines, l)
        BY <3>4, Zenon
      <3>6. subject' = [subject EXCEPT !.lines = next]
        BY <2>2, <3>5
      <3>7. subject' \in MdDocSet
        BY <3>1, <3>6 DEF MdDocSet
      <3> QED
        BY <2>2, <3>1, <3>7 DEF MarkupTypes
    <2>3. ASSUME form = "html", UNCHANGED <<form, change>>,
                 NEW t \in HtmlTags, subject' = Append(subject, t)
          PROVE  MarkupTypes'
      <3>1. t \in TagSet /\ subject \in Seq(TagSet)
        BY <2>3, MarkupAssumption DEF MarkupTypes
      <3>2. Append(subject, t) \in Seq(TagSet)
        BY <3>1
      <3> QED
        BY <2>3, <3>2 DEF MarkupTypes
    <2> QED
      BY <2>1, <2>2, <2>3 DEF MarkupGrow
  <1> QED
    BY <1>1, <1>2, PTL DEF MarkupSpec

(***************************************************************************)
(* Sections of Markdown files.  An edit of a section splices a heading and *)
(* a body between the lines before the heading and those from the          *)
(* section's end on (Rewritten); a section is still one afterwards, and    *)
(* the headings outside of it keep the lines that follow (SegmentKept).    *)
(***************************************************************************)
\* Lines U are L with the heading h and the body B in place of what is from line i up to
\* line e; without such a heading, they come last.
Rewritten(U, L, i, h, B, e) ==
  /\ U \in Seq(MdLineSet) /\ Len(U) = i + Len(B) + Len(L) + 1 - e
  /\ \A k \in 1..i - 1 : U[k] = L[k]
  /\ U[i] = h
  /\ \A k \in 1..Len(B) : U[i + k] = B[k]
  /\ \A k \in e..Len(L) : U[i + Len(B) + 1 + k - e] = L[k]

\* Line i is the first h, or there is none and i is behind the last; what it heads ends
\* before line e.
Section(L, i, h, e) ==
  /\ i \in 1..Len(L) + 1 /\ e \in i..Len(L) + 1
  /\ \A k \in 1..i - 1 : L[k] # h
  /\ i <= Len(L) => L[i] = h /\ i < e
  /\ e <= Len(L) => L[e].level \in 1..h.level
  /\ \A k \in i + 1..e - 1 : L[k].level \notin 1..h.level

\* Line k is a heading and line m - 1 the last that follows it before the next one.
Segment(L, k, m) ==
  /\ k \in 1..Len(L) /\ L[k].level > 0
  /\ m \in k + 1..Len(L) + 1
  /\ m <= Len(L) => L[m].level > 0
  /\ \A j \in k + 1..m - 1 : L[j].level = 0

Entry(L, k, m) == <<L[k], SubSeq(L, k + 1, m - 1)>>

LEMMA LineLevel ==
  ASSUME NEW L \in Seq(MdLineSet), NEW k \in 1..Len(L)
  PROVE  L[k] \in MdLineSet /\ L[k].level \in Nat
  <1>1. L[k] \in MdLineSet
    OBVIOUS
  <1> QED
    BY <1>1 DEF MdLineSet

\* The first heading
LEMMA HeadingIs ==
  ASSUME NEW d \in MdDocSet, NEW level, NEW title
  PROVE  LET i == Heading(d, level, title) IN
         \/ i = 0 /\ \A k \in 1..Len(d.lines) : d.lines[k] # MdLine(level, title)
         \/ /\ i \in 1..Len(d.lines) /\ d.lines[i] = MdLine(level, title)
            /\ \A k \in 1..i - 1 : d.lines[k] # MdLine(level, title)
  <1>1. PICK L \in Seq(MdLineSet) : L = d.lines
    BY DEF MdDocSet
  <1>2. PICK A : A = {i \in 1..Len(L) : L[i] = MdLine(level, title)}
    OBVIOUS
  <1>3. Heading(d, level, title) = IF A = {} THEN 0 ELSE Min(A)
    <2>1. DOMAIN L = 1..Len(L)
      OBVIOUS
    <2> QED
      BY <1>1, <1>2, <2>1 DEF Heading
  <1>4. CASE A = {}
    BY <1>1, <1>2, <1>3, <1>4
  <1>5. CASE A # {}
    <2>1. A \in SUBSET Nat
      BY <1>2
    <2>2. PICK i : i = Min(A)
      OBVIOUS
    <2>3. i \in A /\ \A y \in A : i <= y
      BY <1>5, <2>1, <2>2, MinIs
    <2>4. /\ i \in 1..Len(L) /\ L[i] = MdLine(level, title)
          /\ \A k \in 1..i - 1 : L[k] # MdLine(level, title)
      BY <1>2, <2>3
    <2> QED
      BY <1>1, <1>3, <1>5, <2>2, <2>4
  <1> QED
    BY <1>4, <1>5

\* The section that a heading begins
LEMMA SectionEndIs ==
  ASSUME NEW d \in MdDocSet, NEW i \in 1..Len(d.lines), NEW h \in MdLineSet,
         d.lines[i] = h, \A k \in 1..i - 1 : d.lines[k] # h
  PROVE  Section(d.lines, i, h, SectionEnd(d, i))
  <1>1. PICK L \in Seq(MdLineSet) : L = d.lines
    BY DEF MdDocSet
  <1>2. PICK A : A = {j \in i + 1..Len(L) : L[j].level \in 1..L[i].level}
    OBVIOUS
  <1>3. SectionEnd(d, i) = Min(A \cup {Len(L) + 1})
    BY <1>1, <1>2 DEF SectionEnd
  <1>4. A \cup {Len(L) + 1} \in SUBSET Nat /\ A \subseteq i + 1..Len(L)
    BY <1>1, <1>2
  <1>5. PICK e : e = Min(A \cup {Len(L) + 1})
    OBVIOUS
  <1>6. e \in A \cup {Len(L) + 1} /\ \A y \in A \cup {Len(L) + 1} : e <= y
    BY <1>4, <1>5, MinIs
  <1>7. e \in i + 1..Len(L) + 1
    BY <1>1, <1>4, <1>6
  <1>8. e <= Len(L) => L[e].level \in 1..h.level
    BY <1>1, <1>2, <1>6, <1>7
  <1>9. ASSUME NEW k \in i + 1..e - 1
        PROVE  L[k].level \notin 1..h.level
    <2>1. k \in i + 1..Len(L) /\ ~(e <= k)
      BY <1>1, <1>7, <1>9
    <2> QED
      BY <1>1, <1>2, <1>6, <2>1
  <1>10. /\ i \in 1..Len(L) + 1 /\ e \in i..Len(L) + 1 /\ L[i] = h /\ i < e
         /\ \A k \in 1..i - 1 : L[k] # h
    BY <1>1, <1>7
  <1>11. Section(L, i, h, e)
    BY <1>8, <1>9, <1>10 DEF Section
  <1> QED
    BY <1>1, <1>3, <1>5, <1>11

\* A heading ends where it ends.
LEMMA SectionEndsOnce ==
  ASSUME NEW L \in Seq(MdLineSet), NEW h \in MdLineSet, NEW i, NEW e, NEW f,
         i <= Len(L), Section(L, i, h, e), Section(L, i, h, f)
  PROVE  e = f
  <1>1. e \in i + 1..Len(L) + 1 /\ f \in i + 1..Len(L) + 1 /\ i \in Nat /\ Len(L) \in Nat
    BY DEF Section
  <1>2. CASE e < f
    <2>1. e \in i + 1..f - 1 /\ e <= Len(L)
      BY <1>1, <1>2
    <2> QED
      BY <2>1 DEF Section
  <1>3. CASE f < e
    <2>1. f \in i + 1..e - 1 /\ f <= Len(L)
      BY <1>1, <1>3
    <2> QED
      BY <2>1 DEF Section
  <1> QED
    BY <1>1, <1>2, <1>3

\* Text after text whose last line has its end
LEMMA ConcatIs ==
  ASSUME NEW a, NEW b, a.lines \in Seq(MdLineSet), b.lines \in Seq(MdLineSet),
         a = MdDoc(a.lines, a.ended), b = MdDoc(b.lines, b.ended), a.ended
  PROVE  Concat(a, b) = MdDoc(a.lines \o b.lines,
                              IF a.lines = <<>> \/ b.lines # <<>> THEN b.ended ELSE a.ended)
  <1>1. CASE a.lines = <<>>
    <2>1. a.lines \o b.lines = b.lines
      BY <1>1
    <2> QED
      BY <1>1, <2>1 DEF Concat
  <1>2. CASE a.lines # <<>> /\ b.lines = <<>>
    <2>1. a.lines \o b.lines = a.lines
      BY <1>2
    <2> QED
      BY <1>2, <2>1 DEF Concat
  <1>3. CASE a.lines # <<>> /\ b.lines # <<>>
    BY <1>3 DEF Concat
  <1> QED
    BY <1>1, <1>2, <1>3

\* After the edit the section is the heading with the body.
LEMMA SectionAfter ==
  ASSUME NEW L \in Seq(MdLineSet), NEW B \in Seq(MdLineSet), NEW U, NEW h \in MdLineSet,
         NEW i, NEW e, Section(L, i, h, e), Rewritten(U, L, i, h, B, e),
         h.level > 0, \A k \in 1..Len(B) : B[k].level = 0
  PROVE  Section(U, i, h, i + Len(B) + 1) /\ i <= Len(U)
  <1>1. /\ i \in 1..Len(L) + 1 /\ e \in i..Len(L) + 1 /\ Len(L) \in Nat /\ Len(B) \in Nat
        /\ Len(U) = i + Len(B) + Len(L) + 1 - e
    BY DEF Section, Rewritten
  <1>2. \A k \in 1..i - 1 : U[k] # h
    BY <1>1 DEF Section, Rewritten
  <1>3. PICK f : f = i + Len(B) + 1
    OBVIOUS
  <1>4. i <= Len(U) /\ U[i] = h /\ i < f /\ f \in i..Len(U) + 1 /\ i \in 1..Len(U) + 1
    BY <1>1, <1>3 DEF Rewritten
  <1>5. ASSUME f <= Len(U)
        PROVE  U[f].level \in 1..h.level
    <2>1. e <= Len(L) /\ e \in e..Len(L)
      BY <1>1, <1>3, <1>5
    <2>2. U[i + Len(B) + 1 + e - e] = L[e]
      BY <2>1 DEF Rewritten
    <2>3. i + Len(B) + 1 + e - e = f
      BY <1>1, <1>3
    <2> QED
      BY <2>1, <2>2, <2>3 DEF Section
  <1>6. ASSUME NEW k \in i + 1..f - 1
        PROVE  U[k].level \notin 1..h.level
    <2>1. k - i \in 1..Len(B) /\ i + (k - i) = k
      BY <1>1, <1>3
    <2>2. U[i + (k - i)] = B[k - i]
      BY <2>1 DEF Rewritten
    <2>3. U[k].level = 0
      BY <2>1, <2>2
    <2> QED
      BY <2>3
  <1>7. Section(U, i, h, f)
    BY <1>2, <1>4, <1>5, <1>6 DEF Section
  <1> QED
    BY <1>3, <1>4, <1>7

\* The lines of a section that ends before line e
SectionIs(d, level, title, e) ==
  SectionLines(d, level, title) = SubSeq(d.lines, Heading(d, level, title), e - 1)

LEMMA SectionLinesAre ==
  ASSUME NEW d \in MdDocSet, NEW level, NEW title, NEW e,
         MdLine(level, title) \in MdLineSet, level > 0,
         Heading(d, level, title) # 0,
         Section(d.lines, Heading(d, level, title), MdLine(level, title), e)
  PROVE  SectionIs(d, level, title, e)
  <1>1. PICK L \in Seq(MdLineSet) : L = d.lines
    BY DEF MdDocSet
  <1>2. PICK i : i = Heading(d, level, title)
    OBVIOUS
  <1>3. PICK h : h = MdLine(level, title)
    OBVIOUS
  <1>4. h.level = level /\ level \in Nat
    BY <1>3 DEF MdLine, MdLineSet
  <1>5. i # 0 /\ Section(L, i, h, e)
    BY <1>1, <1>2, <1>3
  <1>6. i \in 1..Len(L)
    BY <1>1, <1>2, <1>5, HeadingIs
  <1>7. i < e /\ e \in i + 1..Len(L) + 1 /\ Len(L) \in Nat
    BY <1>5, <1>6 DEF Section
  <1> DEFINE Inside(j) == \A k \in i + 1..j : L[k].level = 0 \/ L[k].level > level
  <1>8. PICK A : A = {j \in i..Len(L) : Inside(j)}
    OBVIOUS
  <1>9. SectionLines(d, level, title) = SubSeq(L, i, Max(A))
    BY <1>1, <1>2, <1>5, <1>8 DEF SectionLines
  <1>10. e - 1 \in A
    <2>1. e - 1 \in i..Len(L)
      BY <1>6, <1>7
    <2>2. ASSUME NEW k \in i + 1..e - 1
          PROVE  L[k].level = 0 \/ L[k].level > level
      <3>1. L[k].level \notin 1..level
        BY <1>4, <1>5 DEF Section
      <3>2. k \in 1..Len(L)
        BY <1>6, <1>7
      <3>3. L[k].level \in Nat
        BY <3>2, LineLevel
      <3> QED
        BY <1>4, <3>1, <3>3
    <2> QED
      BY <1>8, <2>1, <2>2
  <1>11. ASSUME NEW j \in A, j > e - 1
         PROVE  FALSE
    <2>1. j \in i..Len(L) /\ e \in i + 1..j /\ e <= Len(L)
      BY <1>6, <1>7, <1>8, <1>11
    <2>2. L[e].level = 0 \/ L[e].level > level
      BY <1>8, <2>1
    <2>3. L[e].level \in 1..level
      BY <1>4, <1>5, <2>1 DEF Section
    <2> QED
      BY <1>4, <2>2, <2>3
  <1>12. A \in SUBSET (1..Len(L))
    BY <1>6, <1>8
  <1>13. PICK x : x = Max(A)
    OBVIOUS
  <1>14. x \in A /\ \A y \in A : y <= x
    BY <1>7, <1>10, <1>12, <1>13, MaxIs
  <1>15. x = e - 1
    BY <1>6, <1>7, <1>10, <1>11, <1>12, <1>14
  <1> QED
    BY <1>1, <1>2, <1>9, <1>13, <1>15 DEF SectionIs

\* Two rewrites by the same heading and body are one.
LEMMA RewrittenTwice ==
  ASSUME NEW L \in Seq(MdLineSet), NEW B \in Seq(MdLineSet), NEW U, NEW V,
         NEW h, NEW i \in Nat \ {0}, NEW e \in Nat, i <= e, e <= Len(L) + 1,
         Rewritten(U, L, i, h, B, e), Rewritten(V, U, i, h, B, i + Len(B) + 1)
  PROVE  V = U
  <1>1. Len(L) \in Nat /\ Len(B) \in Nat /\ Len(U) = i + Len(B) + Len(L) + 1 - e
    BY DEF Rewritten
  <1>2. Len(V) = Len(U) /\ U \in Seq(MdLineSet) /\ V \in Seq(MdLineSet)
    BY <1>1 DEF Rewritten
  <1>3. ASSUME NEW k \in 1..Len(U)
        PROVE  V[k] = U[k]
    <2>1. CASE k <= i
      BY <2>1 DEF Rewritten
    <2>2. CASE k > i /\ k <= i + Len(B)
      <3>1. k - i \in 1..Len(B) /\ i + (k - i) = k
        BY <1>1, <2>2
      <3>2. V[i + (k - i)] = B[k - i]
        BY <3>1 DEF Rewritten
      <3>3. U[i + (k - i)] = B[k - i]
        BY <3>1 DEF Rewritten
      <3> QED
        BY <3>1, <3>2, <3>3
    <2>3. CASE k > i + Len(B)
      <3>1. k \in i + Len(B) + 1..Len(U)
        BY <1>1, <2>3
      <3>2. V[i + Len(B) + 1 + k - (i + Len(B) + 1)] = U[k]
        BY <3>1 DEF Rewritten
      <3>3. i + Len(B) + 1 + k - (i + Len(B) + 1) = k
        BY <1>1
      <3> QED
        BY <3>2, <3>3
    <2> QED
      BY <1>1, <2>1, <2>2, <2>3
  <1> QED
    BY <1>2, <1>3, SeqEqual

LEMMA OutlineIs ==
  ASSUME NEW d \in MdDocSet, NEW s
  PROVE  s \in Outline(d) <=>
           \E k \in 1..Len(d.lines), m \in 1..Len(d.lines) + 1 :
             Segment(d.lines, k, m) /\ s = Entry(d.lines, k, m)
  <1>1. PICK L \in Seq(MdLineSet) : L = d.lines
    BY DEF MdDocSet
  <1>2. PICK heads : heads = {i \in 1..Len(L) : L[i].level > 0}
    OBVIOUS
  <1> DEFINE Next(i) == Min({j \in heads : j > i} \cup {Len(L) + 1})
  <1>3. Outline(d) = {<<L[i], SubSeq(L, i + 1, Next(i) - 1)>> : i \in heads}
    <2>1. DOMAIN L = 1..Len(L)
      OBVIOUS
    <2> QED
      BY <1>1, <1>2, <2>1 DEF Outline
  <1>4. ASSUME NEW k \in heads, NEW m, m = Next(k)
        PROVE  Segment(L, k, m)
    <2>1. PICK A : A = {j \in heads : j > k}
      OBVIOUS
    <2>2. A \cup {Len(L) + 1} \in SUBSET Nat /\ A \subseteq k + 1..Len(L) /\ k \in 1..Len(L)
      BY <1>2, <2>1
    <2>3. m \in A \cup {Len(L) + 1} /\ \A y \in A \cup {Len(L) + 1} : m <= y
      BY <1>4, <2>1, <2>2, MinIs
    <2>4. m \in k + 1..Len(L) + 1 /\ (m <= Len(L) => m \in A)
      BY <2>2, <2>3
    <2>5. m <= Len(L) => L[m].level > 0
      BY <1>2, <2>1, <2>4
    <2>6. ASSUME NEW j \in k + 1..m - 1
          PROVE  L[j].level = 0
      <3>1. j \in 1..Len(L) /\ j > k /\ j < m
        BY <2>2, <2>4
      <3>2. j \notin A
        BY <2>3, <2>4, <3>1
      <3>3. ~(L[j].level > 0)
        BY <1>2, <2>1, <3>1, <3>2
      <3> QED
        BY <3>1, <3>3, LineLevel
    <2>7. L[k].level > 0
      BY <1>2
    <2> QED
      BY <2>2, <2>4, <2>5, <2>6, <2>7 DEF Segment
  <1>5. ASSUME NEW k \in 1..Len(L), NEW m \in 1..Len(L) + 1, Segment(L, k, m)
        PROVE  k \in heads /\ m = Next(k)
    <2>1. k \in heads
      BY <1>2, <1>5 DEF Segment
    <2>2. PICK n : n = Next(k)
      OBVIOUS
    <2>3. Segment(L, k, n)
      BY <1>4, <2>1, <2>2
    <2>4. n \in k + 1..Len(L) + 1 /\ m \in k + 1..Len(L) + 1
      BY <1>5, <2>3 DEF Segment
    <2>5. CASE n < m
      <3>1. n <= Len(L) /\ n \in k + 1..m - 1
        BY <2>4, <2>5
      <3>2. L[n].level = 0 /\ L[n].level > 0
        BY <1>5, <2>3, <3>1 DEF Segment
      <3> QED
        BY <3>2
    <2>6. CASE m < n
      <3>1. m <= Len(L) /\ m \in k + 1..n - 1
        BY <2>4, <2>6
      <3>2. L[m].level = 0 /\ L[m].level > 0
        BY <1>5, <2>3, <3>1 DEF Segment
      <3> QED
        BY <3>2
    <2> QED
      BY <2>1, <2>2, <2>4, <2>5, <2>6
  <1>6. ASSUME s \in Outline(d)
        PROVE  \E k \in 1..Len(L), m \in 1..Len(L) + 1 : Segment(L, k, m) /\ s = Entry(L, k, m)
    <2>1. PICK k \in heads : s = <<L[k], SubSeq(L, k + 1, Next(k) - 1)>>
      BY <1>3, <1>6
    <2>2. PICK m : m = Next(k)
      OBVIOUS
    <2>3. Segment(L, k, m)
      BY <1>4, <2>2
    <2>4. k \in 1..Len(L) /\ m \in 1..Len(L) + 1
      BY <2>3 DEF Segment
    <2>5. s = Entry(L, k, m)
      BY <2>1, <2>2 DEF Entry
    <2> QED
      BY <2>3, <2>4, <2>5
  <1>7. ASSUME NEW k \in 1..Len(L), NEW m \in 1..Len(L) + 1, Segment(L, k, m),
               s = Entry(L, k, m)
        PROVE  s \in Outline(d)
    <2>1. k \in heads /\ m = Next(k)
      BY <1>5, <1>7
    <2>2. s = <<L[k], SubSeq(L, k + 1, Next(k) - 1)>>
      BY <1>7, <2>1 DEF Entry
    <2> HIDE DEF Next
    <2> QED
      BY <1>3, <2>1, <2>2
  <1> QED
    BY <1>1, <1>6, <1>7

\* Two stretches of lines that agree
Agree(L, a, z, U, b, y) ==
  /\ a \in Nat \ {0} /\ z \in Nat /\ z <= Len(L)
  /\ b \in Nat \ {0} /\ y \in Nat /\ y <= Len(U) /\ z - a = y - b
  /\ \A k \in a..z : U[b + (k - a)] = L[k]

SameLines(L, a, z, U, b, y) == SubSeq(U, b, y) = SubSeq(L, a, z)

LEMMA AgreeingLines ==
  ASSUME NEW L \in Seq(MdLineSet), NEW U \in Seq(MdLineSet),
         NEW a, NEW z, NEW b, NEW y, Agree(L, a, z, U, b, y)
  PROVE  SameLines(L, a, z, U, b, y)
  <1>0. /\ a \in Nat \ {0} /\ z \in Nat /\ z <= Len(L)
        /\ b \in Nat \ {0} /\ y \in Nat /\ y <= Len(U) /\ z - a = y - b
    BY DEF Agree
  <1>1. \A k \in a..z : L[k] \in MdLineSet
    BY <1>0
  <1>2. \A k \in b..y : U[k] \in MdLineSet
    BY <1>0
  <1>3. /\ SubSeq(L, a, z) \in Seq(MdLineSet)
        /\ Len(SubSeq(L, a, z)) = IF a <= z THEN z - a + 1 ELSE 0
        /\ \A k \in 1..z - a + 1 : SubSeq(L, a, z)[k] = L[a + k - 1]
    BY <1>0, <1>1, SubSeqProperties
  <1>4. /\ SubSeq(U, b, y) \in Seq(MdLineSet)
        /\ Len(SubSeq(U, b, y)) = IF b <= y THEN y - b + 1 ELSE 0
        /\ \A k \in 1..y - b + 1 : SubSeq(U, b, y)[k] = U[b + k - 1]
    BY <1>0, <1>2, SubSeqProperties
  <1>5. ASSUME NEW k \in 1..Len(SubSeq(U, b, y))
        PROVE  SubSeq(U, b, y)[k] = SubSeq(L, a, z)[k]
    <2>1. k \in 1..y - b + 1 /\ k \in 1..z - a + 1
      BY <1>0, <1>4
    <2>2. a + k - 1 \in a..z /\ b + ((a + k - 1) - a) = b + k - 1
      BY <1>0, <2>1
    <2>3. U[b + k - 1] = L[a + k - 1]
      <3>1. U[b + ((a + k - 1) - a)] = L[a + k - 1]
        BY <2>2 DEF Agree
      <3> QED
        BY <2>2, <3>1
    <2> QED
      BY <1>3, <1>4, <2>1, <2>3
  <1>6. Len(SubSeq(U, b, y)) = Len(SubSeq(L, a, z))
    BY <1>0, <1>3, <1>4
  <1> QED
    BY <1>3, <1>4, <1>5, <1>6, SeqEqual DEF SameLines

\* A heading outside of what is rewritten is still followed by the same lines.
LEMMA SegmentKept ==
  ASSUME NEW L \in Seq(MdLineSet), NEW B \in Seq(MdLineSet), NEW U, NEW h, h.level > 0,
         NEW i \in 1..Len(L) + 1, NEW e \in i..Len(L) + 1, Rewritten(U, L, i, h, B, e),
         i <= Len(L) => L[i] = h,
         NEW k \in 1..Len(L), NEW m \in 1..Len(L) + 1, Segment(L, k, m), k \notin i..e - 1
  PROVE  \E j \in 1..Len(U), n \in 1..Len(U) + 1 :
           Segment(U, j, n) /\ Entry(U, j, n) = Entry(L, k, m)
  <1>1. /\ U \in Seq(MdLineSet) /\ Len(U) = i + Len(B) + Len(L) + 1 - e
        /\ Len(L) \in Nat /\ Len(B) \in Nat /\ Len(U) \in Nat
    BY DEF Rewritten
  <1>u. U \in Seq(MdLineSet)
    BY <1>1
  <1>i. i \in Nat \ {0} /\ e \in Nat /\ i <= e /\ e <= Len(L) + 1 /\ i <= Len(L) + 1
    BY <1>1
  <1>2. /\ m \in k + 1..Len(L) + 1 /\ L[k].level > 0
        /\ m <= Len(L) => L[m].level > 0
        /\ \A j \in k + 1..m - 1 : L[j].level = 0
    BY DEF Segment
  <1>3. CASE k < i
    <2>1. m <= i
      <3>1. CASE i = Len(L) + 1
        BY <1>2, <3>1
      <3>2. CASE i <= Len(L) /\ m > i
        <4>1. i \in k + 1..m - 1
          BY <1>2, <1>3, <3>2
        <4> QED
          BY <1>2, <3>2, <4>1
      <3> QED
        BY <1>1, <1>2, <3>1, <3>2
    <2>2. \A j \in 1..i - 1 : U[j] = L[j]
      BY DEF Rewritten
    <2>3. k \in 1..i - 1 /\ U[k] = L[k]
      BY <1>3, <2>2
    <2>4. U[m].level > 0
      <3>1. CASE m = i
        BY <3>1 DEF Rewritten
      <3>2. CASE m < i
        BY <1>2, <2>2, <3>2
      <3> QED
        BY <1>2, <2>1, <3>1, <3>2
    <2>5. \A j \in k + 1..m - 1 : U[j].level = 0
      BY <1>2, <2>1, <2>2
    <2>6. i <= Len(U) /\ k \in 1..Len(U) /\ m \in k + 1..Len(U) + 1 /\ m \in 1..Len(U) + 1
      BY <1>1, <1>2, <2>1, <1>3
    <2>7. Segment(U, k, m)
      BY <1>2, <2>3, <2>4, <2>5, <2>6 DEF Segment
    <2>8. SubSeq(U, k + 1, m - 1) = SubSeq(L, k + 1, m - 1)
      <3>1. PICK a, z : a = k + 1 /\ z = m - 1
        OBVIOUS
      <3>2. /\ a \in Nat \ {0} /\ z \in Nat /\ z <= Len(L) /\ z <= Len(U) /\ z - a = z - a
            /\ z <= i - 1
        <4>1. k \in Nat \ {0} /\ m \in Nat /\ k + 1 <= m /\ m <= Len(L) + 1
          BY <1>1, <1>2
        <4>2. a \in Nat \ {0} /\ z \in Nat /\ z <= Len(L) /\ z - a = z - a
          BY <1>1, <3>1, <4>1
        <4>3. z <= i - 1 /\ i <= Len(U)
          BY <1>i, <2>1, <2>6, <3>1, <4>1
        <4>4. z <= Len(U)
          BY <1>1, <1>i, <4>2, <4>3
        <4> QED
          BY <4>2, <4>3, <4>4
      <3>3. ASSUME NEW j \in a..z
            PROVE  U[a + (j - a)] = L[j]
        <4>1. a + (j - a) = j /\ j \in 1..i - 1
          BY <1>i, <3>2
        <4>2. U[j] = L[j]
          BY <2>2, <4>1
        <4> QED
          BY <4>1, <4>2
      <3>4. Agree(L, a, z, U, a, z)
        BY <3>2, <3>3 DEF Agree
      <3>5. SameLines(L, a, z, U, a, z)
        BY <1>u, <3>4, AgreeingLines
      <3> QED
        BY <3>1, <3>5 DEF SameLines
    <2> QED
      BY <2>3, <2>6, <2>7, <2>8 DEF Entry
  <1>4. CASE k >= e
    <2>0. i + Len(B) + 1 - e \in Int
      BY <1>1, <1>i
    <2>1. PICK s \in Int : s = i + Len(B) + 1 - e
      BY <2>0, Zenon
    <2>2. \A j \in e..Len(L) : U[j + s] = L[j]
      <3>1. ASSUME NEW j \in e..Len(L)
            PROVE  i + Len(B) + 1 + j - e = j + s
        <4>1. j \in Int /\ e \in Int /\ i \in Int /\ Len(B) \in Int
          BY <1>1, <1>i
        <4> QED
          BY <2>1, <4>1
      <3> QED
        BY <3>1 DEF Rewritten
    <2>3. /\ Len(U) = Len(L) + s /\ k + s \in 1..Len(U) /\ m + s \in k + s + 1..Len(U) + 1
          /\ m + s \in 1..Len(U) + 1
      BY <1>1, <1>i, <1>2, <1>4, <2>1
    <2>4. U[k + s] = L[k]
      BY <1>4, <2>2
    <2>5. m + s <= Len(U) => U[m + s].level > 0
      <3>1. m + s <= Len(U) => m <= Len(L) /\ m \in e..Len(L)
        BY <1>1, <1>2, <1>i, <1>4, <2>3
      <3> QED
        BY <1>2, <2>2, <3>1
    <2>6. ASSUME NEW j \in k + s + 1..m + s - 1
          PROVE  U[j].level = 0
      <3>1. j - s \in k + 1..m - 1 /\ j - s \in e..Len(L) /\ (j - s) + s = j
        <4>1. /\ s \in Int /\ j \in Int /\ k + s + 1 <= j /\ j <= m + s - 1
              /\ k \in Nat /\ m \in Nat /\ m <= Len(L) + 1 /\ e <= k
          BY <1>1, <1>i, <1>4
        <4>2. /\ j - s \in Int /\ k + 1 <= j - s /\ j - s <= m - 1
              /\ e <= j - s /\ j - s <= Len(L) /\ (j - s) + s = j
          BY <1>1, <1>i, <4>1
        <4> QED
          BY <1>i, <4>1, <4>2
      <3> QED
        BY <1>2, <2>2, <3>1
    <2>7. Segment(U, k + s, m + s)
      BY <1>2, <2>3, <2>4, <2>5, <2>6 DEF Segment
    <2>8. SubSeq(U, k + s + 1, m + s - 1) = SubSeq(L, k + 1, m - 1)
      <3>1. PICK a, z, b, y : a = k + 1 /\ z = m - 1 /\ b = k + s + 1 /\ y = m + s - 1
        OBVIOUS
      <3>2. /\ a \in Nat \ {0} /\ z \in Nat /\ z <= Len(L)
            /\ b \in Nat \ {0} /\ y \in Nat /\ y <= Len(U) /\ z - a = y - b
            /\ b = a + s /\ e <= a
        BY <1>1, <1>2, <1>i, <1>4, <2>3, <3>1
      <3>3. ASSUME NEW j \in a..z
            PROVE  U[b + (j - a)] = L[j]
        <4>1. b + (j - a) = j + s /\ j \in e..Len(L)
          BY <1>1, <1>i, <3>2
        <4>2. U[j + s] = L[j]
          BY <2>2, <4>1
        <4> QED
          BY <4>1, <4>2
      <3>4. Agree(L, a, z, U, b, y)
        BY <3>2, <3>3 DEF Agree
      <3>5. SameLines(L, a, z, U, b, y)
        BY <1>u, <3>4, AgreeingLines
      <3> QED
        BY <3>1, <3>5 DEF SameLines
    <2> QED
      BY <2>3, <2>4, <2>7, <2>8 DEF Entry
  <1> QED
    BY <1>1, <1>3, <1>4

\* A body between the lines before it and those from line e on
LEMMA SplicingRewrites ==
  ASSUME NEW L \in Seq(MdLineSet), NEW B \in Seq(MdLineSet),
         NEW i \in 1..Len(L), NEW e \in i + 1..Len(L) + 1
  PROVE  /\ (SubSeq(L, 1, i) \o B) \o SubSeq(L, e, Len(L)) \in Seq(MdLineSet)
         /\ Rewritten((SubSeq(L, 1, i) \o B) \o SubSeq(L, e, Len(L)), L, i, L[i], B, e)
  <1> DEFINE X == SubSeq(L, 1, i)
             Z == SubSeq(L, e, Len(L))
             XB == X \o B
             U == XB \o Z
  <1>0. Len(L) \in Nat /\ Len(B) \in Nat /\ i \in Nat /\ e \in Nat
    OBVIOUS
  <1>1. /\ X \in Seq(MdLineSet) /\ Len(X) = i
        /\ \A k \in 1..i : X[k] = L[k]
    OBVIOUS
  <1>2. /\ Z \in Seq(MdLineSet) /\ Len(Z) = Len(L) + 1 - e
        /\ \A k \in 1..Len(L) + 1 - e : Z[k] = L[e + k - 1]
    <2>1. \A k \in e..Len(L) : L[k] \in MdLineSet
      BY <1>0
    <2>2. /\ Z \in Seq(MdLineSet)
          /\ Len(Z) = IF e <= Len(L) THEN Len(L) - e + 1 ELSE 0
          /\ \A k \in 1..Len(L) - e + 1 : Z[k] = L[e + k - 1]
      BY <1>0, <2>1, SubSeqProperties
    <2>3. Len(Z) = Len(L) + 1 - e /\ Len(L) - e + 1 = Len(L) + 1 - e
      BY <1>0, <2>2
    <2> HIDE DEF Z
    <2> QED
      BY <2>2, <2>3
  <1> HIDE DEF X, Z
  <1>3. /\ XB \in Seq(MdLineSet) /\ Len(XB) = i + Len(B)
        /\ \A k \in 1..i + Len(B) : XB[k] = IF k <= i THEN X[k] ELSE B[k - i]
    BY <1>1, ConcatProperties
  <1> HIDE DEF XB
  <1>4. /\ U \in Seq(MdLineSet) /\ Len(U) = i + Len(B) + (Len(L) + 1 - e)
        /\ \A k \in 1..i + Len(B) + (Len(L) + 1 - e) :
             U[k] = IF k <= i + Len(B) THEN XB[k] ELSE Z[k - (i + Len(B))]
    <2>1. /\ U \in Seq(MdLineSet) /\ Len(U) = Len(XB) + Len(Z)
          /\ \A k \in 1..Len(XB) + Len(Z) : U[k] = IF k <= Len(XB) THEN XB[k] ELSE Z[k - Len(XB)]
      BY <1>2, <1>3, ConcatProperties
    <2> HIDE DEF U
    <2> QED
      BY <1>2, <1>3, <2>1
  <1> HIDE DEF U
  <1>5. ASSUME NEW k \in 1..i
        PROVE  U[k] = L[k]
    <2>1. /\ k \in 1..i + Len(B) + (Len(L) + 1 - e) /\ k <= i + Len(B)
          /\ k \in 1..i + Len(B) /\ k <= i
      BY <1>0
    <2>2. U[k] = XB[k] /\ XB[k] = X[k] /\ X[k] = L[k]
      BY <1>1, <1>3, <1>4, <2>1
    <2> QED
      BY <2>2
  <1>6. ASSUME NEW k \in 1..Len(B)
        PROVE  U[i + k] = B[k]
    <2>1. PICK j : j = i + k
      OBVIOUS
    <2>2. j \in 1..i + Len(B) /\ j \in 1..i + Len(B) + (Len(L) + 1 - e) /\ ~(j <= i) /\ j - i = k
      BY <1>0, <2>1
    <2>3. j <= i + Len(B)
      BY <2>2
    <2>4. U[j] = XB[j]
      BY <1>4, <2>2, <2>3
    <2>5. XB[j] = B[j - i]
      BY <1>3, <2>2
    <2> QED
      BY <2>1, <2>2, <2>4, <2>5
  <1>7. ASSUME NEW k \in e..Len(L)
        PROVE  U[i + Len(B) + 1 + k - e] = L[k]
    <2>1. PICK j : j = i + Len(B) + 1 + k - e
      OBVIOUS
    <2>2. PICK l : l = j - (i + Len(B))
      OBVIOUS
    <2>3. /\ j \in 1..i + Len(B) + (Len(L) + 1 - e) /\ ~(j <= i + Len(B))
          /\ l \in 1..Len(L) + 1 - e /\ e + l - 1 = k
      BY <1>0, <2>1, <2>2
    <2>4. U[j] = Z[l]
      BY <1>4, <2>2, <2>3
    <2>5. Z[l] = L[e + l - 1]
      BY <1>2, <2>3
    <2> QED
      BY <2>1, <2>3, <2>4, <2>5
  <1>8. Len(U) = i + Len(B) + Len(L) + 1 - e
    BY <1>0, <1>4
  <1>9. \A k \in 1..i - 1 : U[k] = L[k]
    BY <1>0, <1>5
  <1>10. U[i] = L[i]
    BY <1>0, <1>5
  <1>11. Rewritten(U, L, i, L[i], B, e)
    BY <1>4, <1>6, <1>7, <1>8, <1>9, <1>10 DEF Rewritten
  <1> QED
    BY <1>4, <1>11 DEF U, XB, X, Z

\* A heading with its body behind the last line
LEMMA AppendingRewrites ==
  ASSUME NEW L \in Seq(MdLineSet), NEW B \in Seq(MdLineSet), NEW h \in MdLineSet
  PROVE  /\ (L \o <<h>>) \o B \in Seq(MdLineSet)
         /\ Rewritten((L \o <<h>>) \o B, L, Len(L) + 1, h, B, Len(L) + 1)
  <1> DEFINE H == L \o <<h>>
             U == H \o B
             i == Len(L) + 1
  <1>0. Len(L) \in Nat /\ Len(B) \in Nat /\ i \in Nat
    OBVIOUS
  <1>1. /\ H \in Seq(MdLineSet) /\ Len(H) = i
        /\ \A k \in 1..i : H[k] = IF k <= Len(L) THEN L[k] ELSE h
    OBVIOUS
  <1> HIDE DEF H
  <1>2. /\ U \in Seq(MdLineSet) /\ Len(U) = i + Len(B)
        /\ \A k \in 1..i + Len(B) : U[k] = IF k <= i THEN H[k] ELSE B[k - i]
    <2>1. /\ U \in Seq(MdLineSet) /\ Len(U) = Len(H) + Len(B)
          /\ \A k \in 1..Len(H) + Len(B) : U[k] = IF k <= Len(H) THEN H[k] ELSE B[k - Len(H)]
      BY <1>1, ConcatProperties
    <2> HIDE DEF U, i
    <2> QED
      BY <1>1, <2>1
  <1> HIDE DEF U
  <1>3. \A k \in 1..i - 1 : U[k] = L[k]
    BY <1>0, <1>1, <1>2
  <1>4. U[i] = h
    BY <1>0, <1>1, <1>2
  <1>5. ASSUME NEW k \in 1..Len(B)
        PROVE  U[i + k] = B[k]
    <2>1. PICK j : j = i + k
      OBVIOUS
    <2>2. j \in 1..i + Len(B) /\ ~(j <= i) /\ j - i = k
      BY <1>0, <2>1
    <2>3. U[j] = B[j - i]
      BY <1>2, <2>2
    <2> QED
      BY <2>1, <2>2, <2>3
  <1>6. Len(U) = i + Len(B) + Len(L) + 1 - i
    BY <1>0, <1>2
  <1>7. i..Len(L) = {}
    BY <1>0
  <1> HIDE DEF i
  <1>8. Rewritten(U, L, i, h, B, i)
    BY <1>2, <1>3, <1>4, <1>5, <1>6, <1>7 DEF Rewritten
  <1> QED
    BY <1>2, <1>8 DEF U, H, i

LEMMA EndedDoc ==
  ASSUME NEW d \in MdDocSet
  PROVE  [d EXCEPT !.ended = TRUE] = MdDoc(d.lines, TRUE)
  <1>1. PICK t : t = TRUE
    OBVIOUS
  <1>2. [d EXCEPT !.ended = t] = [lines |-> d.lines, ended |-> t]
    BY DEF MdDocSet
  <1> QED
    BY <1>1, <1>2 DEF MdDoc

\* What an edit of a section makes of a file; only a heading on a last line without a line
\* end is in the way.
Unended(d, c) ==
  LET i == Heading(d, c.level, c.title) IN i # 0 /\ i = Len(d.lines) /\ ~d.ended

LEMMA UptoIs ==
  ASSUME NEW d \in MdDocSet, NEW i \in 1..Len(d.lines), i < Len(d.lines) \/ d.ended
  PROVE  Upto(d, i) = MdDoc(SubSeq(d.lines, 1, i), TRUE) /\ SubSeq(d.lines, 1, i) # <<>>
  <1>1. PICK L \in Seq(MdLineSet) : L = d.lines
    BY DEF MdDocSet
  <1>2. (i < Len(L) \/ d.ended) = TRUE
    BY <1>1
  <1>3. Len(SubSeq(L, 1, i)) = i
    BY <1>1
  <1>4. SubSeq(L, 1, i) # <<>>
    BY <1>1, <1>3
  <1> QED
    BY <1>1, <1>2, <1>4 DEF Upto

\* The edits before a section's end
LEMMA SpliceIs ==
  ASSUME NEW d \in MdDocSet, NEW body \in MdDocSet, NEW i \in 1..Len(d.lines),
         NEW e \in i + 1..Len(d.lines) + 1, i < Len(d.lines) \/ d.ended
  PROVE  Concat(Concat(Upto(d, i), NormalizeBody(body)), From(d, e)) =
           MdDoc((SubSeq(d.lines, 1, i) \o body.lines) \o SubSeq(d.lines, e, Len(d.lines)),
                 IF e <= Len(d.lines) THEN d.ended ELSE TRUE)
  <1>1. PICK L \in Seq(MdLineSet) : L = d.lines
    BY DEF MdDocSet
  <1>2. PICK B \in Seq(MdLineSet) : B = body.lines
    BY DEF MdDocSet
  <1>3. PICK X : X = SubSeq(L, 1, i)
    OBVIOUS
  <1>4. PICK Z : Z = SubSeq(L, e, Len(L))
    OBVIOUS
  <1>5. X \in Seq(MdLineSet) /\ X # <<>> /\ Upto(d, i) = MdDoc(X, TRUE)
    <2>1. Upto(d, i) = MdDoc(SubSeq(d.lines, 1, i), TRUE) /\ SubSeq(d.lines, 1, i) # <<>>
      BY UptoIs
    <2>2. X \in Seq(MdLineSet)
      BY <1>1, <1>3
    <2> QED
      BY <1>1, <1>3, <2>1, <2>2
  <1>6. NormalizeBody(body) = MdDoc(B, TRUE)
    BY <1>2, EndedDoc DEF NormalizeBody
  <1>7. Concat(MdDoc(X, TRUE), MdDoc(B, TRUE)) = MdDoc(X \o B, TRUE)
    <2>1. PICK a, b : a = MdDoc(X, TRUE) /\ b = MdDoc(B, TRUE)
      OBVIOUS
    <2>2. a.lines = X /\ a.ended = TRUE /\ b.lines = B /\ b.ended = TRUE
      BY <2>1 DEF MdDoc
    <2>3. Concat(a, b) = MdDoc(a.lines \o b.lines,
                               IF a.lines = <<>> \/ b.lines # <<>> THEN b.ended ELSE a.ended)
      <3>1. /\ a.lines \in Seq(MdLineSet) /\ b.lines \in Seq(MdLineSet)
            /\ a = MdDoc(a.lines, a.ended) /\ b = MdDoc(b.lines, b.ended) /\ a.ended
        BY <1>5, <2>1, <2>2
      <3> QED
        BY <3>1, ConcatIs
    <2> QED
      BY <2>1, <2>2, <2>3
  <1>8. X \o B \in Seq(MdLineSet) /\ X \o B # <<>>
    BY <1>5
  <1>9. Z \in Seq(MdLineSet) /\ (Z # <<>> <=> e <= Len(L))
    <2>1. \A k \in e..Len(L) : L[k] \in MdLineSet
      BY <1>1
    <2>2. Z \in Seq(MdLineSet) /\ Len(Z) = IF e <= Len(L) THEN Len(L) - e + 1 ELSE 0
      BY <1>1, <1>4, <2>1, SubSeqProperties
    <2>3. e \in Nat /\ Len(L) \in Nat
      BY <1>1
    <2> QED
      BY <2>2, <2>3
  <1>10. Concat(MdDoc(X \o B, TRUE), MdDoc(Z, d.ended)) =
           MdDoc((X \o B) \o Z, IF Z # <<>> THEN d.ended ELSE TRUE)
    <2>1. PICK Y \in Seq(MdLineSet) : Y = X \o B
      BY <1>8
    <2>2. PICK a, b : a = MdDoc(Y, TRUE) /\ b = MdDoc(Z, d.ended)
      OBVIOUS
    <2>3. a.lines = Y /\ a.ended = TRUE /\ b.lines = Z /\ b.ended = d.ended
      BY <2>2 DEF MdDoc
    <2>4. Concat(a, b) = MdDoc(a.lines \o b.lines,
                               IF a.lines = <<>> \/ b.lines # <<>> THEN b.ended ELSE a.ended)
      <3>1. /\ a.lines \in Seq(MdLineSet) /\ b.lines \in Seq(MdLineSet)
            /\ a = MdDoc(a.lines, a.ended) /\ b = MdDoc(b.lines, b.ended) /\ a.ended
        BY <1>9, <2>1, <2>2, <2>3
      <3> QED
        BY <3>1, ConcatIs
    <2>5. Y # <<>>
      BY <1>8, <2>1
    <2>6. Concat(a, b) = MdDoc(Y \o Z, IF Z # <<>> THEN d.ended ELSE TRUE)
      BY <2>3, <2>4, <2>5
    <2> QED
      BY <2>1, <2>2, <2>6
  <1>11. From(d, e) = MdDoc(Z, d.ended)
    BY <1>1, <1>4 DEF From
  <1>12. (IF Z # <<>> THEN d.ended ELSE TRUE) = IF e <= Len(L) THEN d.ended ELSE TRUE
    BY <1>9
  <1> QED
    BY <1>1, <1>2, <1>3, <1>4, <1>5, <1>6, <1>7, <1>10, <1>11, <1>12

LEMMA UpsertIs ==
  ASSUME NEW d \in MdDocSet, NEW c \in MdEditSet, ~Unended(d, c)
  PROVE  LET h == MdLine(c.level, c.title) IN
         \E i \in Nat, e \in Nat, U \in Seq(MdLineSet) :
           /\ Section(d.lines, i, h, e)
           /\ Heading(d, c.level, c.title) = IF i <= Len(d.lines) THEN i ELSE 0
           /\ Rewritten(U, d.lines, i, h, c.body.lines, e)
           /\ UpsertSection(d, c.level, c.title, c.body) =
                MdDoc(U, IF e <= Len(d.lines) THEN d.ended ELSE TRUE)
  <1>1. PICK L \in Seq(MdLineSet) : L = d.lines
    BY DEF MdDocSet
  <1>2. /\ c.body \in MdDocSet /\ MdLine(c.level, c.title) \in MdLineSet
        /\ d.ended \in BOOLEAN
    BY DEF MdEditSet, MdLine, MdLineSet, MdDocSet
  <1>3. PICK B \in Seq(MdLineSet) : B = c.body.lines
    BY <1>2 DEF MdDocSet
  <1>4. PICK h \in MdLineSet : h = MdLine(c.level, c.title)
    BY <1>2
  <1>5. PICK i : i = Heading(d, c.level, c.title)
    OBVIOUS
  <1>6. CASE i # 0
    <2>1. /\ i \in 1..Len(d.lines) /\ d.lines[i] = h
          /\ \A k \in 1..i - 1 : d.lines[k] # h
      BY <1>4, <1>5, <1>6, HeadingIs
    <2>2. PICK e : e = SectionEnd(d, i)
      OBVIOUS
    <2>3. Section(d.lines, i, h, e)
      BY <2>1, <2>2, SectionEndIs
    <2>4. e \in i + 1..Len(d.lines) + 1
      BY <1>1, <2>1, <2>3 DEF Section
    <2>5. i < Len(d.lines) \/ d.ended
      BY <1>1, <1>5, <1>6, <2>1 DEF Unended
    <2>6. PICK U : U = (SubSeq(L, 1, i) \o B) \o SubSeq(L, e, Len(L))
      OBVIOUS
    <2>7. U \in Seq(MdLineSet) /\ Rewritten(U, L, i, L[i], B, e)
      BY <1>1, <2>1, <2>4, <2>6, SplicingRewrites
    <2>8. UpsertSection(d, c.level, c.title, c.body) =
            Concat(Concat(Upto(d, i), NormalizeBody(c.body)), From(d, e))
      BY <1>5, <1>6, <2>2 DEF UpsertSection, ReplaceSection
    <2>9. UpsertSection(d, c.level, c.title, c.body) =
            MdDoc((SubSeq(d.lines, 1, i) \o c.body.lines) \o SubSeq(d.lines, e, Len(d.lines)),
                  IF e <= Len(d.lines) THEN d.ended ELSE TRUE)
      BY <1>2, <2>1, <2>4, <2>5, <2>8, SpliceIs
    <2>10. /\ i \in Nat /\ e \in Nat
           /\ Heading(d, c.level, c.title) = IF i <= Len(d.lines) THEN i ELSE 0
      BY <1>1, <1>5, <2>1, <2>4
    <2>11. UpsertSection(d, c.level, c.title, c.body) =
             MdDoc(U, IF e <= Len(d.lines) THEN d.ended ELSE TRUE)
      BY <1>1, <1>3, <2>6, <2>9
    <2> QED
      BY <1>1, <1>3, <1>4, <2>1, <2>3, <2>7, <2>10, <2>11
  <1>7. CASE i = 0
    <2>1. \A k \in 1..Len(L) : L[k] # h
      <3>1. i \notin 1..Len(L)
        BY <1>7
      <3>2. \A k \in 1..Len(d.lines) : d.lines[k] # MdLine(c.level, c.title)
        BY <1>1, <1>5, <3>1, HeadingIs
      <3> QED
        BY <1>1, <1>4, <3>2
    <2>2. PICK n : n = Len(L) + 1
      OBVIOUS
    <2>3. n \in Nat /\ Section(L, n, h, n)
      BY <2>1, <2>2 DEF Section
    <2>4. PICK U : U = (L \o <<h>>) \o B
      OBVIOUS
    <2>5. U \in Seq(MdLineSet) /\ Rewritten(U, L, n, h, B, n)
      BY <2>2, <2>4, AppendingRewrites
    <2>6. UpsertSection(d, c.level, c.title, c.body) =
            Concat(Concat([d EXCEPT !.ended = TRUE], MdDoc(<<h>>, TRUE)), NormalizeBody(c.body))
      BY <1>4, <1>5, <1>7 DEF UpsertSection
    <2>7. [d EXCEPT !.ended = TRUE] = MdDoc(L, TRUE) /\ NormalizeBody(c.body) = MdDoc(B, TRUE)
      BY <1>1, <1>2, <1>3, EndedDoc DEF NormalizeBody
    <2>s. <<h>> \in Seq(MdLineSet)
      OBVIOUS
    <2>8. PICK H \in Seq(MdLineSet) : H = <<h>>
      BY <2>s, Zenon
    <2>9. /\ H # <<>> /\ L \o H \in Seq(MdLineSet) /\ L \o H # <<>>
      BY <2>8
    <2>10. Concat(MdDoc(L, TRUE), MdDoc(H, TRUE)) = MdDoc(L \o H, TRUE)
      <3>1. PICK a, b : a = MdDoc(L, TRUE) /\ b = MdDoc(H, TRUE)
        OBVIOUS
      <3>2. a.lines = L /\ a.ended = TRUE /\ b.lines = H /\ b.ended = TRUE
        BY <3>1 DEF MdDoc
      <3>3. Concat(a, b) = MdDoc(a.lines \o b.lines,
                                 IF a.lines = <<>> \/ b.lines # <<>> THEN b.ended ELSE a.ended)
        BY <3>1, <3>2, ConcatIs
      <3> QED
        BY <2>9, <3>1, <3>2, <3>3
    <2>11. Concat(MdDoc(L \o H, TRUE), MdDoc(B, TRUE)) = MdDoc((L \o H) \o B, TRUE)
      <3>0. PICK Y \in Seq(MdLineSet) : Y = L \o H
        BY <2>9
      <3>1. PICK a, b : a = MdDoc(Y, TRUE) /\ b = MdDoc(B, TRUE)
        OBVIOUS
      <3>2. a.lines = Y /\ a.ended = TRUE /\ b.lines = B /\ b.ended = TRUE
        BY <3>1 DEF MdDoc
      <3>3. Concat(a, b) = MdDoc(a.lines \o b.lines,
                                 IF a.lines = <<>> \/ b.lines # <<>> THEN b.ended ELSE a.ended)
        BY <3>1, <3>2, ConcatIs
      <3> QED
        BY <3>0, <3>1, <3>2, <3>3
    <2>12. /\ ~(n <= Len(L))
           /\ Heading(d, c.level, c.title) = IF n <= Len(L) THEN n ELSE 0
      BY <1>5, <1>7, <2>2
    <2>13. UpsertSection(d, c.level, c.title, c.body) =
             MdDoc(U, IF n <= Len(L) THEN d.ended ELSE TRUE)
      BY <2>4, <2>6, <2>7, <2>8, <2>10, <2>11, <2>12
    <2> QED
      BY <1>1, <1>3, <1>4, <2>3, <2>5, <2>12, <2>13
  <1> QED
    BY <1>6, <1>7

LEMMA InsertIs ==
  ASSUME NEW d \in MdDocSet, NEW c \in MdEditSet, ~Unended(d, c),
         Heading(d, c.level, c.title) # 0
  PROVE  LET h == MdLine(c.level, c.title)
             i == Heading(d, c.level, c.title) IN
         \E V \in Seq(MdLineSet), ended \in BOOLEAN :
           /\ i \in 1..Len(d.lines) /\ d.lines[i] = h
           /\ Rewritten(V, d.lines, i, h, c.body.lines, i + 1)
           /\ InsertAfterHeading(d, c.level, c.title, c.body) = MdDoc(V, ended)
  <1>1. PICK L \in Seq(MdLineSet) : L = d.lines
    BY DEF MdDocSet
  <1>2. c.body \in MdDocSet /\ d.ended \in BOOLEAN
    BY DEF MdEditSet, MdDocSet
  <1>3. PICK B \in Seq(MdLineSet) : B = c.body.lines
    BY <1>2 DEF MdDocSet
  <1>4. PICK i : i = Heading(d, c.level, c.title)
    OBVIOUS
  <1>5. PICK h : h = MdLine(c.level, c.title)
    OBVIOUS
  <1>6. i \in 1..Len(d.lines) /\ d.lines[i] = h
    BY <1>4, <1>5, HeadingIs
  <1>7. PICK e : e = i + 1
    OBVIOUS
  <1>8. e \in i + 1..Len(d.lines) + 1
    BY <1>1, <1>6, <1>7
  <1>9. i < Len(d.lines) \/ d.ended
    BY <1>1, <1>4, <1>6 DEF Unended
  <1>10. PICK V : V = (SubSeq(L, 1, i) \o B) \o SubSeq(L, e, Len(L))
    OBVIOUS
  <1>11. V \in Seq(MdLineSet) /\ Rewritten(V, L, i, L[i], B, e)
    BY <1>1, <1>6, <1>8, <1>10, SplicingRewrites
  <1>12. PICK ended \in BOOLEAN : ended = IF e <= Len(d.lines) THEN d.ended ELSE TRUE
    BY <1>2
  <1>13. InsertAfterHeading(d, c.level, c.title, c.body) =
           Concat(Concat(Upto(d, i), NormalizeBody(c.body)), From(d, e))
    BY <1>4, <1>7 DEF InsertAfterHeading
  <1>14. InsertAfterHeading(d, c.level, c.title, c.body) =
           MdDoc((SubSeq(d.lines, 1, i) \o c.body.lines) \o SubSeq(d.lines, e, Len(d.lines)),
                 IF e <= Len(d.lines) THEN d.ended ELSE TRUE)
    BY <1>2, <1>6, <1>8, <1>9, <1>13, SpliceIs
  <1>15. InsertAfterHeading(d, c.level, c.title, c.body) = MdDoc(V, ended)
    BY <1>1, <1>3, <1>10, <1>12, <1>14
  <1> QED
    BY <1>1, <1>3, <1>4, <1>5, <1>6, <1>7, <1>11, <1>15

\* What an upsert with a body without headings leaves
LEMMA UpsertIsLocal ==
  ASSUME NEW d \in MdDocSet, NEW c \in MdEditSet, ~Unended(d, c),
         \A k \in DOMAIN c.body.lines : c.body.lines[k].level = 0
  PROVE  LET i == Heading(d, c.level, c.title)
             upserted == UpsertSection(d, c.level, c.title, c.body)
             inside == IF i = 0 THEN {}
                       ELSE Outline(MdDoc(SectionLines(d, c.level, c.title), TRUE))
         IN  /\ SectionLines(upserted, c.level, c.title)
                  = <<MdLine(c.level, c.title)>> \o c.body.lines
             /\ Outline(d) \ inside \subseteq Outline(upserted)
             /\ UpsertSection(upserted, c.level, c.title, c.body) = upserted
  <1>1. PICK L \in Seq(MdLineSet) : L = d.lines
    BY DEF MdDocSet
  <1>2. /\ c.body \in MdDocSet /\ MdLine(c.level, c.title) \in MdLineSet
        /\ c.level \in Nat \ {0} /\ d.ended \in BOOLEAN
    BY DEF MdEditSet, MdLine, MdLineSet, MdDocSet
  <1>3. PICK B \in Seq(MdLineSet) : B = c.body.lines
    BY <1>2 DEF MdDocSet
  <1>4. PICK h \in MdLineSet : h = MdLine(c.level, c.title)
    BY <1>2
  <1>5. h.level = c.level /\ h.level > 0
    BY <1>2, <1>4 DEF MdLine
  <1>6. \A k \in 1..Len(B) : B[k].level = 0
    BY <1>3
  <1>7. PICK i \in Nat, e \in Nat, U \in Seq(MdLineSet) :
           /\ Section(L, i, h, e)
           /\ Heading(d, c.level, c.title) = IF i <= Len(L) THEN i ELSE 0
           /\ Rewritten(U, L, i, h, B, e)
           /\ UpsertSection(d, c.level, c.title, c.body) =
                MdDoc(U, IF e <= Len(L) THEN d.ended ELSE TRUE)
    BY <1>1, <1>3, <1>4, UpsertIs
  <1>8. PICK u : u = UpsertSection(d, c.level, c.title, c.body)
    OBVIOUS
  <1>9. u.lines = U /\ u.ended = (IF e <= Len(L) THEN d.ended ELSE TRUE) /\ u \in MdDocSet
    <2>1. PICK x \in BOOLEAN : x = IF e <= Len(L) THEN d.ended ELSE TRUE
      BY <1>2
    <2>2. u = MdDoc(U, x)
      BY <1>7, <1>8, <2>1
    <2> QED
      BY <2>1, <2>2 DEF MdDoc, MdDocSet
  <1>10. /\ i \in 1..Len(L) + 1 /\ e \in i..Len(L) + 1 /\ (i <= Len(L) => i < e /\ L[i] = h)
         /\ \A k \in 1..i - 1 : L[k] # h
    BY <1>7 DEF Section
  <1>11. /\ Len(U) = i + Len(B) + Len(L) + 1 - e /\ U[i] = h
         /\ \A k \in 1..i - 1 : U[k] = L[k]
         /\ \A k \in 1..Len(B) : U[i + k] = B[k]
    BY <1>7 DEF Rewritten
  <1>n. Len(L) \in Nat /\ Len(B) \in Nat
    OBVIOUS
  <1>12. PICK f \in Nat : f = i + Len(B) + 1
    BY <1>n
  <1>13. Section(U, i, h, f) /\ i \in 1..Len(U)
    <2>1. Section(U, i, h, i + Len(B) + 1) /\ i <= Len(U)
      BY <1>5, <1>6, <1>7, SectionAfter
    <2> QED
      BY <1>10, <1>12, <2>1
  <1>14. Heading(u, c.level, c.title) = i
    <2>1. PICK x : x = Heading(u, c.level, c.title)
      OBVIOUS
    <2>2. \/ x = 0 /\ \A k \in 1..Len(U) : U[k] # h
          \/ x \in 1..Len(U) /\ U[x] = h /\ \A k \in 1..x - 1 : U[k] # h
      BY <1>4, <1>9, <2>1, HeadingIs
    <2>3. U[i] = h /\ \A k \in 1..i - 1 : U[k] # h
      BY <1>10, <1>11
    <2> QED
      BY <1>13, <2>1, <2>2, <2>3
  <1>15. SectionLines(u, c.level, c.title) = <<h>> \o B
    <2>1. SectionLines(u, c.level, c.title) = SubSeq(U, i, f - 1)
      <3>1. /\ Heading(u, c.level, c.title) # 0
            /\ Section(u.lines, Heading(u, c.level, c.title), MdLine(c.level, c.title), f)
            /\ c.level > 0
        BY <1>2, <1>4, <1>9, <1>10, <1>13, <1>14
      <3>a. PICK w \in MdDocSet : w = u
        BY <1>9
      <3>2. SectionLines(u, c.level, c.title) = SubSeq(u.lines, Heading(u, c.level, c.title), f - 1)
        <4>0. /\ Heading(w, c.level, c.title) # 0
              /\ Section(w.lines, Heading(w, c.level, c.title), MdLine(c.level, c.title), f)
              /\ c.level > 0 /\ MdLine(c.level, c.title) \in MdLineSet
          BY <1>2, <3>1, <3>a
        <4>1. SectionIs(w, c.level, c.title, f)
          BY <4>0, SectionLinesAre
        <4> QED
          BY <3>a, <4>1 DEF SectionIs
      <3> QED
        BY <1>9, <1>14, <3>2
    <2>2. PICK W : W = <<h>> \o B
      OBVIOUS
    <2>3. /\ W \in Seq(MdLineSet) /\ Len(W) = 1 + Len(B)
          /\ \A k \in 1..1 + Len(B) : W[k] = IF k = 1 THEN h ELSE B[k - 1]
      BY <2>2
    <2>4. /\ SubSeq(U, i, f - 1) \in Seq(MdLineSet)
          /\ Len(SubSeq(U, i, f - 1)) = Len(B) + 1
          /\ \A k \in 1..Len(B) + 1 : SubSeq(U, i, f - 1)[k] = U[i + k - 1]
      <3>1. f - 1 \in Int /\ f - 1 - i + 1 = Len(B) + 1 /\ i <= f - 1
        BY <1>n, <1>12
      <3>2. \A k \in i..f - 1 : U[k] \in MdLineSet
        <4>1. f <= Len(U) + 1
          BY <1>13 DEF Section
        <4> QED
          BY <1>10, <1>n, <4>1
      <3>3. /\ SubSeq(U, i, f - 1) \in Seq(MdLineSet)
            /\ Len(SubSeq(U, i, f - 1)) = IF i <= f - 1 THEN f - 1 - i + 1 ELSE 0
            /\ \A k \in 1..f - 1 - i + 1 : SubSeq(U, i, f - 1)[k] = U[i + k - 1]
        BY <3>1, <3>2, SubSeqProperties
      <3> QED
        BY <3>1, <3>3
    <2>5. ASSUME NEW k \in 1..Len(B) + 1
          PROVE  U[i + k - 1] = W[k]
      <3>1. CASE k = 1
        <4>1. i + k - 1 = i
          BY <3>1
        <4> QED
          BY <1>11, <1>n, <2>3, <3>1, <4>1
      <3>2. CASE k # 1
        <4>1. PICK j : j = k - 1
          OBVIOUS
        <4>2. j \in 1..Len(B) /\ i + k - 1 = i + j
          BY <1>n, <3>2, <4>1
        <4>3. U[i + j] = B[j] /\ W[k] = B[j]
          BY <1>11, <1>n, <2>3, <3>2, <4>1, <4>2
        <4> QED
          BY <4>2, <4>3
      <3> QED
        BY <3>1, <3>2
    <2>6. PICK S : S = SubSeq(U, i, f - 1)
      OBVIOUS
    <2>7. Len(S) = Len(W) /\ \A k \in 1..Len(S) : S[k] = W[k]
      BY <1>n, <2>3, <2>4, <2>5, <2>6
    <2>8. S = W
      BY <2>3, <2>4, <2>6, <2>7, SeqEqual
    <2> QED
      BY <2>1, <2>2, <2>6, <2>8
  <1>16. UpsertSection(u, c.level, c.title, c.body) = u
    <2>1. ~Unended(u, c)
      <3>1. CASE i = Len(U)
        <4>1. ~(e <= Len(L))
          BY <1>n, <1>10, <1>11, <3>1
        <4> QED
          BY <1>9, <4>1 DEF Unended
      <3>2. CASE i # Len(U)
        BY <1>9, <1>14, <3>2 DEF Unended
      <3> QED
        BY <3>1, <3>2
    <2>2. PICK j \in Nat, g \in Nat, V \in Seq(MdLineSet) :
             /\ Section(U, j, h, g)
             /\ Heading(u, c.level, c.title) = IF j <= Len(U) THEN j ELSE 0
             /\ Rewritten(V, U, j, h, B, g)
             /\ UpsertSection(u, c.level, c.title, c.body) =
                  MdDoc(V, IF g <= Len(U) THEN u.ended ELSE TRUE)
      <3>1. PICK w \in MdDocSet : w = u
        BY <1>9
      <3>2. \E j \in Nat, g \in Nat, V \in Seq(MdLineSet) :
             /\ Section(w.lines, j, MdLine(c.level, c.title), g)
             /\ Heading(w, c.level, c.title) = IF j <= Len(w.lines) THEN j ELSE 0
             /\ Rewritten(V, w.lines, j, MdLine(c.level, c.title), c.body.lines, g)
             /\ UpsertSection(w, c.level, c.title, c.body) =
                  MdDoc(V, IF g <= Len(w.lines) THEN w.ended ELSE TRUE)
        BY <2>1, <3>1, UpsertIs
      <3> QED
        BY <1>3, <1>4, <1>9, <3>1, <3>2
    <2>3. j = i
      BY <1>10, <1>14, <2>2
    <2>4. g = f
      BY <1>13, <2>2, <2>3, SectionEndsOnce
    <2>5. V = U
      <3>1. i \in Nat \ {0} /\ i <= e /\ e <= Len(L) + 1 /\ g = i + Len(B) + 1
        BY <1>10, <1>12, <2>4
      <3> QED
        BY <1>7, <2>2, <2>3, <3>1, RewrittenTwice
    <2>6. g <= Len(U) <=> e <= Len(L)
      BY <1>n, <1>11, <1>12, <2>4
    <2>7. (IF g <= Len(U) THEN u.ended ELSE TRUE) = (IF e <= Len(L) THEN d.ended ELSE TRUE)
      BY <1>9, <2>6
    <2>8. UpsertSection(u, c.level, c.title, c.body) =
            MdDoc(U, IF e <= Len(L) THEN d.ended ELSE TRUE)
      BY <2>2, <2>5, <2>7
    <2> QED
      BY <1>7, <1>8, <2>8
  <1>17. ASSUME NEW s \in Outline(d),
                s \notin IF Heading(d, c.level, c.title) = 0 THEN {}
                         ELSE Outline(MdDoc(SectionLines(d, c.level, c.title), TRUE))
         PROVE  s \in Outline(u)
    <2>1. PICK k \in 1..Len(L), m \in 1..Len(L) + 1 : Segment(L, k, m) /\ s = Entry(L, k, m)
      BY <1>1, OutlineIs
    <2>2. k \notin i..e - 1
      <3> SUFFICES ASSUME k \in i..e - 1
                   PROVE  FALSE
        OBVIOUS
      <3>1. i <= Len(L) /\ i < e /\ i # 0
        BY <1>n, <1>10
      <3>2. Heading(d, c.level, c.title) = i
        BY <1>7, <3>1
      <3>3. PICK S : S = SubSeq(L, i, e - 1)
        OBVIOUS
      <3>4. SectionLines(d, c.level, c.title) = S
        <4>1. /\ Heading(d, c.level, c.title) # 0
              /\ Section(d.lines, Heading(d, c.level, c.title), MdLine(c.level, c.title), e)
              /\ c.level > 0
          BY <1>1, <1>2, <1>4, <1>7, <3>1, <3>2
        <4>2. SectionIs(d, c.level, c.title, e)
          BY <1>2, <4>1, SectionLinesAre
        <4> QED
          BY <1>1, <3>2, <3>3, <4>2 DEF SectionIs
      <3>5. /\ S \in Seq(MdLineSet) /\ Len(S) = e - i
            /\ \A j \in 1..e - i : S[j] = L[i + j - 1]
        <4>1. \A j \in i..e - 1 : L[j] \in MdLineSet
          BY <1>n, <1>10
        <4>2. /\ S \in Seq(MdLineSet)
              /\ Len(S) = IF i <= e - 1 THEN e - 1 - i + 1 ELSE 0
              /\ \A j \in 1..e - 1 - i + 1 : S[j] = L[i + j - 1]
          BY <3>3, <4>1, SubSeqProperties
        <4>3. e - 1 - i + 1 = e - i /\ i <= e - 1
          BY <3>1
        <4> QED
          BY <4>2, <4>3
      <3>6. /\ m \in k + 1..Len(L) + 1 /\ L[k].level > 0
            /\ m <= Len(L) => L[m].level > 0
            /\ \A j \in k + 1..m - 1 : L[j].level = 0
        BY <2>1 DEF Segment
      <3>7. m <= e
        <4> SUFFICES ASSUME m > e
                     PROVE  FALSE
          BY <3>6
        <4>1. e \in k + 1..m - 1 /\ e <= Len(L)
          BY <1>n, <1>10, <3>6
        <4>2. L[e].level \in 1..h.level /\ L[e].level = 0
          BY <1>7, <3>6, <4>1 DEF Section
        <4> QED
          BY <4>2
      <3>8. PICK x, y : x = k + 1 - i /\ y = m + 1 - i
        OBVIOUS
      <3>9. /\ x \in 1..Len(S) /\ y \in 1..Len(S) + 1 /\ y \in x + 1..Len(S) + 1
            /\ i + x - 1 = k /\ i + y - 1 = m
        <4>1. k \in Nat /\ m \in Nat /\ i <= k /\ k < e /\ k < m /\ m <= e /\ e - i \in Nat
          BY <1>n, <3>1, <3>6, <3>7
        <4>2. Len(S) = e - i /\ i \in Nat /\ e \in Nat
          BY <3>5
        <4>3. x \in Nat /\ y \in Nat /\ x >= 1 /\ x <= e - i /\ y >= x + 1 /\ y <= e - i + 1
          BY <3>8, <4>1, <4>2
        <4>4. i + x - 1 = k /\ i + y - 1 = m
          BY <3>8, <4>1, <4>2
        <4>5. x \in 1..Len(S)
          BY <4>2, <4>3
        <4>6. y \in 1..Len(S) + 1
          BY <4>2, <4>3
        <4>7. y \in x + 1..Len(S) + 1
          BY <4>2, <4>3
        <4> QED
          BY <4>4, <4>5, <4>6, <4>7
      <3>10. S[x] = L[k]
        BY <3>5, <3>9
      <3>11. y <= Len(S) => S[y].level > 0
        <4> SUFFICES ASSUME y <= Len(S)
                     PROVE  S[y].level > 0
          OBVIOUS
        <4>1. y \in 1..e - i /\ m <= Len(L)
          BY <1>10, <1>n, <3>5, <3>9
        <4>2. S[y] = L[i + y - 1]
          BY <3>5, <4>1
        <4> QED
          BY <3>6, <3>9, <4>1, <4>2
      <3>12. ASSUME NEW j \in x + 1..y - 1
             PROVE  S[j].level = 0
        <4>1. j \in 1..e - i /\ i + j - 1 \in k + 1..m - 1
          BY <1>n, <3>5, <3>8, <3>9
        <4> QED
          BY <3>5, <3>6, <4>1
      <3>13. Segment(S, x, y)
        BY <3>6, <3>9, <3>10, <3>11, <3>12 DEF Segment
      <3>14. SubSeq(S, x + 1, y - 1) = SubSeq(L, k + 1, m - 1)
        <4>1. PICK a, z, b, w : a = k + 1 /\ z = m - 1 /\ b = x + 1 /\ w = y - 1
          OBVIOUS
        <4>2. /\ a \in Nat \ {0} /\ z \in Nat /\ z <= Len(L)
              /\ b \in Nat \ {0} /\ w \in Nat /\ w <= Len(S) /\ z - a = w - b
          BY <1>n, <1>10, <3>5, <3>6, <3>8, <3>9, <4>1
        <4>3. ASSUME NEW j \in a..z
              PROVE  S[b + (j - a)] = L[j]
          <5>1. PICK q : q = b + (j - a)
            OBVIOUS
          <5>2. q \in 1..e - i /\ i + q - 1 = j
            <6>1. j - a \in Nat /\ j <= z /\ j \in Nat
              BY <4>2
            <6>2. q = k + 2 - i + (j - (k + 1)) /\ j <= m - 1 /\ j >= k + 1
              BY <3>8, <4>1, <5>1, <6>1
            <6>3. k \in Nat /\ m \in Nat /\ i <= k /\ m <= e
              BY <1>n, <3>6, <3>7
            <6> QED
              BY <6>1, <6>2, <6>3
          <5>3. S[q] = L[i + q - 1]
            BY <3>5, <5>2
          <5> QED
            BY <5>1, <5>2, <5>3
        <4>4. Agree(L, a, z, S, b, w)
          BY <4>2, <4>3 DEF Agree
        <4>5. SameLines(L, a, z, S, b, w)
          BY <3>5, <4>4, AgreeingLines
        <4> QED
          BY <4>1, <4>5 DEF SameLines
      <3>15. s = Entry(S, x, y)
        BY <2>1, <3>10, <3>14 DEF Entry
      <3>16. PICK q \in MdDocSet : q = MdDoc(S, TRUE)
        BY <3>5 DEF MdDoc, MdDocSet
      <3>17. q.lines = S
        BY <3>16 DEF MdDoc
      <3>18. s \in Outline(q)
        BY <3>9, <3>13, <3>15, <3>17, OutlineIs
      <3> QED
        BY <1>17, <3>1, <3>2, <3>4, <3>16, <3>18
    <2>3. \E j \in 1..Len(U), n \in 1..Len(U) + 1 :
            Segment(U, j, n) /\ Entry(U, j, n) = Entry(L, k, m)
      BY <1>5, <1>7, <1>10, <2>1, <2>2, SegmentKept
    <2>4. \E j \in 1..Len(U), n \in 1..Len(U) + 1 :
            Segment(U, j, n) /\ s = Entry(U, j, n)
      BY <2>1, <2>3
    <2> QED
      BY <1>9, <2>4, OutlineIs
  <1> QED
    BY <1>3, <1>4, <1>8, <1>15, <1>16, <1>17

\* An edit of a section leaves every other section as it is, and what it puts in is found
\* again under its heading, for every file and every edit (find_markdown_section_range,
\* markdown_replace_section, markdown_upsert_section, markdown_insert_after_heading).
THEOREM SectionEditsAreLocal == MarkupSpec => []SectionEditIsLocal
  <1>1. MarkupTypes => SectionEditIsLocal
    <2> SUFFICES ASSUME MarkupTypes, form = "markdown", IsText(subject), IsText(change.body)
                 PROVE  SectionEditIsLocal
      BY DEF SectionEditIsLocal
    <2>1. PICK d \in MdDocSet : d = subject
      BY DEF MarkupTypes
    <2>2. PICK c \in MdEditSet : c = change
      BY DEF MarkupTypes
    <2>3. PICK L \in Seq(MdLineSet) : L = d.lines
      BY DEF MdDocSet
    <2>4. c.body \in MdDocSet
      BY DEF MdEditSet
    <2>5. PICK B \in Seq(MdLineSet) : B = c.body.lines
      BY <2>4 DEF MdDocSet
    <2>6. PICK i : i = Heading(d, c.level, c.title)
      OBVIOUS
    <2>7. i # 0 => UpsertSection(d, c.level, c.title, c.body)
                     = ReplaceSection(d, c.level, c.title, c.body)
      BY <2>6 DEF UpsertSection
    <2>8. Unended(d, c) <=> i # 0 /\ i = Len(d.lines) /\ ~d.ended
      BY <2>6 DEF Unended
    <2> DEFINE Plain == \A k \in DOMAIN c.body.lines : c.body.lines[k].level = 0
    <2>9. ASSUME Plain, ~Unended(d, c), i # 0
          PROVE  /\ Len(InsertAfterHeading(d, c.level, c.title, c.body).lines)
                      = Len(d.lines) + Len(c.body.lines)
                 /\ \A s \in Outline(d)
                          \ Outline(InsertAfterHeading(d, c.level, c.title, c.body)) :
                      s[1] = MdLine(c.level, c.title)
      <3>1. PICK h : h = MdLine(c.level, c.title)
        OBVIOUS
      <3>2. PICK V \in Seq(MdLineSet), ended \in BOOLEAN :
               /\ i \in 1..Len(L) /\ L[i] = h
               /\ Rewritten(V, L, i, h, B, i + 1)
               /\ InsertAfterHeading(d, c.level, c.title, c.body) = MdDoc(V, ended)
        BY <2>3, <2>5, <2>6, <2>9, <3>1, InsertIs
      <3>3. PICK v \in MdDocSet : v = MdDoc(V, ended)
        BY DEF MdDoc, MdDocSet
      <3>4. v.lines = V
        BY <3>3 DEF MdDoc
      <3>5. Len(V) = Len(L) + Len(B)
        <4>1. Len(V) = i + Len(B) + Len(L) + 1 - (i + 1)
          BY <3>2 DEF Rewritten
        <4>2. Len(L) \in Nat /\ Len(B) \in Nat
          OBVIOUS
        <4> QED
          BY <3>2, <4>1, <4>2
      <3>6. ASSUME NEW s \in Outline(d), s \notin Outline(v)
            PROVE  s[1] = h
        <4>1. PICK k \in 1..Len(L), m \in 1..Len(L) + 1 : Segment(L, k, m) /\ s = Entry(L, k, m)
          BY <2>3, OutlineIs
        <4>2. CASE k = i
          BY <3>2, <4>1, <4>2 DEF Entry
        <4>3. CASE k # i
          <5>1. PICK e : e = i + 1
            OBVIOUS
          <5>2. /\ i \in 1..Len(L) + 1 /\ e \in i..Len(L) + 1 /\ k \notin i..e - 1
                /\ i <= Len(L) => L[i] = h
            BY <3>2, <4>3, <5>1
          <5>3. h.level > 0
            BY <3>1 DEF MdLine, MdEditSet
          <5>a. Rewritten(V, L, i, h, B, e)
            BY <3>2, <5>1
          <5>b. h.level > 0 /\ Segment(L, k, m)
            BY <4>1, <5>3
          <5>4. \E j \in 1..Len(V), n \in 1..Len(V) + 1 :
                  Segment(V, j, n) /\ Entry(V, j, n) = Entry(L, k, m)
            BY <5>2, <5>a, <5>b, SegmentKept
          <5>5. s \in Outline(v)
            BY <3>4, <4>1, <5>4, OutlineIs
          <5> QED
            BY <3>6, <5>5
        <4> QED
          BY <4>2, <4>3
      <3> QED
        BY <2>3, <2>5, <3>1, <3>2, <3>3, <3>4, <3>5, <3>6
    <2>10. ASSUME Plain, ~Unended(d, c)
           PROVE  LET upserted == UpsertSection(d, c.level, c.title, c.body)
                      inside == IF i = 0 THEN {}
                                ELSE Outline(MdDoc(SectionLines(d, c.level, c.title), TRUE))
                  IN  /\ SectionLines(upserted, c.level, c.title)
                           = <<MdLine(c.level, c.title)>> \o c.body.lines
                      /\ Outline(d) \ inside \subseteq Outline(upserted)
                      /\ UpsertSection(upserted, c.level, c.title, c.body) = upserted
      BY <2>6, <2>10, UpsertIsLocal
    <2> QED
      BY <2>1, <2>2, <2>6, <2>7, <2>8, <2>9, <2>10 DEF SectionEditIsLocal
  <1> QED
    BY <1>1, MarkupIsTyped, PTL

(***************************************************************************)
(* Nodes of HTML files.  A well-formed document is read tag by tag, and a  *)
(* stack of open tags belongs to each place (NestedBy).  The element that tag *)
(* i opens is closed where the stack is again what it was before i (Closing): *)
(* from i on the document is nested there and not before (NodeEndIs), and of *)
(* the tags the search counts as many are open as are counted (DepthIs).   *)
(***************************************************************************)
\* The function that FoldLeft chooses: what the tags at the places s leave open
TagStep(d, f, s) ==
  IF s = {} THEN <<>> ELSE NestStep(f[s \ {Max(s)}], d[Max(s)])

TagSteps(d, f) == f = [s \in SUBSET DOMAIN d |-> TagStep(d, f, s)]

TagRun(d) == CHOOSE f : TagSteps(d, f)

LEMMA NestingIs ==
  ASSUME NEW d
  PROVE  Nesting(d) = TagRun(d)[DOMAIN d]
  BY DEF Nesting, FoldLeft, MapThenFoldSet, TagRun, TagSteps, TagStep

LEMMA TagRunExists ==
  ASSUME NEW C, NEW d \in Seq(C)
  PROVE  \A s \in SUBSET DOMAIN d : TagRun(d)[s] = TagStep(d, TagRun(d), s)
  <1> DEFINE D == DOMAIN d
             Good(f, k) == /\ f = [s \in SUBSET D |-> f[s]]
                           /\ \A s \in SUBSET D : s \subseteq 1..k => f[s] = TagStep(d, f, s)
             S == {k \in Nat : \E f : Good(f, k)}
  <1>0. D = 1..Len(d) /\ Len(d) \in Nat
    OBVIOUS
  <1> HIDE DEF D
  <1>1. 0 \in S
    <2> DEFINE f == [s \in SUBSET D |-> <<>>]
    <2>1. \A s \in SUBSET D : s \subseteq 1..0 => s = {}
      OBVIOUS
    <2>2. \A s \in SUBSET D : s \subseteq 1..0 => f[s] = TagStep(d, f, s)
      BY <2>1 DEF TagStep
    <2>3. f = [s \in SUBSET D |-> f[s]]
      OBVIOUS
    <2> HIDE DEF f
    <2>4. Good(f, 0)
      BY <2>2, <2>3
    <2> HIDE DEF Good
    <2> QED
      BY <2>4
  <1>2. ASSUME NEW k \in Nat, k \in S
        PROVE  k + 1 \in S
    <2>1. PICK f : Good(f, k)
      <3> HIDE DEF Good
      <3> QED
        BY <1>2
    <2> DEFINE g == [s \in SUBSET D |-> IF s \subseteq 1..k THEN f[s] ELSE TagStep(d, f, s)]
    <2>2. /\ g = [s \in SUBSET D |-> g[s]]
          /\ \A s \in SUBSET D : g[s] = IF s \subseteq 1..k THEN f[s] ELSE TagStep(d, f, s)
      OBVIOUS
    <2> HIDE DEF g
    <2>3. ASSUME NEW s \in SUBSET D, s \subseteq 1..k + 1
          PROVE  g[s] = TagStep(d, g, s)
      <3>1. g[s] = TagStep(d, f, s)
        BY <2>1, <2>2
      <3>2. CASE s = {}
        BY <3>1, <3>2 DEF TagStep
      <3>3. CASE s # {}
        <4>1. Max(s) \in s /\ \A y \in s : y <= Max(s)
          <5>1. k + 1 \in Nat /\ s \in SUBSET (1..k + 1)
            BY <2>3
          <5> QED
            BY <3>3, <5>1, MaxIs
        <4>m. PICK m : m = Max(s)
          OBVIOUS
        <4>2. s \ {m} \in SUBSET D /\ s \ {m} \subseteq 1..k
          <5>1. \A y \in s \ {m} : y \in 1..k + 1 /\ m \in 1..k + 1 /\ y <= m /\ y # m
            BY <2>3, <4>1, <4>m
          <5>2. \A y \in s \ {m} : y \in 1..k
            BY <5>1
          <5> QED
            BY <5>2
        <4>3. g[s \ {Max(s)}] = f[s \ {Max(s)}]
          BY <2>2, <4>2, <4>m
        <4> QED
          BY <3>1, <3>3, <4>3 DEF TagStep
      <3> QED
        BY <3>2, <3>3
    <2>4. Good(g, k + 1)
      BY <2>2, <2>3
    <2> HIDE DEF Good
    <2> QED
      BY <2>4
  <1>3. \E f : Good(f, Len(d))
    <2>1. Nat \subseteq S
      <3> HIDE DEF S
      <3> QED
        BY <1>1, <1>2, SetInduction
    <2> HIDE DEF Good
    <2> QED
      BY <1>0, <2>1
  <1>4. PICK f : Good(f, Len(d))
    BY <1>3
  <1>5. \A s \in SUBSET D : f[s] = TagStep(d, f, s)
    BY <1>0, <1>4
  <1>6. f = [s \in SUBSET D |-> f[s]]
    BY <1>4
  <1>7. f = [s \in SUBSET D |-> TagStep(d, f, s)]
    BY <1>5, <1>6
  <1>8. TagSteps(d, f)
    BY <1>7 DEF TagSteps, D
  <1>9. PICK g : g = TagRun(d)
    OBVIOUS
  <1>10. TagSteps(d, g)
    BY <1>8, <1>9 DEF TagRun
  <1> DEFINE h == [s \in SUBSET D |-> TagStep(d, g, s)]
  <1>11. g = h
    BY <1>10 DEF TagSteps, D
  <1>12. \A s \in SUBSET D : h[s] = TagStep(d, g, s)
    OBVIOUS
  <1> HIDE DEF h
  <1> QED
    BY <1>9, <1>11, <1>12 DEF D

\* The tags that are open after each tag of a document
Runs(html, f) == f[0] = <<>> /\ \A k \in 1..Len(html) : f[k] = NestStep(f[k - 1], html[k])

LEMMA RunExists ==
  ASSUME NEW C, NEW d \in Seq(C)
  PROVE  \E f : Runs(d, f) /\ Nesting(d) = f[Len(d)]
  <1>1. PICK n \in Nat : n = Len(d)
    OBVIOUS
  <1>2. DOMAIN d = 1..n
    BY <1>1
  <1>3. PICK g : g = TagRun(d)
    OBVIOUS
  <1>4. \A s \in SUBSET (1..n) : g[s] = TagStep(d, g, s)
    BY <1>2, <1>3, TagRunExists
  <1> DEFINE f == [k \in 0..n |-> g[1..k]]
  <1>5. \A k \in 0..n : f[k] = g[1..k]
    OBVIOUS
  <1> HIDE DEF f
  <1>6. f[0] = <<>>
    <2>1. 1..0 = {} /\ 0 \in 0..n
      OBVIOUS
    <2>2. g[{}] = TagStep(d, g, {})
      BY <1>4
    <2> QED
      BY <1>5, <2>1, <2>2 DEF TagStep
  <1>7. ASSUME NEW i \in 1..n
        PROVE  f[i] = NestStep(f[i - 1], d[i])
    <2>1. 1..i \in SUBSET (1..n) /\ i \in 1..i
      OBVIOUS
    <2>2. Max(1..i) = i
      <3>1. 1..i \in SUBSET (1..i) /\ 1..i # {} /\ i \in Nat
        BY <2>1
      <3>2. Max(1..i) \in 1..i /\ \A y \in 1..i : y <= Max(1..i)
        BY <3>1, MaxIs
      <3> QED
        BY <2>1, <3>2
    <2>3. (1..i) \ {i} = 1..i - 1
      OBVIOUS
    <2>4. g[1..i] = TagStep(d, g, 1..i)
      BY <1>4, <2>1
    <2>5. 1..i # {}
      BY <2>1
    <2>6. g[1..i] = NestStep(g[1..i - 1], d[i])
      BY <2>2, <2>3, <2>4, <2>5 DEF TagStep
    <2>7. i - 1 \in 0..n /\ i \in 0..n
      OBVIOUS
    <2> QED
      BY <1>5, <2>6, <2>7
  <1>8. Nesting(d) = f[n]
    <2>1. Nesting(d) = g[1..n]
      BY <1>2, <1>3, NestingIs
    <2>2. n \in 0..n
      OBVIOUS
    <2> QED
      BY <1>5, <2>1, <2>2
  <1>9. Runs(d, f)
    BY <1>1, <1>6, <1>7 DEF Runs
  <1> QED
    BY <1>1, <1>8, <1>9

\* A document is read tag by tag, in one way.
LEMMA NestingOf ==
  ASSUME NEW C, NEW d \in Seq(C), NEW f, Runs(d, f)
  PROVE  Nesting(d) = f[Len(d)]
  <1>1. PICK g : Runs(d, g) /\ Nesting(d) = g[Len(d)]
    BY RunExists
  <1>2. PICK n \in Nat : n = Len(d)
    OBVIOUS
  <1> DEFINE S == {k \in Nat : k <= n => f[k] = g[k]}
  <1>3. 0 \in S
    BY <1>1 DEF Runs
  <1>4. ASSUME NEW k \in Nat, k \in S
        PROVE  k + 1 \in S
    <2> SUFFICES ASSUME k + 1 <= n PROVE f[k + 1] = g[k + 1]
      OBVIOUS
    <2>1. k + 1 \in 1..n /\ k + 1 - 1 = k /\ f[k] = g[k]
      BY <1>4
    <2>2. f[k + 1] = NestStep(f[k], d[k + 1]) /\ g[k + 1] = NestStep(g[k], d[k + 1])
      BY <1>1, <1>2, <2>1 DEF Runs
    <2> QED
      BY <2>1, <2>2
  <1>5. Nat \subseteq S
    <2> HIDE DEF S
    <2> QED
      BY <1>3, <1>4, SetInduction
  <1> QED
    BY <1>1, <1>2, <1>5

\* The tags that are open, innermost last
Stack == Seq(TagNames)

\* What a tag does to them
Pushes(s, t, r) ==
  /\ t.kind = "open" /\ t.tag \notin VoidTags
  /\ Len(r) = Len(s) + 1 /\ r[Len(s) + 1] = t.tag /\ \A q \in 1..Len(s) : r[q] = s[q]

Pops(s, t, r) ==
  /\ t.kind = "close" /\ Len(s) > 0 /\ s[Len(s)] = t.tag
  /\ Len(r) = Len(s) - 1 /\ \A q \in 1..Len(s) - 1 : r[q] = s[q]

Stays(s, t, r) == t.kind # "close" /\ ~(t.kind = "open" /\ t.tag \notin VoidTags) /\ r = s

LEMMA StackIsNested == NotNested \notin Stack /\ <<>> \in Stack /\ NotNested # <<>>
  <1>1. PICK word : word = "not nested"
    OBVIOUS
  <1>2. PICK w : w = <<word>>
    OBVIOUS
  <1>a. Len(w) = 1 /\ DOMAIN w = 1..1 /\ w[1] = word
    BY <1>2
  <1>b. w = NotNested
    BY <1>1, <1>2, Zenon DEF NotNested
  <1>3. w = NotNested /\ Len(w) = 1 /\ DOMAIN w = 1..1 /\ w[1] = word
    BY <1>a, <1>b
  <1>4. word \in ToSet(w)
    BY <1>3 DEF ToSet
  <1>5. ASSUME w \in Seq(TagNames)
        PROVE  FALSE
    <2>1. w[1] \in TagNames
      BY <1>3, <1>5
    <2> QED
      BY <1>3, <1>4, <2>1 DEF TagNames
  <1>6. w # <<>> /\ <<>> \in Seq(TagNames)
    BY <1>3
  <1> QED
    BY <1>3, <1>5, <1>6 DEF Stack

LEMMA NestStepIs ==
  ASSUME NEW s \in Stack, NEW t \in TagSet, NestStep(s, t) # NotNested
  PROVE  /\ NestStep(s, t) \in Stack
         /\ \/ Pushes(s, t, NestStep(s, t))
            \/ Pops(s, t, NestStep(s, t))
            \/ Stays(s, t, NestStep(s, t))
  <1>1. s # NotNested /\ t.tag \in TagNames /\ Len(s) \in Nat
    BY StackIsNested DEF TagSet, Stack
  <1>2. PICK r : r = NestStep(s, t)
    OBVIOUS
  <1>3. CASE t.kind = "open" /\ t.tag \notin VoidTags
    <2>1. r = Append(s, t.tag)
      BY <1>1, <1>2, <1>3 DEF NestStep
    <2>2. /\ r \in Stack /\ Len(r) = Len(s) + 1 /\ r[Len(s) + 1] = t.tag
          /\ \A q \in 1..Len(s) : r[q] = s[q]
      BY <1>1, <2>1, AppendProperties DEF Stack
    <2> QED
      BY <1>2, <1>3, <2>2 DEF Pushes
  <1>4. CASE t.kind = "close"
    <2>1. s # <<>> /\ Last(s) = t.tag /\ r = Front(s)
      BY <1>1, <1>2, <1>4 DEF NestStep
    <2>2. Len(s) > 0 /\ s[Len(s)] = t.tag /\ r = SubSeq(s, 1, Len(s) - 1)
      <3>1. Len(s) # 0
        BY <2>1, EmptySeq DEF Stack
      <3> QED
        BY <1>1, <2>1, <3>1 DEF Last, Front
    <2>3. PICK m \in Nat : m = Len(s) - 1
      BY <1>1, <2>2
    <2>4. \A q \in 1..m : s[q] \in TagNames
      BY <2>3 DEF Stack
    <2>5. /\ SubSeq(s, 1, m) \in Seq(TagNames)
          /\ Len(SubSeq(s, 1, m)) = IF 1 <= m THEN m - 1 + 1 ELSE 0
          /\ \A q \in 1..m - 1 + 1 : SubSeq(s, 1, m)[q] = s[1 + q - 1]
      BY <2>4, SubSeqProperties
    <2>6. /\ r \in Stack /\ Len(r) = m /\ \A q \in 1..m : r[q] = s[q]
      BY <2>2, <2>3, <2>5 DEF Stack
    <2> QED
      BY <1>2, <1>4, <2>2, <2>3, <2>6 DEF Pops
  <1>5. CASE t.kind # "close" /\ ~(t.kind = "open" /\ t.tag \notin VoidTags)
    <2>1. r = s
      BY <1>1, <1>2, <1>5 DEF NestStep
    <2> QED
      BY <1>2, <1>5, <2>1 DEF Stays
  <1> QED
    BY <1>3, <1>4, <1>5

\* What is open says which tag comes to which tags
LEMMA StepIsNest ==
  ASSUME NEW s \in Stack, NEW t \in TagSet, NEW r \in Stack,
         Pushes(s, t, r) \/ Pops(s, t, r) \/ Stays(s, t, r)
  PROVE  NestStep(s, t) = r
  <1>1. s # NotNested /\ t.tag \in TagNames /\ Len(s) \in Nat
    BY StackIsNested DEF TagSet, Stack
  <1>2. CASE Pushes(s, t, r)
    <2>1. PICK a \in Stack : a = Append(s, t.tag)
      BY <1>1, AppendProperties DEF Stack
    <2>2. Len(a) = Len(s) + 1 /\ a[Len(s) + 1] = t.tag /\ \A q \in 1..Len(s) : a[q] = s[q]
      BY <1>1, <2>1, AppendProperties DEF Stack
    <2>3. Len(a) = Len(r) /\ \A q \in 1..Len(a) : a[q] = r[q]
      BY <1>1, <1>2, <2>2 DEF Pushes
    <2>4. a = r
      BY <2>3, SeqEqual DEF Stack
    <2> QED
      BY <1>1, <1>2, <2>1, <2>4 DEF NestStep, Pushes
  <1>3. CASE Pops(s, t, r)
    <2>1. PICK m \in Nat : m = Len(s) - 1
      BY <1>1, <1>3 DEF Pops
    <2>2. \A q \in 1..m : s[q] \in TagNames
      BY <2>1 DEF Stack
    <2>3. /\ SubSeq(s, 1, m) \in Seq(TagNames)
          /\ Len(SubSeq(s, 1, m)) = IF 1 <= m THEN m - 1 + 1 ELSE 0
          /\ \A q \in 1..m - 1 + 1 : SubSeq(s, 1, m)[q] = s[1 + q - 1]
      BY <2>2, SubSeqProperties
    <2>4. PICK a \in Stack : a = SubSeq(s, 1, m)
      BY <2>3 DEF Stack
    <2>5. Len(a) = m /\ \A q \in 1..m : a[q] = s[q]
      BY <2>3, <2>4
    <2>6. Len(r) = m /\ \A q \in 1..m : r[q] = s[q]
      BY <1>3, <2>1 DEF Pops
    <2>7. a = r
      BY <2>5, <2>6, SeqEqual DEF Stack
    <2>8. Front(s) = r /\ Last(s) = t.tag /\ s # <<>>
      <3>1. Front(s) = SubSeq(s, 1, m) /\ Last(s) = s[Len(s)]
        BY <2>1 DEF Front, Last
      <3>2. Len(s) # 0
        BY <1>3 DEF Pops
      <3> QED
        BY <1>3, <2>4, <2>7, <3>1, <3>2, EmptySeq DEF Stack, Pops
    <2> QED
      BY <1>1, <1>3, <2>8 DEF NestStep, Pops
  <1>4. CASE Stays(s, t, r)
    BY <1>1, <1>4 DEF NestStep, Stays
  <1> QED
    BY <1>2, <1>3, <1>4

\* The tags that are open after each tag of a well-formed document
NestedBy(html, f) ==
  /\ Runs(html, f) /\ f[Len(html)] = <<>>
  /\ \A k \in 0..Len(html) : f[k] \in Stack
  /\ \A k \in 1..Len(html) : \/ Pushes(f[k - 1], html[k], f[k])
                             \/ Pops(f[k - 1], html[k], f[k])
                             \/ Stays(f[k - 1], html[k], f[k])

LEMMA NestedRun ==
  ASSUME NEW html \in Seq(TagSet), WellFormed(html)
  PROVE  \E f : NestedBy(html, f)
  <1>1. PICK f : Runs(html, f) /\ Nesting(html) = f[Len(html)]
    BY RunExists
  <1>2. PICK n \in Nat : n = Len(html)
    OBVIOUS
  <1>3. f[n] = <<>>
    BY <1>1, <1>2 DEF WellFormed
  <1>4. \A k \in 1..n : f[k] = NestStep(f[k - 1], html[k])
    BY <1>1, <1>2 DEF Runs
  <1>5. \A k \in 0..n : f[k] # NotNested
    <2> DEFINE S == {j \in Nat : j <= n => f[n - j] # NotNested}
    <2>1. 0 \in S
      BY <1>3, StackIsNested
    <2>2. ASSUME NEW j \in Nat, j \in S
          PROVE  j + 1 \in S
      <3> SUFFICES ASSUME j + 1 <= n, f[n - (j + 1)] = NotNested
                   PROVE  FALSE
        OBVIOUS
      <3>1. PICK k : k = n - j
        OBVIOUS
      <3>2. k \in 1..n /\ k - 1 = n - (j + 1) /\ f[k] # NotNested
        BY <2>2, <3>1
      <3>3. f[k] = NestStep(f[k - 1], html[k])
        BY <1>4, <3>2
      <3> QED
        BY <3>2, <3>3 DEF NestStep
    <2>3. Nat \subseteq S
      <3> HIDE DEF S
      <3> QED
        BY <2>1, <2>2, SetInduction
    <2> SUFFICES ASSUME NEW k \in 0..n PROVE f[k] # NotNested
      OBVIOUS
    <2>4. n - k \in Nat /\ n - k <= n /\ n - (n - k) = k
      OBVIOUS
    <2>5. n - k \in S
      BY <2>3, <2>4
    <2> QED
      BY <2>4, <2>5
  <1>6. \A k \in 0..n : f[k] \in Stack
    <2> DEFINE S == {k \in Nat : k <= n => f[k] \in Stack}
    <2>1. 0 \in S
      BY <1>1, StackIsNested DEF Runs
    <2>2. ASSUME NEW k \in Nat, k \in S
          PROVE  k + 1 \in S
      <3> SUFFICES ASSUME k + 1 <= n PROVE f[k + 1] \in Stack
        OBVIOUS
      <3>1. k + 1 \in 1..n /\ k + 1 \in 0..n /\ k + 1 - 1 = k /\ f[k] \in Stack
        BY <2>2
      <3>2. f[k + 1] = NestStep(f[k], html[k + 1]) /\ f[k + 1] # NotNested
        BY <1>4, <1>5, <3>1
      <3>3. html[k + 1] \in TagSet
        BY <1>2, <3>1
      <3> QED
        BY <3>1, <3>2, <3>3, NestStepIs
    <2>3. Nat \subseteq S
      <3> HIDE DEF S
      <3> QED
        BY <2>1, <2>2, SetInduction
    <2> QED
      BY <2>3
  <1>7. ASSUME NEW k \in 1..n
        PROVE  \/ Pushes(f[k - 1], html[k], f[k])
               \/ Pops(f[k - 1], html[k], f[k])
               \/ Stays(f[k - 1], html[k], f[k])
    <2>1. k \in 0..n /\ k - 1 \in 0..n /\ html[k] \in TagSet
      BY <1>2
    <2>2. f[k - 1] \in Stack /\ f[k] # NotNested /\ f[k] = NestStep(f[k - 1], html[k])
      BY <1>4, <1>5, <1>6, <2>1
    <2> QED
      BY <2>1, <2>2, NestStepIs
  <1> QED
    BY <1>1, <1>2, <1>3, <1>6, <1>7 DEF NestedBy

\* While an element is open, it and what was open before stay where they are
Inside(html, f, i, k) ==
  /\ Len(f[k]) > Len(f[i - 1]) /\ f[k][Len(f[i - 1]) + 1] = html[i].tag
  /\ \A q \in 1..Len(f[i - 1]) : f[k][q] = f[i - 1][q]

\* The element that tag i opens is closed at tag e
Closing(html, f, i, e) ==
  /\ e \in i + 1..Len(html) /\ f[e] = f[i - 1]
  /\ html[e].kind = "close" /\ html[e].tag = html[i].tag
  /\ \A k \in i..e - 1 : Inside(html, f, i, k)

LEMMA ElementCloses ==
  ASSUME NEW html \in Seq(TagSet), NEW f, NestedBy(html, f),
         NEW i \in 1..Len(html), Pushes(f[i - 1], html[i], f[i])
  PROVE  \E e : Closing(html, f, i, e)
  <1>1. PICK n \in Nat : n = Len(html)
    OBVIOUS
  <1>2. \A k \in 0..n : f[k] \in Stack /\ Len(f[k]) \in Nat
    BY <1>1 DEF NestedBy, Stack
  <1>3. i \in 1..n /\ i \in 0..n /\ i - 1 \in 0..n /\ n \in 0..n
    BY <1>1
  <1>4. PICK p \in Nat : p = Len(f[i - 1])
    BY <1>2, <1>3
  <1>5. Len(f[i]) = p + 1 /\ f[i][p + 1] = html[i].tag /\ \A q \in 1..p : f[i][q] = f[i - 1][q]
    BY <1>4 DEF Pushes
  <1>6. Len(f[n]) = 0
    BY <1>1, EmptySeq DEF NestedBy
  <1>7. \A k \in 1..n : \/ Pushes(f[k - 1], html[k], f[k])
                        \/ Pops(f[k - 1], html[k], f[k])
                        \/ Stays(f[k - 1], html[k], f[k])
    BY <1>1 DEF NestedBy
  <1> DEFINE A == {k \in i + 1..n : Len(f[k]) <= p}
  <1>8. n \in A
    BY <1>3, <1>5, <1>6
  <1>9. PICK e \in A : \A k \in A : e <= k
    <2>1. A \in SUBSET Nat /\ A # {}
      BY <1>8
    <2> HIDE DEF A
    <2> QED
      BY <2>1, LeastExists
  <1>10. e \in i + 1..n /\ Len(f[e]) <= p /\ \A k \in i + 1..e - 1 : Len(f[k]) > p
    <2>1. e \in i + 1..n /\ Len(f[e]) <= p
      BY <1>9
    <2>2. ASSUME NEW k \in i + 1..e - 1
          PROVE  Len(f[k]) > p
      <3>1. k \in i + 1..n /\ k \in 0..n /\ ~(e <= k)
        BY <1>3, <2>1
      <3>2. ~(Len(f[k]) <= p)
        BY <1>9, <3>1
      <3> QED
        BY <1>2, <3>1, <3>2
    <2> QED
      BY <2>1, <2>2
  <1> HIDE DEF A
  <1> DEFINE In(k) == /\ Len(f[k]) > p /\ f[k][p + 1] = html[i].tag
                      /\ \A q \in 1..p : f[k][q] = f[i - 1][q]
             S == {j \in Nat : i + j <= e - 1 => In(i + j)}
  <1>11. 0 \in S
    BY <1>3, <1>5
  <1>12. ASSUME NEW j \in Nat, j \in S
         PROVE  j + 1 \in S
    <2> SUFFICES ASSUME i + (j + 1) <= e - 1
                 PROVE  In(i + (j + 1))
      OBVIOUS
    <2>1. PICK k : k = i + (j + 1)
      OBVIOUS
    <2>2. k \in i + 1..e - 1 /\ k \in 1..n /\ k \in 0..n /\ k - 1 \in 0..n /\ i + j = k - 1
      BY <1>3, <1>10, <2>1
    <2>3. Len(f[k - 1]) > p /\ f[k - 1][p + 1] = html[i].tag
          /\ \A q \in 1..p : f[k - 1][q] = f[i - 1][q]
      <3>1. i + j <= e - 1
        BY <1>10, <2>2
      <3>2. In(i + j)
        <4> HIDE DEF In
        <4> QED
          BY <1>12, <3>1
      <3> QED
        BY <2>2, <3>2
    <2>4. Len(f[k]) > p /\ Len(f[k]) \in Nat /\ Len(f[k - 1]) \in Nat
      BY <1>2, <1>10, <2>2
    <2>5. \A q \in 1..p + 1 : f[k][q] = f[k - 1][q]
      <3>1. CASE Pushes(f[k - 1], html[k], f[k])
        <4>1. \A q \in 1..p + 1 : q \in 1..Len(f[k - 1])
          BY <2>3, <2>4
        <4> QED
          BY <3>1, <4>1 DEF Pushes
      <3>2. CASE Pops(f[k - 1], html[k], f[k])
        <4>1. Len(f[k]) = Len(f[k - 1]) - 1
          BY <3>2 DEF Pops
        <4>2. \A q \in 1..p + 1 : q \in 1..Len(f[k - 1]) - 1
          BY <2>4, <4>1
        <4> QED
          BY <3>2, <4>2 DEF Pops
      <3>3. CASE Stays(f[k - 1], html[k], f[k])
        BY <3>3 DEF Stays
      <3> QED
        BY <1>7, <2>2, <3>1, <3>2, <3>3
    <2>6. In(k)
      BY <2>3, <2>4, <2>5
    <2> QED
      BY <2>1, <2>6
  <1>13. \A k \in i..e - 1 : In(k)
    <2>1. Nat \subseteq S
      <3> HIDE DEF S
      <3> QED
        BY <1>11, <1>12, SetInduction
    <2> SUFFICES ASSUME NEW k \in i..e - 1 PROVE In(k)
      OBVIOUS
    <2>2. k - i \in Nat /\ i + (k - i) = k /\ k <= e - 1
      BY <1>3
    <2>3. k - i \in S
      BY <2>1, <2>2
    <2> HIDE DEF In
    <2> QED
      BY <2>2, <2>3
  <1>14. PICK m : m = e - 1
    OBVIOUS
  <1>15. m \in i..e - 1 /\ m \in 0..n /\ e \in 1..n /\ e \in 0..n /\ e - 1 = m
    BY <1>3, <1>10, <1>14
  <1>16. /\ Len(f[m]) > p /\ f[m][p + 1] = html[i].tag
         /\ \A q \in 1..p : f[m][q] = f[i - 1][q]
         /\ Len(f[m]) \in Nat /\ Len(f[e]) \in Nat
    BY <1>2, <1>13, <1>15
  <1>17. Pops(f[m], html[e], f[e])
    <2>1. CASE Pushes(f[m], html[e], f[e])
      BY <1>10, <1>16, <2>1 DEF Pushes
    <2>2. CASE Stays(f[m], html[e], f[e])
      BY <1>10, <1>16, <2>2 DEF Stays
    <2> QED
      BY <1>7, <1>15, <2>1, <2>2
  <1>18. /\ html[e].kind = "close" /\ Len(f[e]) = p /\ Len(f[m]) = p + 1
         /\ html[e].tag = f[m][p + 1] /\ \A q \in 1..p : f[e][q] = f[m][q]
    <2>1. Len(f[e]) = Len(f[m]) - 1 /\ html[e].tag = f[m][Len(f[m])] /\ html[e].kind = "close"
          /\ \A q \in 1..Len(f[m]) - 1 : f[e][q] = f[m][q]
      BY <1>17 DEF Pops
    <2>2. Len(f[m]) = p + 1
      BY <1>10, <1>16, <2>1
    <2> QED
      BY <2>1, <2>2
  <1>19. f[e] = f[i - 1]
    <2>1. f[e] \in Stack /\ f[i - 1] \in Stack
      BY <1>2, <1>3, <1>15
    <2>2. Len(f[e]) = Len(f[i - 1]) /\ \A q \in 1..Len(f[e]) : f[e][q] = f[i - 1][q]
      BY <1>4, <1>16, <1>18
    <2> QED
      BY <2>1, <2>2, SeqEqual DEF Stack
  <1>20. \A k \in i..e - 1 : Inside(html, f, i, k)
    BY <1>4, <1>13 DEF Inside
  <1>21. Closing(html, f, i, e)
    BY <1>1, <1>10, <1>16, <1>18, <1>19, <1>20 DEF Closing
  <1> QED
    BY <1>21

\* What is open within an element
Above(s, p) == SubSeq(s, p + 1, Len(s))

LEMMA AboveIs ==
  ASSUME NEW s \in Stack, NEW p \in Nat, p <= Len(s)
  PROVE  /\ Above(s, p) \in Stack /\ Len(Above(s, p)) = Len(s) - p
         /\ \A q \in 1..Len(s) - p : Above(s, p)[q] = s[p + q]
  <1>1. PICK n \in Nat : n = Len(s)
    BY DEF Stack
  <1>2. PICK m \in Nat : m = p + 1
    OBVIOUS
  <1>3. \A q \in m..n : s[q] \in TagNames
    BY <1>1, <1>2 DEF Stack
  <1>4. /\ SubSeq(s, m, n) \in Seq(TagNames)
        /\ Len(SubSeq(s, m, n)) = IF m <= n THEN n - m + 1 ELSE 0
        /\ \A q \in 1..n - m + 1 : SubSeq(s, m, n)[q] = s[m + q - 1]
    BY <1>3, SubSeqProperties
  <1>5. PICK a : a = SubSeq(s, m, n)
    OBVIOUS
  <1>6. Above(s, p) = a
    BY <1>1, <1>2, <1>5 DEF Above
  <1>7. a \in Seq(TagNames) /\ Len(a) = n - p
    BY <1>1, <1>2, <1>4, <1>5
  <1>8. ASSUME NEW q \in 1..n - p
        PROVE  a[q] = s[p + q]
    <2>1. q \in 1..n - m + 1 /\ m + q - 1 = p + q
      BY <1>2
    <2> QED
      BY <1>4, <1>5, <2>1
  <1> QED
    BY <1>1, <1>6, <1>7, <1>8 DEF Stack

\* Within an element tags are counted as they are in the whole document.
LEMMA AboveStep ==
  ASSUME NEW s \in Stack, NEW t \in TagSet, NEW r \in Stack,
         Pushes(s, t, r) \/ Pops(s, t, r) \/ Stays(s, t, r),
         NEW p \in Nat, p <= Len(s), p <= Len(r), t.kind = "close" => p < Len(s)
  PROVE  NestStep(Above(s, p), t) = Above(r, p)
  <1>1. PICK a \in Stack : a = Above(s, p)
    BY AboveIs
  <1>2. PICK b \in Stack : b = Above(r, p)
    BY AboveIs
  <1>3. Len(s) \in Nat /\ Len(r) \in Nat
    BY DEF Stack
  <1>4. Len(a) = Len(s) - p /\ \A q \in 1..Len(s) - p : a[q] = s[p + q]
    BY <1>1, AboveIs
  <1>5. Len(b) = Len(r) - p /\ \A q \in 1..Len(r) - p : b[q] = r[p + q]
    BY <1>2, AboveIs
  <1>6. CASE Pushes(s, t, r)
    <2>1. Len(r) = Len(s) + 1 /\ r[Len(s) + 1] = t.tag /\ \A q \in 1..Len(s) : r[q] = s[q]
      BY <1>6 DEF Pushes
    <2>2. PICK m \in Nat : m = Len(s) - p
      BY <1>3
    <2>3. Len(a) = m /\ Len(b) = m + 1
      BY <1>3, <1>4, <1>5, <2>1, <2>2
    <2>4. b[m + 1] = t.tag
      <3>1. m + 1 \in 1..Len(r) - p /\ p + (m + 1) = Len(s) + 1
        BY <1>3, <2>1, <2>2
      <3>2. b[m + 1] = r[p + (m + 1)]
        BY <1>5, <3>1
      <3> QED
        BY <2>1, <3>1, <3>2
    <2>5. ASSUME NEW q \in 1..m
          PROVE  b[q] = a[q]
      <3>1. q \in 1..Len(r) - p /\ q \in 1..Len(s) - p /\ p + q \in 1..Len(s)
        BY <1>3, <2>1, <2>2
      <3> QED
        BY <1>4, <1>5, <2>1, <3>1
    <2>6. Pushes(a, t, b)
      BY <1>6, <2>3, <2>4, <2>5 DEF Pushes
    <2> QED
      BY <1>1, <1>2, <2>6, StepIsNest
  <1>7. CASE Pops(s, t, r)
    <2>1. /\ Len(r) = Len(s) - 1 /\ s[Len(s)] = t.tag /\ p < Len(s)
          /\ \A q \in 1..Len(s) - 1 : r[q] = s[q]
      BY <1>7 DEF Pops
    <2>a. Len(r) - p \in Nat
      BY <1>3
    <2>2. PICK m \in Nat : m = Len(r) - p
      BY <2>a
    <2>3. Len(a) = m + 1 /\ Len(b) = m
      BY <1>3, <1>4, <1>5, <2>1, <2>2
    <2>4. a[m + 1] = t.tag
      <3>1. m + 1 \in 1..Len(s) - p /\ p + (m + 1) = Len(s)
        BY <1>3, <2>1, <2>2
      <3>2. a[m + 1] = s[p + (m + 1)]
        BY <1>4, <3>1
      <3> QED
        BY <2>1, <3>1, <3>2
    <2>5. ASSUME NEW q \in 1..m
          PROVE  b[q] = a[q]
      <3>1. q \in 1..Len(r) - p /\ q \in 1..Len(s) - p /\ p + q \in 1..Len(s) - 1
        BY <1>3, <2>1, <2>2
      <3> QED
        BY <1>4, <1>5, <2>1, <3>1
    <2>6. Pops(a, t, b)
      <3>1. Len(a) - 1 = m /\ Len(a) > 0
        BY <2>3
      <3> QED
        BY <1>7, <2>3, <2>4, <2>5, <3>1 DEF Pops
    <2> QED
      BY <1>1, <1>2, <2>6, StepIsNest
  <1>8. CASE Stays(s, t, r)
    <2>1. Stays(a, t, b)
      BY <1>1, <1>2, <1>8 DEF Stays
    <2> QED
      BY <1>1, <1>2, <2>1, StepIsNest
  <1> QED
    BY <1>6, <1>7, <1>8

\* A part of a document
LEMMA PartIs ==
  ASSUME NEW html \in Seq(TagSet), NEW i \in Nat \ {0}, NEW j \in Nat, j <= Len(html), i <= j + 1
  PROVE  /\ Part(html, i, j) \in Seq(TagSet) /\ Len(Part(html, i, j)) = j + 1 - i
         /\ \A m \in 1..j + 1 - i : Part(html, i, j)[m] = html[i + m - 1]
  <1>1. \A k \in i..j : html[k] \in TagSet
    OBVIOUS
  <1>2. /\ SubSeq(html, i, j) \in Seq(TagSet)
        /\ Len(SubSeq(html, i, j)) = IF i <= j THEN j - i + 1 ELSE 0
        /\ \A m \in 1..j - i + 1 : SubSeq(html, i, j)[m] = html[i + m - 1]
    BY <1>1, SubSeqProperties
  <1>3. j - i + 1 = j + 1 - i /\ (~(i <= j) => j + 1 - i = 0)
    OBVIOUS
  <1>4. PICK w : w = SubSeq(html, i, j)
    OBVIOUS
  <1>5. Part(html, i, j) = w
    BY <1>4 DEF Part
  <1>6. w \in Seq(TagSet) /\ Len(w) = j + 1 - i
    BY <1>2, <1>3, <1>4
  <1>7. \A m \in 1..j + 1 - i : w[m] = html[i + m - 1]
    BY <1>2, <1>3, <1>4
  <1> QED
    BY <1>5, <1>6, <1>7

\* From where an element opens, the document is nested where the element closes and not
\* before.
LEMMA NodeEndIs ==
  ASSUME NEW html \in Seq(TagSet), NEW f, NestedBy(html, f),
         NEW i \in 1..Len(html), Pushes(f[i - 1], html[i], f[i]), NEW e, Closing(html, f, i, e)
  PROVE  NodeEnd(html, i) = e
  <1>1. PICK n \in Nat : n = Len(html)
    OBVIOUS
  <1>2. \A k \in 0..n : f[k] \in Stack /\ Len(f[k]) \in Nat
    BY <1>1 DEF NestedBy, Stack
  <1>3. i \in 1..n /\ i - 1 \in 0..n /\ e \in i + 1..n /\ i \in Nat /\ e \in Nat
    BY <1>1 DEF Closing
  <1>4. PICK p \in Nat : p = Len(f[i - 1])
    BY <1>2, <1>3
  <1>5. /\ Len(f[e]) = p /\ \A k \in i..e - 1 : Len(f[k]) > p
    BY <1>4 DEF Closing, Inside
  <1>6. \A k \in i - 1..e : p <= Len(f[k])
    <2> SUFFICES ASSUME NEW k \in i - 1..e PROVE p <= Len(f[k])
      OBVIOUS
    <2>a. k \in Int /\ i - 1 <= k /\ k <= e
      BY <1>3
    <2>b. (k # i - 1 => i <= k) /\ (k # e => k <= e - 1)
      BY <1>3, <2>a
    <2>1. k = i - 1 \/ k = e \/ k \in i..e - 1
      BY <2>a, <2>b
    <2>2. k \in i..e - 1 => k \in 0..n
      BY <1>3
    <2> QED
      BY <1>2, <1>4, <1>5, <2>1, <2>2
  <1> DEFINE g == [m \in 0..n |-> Above(f[i - 1 + m], p)]
  <1>7. \A m \in 0..n : g[m] = Above(f[i - 1 + m], p)
    OBVIOUS
  <1> HIDE DEF g
  <1>8. ASSUME NEW k \in i..e
        PROVE  NestStep(Above(f[k - 1], p), html[k]) = Above(f[k], p)
    <2>1. k \in 1..n /\ k \in 0..n /\ k - 1 \in 0..n /\ k \in i - 1..e /\ k - 1 \in i - 1..e
      BY <1>3
    <2>2. f[k] \in Stack /\ f[k - 1] \in Stack /\ html[k] \in TagSet
      BY <1>1, <1>2, <2>1
    <2>3. p <= Len(f[k]) /\ p <= Len(f[k - 1])
      BY <1>6, <2>1
    <2>4. html[k].kind = "close" => p < Len(f[k - 1])
      <3> SUFFICES ASSUME html[k].kind = "close" PROVE p < Len(f[k - 1])
        OBVIOUS
      <3>1. k # i
        BY DEF Pushes
      <3>2. k - 1 \in i..e - 1
        BY <1>3, <3>1
      <3> QED
        BY <1>2, <1>5, <2>1, <3>2
    <2>5. \/ Pushes(f[k - 1], html[k], f[k])
          \/ Pops(f[k - 1], html[k], f[k])
          \/ Stays(f[k - 1], html[k], f[k])
      BY <1>1, <2>1 DEF NestedBy
    <2> QED
      BY <2>2, <2>3, <2>4, <2>5, AboveStep
  <1>9. ASSUME NEW j \in i..e
        PROVE  WellFormed(SubSeq(html, i, j)) <=> j = e
    <2>1. j \in Nat /\ j <= Len(html) /\ i <= j + 1 /\ i \in Nat \ {0} /\ j \in 0..n
      BY <1>1, <1>3
    <2>2. PICK w : w = SubSeq(html, i, j)
      OBVIOUS
    <2>3. /\ w \in Seq(TagSet) /\ Len(w) = j + 1 - i
          /\ \A m \in 1..j + 1 - i : w[m] = html[i + m - 1]
      BY <2>1, <2>2, PartIs DEF Part
    <2>4. PICK l \in Nat : l = j + 1 - i
      BY <2>1
    <2>5. Runs(w, g)
      <3>1. g[0] = <<>>
        <4>1. g[0] = Above(f[i - 1], p)
          <5>1. 0 \in 0..n /\ i - 1 + 0 = i - 1
            BY <1>3
          <5> QED
            BY <1>7, <5>1
        <4>2. f[i - 1] \in Stack /\ p <= Len(f[i - 1])
          BY <1>2, <1>3, <1>4
        <4>3. Above(f[i - 1], p) \in Stack /\ Len(Above(f[i - 1], p)) = Len(f[i - 1]) - p
          BY <4>2, AboveIs
        <4>4. PICK a \in Stack : a = Above(f[i - 1], p)
          BY <4>3
        <4>5. Len(a) = 0
          BY <1>4, <4>3, <4>4
        <4> QED
          BY <4>1, <4>4, <4>5, EmptySeq DEF Stack
      <3>2. ASSUME NEW m \in 1..l
            PROVE  g[m] = NestStep(g[m - 1], w[m])
        <4>1. PICK k : k = i + m - 1
          OBVIOUS
        <4>2. k \in i..e /\ i - 1 + m = k /\ i - 1 + (m - 1) = k - 1 /\ m \in 0..n /\ m - 1 \in 0..n
          BY <1>3, <2>1, <2>4, <4>1
        <4>3. w[m] = html[k]
          BY <2>3, <2>4, <4>1
        <4>4. g[m] = Above(f[k], p) /\ g[m - 1] = Above(f[k - 1], p)
          BY <1>7, <4>2
        <4> QED
          BY <1>8, <4>2, <4>3, <4>4
      <3> QED
        BY <2>3, <2>4, <3>1, <3>2 DEF Runs
    <2>6. Nesting(w) = g[l]
      BY <2>3, <2>4, <2>5, NestingOf
    <2>7. g[l] = Above(f[j], p)
      <3>1. l \in 0..n /\ i - 1 + l = j
        BY <1>3, <2>1, <2>4
      <3> QED
        BY <1>7, <3>1
    <2>8. f[j] \in Stack /\ p <= Len(f[j]) /\ Len(f[j]) \in Nat
      <3>1. j \in i - 1..e
        BY <1>3
      <3> QED
        BY <1>2, <1>6, <2>1, <3>1
    <2>9. PICK a \in Stack : a = Above(f[j], p)
      BY <2>8, AboveIs
    <2>10. Len(a) = Len(f[j]) - p
      BY <2>8, <2>9, AboveIs
    <2>11. a = <<>> <=> Len(f[j]) = p
      <3>1. a = <<>> <=> Len(a) = 0
        BY EmptySeq DEF Stack
      <3> QED
        BY <2>8, <2>10, <3>1
    <2>12. Len(f[j]) = p <=> j = e
      <3>1. CASE j = e
        BY <1>5, <3>1
      <3>2. CASE j # e
        <4>1. j \in i..e - 1
          BY <1>3, <3>2
        <4> QED
          BY <1>5, <2>8, <3>2, <4>1
      <3> QED
        BY <3>1, <3>2
    <2> QED
      BY <2>2, <2>6, <2>7, <2>9, <2>11, <2>12 DEF WellFormed
  <1> DEFINE A == {j \in i..Len(html) : WellFormed(SubSeq(html, i, j))}
  <1>10. A \in SUBSET Nat /\ e \in A
    <2>1. e \in i..e /\ e \in i..Len(html)
      BY <1>1, <1>3
    <2> QED
      BY <1>3, <1>9, <2>1
  <1>11. Min(A) \in A /\ Min(A) <= e
    <2> HIDE DEF A
    <2> QED
      BY <1>10, MinIs
  <1>12. Min(A) = e
    <2>1. PICK m : m = Min(A)
      OBVIOUS
    <2>2. m \in i..n /\ WellFormed(SubSeq(html, i, m)) /\ m <= e
      BY <1>1, <1>11, <2>1
    <2>3. m \in i..e
      BY <1>3, <2>2
    <2> QED
      BY <1>9, <2>1, <2>2, <2>3
  <1> QED
    BY <1>12 DEF NodeEnd

LEMMA OneMore ==
  ASSUME NEW A, IsFiniteSet(A), NEW x, x \notin A, NEW c, NEW B, B = IF c THEN A \cup {x} ELSE A
  PROVE  /\ Cardinality(A) \in Nat
         /\ Cardinality(B) = IF c THEN Cardinality(A) + 1 ELSE Cardinality(A)
  <1>1. Cardinality(A) \in Nat
    BY FS_CardinalityType
  <1>2. CASE c
    BY <1>1, <1>2, FS_AddElement
  <1>3. CASE ~c
    BY <1>1, <1>3
  <1> QED
    BY <1>1, <1>2, <1>3

\* What is counted up and down for on the way from tag i to tag j
Ups(html, tag, i, j)   == {k \in i..j : Opens(html[k], tag)}
Downs(html, tag, i, j) == {k \in i..j : Closes(html[k], tag)}

\* What is open above place p and has been counted
Counted(s, tag, p) == {q \in p + 1..Len(s) : StartsWith(s[q], tag)}

LEMMA CountsAreFinite ==
  ASSUME NEW html, NEW tag, NEW i \in Int, NEW j \in Int, NEW s \in Stack, NEW p \in Nat
  PROVE  /\ IsFiniteSet(Ups(html, tag, i, j)) /\ IsFiniteSet(Downs(html, tag, i, j))
         /\ IsFiniteSet(Counted(s, tag, p))
  <1>1. IsFiniteSet(i..j) /\ Len(s) \in Int /\ p + 1 \in Int
    BY FS_Interval DEF Stack
  <1>2. IsFiniteSet(p + 1..Len(s))
    BY <1>1, FS_Interval
  <1>3. /\ Ups(html, tag, i, j) \in SUBSET (i..j) /\ Downs(html, tag, i, j) \in SUBSET (i..j)
        /\ Counted(s, tag, p) \in SUBSET (p + 1..Len(s))
    BY DEF Ups, Downs, Counted
  <1> QED
    BY <1>1, <1>2, <1>3, FS_Subset

\* One more tag is counted as it is opened or closed, provided that every tag that is
\* counted up for is closed in the end and nothing else looks like one.
LEMMA CountStep ==
  ASSUME NEW html \in Seq(TagSet), NEW tag, ~Unclosed(html, tag), ~Disguised(html, tag),
         NEW i \in Nat \ {0}, NEW k \in 1..Len(html), i <= k,
         NEW s \in Stack, NEW r \in Stack,
         Pushes(s, html[k], r) \/ Pops(s, html[k], r) \/ Stays(s, html[k], r),
         NEW p \in Nat, p <= Len(s), p <= Len(r),
         Depth(html, tag, i, k - 1) = Cardinality(Counted(s, tag, p))
  PROVE  Depth(html, tag, i, k) = Cardinality(Counted(r, tag, p))
  <1>1. /\ IsFiniteSet(Ups(html, tag, i, k - 1)) /\ IsFiniteSet(Downs(html, tag, i, k - 1))
        /\ IsFiniteSet(Counted(s, tag, p)) /\ IsFiniteSet(Counted(r, tag, p))
    <2>1. k - 1 \in Int /\ i \in Int
      OBVIOUS
    <2> QED
      BY <2>1, CountsAreFinite
  <1>2. \A m : m \in i..k <=> m \in i..k - 1 \/ m = k
    OBVIOUS
  <1>3. k \notin i..k - 1
    OBVIOUS
  <1>4. Ups(html, tag, i, k) = IF Opens(html[k], tag) THEN Ups(html, tag, i, k - 1) \cup {k}
                               ELSE Ups(html, tag, i, k - 1)
    BY <1>2 DEF Ups
  <1>5. Downs(html, tag, i, k) = IF Closes(html[k], tag) THEN Downs(html, tag, i, k - 1) \cup {k}
                                 ELSE Downs(html, tag, i, k - 1)
    BY <1>2 DEF Downs
  <1>6. k \notin Ups(html, tag, i, k - 1) /\ k \notin Downs(html, tag, i, k - 1)
    BY <1>3 DEF Ups, Downs
  <1>7. PICK u, v, a, b, m, n :
           /\ u = Cardinality(Ups(html, tag, i, k - 1)) /\ v = Cardinality(Ups(html, tag, i, k))
           /\ a = Cardinality(Downs(html, tag, i, k - 1)) /\ b = Cardinality(Downs(html, tag, i, k))
           /\ m = Cardinality(Counted(s, tag, p)) /\ n = Cardinality(Counted(r, tag, p))
    OBVIOUS
  <1>8. u \in Nat /\ v = IF Opens(html[k], tag) THEN u + 1 ELSE u
    BY <1>1, <1>4, <1>6, <1>7, OneMore
  <1>9. a \in Nat /\ b = IF Closes(html[k], tag) THEN a + 1 ELSE a
    BY <1>1, <1>5, <1>6, <1>7, OneMore
  <1>10. u - a = m /\ m \in Nat /\ n \in Nat
    <2>1. m \in Nat /\ n \in Nat
      BY <1>1, <1>7, FS_CardinalityType
    <2>2. Depth(html, tag, i, k - 1) = u - a
      BY <1>7 DEF Depth, Ups, Downs
    <2> QED
      BY <1>7, <2>1, <2>2
  <1>11. Len(s) \in Nat /\ Len(r) \in Nat
    BY DEF Stack
  <1>15. k \in DOMAIN html /\ (StartsWith(html[k].tag, tag) => html[k].seen = html[k].kind)
    BY DEF Disguised
  <1>12. CASE Pushes(s, html[k], r)
    <2>1. /\ html[k].kind = "open" /\ Len(r) = Len(s) + 1 /\ r[Len(s) + 1] = html[k].tag
          /\ \A q \in 1..Len(s) : r[q] = s[q]
      BY <1>12 DEF Pushes
    <2>2. (Opens(html[k], tag) <=> StartsWith(html[k].tag, tag)) /\ ~Closes(html[k], tag)
      BY <1>15, <2>1 DEF Opens, Closes
    <2>3. Counted(r, tag, p) = IF StartsWith(html[k].tag, tag) THEN Counted(s, tag, p) \cup {Len(r)}
                               ELSE Counted(s, tag, p)
      <3>1. \A q : q \in p + 1..Len(r) <=> q \in p + 1..Len(s) \/ q = Len(r)
        BY <1>11, <2>1
      <3>2. \A q \in p + 1..Len(s) : r[q] = s[q]
        BY <1>11, <2>1
      <3>3. r[Len(r)] = html[k].tag
        BY <2>1
      <3> QED
        BY <3>1, <3>2, <3>3 DEF Counted
    <2>4. Len(r) \notin Counted(s, tag, p)
      BY <1>11, <2>1 DEF Counted
    <2>5. n = IF StartsWith(html[k].tag, tag) THEN m + 1 ELSE m
      BY <1>1, <1>7, <2>3, <2>4, OneMore
    <2>6. v - b = n
      BY <1>8, <1>9, <1>10, <2>2, <2>5
    <2> QED
      BY <1>7, <2>6 DEF Depth, Ups, Downs
  <1>13. CASE Pops(s, html[k], r)
    <2>1. /\ html[k].kind = "close" /\ Len(s) > 0 /\ s[Len(s)] = html[k].tag
          /\ Len(r) = Len(s) - 1 /\ \A q \in 1..Len(s) - 1 : r[q] = s[q]
      BY <1>13 DEF Pops
    <2>2. (Closes(html[k], tag) <=> StartsWith(html[k].tag, tag)) /\ ~Opens(html[k], tag)
      BY <1>15, <2>1 DEF Opens, Closes
    <2>3. Counted(s, tag, p) = IF StartsWith(html[k].tag, tag) THEN Counted(r, tag, p) \cup {Len(s)}
                               ELSE Counted(r, tag, p)
      <3>1. \A q : q \in p + 1..Len(s) <=> q \in p + 1..Len(r) \/ q = Len(s)
        BY <1>11, <2>1
      <3>2. \A q \in p + 1..Len(r) : r[q] = s[q]
        BY <1>11, <2>1
      <3>3. s[Len(s)] = html[k].tag
        BY <2>1
      <3> QED
        BY <3>1, <3>2, <3>3 DEF Counted
    <2>4. Len(s) \notin Counted(r, tag, p)
      BY <1>11, <2>1 DEF Counted
    <2>5. m = IF StartsWith(html[k].tag, tag) THEN n + 1 ELSE n
      BY <1>1, <1>7, <2>3, <2>4, OneMore
    <2>6. v - b = n
      BY <1>8, <1>9, <1>10, <2>2, <2>5
    <2> QED
      BY <1>7, <2>6 DEF Depth, Ups, Downs
  <1>14. CASE Stays(s, html[k], r)
    <2>1. r = s /\ html[k].kind # "close"
          /\ ~(html[k].kind = "open" /\ html[k].tag \notin VoidTags)
      BY <1>14 DEF Stays
    <2>2. ~Closes(html[k], tag)
      BY <1>15, <2>1 DEF Closes
    <2>3. ~Opens(html[k], tag)
      BY <1>15, <2>1 DEF Opens, Unclosed
    <2>4. v - b = n
      BY <1>7, <1>8, <1>9, <1>10, <2>1, <2>2, <2>3
    <2> QED
      BY <1>7, <2>4 DEF Depth, Ups, Downs
  <1> QED
    BY <1>12, <1>13, <1>14

\* As long as an element is open it is counted, and when it is closed nothing is.
LEMMA DepthIs ==
  ASSUME NEW html \in Seq(TagSet), NEW f, NestedBy(html, f), NEW i \in 1..Len(html),
         Pushes(f[i - 1], html[i], f[i]), NEW e, Closing(html, f, i, e),
         ~Unclosed(html, html[i].tag), ~Disguised(html, html[i].tag)
  PROVE  \A j \in i..e : Depth(html, html[i].tag, i, j) = 0 <=> j = e
  <1>1. PICK n \in Nat : n = Len(html)
    OBVIOUS
  <1>2. \A k \in 0..n : f[k] \in Stack /\ Len(f[k]) \in Nat
    BY <1>1 DEF NestedBy, Stack
  <1>3. i \in 1..n /\ i - 1 \in 0..n /\ e \in i + 1..n /\ i \in Nat \ {0} /\ e \in Nat
    BY <1>1 DEF Closing
  <1>4. PICK p \in Nat : p = Len(f[i - 1])
    BY <1>2, <1>3
  <1>5. PICK tag : tag = html[i].tag
    OBVIOUS
  <1>6. Len(f[e]) = p /\ \A k \in i..e - 1 : Len(f[k]) > p /\ f[k][p + 1] = tag
    BY <1>4, <1>5 DEF Closing, Inside
  <1>7. \A k \in i - 1..e : p <= Len(f[k]) /\ k \in 0..n
    <2> SUFFICES ASSUME NEW k \in i - 1..e PROVE p <= Len(f[k]) /\ k \in 0..n
      OBVIOUS
    <2>1. k \in Int /\ i - 1 <= k /\ k <= e
      BY <1>3
    <2>2. (k # i - 1 => i <= k) /\ (k # e => k <= e - 1)
      BY <1>3, <2>1
    <2>3. k = i - 1 \/ k = e \/ k \in i..e - 1
      BY <2>1, <2>2
    <2>4. k \in 0..n
      BY <1>3, <2>1
    <2> QED
      BY <1>2, <1>4, <1>6, <2>3, <2>4
  <1> DEFINE Same(j) == Depth(html, tag, i, j) = Cardinality(Counted(f[j], tag, p))
             S == {m \in Nat : i - 1 + m <= e => Same(i - 1 + m)}
  <1>8. 0 \in S
    <2>1. i..i - 1 = {} /\ i - 1 + 0 = i - 1
      BY <1>3
    <2>2. p + 1..p = {}
      OBVIOUS
    <2>3. Counted(f[i - 1], tag, p) = {}
      BY <1>4, <2>2 DEF Counted
    <2>4. Depth(html, tag, i, i - 1) = 0
      <3>1. PICK ups : ups = {k \in i..i - 1 : Opens(html[k], tag)}
        OBVIOUS
      <3>2. PICK downs : downs = {k \in i..i - 1 : Closes(html[k], tag)}
        OBVIOUS
      <3>3. ups = {} /\ downs = {}
        BY <2>1, <3>1, <3>2
      <3>4. Depth(html, tag, i, i - 1) = Cardinality(ups) - Cardinality(downs)
        BY <3>1, <3>2 DEF Depth
      <3> QED
        BY <3>3, <3>4, FS_EmptySet
    <2>5. Same(i - 1)
      BY <2>3, <2>4, FS_EmptySet
    <2> HIDE DEF Same
    <2> QED
      BY <2>1, <2>5
  <1>9. ASSUME NEW m \in Nat, m \in S
        PROVE  m + 1 \in S
    <2> SUFFICES ASSUME i - 1 + (m + 1) <= e
                 PROVE  Same(i - 1 + (m + 1))
      OBVIOUS
    <2>1. PICK k : k = i - 1 + (m + 1)
      OBVIOUS
    <2>2. /\ k \in 1..n /\ i <= k /\ k \in 0..n /\ k - 1 \in 0..n /\ k - 1 = i - 1 + m
          /\ k \in i - 1..e /\ k - 1 \in i - 1..e /\ i - 1 + m <= e
      BY <1>3, <2>1
    <2>3. Same(k - 1)
      <3> HIDE DEF Same
      <3> QED
        BY <1>9, <2>2
    <2>4. f[k] \in Stack /\ f[k - 1] \in Stack /\ p <= Len(f[k]) /\ p <= Len(f[k - 1])
      BY <1>2, <1>7, <2>2
    <2>5. \/ Pushes(f[k - 1], html[k], f[k])
          \/ Pops(f[k - 1], html[k], f[k])
          \/ Stays(f[k - 1], html[k], f[k])
      BY <1>1, <2>2 DEF NestedBy
    <2>6. k \in 1..Len(html) /\ ~Unclosed(html, tag) /\ ~Disguised(html, tag)
      BY <1>1, <1>5, <2>2
    <2>7. Same(k)
      BY <1>3, <2>2, <2>3, <2>4, <2>5, <2>6, CountStep
    <2> HIDE DEF Same
    <2> QED
      BY <2>1, <2>7
  <1>10. \A j \in i..e : Same(j)
    <2>1. Nat \subseteq S
      <3> HIDE DEF S
      <3> QED
        BY <1>8, <1>9, SetInduction
    <2> SUFFICES ASSUME NEW j \in i..e PROVE Same(j)
      OBVIOUS
    <2>2. PICK m \in Nat : m = j + 1 - i
      BY <1>3
    <2>3. i - 1 + m = j /\ j <= e
      BY <1>3, <2>2
    <2>4. m \in S
      BY <2>1
    <2> HIDE DEF Same
    <2> QED
      BY <2>3, <2>4
  <1>11. ASSUME NEW j \in i..e
         PROVE  Depth(html, tag, i, j) = 0 <=> j = e
    <2>1. j \in i - 1..e
      BY <1>3
    <2>2. f[j] \in Stack /\ Len(f[j]) \in Nat
      BY <1>2, <1>7, <2>1
    <2>3. IsFiniteSet(Counted(f[j], tag, p))
      <3>1. i \in Int /\ j \in Int
        BY <1>3
      <3> QED
        BY <2>2, <3>1, CountsAreFinite
    <2>4. Cardinality(Counted(f[j], tag, p)) = 0 <=> Counted(f[j], tag, p) = {}
      BY <2>3, FS_EmptySet
    <2>5. CASE j = e
      <3>1. p + 1..p = {}
        OBVIOUS
      <3>2. Counted(f[j], tag, p) = {}
        BY <1>6, <2>5, <3>1 DEF Counted
      <3> QED
        BY <1>10, <2>4, <2>5, <3>2
    <2>6. CASE j # e
      <3>1. j \in i..e - 1
        BY <1>3, <2>6
      <3>2. Len(f[j]) > p /\ f[j][p + 1] = tag
        BY <1>6, <3>1
      <3>3. p + 1 \in p + 1..Len(f[j]) /\ StartsWith(tag, tag)
        BY <2>2, <3>2 DEF StartsWith
      <3>4. p + 1 \in Counted(f[j], tag, p)
        BY <3>2, <3>3 DEF Counted
      <3> QED
        BY <1>10, <2>4, <2>6, <3>4
    <2> QED
      BY <2>5, <2>6
  <1> QED
    BY <1>5, <1>11

\* Tag i opens an element, and every tag that the search takes for one like it is one and
\* is closed.
Countable(html, i) ==
  html[i].kind = "open" /\ ~Unclosed(html, html[i].tag) /\ ~Disguised(html, html[i].tag)

\* The first element a selector matches is found from tag to tag.
LEMMA ElementFound ==
  ASSUME NEW html \in Seq(TagSet), NEW f, NestedBy(html, f), NEW sel, NEW i \in 1..Len(html),
         Min({k \in DOMAIN html : Selected(html[k], sel)}) = i,
         {k \in DOMAIN html : Selected(html[k], sel)} # {},
         Countable(html, i)
  PROVE  \E e \in i..Len(html) : /\ FindNode(html, sel) = <<i, e>>
                                 /\ NodeEnd(html, i) = e /\ f[e] = f[i - 1]
  <1>14. html[i].kind = "open" /\ ~Unclosed(html, html[i].tag) /\ ~Disguised(html, html[i].tag)
    BY DEF Countable
  <1>12. \A k \in DOMAIN html : html[k].tag = html[i].tag => html[k].seen = html[k].kind
    BY <1>14 DEF Disguised, StartsWith
  <1>13. i \in DOMAIN html /\ html[i].seen = "open"
    BY <1>12, <1>14
  <1>1. Pushes(f[i - 1], html[i], f[i])
    <2>1. Opens(html[i], html[i].tag) /\ i \in DOMAIN html
      BY <1>13 DEF Opens, StartsWith
    <2>2. html[i].tag \notin VoidTags
      BY <1>14, <2>1 DEF Unclosed
    <2>3. \/ Pushes(f[i - 1], html[i], f[i])
          \/ Pops(f[i - 1], html[i], f[i])
          \/ Stays(f[i - 1], html[i], f[i])
      BY DEF NestedBy
    <2> QED
      BY <1>14, <2>2, <2>3 DEF Pops, Stays
  <1>2. PICK e : Closing(html, f, i, e)
    BY <1>1, ElementCloses
  <1>3. NodeEnd(html, i) = e
    BY <1>1, <1>2, NodeEndIs
  <1>4. \A j \in i..e : Depth(html, html[i].tag, i, j) = 0 <=> j = e
    BY <1>1, <1>2, <1>14, DepthIs
  <1>5. /\ e \in i + 1..Len(html) /\ f[e] = f[i - 1]
        /\ html[e].kind = "close" /\ html[e].tag = html[i].tag
    BY <1>2 DEF Closing
  <1>6. PICK n \in Nat : n = Len(html)
    OBVIOUS
  <1>7. i \in Nat /\ e \in Nat /\ i < e /\ e <= n
    BY <1>5, <1>6
  <1> DEFINE ends == {j \in i + 1..Len(html) :
                        Closes(html[j], html[i].tag) /\ Depth(html, html[i].tag, i, j) = 0}
  <1>8. e \in ends
    <2>1. e \in i..e
      BY <1>7
    <2>2. Closes(html[e], html[i].tag)
      <3>1. e \in DOMAIN html
        BY <1>5
      <3> QED
        BY <1>5, <1>12, <3>1 DEF Closes, StartsWith
    <2> QED
      BY <1>4, <1>5, <2>1, <2>2
  <1>9. ends \in SUBSET Nat
    BY <1>7
  <1>10. Min(ends) = e
    <2>1. PICK m : m = Min(ends)
      OBVIOUS
    <2>2. m \in ends /\ m <= e
      <3> HIDE DEF ends
      <3> QED
        BY <1>8, <1>9, <2>1, MinIs
    <2>3. m \in i + 1..n /\ Depth(html, html[i].tag, i, m) = 0
      BY <1>6, <2>2
    <2>4. m \in i..e
      BY <1>7, <2>2, <2>3
    <2> QED
      BY <1>4, <2>1, <2>3, <2>4
  <1>11. FindNode(html, sel) = <<i, e>>
    <2>1. PICK found : found = {k \in DOMAIN html : Selected(html[k], sel)}
      OBVIOUS
    <2>2. PICK last : last = ends
      OBVIOUS
    <2>3. FindNode(html, sel) = IF found = {} THEN NoRange
                                ELSE IF html[Min(found)].seen = "empty"
                                THEN <<Min(found), Min(found)>>
                                ELSE IF last = {} THEN NoRange
                                ELSE <<Min(found), Min(last)>>
      <3>1. Min(found) = i
        BY <2>1
      <3> QED
        BY <2>1, <2>2, <3>1 DEF FindNode
    <2>4. Min(found) = i /\ found # {} /\ last # {} /\ Min(last) = e
      BY <1>8, <1>10, <2>1, <2>2
    <2> HIDE DEF ends
    <2> QED
      BY <1>13, <2>3, <2>4
  <1> QED
    BY <1>3, <1>5, <1>6, <1>7, <1>11

\* To leave a nested part out, or nothing, and put a text in its place keeps a document
\* well-formed.
LEMMA TextInPlace ==
  ASSUME NEW html \in Seq(TagSet), NEW f, NestedBy(html, f), NEW a \in Nat, NEW b \in Nat,
         a <= b, b <= Len(html), f[a] = f[b], NEW t, t.kind = "text"
  PROVE  WellFormed(Part(html, 1, a) \o <<t>> \o Part(html, b + 1, Len(html)))
  <1>1. PICK n \in Nat : n = Len(html)
    OBVIOUS
  <1> DEFINE C == TagSet \cup {t}
  <1>2. PICK A \in Seq(TagSet) : A = Part(html, 1, a)
    <2>1. 1 \in Nat \ {0} /\ a <= Len(html) /\ 1 <= a + 1
      BY <1>1
    <2> QED
      BY <2>1, PartIs
  <1>3. Len(A) = a /\ \A k \in 1..a : A[k] = html[k]
    <2>1. PICK i \in Nat \ {0} : i = 1
      OBVIOUS
    <2>2. a <= Len(html) /\ i <= a + 1
      BY <1>1, <2>1
    <2>3. Len(A) = a + 1 - i /\ \A k \in 1..a + 1 - i : A[k] = html[i + k - 1]
      <3>1. A = Part(html, i, a)
        BY <1>2, <2>1
      <3>2. /\ Len(Part(html, i, a)) = a + 1 - i
            /\ \A k \in 1..a + 1 - i : Part(html, i, a)[k] = html[i + k - 1]
        BY <2>2, PartIs
      <3> QED
        BY <3>1, <3>2
    <2>4. a + 1 - i = a /\ \A k \in 1..a : i + k - 1 = k
      BY <2>1
    <2> QED
      BY <2>3, <2>4
  <1>4. PICK c \in Nat \ {0} : c = b + 1
    OBVIOUS
  <1>5. PICK B \in Seq(TagSet) : B = Part(html, c, n)
    <2>1. n <= Len(html) /\ c <= n + 1
      BY <1>1, <1>4
    <2> QED
      BY <2>1, PartIs
  <1>6. Len(B) = n - b /\ \A k \in 1..n - b : B[k] = html[b + k]
    <2>1. n <= Len(html) /\ c <= n + 1
      BY <1>1, <1>4
    <2>2. Len(B) = n + 1 - c /\ \A k \in 1..n + 1 - c : B[k] = html[c + k - 1]
      <3>1. /\ Len(Part(html, c, n)) = n + 1 - c
            /\ \A k \in 1..n + 1 - c : Part(html, c, n)[k] = html[c + k - 1]
        BY <2>1, PartIs
      <3> QED
        BY <1>5, <3>1
    <2>3. n + 1 - c = n - b /\ \A k \in 1..n - b : c + k - 1 = b + k
      BY <1>4
    <2> QED
      BY <2>2, <2>3
  <1>7. A \in Seq(C) /\ B \in Seq(C) /\ <<t>> \in Seq(C)
    OBVIOUS
  <1>8. PICK w : w = A \o <<t>> \o B
    OBVIOUS
  <1>9. /\ w \in Seq(C) /\ Len(w) = a + 1 + (n - b)
        /\ \A k \in 1..a : w[k] = A[k]
        /\ w[a + 1] = t
        /\ \A k \in 1..n - b : w[a + 1 + k] = B[k]
    <2> HIDE DEF C
    <2>1. PICK T \in Seq(C) : T = <<t>>
      BY <1>7
    <2>2. Len(T) = 1 /\ T[1] = t
      BY <2>1
    <2>3. PICK v \in Seq(C) : v = A \o T
      BY <1>7, <2>1, ConcatProperties
    <2>4. Len(v) = a + 1 /\ (\A k \in 1..a : v[k] = A[k]) /\ v[a + 1] = t
      <3>1. Len(v) = Len(A) + Len(T)
            /\ \A k \in 1..Len(A) + Len(T) : v[k] = IF k <= Len(A) THEN A[k] ELSE T[k - Len(A)]
        BY <1>7, <2>1, <2>3, ConcatProperties
      <3>2. \A k \in 1..a + 1 : v[k] = IF k <= a THEN A[k] ELSE T[k - a]
        BY <1>3, <2>2, <3>1
      <3>3. v[a + 1] = T[a + 1 - a] /\ a + 1 - a = 1
        <4>1. a + 1 \in 1..a + 1 /\ ~(a + 1 <= a) /\ a + 1 - a = 1
          OBVIOUS
        <4> QED
          BY <3>2, <4>1
      <3> QED
        BY <1>3, <2>2, <3>1, <3>2, <3>3
    <2>5. w = v \o B
      BY <1>8, <2>1, <2>3
    <2>6. /\ w \in Seq(C) /\ Len(w) = Len(v) + Len(B)
          /\ \A k \in 1..Len(v) + Len(B) : w[k] = IF k <= Len(v) THEN v[k] ELSE B[k - Len(v)]
      BY <1>7, <2>5, ConcatProperties
    <2>7. Len(w) = a + 1 + (n - b)
          /\ \A k \in 1..a + 1 + (n - b) : w[k] = IF k <= a + 1 THEN v[k] ELSE B[k - (a + 1)]
      BY <1>6, <2>4, <2>6
    <2>8. n - b \in Nat
      BY <1>1
    <2>9. \A k \in 1..a : w[k] = A[k]
      BY <2>4, <2>7, <2>8
    <2>10. w[a + 1] = t
      BY <2>4, <2>7, <2>8
    <2>11. ASSUME NEW k \in 1..n - b
           PROVE  w[a + 1 + k] = B[k]
      <3>1. PICK m : m = a + 1 + k
        OBVIOUS
      <3>2. m \in 1..a + 1 + (n - b) /\ ~(m <= a + 1) /\ m - (a + 1) = k
        BY <2>8, <3>1
      <3> QED
        BY <2>7, <3>1, <3>2
    <2> QED
      BY <2>6, <2>7, <2>9, <2>10, <2>11
  <1> DEFINE g == [k \in 0..a + 1 + (n - b) |-> IF k <= a THEN f[k] ELSE f[b + (k - (a + 1))]]
  <1>10. \A k \in 0..a + 1 + (n - b) : g[k] = IF k <= a THEN f[k] ELSE f[b + (k - (a + 1))]
    OBVIOUS
  <1> HIDE DEF g, C
  <1>11. n - b \in Nat /\ a \in 0..n /\ b <= n
    BY <1>1
  <1>12. \A k \in 1..n : f[k] = NestStep(f[k - 1], html[k])
    BY <1>1 DEF NestedBy, Runs
  <1>13. g[0] = <<>>
    <2>1. 0 \in 0..a + 1 + (n - b) /\ 0 <= a
      BY <1>11
    <2> QED
      BY <1>10, <2>1 DEF NestedBy, Runs
  <1>14. ASSUME NEW k \in 1..a + 1 + (n - b)
         PROVE  g[k] = NestStep(g[k - 1], w[k])
    <2>1. k \in 0..a + 1 + (n - b) /\ k - 1 \in 0..a + 1 + (n - b)
      BY <1>11
    <2>2. CASE k <= a
      <3>1. k \in 1..n /\ k \in 1..a /\ k - 1 <= a
        BY <1>11, <2>1, <2>2
      <3>2. g[k] = f[k] /\ g[k - 1] = f[k - 1] /\ w[k] = html[k]
        BY <1>3, <1>9, <1>10, <2>1, <2>2, <3>1
      <3> QED
        BY <1>12, <3>1, <3>2
    <2>3. CASE k = a + 1
      <3>1. k - 1 = a /\ ~(k <= a) /\ b + (k - (a + 1)) = b
        BY <2>3
      <3>2. g[k] = f[b] /\ g[k - 1] = f[a] /\ w[k] = t
        BY <1>9, <1>10, <2>1, <2>3, <3>1
      <3>3. f[a] # NotNested
        BY <1>1, <1>11, StackIsNested DEF NestedBy
      <3> QED
        BY <3>2, <3>3 DEF NestStep
    <2>4. CASE k > a + 1
      <3>1. PICK m : m = k - (a + 1)
        OBVIOUS
      <3>2. PICK j : j = b + m
        OBVIOUS
      <3>3. /\ m \in 1..n - b /\ j \in 1..n /\ ~(k <= a) /\ ~(k - 1 <= a) /\ a + 1 + m = k
            /\ b + (k - (a + 1)) = j /\ b + (k - 1 - (a + 1)) = j - 1
        BY <1>11, <2>1, <2>4, <3>1, <3>2
      <3>4. g[k] = f[j] /\ g[k - 1] = f[j - 1]
        BY <1>10, <2>1, <3>3
      <3>5. w[k] = html[j]
        BY <1>6, <1>9, <3>2, <3>3
      <3> QED
        BY <1>12, <3>3, <3>4, <3>5
    <2> QED
      BY <1>11, <2>2, <2>3, <2>4
  <1>15. Runs(w, g)
    BY <1>9, <1>13, <1>14 DEF Runs
  <1>16. Nesting(w) = g[a + 1 + (n - b)]
    BY <1>9, <1>15, NestingOf
  <1>17. g[a + 1 + (n - b)] = <<>>
    <2>1. PICK k : k = a + 1 + (n - b)
      OBVIOUS
    <2>2. k \in 0..a + 1 + (n - b) /\ ~(k <= a) /\ b + (k - (a + 1)) = n
      BY <1>11, <2>1
    <2>3. g[k] = f[n]
      BY <1>10, <2>2
    <2> QED
      BY <1>1, <2>1, <2>3 DEF NestedBy
  <1> QED
    BY <1>1, <1>2, <1>4, <1>5, <1>8, <1>16, <1>17 DEF WellFormed

\* What an edit of a node replaces, or inserts after, is a whole node.
LEMMA NodesAreWhole ==
  ASSUME subject \in Seq(TagSet), WellFormed(subject)
  PROVE  NodeIsWhole
  <1>1. PICK html \in Seq(TagSet) : html = subject
    OBVIOUS
  <1>2. PICK f : NestedBy(html, f)
    BY <1>1, NestedRun
  <1>3. PICK matching : matching = {k \in DOMAIN html : Selected(html[k], change)}
    OBVIOUS
  <1>4. PICK i : i = Min(matching)
    OBVIOUS
  <1>5. matching = {} => FindNode(html, change) = NoRange
    BY <1>3 DEF FindNode
  <1> DEFINE Element == html[i].kind = "open"
             Whole == LET r   == FindNode(html, change)
                          new == <<Tag("text", "text", "", <<>>)>>
                      IN  /\ r = <<i, NodeEnd(html, i)>>
                          /\ WellFormed(ReplaceNode(html, change, new))
                          /\ WellFormed(InsertAfterNode(html, change, new))
  <1>6. ASSUME matching # {}, ~Disguised(html, html[i].tag),
               ~(Element /\ Unclosed(html, html[i].tag))
        PROVE  Whole
    <2>1. i \in matching
      <3>1. matching \in SUBSET Nat
        BY <1>3
      <3> QED
        BY <1>4, <1>6, <3>1, MinIs
    <2>2. i \in 1..Len(html) /\ Selected(html[i], change) /\ i \in Nat
      BY <1>3, <2>1
    <2>3. \E e \in i..Len(html) : /\ FindNode(html, change) = <<i, e>>
                                  /\ NodeEnd(html, i) = e /\ f[e] = f[i - 1]
      <3>1. CASE Element
        <4>1. /\ Min({k \in DOMAIN html : Selected(html[k], change)}) = i
              /\ {k \in DOMAIN html : Selected(html[k], change)} # {}
          BY <1>3, <1>4, <1>6, Zenon
        <4>2. Countable(html, i)
          BY <1>6, <3>1 DEF Countable
        <4> HIDE DEF Element, Whole
        <4> QED
          BY <1>2, <2>2, <4>1, <4>2, ElementFound, SMTT(30)
      <3>2. CASE ~Element
        <4>0. i \in DOMAIN html /\ html[i].seen = html[i].kind
          BY <1>6, <2>2 DEF Disguised, StartsWith
        <4>1. html[i].kind = "empty" /\ html[i].seen = "empty"
          BY <2>2, <3>2, <4>0 DEF Selected
        <4>2. FindNode(html, change) = <<i, i>>
          <5>1. FindNode(html, change) = IF matching = {} THEN NoRange
                                         ELSE IF html[i].seen = "empty" THEN <<i, i>>
                                         ELSE FindNode(html, change)
            BY <1>3, <1>4, <4>1 DEF FindNode
          <5> QED
            BY <1>6, <4>1, <5>1
        <4>3. f[i] = f[i - 1]
          BY <1>2, <2>2, <4>1 DEF NestedBy, Pushes, Pops, Stays
        <4>4. NodeEnd(html, i) = i
          <5>0. i \in Nat \ {0} /\ i <= Len(html) /\ i <= i + 1
            BY <2>2
          <5>a. /\ SubSeq(html, i, i) \in Seq(TagSet) /\ Len(SubSeq(html, i, i)) = i + 1 - i
                /\ \A m \in 1..i + 1 - i : SubSeq(html, i, i)[m] = html[i + m - 1]
            BY <5>0, PartIs DEF Part
          <5>1. PICK w \in Seq(TagSet) : w = SubSeq(html, i, i)
            BY <5>a, Zenon
          <5>2. Len(w) = 1 /\ w[1] = html[i]
            <6>1. /\ Len(SubSeq(html, i, i)) = i + 1 - i
                  /\ \A m \in 1..i + 1 - i : SubSeq(html, i, i)[m] = html[i + m - 1]
              BY <5>a
            <6>2. i + 1 - i = 1 /\ i + 1 - 1 = i /\ 1 \in 1..1
              BY <2>2
            <6> QED
              BY <5>1, <6>1, <6>2
          <5>3. PICK g : g = [k \in 0..1 |-> <<>>]
            OBVIOUS
          <5>4. g[0] = <<>> /\ g[1] = <<>>
            BY <5>3
          <5>5. NestStep(<<>>, html[i]) = <<>>
            BY <4>1, StackIsNested DEF NestStep
          <5>6. Runs(w, g)
            <6>1. ASSUME NEW k \in 1..Len(w)
                  PROVE  g[k] = NestStep(g[k - 1], w[k])
              <7>1. k = 1 /\ k - 1 = 0
                BY <5>2
              <7> QED
                BY <5>2, <5>4, <5>5, <7>1
            <6> QED
              BY <5>4, <6>1 DEF Runs
          <5>7. WellFormed(SubSeq(html, i, i))
            <6>1. Nesting(w) = g[Len(w)]
              BY <5>6, NestingOf
            <6> QED
              BY <5>1, <5>2, <5>4, <6>1 DEF WellFormed
          <5> DEFINE A == {j \in i..Len(html) : WellFormed(SubSeq(html, i, j))}
          <5>8. i \in A /\ A \in SUBSET Nat /\ \A j \in A : i <= j
            BY <2>2, <5>7
          <5>9. Min(A) \in A /\ Min(A) <= i
            <6> HIDE DEF A
            <6> QED
              BY <5>8, MinIs
          <5>10. Min(A) = i
            <6>1. Min(A) \in Nat /\ i <= Min(A) /\ Min(A) <= i
              <7> HIDE DEF A
              <7> QED
                BY <5>8, <5>9
            <6> HIDE DEF A
            <6> QED
              BY <2>2, <6>1
          <5> QED
            BY <5>10 DEF NodeEnd
        <4> QED
          BY <2>2, <4>2, <4>3, <4>4
      <3> QED
        BY <3>1, <3>2
    <2>4. PICK e \in i..Len(html) : /\ FindNode(html, change) = <<i, e>>
                                    /\ NodeEnd(html, i) = e /\ f[e] = f[i - 1]
      BY <2>3
    <2>5. PICK r : r = <<i, e>>
      OBVIOUS
    <2>6. r[1] = i /\ r[2] = e /\ r # NoRange
      BY <2>2, <2>5 DEF NoRange
    <2>7. PICK t : t = Tag("text", "text", "", <<>>)
      OBVIOUS
    <2>8. t.kind = "text"
      BY <2>7 DEF Tag
    <2>9. PICK a \in Nat : a = i - 1
      BY <2>2
    <2>10. e \in Nat /\ a <= e /\ e <= Len(html) /\ f[a] = f[e]
      BY <2>2, <2>4, <2>9
    <2>11. ReplaceNode(html, change, <<t>>)
             = Part(html, 1, a) \o <<t>> \o Part(html, e + 1, Len(html))
      BY <2>4, <2>5, <2>6, <2>9, Zenon DEF ReplaceNode
    <2>12. InsertAfterNode(html, change, <<t>>)
             = Part(html, 1, e) \o <<t>> \o Part(html, e + 1, Len(html))
      BY <2>4, <2>5, <2>6, Zenon DEF InsertAfterNode
    <2>13. WellFormed(Part(html, 1, a) \o <<t>> \o Part(html, e + 1, Len(html)))
      BY <1>2, <2>8, <2>10, TextInPlace
    <2>14. WellFormed(Part(html, 1, e) \o <<t>> \o Part(html, e + 1, Len(html)))
      BY <1>2, <2>8, <2>10, TextInPlace
    <2>15. WellFormed(ReplaceNode(html, change, <<t>>))
      BY <2>11, <2>13, Zenon
    <2>16. WellFormed(InsertAfterNode(html, change, <<t>>))
      BY <2>12, <2>14, Zenon
    <2>17. FindNode(html, change) = <<i, NodeEnd(html, i)>>
      BY <2>4, Zenon
    <2> QED
      BY <2>7, <2>15, <2>16, <2>17, Zenon
  <1> HIDE DEF Element, Whole
  <1>7. /\ matching = {} => FindNode(html, change) = NoRange
        /\ /\ matching # {} /\ ~Disguised(html, html[i].tag)
           /\ ~(Element /\ Unclosed(html, html[i].tag))
           => Whole
    BY <1>5, <1>6
  <1> QED
    BY <1>1, <1>3, <1>4, <1>7, Zenon DEF NodeIsWhole, Element, Whole

\* Three texts, one after the other: the units are where they were.
LEMMA ThreeParts ==
  ASSUME NEW C, NEW a \in Seq(C), NEW b \in Seq(C), NEW d \in Seq(C)
  PROVE  /\ a \o b \o d \in Seq(C) /\ Len(a \o b \o d) = Len(a) + Len(b) + Len(d)
         /\ \A k \in 1..Len(a) : (a \o b \o d)[k] = a[k]
         /\ \A k \in 1..Len(b) : (a \o b \o d)[Len(a) + k] = b[k]
         /\ \A k \in 1..Len(d) : (a \o b \o d)[Len(a) + Len(b) + k] = d[k]
  <1>1. PICK e \in Seq(C) : e = a \o b
    BY ConcatProperties
  <1>2. Len(e) = Len(a) + Len(b)
        /\ \A k \in 1..Len(a) + Len(b) : e[k] = IF k <= Len(a) THEN a[k] ELSE b[k - Len(a)]
    BY <1>1, ConcatProperties
  <1>3. PICK t \in Seq(C) : t = e \o d
    BY ConcatProperties
  <1>4. Len(t) = Len(e) + Len(d)
        /\ \A k \in 1..Len(e) + Len(d) : t[k] = IF k <= Len(e) THEN e[k] ELSE d[k - Len(e)]
    BY <1>3, ConcatProperties
  <1>5. Len(a) \in Nat /\ Len(b) \in Nat /\ Len(d) \in Nat
    OBVIOUS
  <1>6. \A k \in 1..Len(a) : t[k] = a[k]
    BY <1>2, <1>4, <1>5
  <1>7. ASSUME NEW k \in 1..Len(b)
        PROVE  t[Len(a) + k] = b[k]
    <2>1. PICK m : m = Len(a) + k
      OBVIOUS
    <2>2. m \in 1..Len(a) + Len(b) /\ ~(m <= Len(a)) /\ m - Len(a) = k
      BY <1>5, <2>1
    <2>3. e[m] = b[k] /\ t[m] = e[m]
      BY <1>2, <1>4, <1>5, <2>2
    <2> QED
      BY <2>1, <2>3
  <1>8. ASSUME NEW k \in 1..Len(d)
        PROVE  t[Len(a) + Len(b) + k] = d[k]
    <2>1. PICK m : m = Len(e) + k
      OBVIOUS
    <2>2. m \in 1..Len(e) + Len(d) /\ ~(m <= Len(e)) /\ m - Len(e) = k
      BY <1>2, <1>5, <2>1
    <2> QED
      BY <1>2, <1>4, <2>1, <2>2
  <1>9. t = a \o b \o d
    BY <1>1, <1>3
  <1> QED
    BY <1>2, <1>3, <1>4, <1>6, <1>7, <1>8, <1>9

\* The text of an attribute: its name, a quote, the value without quotes, a quote
LEMMA AttrTextIs ==
  ASSUME NEW name \in STRING, NEW v \in ValueSet
  PROVE  /\ v \in Seq(UnitSet) /\ AttrText(name, v) \in Seq(UnitSet)
         /\ Len(AttrText(name, v)) = Len(v) + 3
         /\ AttrText(name, v)[1] = Named(name) /\ AttrText(name, v)[2] = Quote
         /\ \A k \in 1..Len(v) : AttrText(name, v)[2 + k] = v[k] /\ v[k] # Quote
         /\ AttrText(name, v)[Len(v) + 3] = Quote
  <1>a. \A word \in STRING : [unit |-> "name", word |-> word] \in UnitSet
    BY DEF UnitSet
  <1>c. Quote \in UnitSet
    BY DEF UnitSet
  <1>d. Named(name) \in UnitSet
    BY <1>a, Zenon DEF Named
  <1>e. PICK c \in UnitSet, b \in UnitSet : c = Quote /\ b = Named(name)
    BY <1>c, <1>d, Zenon
  <1>1. <<b, c>> \in Seq(UnitSet) /\ <<c>> \in Seq(UnitSet)
    OBVIOUS
  <1>2. v \in Seq(UnitSet) /\ \A k \in 1..Len(v) : v[k] # Quote
    BY DEF ValueSet
  <1>3. PICK a \in Seq(UnitSet) : a = <<b, c>>
    BY <1>1, Zenon
  <1>4. PICK d \in Seq(UnitSet) : d = <<c>>
    BY <1>1, Zenon
  <1>f. Len(a) = 2 /\ a[1] = b /\ a[2] = c /\ Len(d) = 1 /\ d[1] = c
    BY <1>3, <1>4
  <1>5. Len(a) = 2 /\ a[1] = Named(name) /\ a[2] = Quote /\ Len(d) = 1 /\ d[1] = Quote
    BY <1>e, <1>f, Zenon
  <1>g. PICK u \in Seq(UnitSet) : u = v
    BY <1>2
  <1>6. PICK t : t = a \o u \o d
    OBVIOUS
  <1>h. /\ t \in Seq(UnitSet) /\ Len(t) = Len(a) + Len(u) + Len(d)
        /\ \A k \in 1..Len(a) : t[k] = a[k]
        /\ \A k \in 1..Len(u) : t[Len(a) + k] = u[k]
        /\ \A k \in 1..Len(d) : t[Len(a) + Len(u) + k] = d[k]
    BY <1>6, ThreeParts
  <1>7. /\ t \in Seq(UnitSet) /\ Len(t) = Len(a) + Len(v) + Len(d)
        /\ \A k \in 1..Len(a) : t[k] = a[k]
        /\ \A k \in 1..Len(v) : t[Len(a) + k] = v[k]
        /\ \A k \in 1..Len(d) : t[Len(a) + Len(v) + k] = d[k]
    BY <1>g, <1>h, Zenon
  <1>8. AttrText(name, v) = t
    BY <1>3, <1>4, <1>6, <1>e, <1>g, Zenon DEF AttrText
  <1>9. Len(v) \in Nat /\ 1 \in 1..2 /\ 2 \in 1..2 /\ 1 \in 1..1
    BY <1>2
  <1>10. t[1] = Named(name) /\ t[2] = Quote /\ t[2 + Len(v) + 1] = Quote
    BY <1>5, <1>7, <1>9
  <1>11. 2 + Len(v) + 1 = Len(v) + 3
    BY <1>9
  <1> QED
    BY <1>2, <1>5, <1>7, <1>8, <1>9, <1>10, <1>11

\* The name comes first at place m of a text, the next two quotes are at m + 1 and q.
NameAt(text, name, m, q) ==
  /\ m \in 1..Len(text) /\ q \in m + 2..Len(text)
  /\ Mentions(text[m], name) /\ \A k \in 1..m - 1 : ~Mentions(text[k], name)
  /\ text[m] # Quote /\ text[m + 1] = Quote /\ text[q] = Quote
  /\ \A k \in m + 2..q - 1 : text[k] # Quote

\* A text with another value between the quotes at m + 1 and q
WithValue(text, m, value, q) == SubSeq(text, 1, m + 1) \o value \o SubSeq(text, q, Len(text))

\* Then the new value is put between them.
LEMMA ValueReplaced ==
  ASSUME NEW text \in Seq(UnitSet), NEW name, NEW value, NEW m \in Nat, NEW q \in Nat,
         NameAt(text, name, m, q)
  PROVE  AttrsSet(text, name, value) = WithValue(text, m, value, q)
  <1>a. /\ m \in 1..Len(text) /\ q \in m + 2..Len(text)
        /\ Mentions(text[m], name) /\ \A k \in 1..m - 1 : ~Mentions(text[k], name)
        /\ text[m] # Quote /\ text[m + 1] = Quote /\ text[q] = Quote
        /\ \A k \in m + 2..q - 1 : text[k] # Quote
    BY DEF NameAt
  <1>1. PICK n \in Nat : n = Len(text)
    OBVIOUS
  <1>2. m \in 1..n /\ q \in m + 2..n /\ m \in Nat /\ q \in Nat
    BY <1>1, <1>a
  <1>3. PICK named : named = {k \in DOMAIN text : Mentions(text[k], name)}
    OBVIOUS
  <1>4. m \in named /\ named \in SUBSET Nat /\ \A k \in named : m <= k
    <2>1. ASSUME NEW k \in named, k < m
          PROVE  FALSE
      <3>1. k \in 1..m - 1 /\ Mentions(text[k], name)
        BY <1>1, <1>2, <1>3, <2>1
      <3> QED
        BY <1>a, <3>1
    <2>2. named \in SUBSET Nat /\ m \in named
      BY <1>1, <1>2, <1>3, <1>a
    <2> QED
      BY <1>2, <2>1, <2>2
  <1>5. Min(named) = m
    <2>1. PICK r : r = Min(named)
      OBVIOUS
    <2>2. r \in named /\ r <= m
      BY <1>4, <2>1, MinIs
    <2>3. r \in Nat /\ m <= r
      BY <1>4, <2>2
    <2> QED
      BY <1>2, <2>1, <2>2, <2>3
  <1>6. PICK quotes : quotes = {k \in Min(named)..Len(text) : text[k] = Quote}
    OBVIOUS
  <1>7. quotes \in SUBSET Nat /\ \A k : k \in quotes <=> k \in m..n /\ text[k] = Quote
    BY <1>1, <1>2, <1>5, <1>6
  <1>8. m + 1 \in quotes /\ \A k \in quotes : m + 1 <= k
    <2>1. m + 1 \in m..n
      BY <1>2
    <2>2. \A k \in quotes : k \in Nat /\ m <= k /\ k # m
      BY <1>2, <1>7, <1>a
    <2> QED
      BY <1>2, <1>7, <1>a, <2>1, <2>2
  <1>9. Min(quotes) = m + 1
    <2>1. PICK r : r = Min(quotes)
      OBVIOUS
    <2>2. r \in quotes /\ r <= m + 1
      BY <1>7, <1>8, <2>1, MinIs
    <2>3. r \in Nat /\ m + 1 <= r
      BY <1>7, <1>8, <2>2
    <2> QED
      BY <1>2, <2>1, <2>2, <2>3
  <1>10. PICK closes : closes = quotes \ {m + 1}
    OBVIOUS
  <1>11. q \in closes /\ closes \in SUBSET Nat /\ \A k \in closes : q <= k
    <2>1. q \in m..n /\ q # m + 1
      BY <1>2
    <2>2. ASSUME NEW k \in closes, k < q
          PROVE  FALSE
      <3>1. k \in Nat /\ k # m + 1 /\ m + 1 <= k /\ text[k] = Quote
        BY <1>7, <1>8, <1>10
      <3>2. k \in m + 2..q - 1
        BY <1>2, <2>2, <3>1
      <3> QED
        BY <1>a, <3>1, <3>2
    <2> QED
      BY <1>2, <1>7, <1>10, <1>a, <2>1, <2>2
  <1>12. Min(closes) = q
    <2>1. PICK r : r = Min(closes)
      OBVIOUS
    <2>2. r \in closes /\ r <= q
      BY <1>11, <2>1, MinIs
    <2>3. r \in Nat /\ q <= r
      BY <1>11, <2>2
    <2> QED
      BY <1>2, <2>1, <2>2, <2>3
  <1>13. named # {} /\ ~(quotes = {} \/ closes = {})
    BY <1>4, <1>8, <1>11
  <1>14. AttrsSet(text, name, value)
           = IF named = {} THEN text \o AttrText(name, value)
             ELSE IF quotes = {} \/ closes = {} THEN <<>>
             ELSE SubSeq(text, 1, Min(quotes)) \o value \o SubSeq(text, Min(closes), Len(text))
    BY <1>3, <1>6, <1>9, <1>10, Zenon DEF AttrsSet
  <1> QED
    BY <1>9, <1>12, <1>13, <1>14, Zenon DEF WithValue

LEMMA ValuesReplaced ==
  ASSUME NEW name \in STRING, NEW new \in ValueSet
  PROVE  \A s \in Seq(UnitSet), i \in Nat, j \in Nat :
           NameAt(s, name, i, j) => AttrsSet(s, name, new) = WithValue(s, i, new, j)
  BY ValueReplaced

\* A text is the attribute name="v" between two others.
Around(t, before, name, v, after) ==
  /\ t \in Seq(UnitSet) /\ Len(t) = Len(before) + Len(v) + 3 + Len(after)
  /\ \A k \in 1..Len(before) : t[k] = before[k]
  /\ t[Len(before) + 1] = Named(name) /\ t[Len(before) + 2] = Quote
  /\ \A k \in 1..Len(v) : t[Len(before) + 2 + k] = v[k]
  /\ t[Len(before) + Len(v) + 3] = Quote
  /\ \A k \in 1..Len(after) : t[Len(before) + Len(v) + 3 + k] = after[k]

LEMMA AroundIs ==
  ASSUME NEW before \in Seq(UnitSet), NEW after \in Seq(UnitSet), NEW name \in STRING,
         NEW v \in ValueSet
  PROVE  Around(before \o AttrText(name, v) \o after, before, name, v, after)
  <1>1. PICK a \in Seq(UnitSet) : a = AttrText(name, v)
    BY AttrTextIs
  <1>2. /\ v \in Seq(UnitSet) /\ Len(a) = Len(v) + 3
        /\ a[1] = Named(name) /\ a[2] = Quote
        /\ \A k \in 1..Len(v) : a[2 + k] = v[k]
        /\ a[Len(v) + 3] = Quote
    BY <1>1, AttrTextIs
  <1>3. PICK t : t = before \o a \o after
    OBVIOUS
  <1>4. /\ t \in Seq(UnitSet) /\ Len(t) = Len(before) + Len(a) + Len(after)
        /\ \A k \in 1..Len(before) : t[k] = before[k]
        /\ \A k \in 1..Len(a) : t[Len(before) + k] = a[k]
        /\ \A k \in 1..Len(after) : t[Len(before) + Len(a) + k] = after[k]
    BY <1>3, ThreeParts
  <1>5. PICK x \in Nat, y \in Nat, z \in Nat : x = Len(before) /\ y = Len(v) /\ z = Len(after)
    BY <1>2
  <1>6. Len(t) = x + y + 3 + z
    BY <1>2, <1>4, <1>5
  <1>7. t[x + 1] = Named(name) /\ t[x + 2] = Quote
    <2>1. 1 \in 1..Len(a) /\ 2 \in 1..Len(a)
      BY <1>2, <1>5
    <2> QED
      BY <1>2, <1>4, <1>5, <2>1
  <1>8. ASSUME NEW k \in 1..y
        PROVE  t[x + 2 + k] = v[k]
    <2>1. 2 + k \in 1..Len(a) /\ x + (2 + k) = x + 2 + k
      BY <1>2, <1>5
    <2> QED
      BY <1>2, <1>4, <1>5, <2>1
  <1>9. t[x + y + 3] = Quote
    <2>1. y + 3 \in 1..Len(a) /\ x + (y + 3) = x + y + 3
      BY <1>2, <1>5
    <2> QED
      BY <1>2, <1>4, <1>5, <2>1
  <1>10. ASSUME NEW k \in 1..z
         PROVE  t[x + y + 3 + k] = after[k]
    <2>1. x + (y + 3) + k = x + y + 3 + k
      OBVIOUS
    <2> QED
      BY <1>2, <1>4, <1>5, <2>1
  <1>11. Around(t, before, name, v, after)
    BY <1>4, <1>5, <1>6, <1>7, <1>8, <1>9, <1>10 DEF Around
  <1> QED
    BY <1>1, <1>3, <1>11

\* There is one such text.
LEMMA AroundIsOne ==
  ASSUME NEW before \in Seq(UnitSet), NEW after \in Seq(UnitSet), NEW name,
         NEW v \in Seq(UnitSet), NEW s, NEW t,
         Around(s, before, name, v, after), Around(t, before, name, v, after)
  PROVE  s = t
  <1>1. PICK x \in Nat, y \in Nat, z \in Nat : x = Len(before) /\ y = Len(v) /\ z = Len(after)
    OBVIOUS
  <1>2. ASSUME NEW k \in 1..x + y + 3 + z
        PROVE  s[k] = t[k]
    <2>1. CASE k \in 1..x
      BY <1>1, <2>1 DEF Around
    <2>2. CASE k = x + 1 \/ k = x + 2 \/ k = x + y + 3
      BY <1>1, <2>2 DEF Around
    <2>3. CASE k \in x + 3..x + y + 2
      <3>1. PICK m : m = k - x - 2
        OBVIOUS
      <3>2. m \in 1..y /\ x + 2 + m = k
        BY <2>3, <3>1
      <3> QED
        BY <1>1, <3>2 DEF Around
    <2>4. CASE k \in x + y + 4..x + y + 3 + z
      <3>1. PICK m : m = k - x - y - 3
        OBVIOUS
      <3>2. m \in 1..z /\ x + y + 3 + m = k
        BY <2>4, <3>1
      <3> QED
        BY <1>1, <3>2 DEF Around
    <2>5. \/ k \in 1..x \/ k = x + 1 \/ k = x + 2 \/ k = x + y + 3
          \/ k \in x + 3..x + y + 2 \/ k \in x + y + 4..x + y + 3 + z
      OBVIOUS
    <2> QED
      BY <2>1, <2>2, <2>3, <2>4, <2>5
  <1>3. s \in Seq(UnitSet) /\ t \in Seq(UnitSet) /\ Len(s) = x + y + 3 + z /\ Len(t) = Len(s)
    BY <1>1 DEF Around
  <1> QED
    BY <1>2, <1>3, SeqEqual

\* An attribute that comes before every mention of its name gets its new value.
LEMMA AttributeIsSet ==
  ASSUME NEW before \in Seq(UnitSet), NEW after \in Seq(UnitSet), NEW name \in STRING,
         NEW v \in ValueSet, NEW new \in ValueSet, NeverMentions(before, name)
  PROVE  AttrsSet(before \o AttrText(name, v) \o after, name, new)
           = before \o AttrText(name, new) \o after
  <1>d. \A s \in Seq(UnitSet), i \in Nat, j \in Nat :
          NameAt(s, name, i, j) => AttrsSet(s, name, new) = WithValue(s, i, new, j)
    BY ValuesReplaced
  <1>1. PICK t : t = before \o AttrText(name, v) \o after
    OBVIOUS
  <1>2. Around(t, before, name, v, after)
    BY <1>1, AroundIs
  <1>3. v \in Seq(UnitSet) /\ new \in Seq(UnitSet) /\ \A k \in 1..Len(v) : v[k] # Quote
    BY DEF ValueSet
  <1>4. PICK x \in Nat, y \in Nat, z \in Nat, w \in Nat :
           x = Len(before) /\ y = Len(v) /\ z = Len(after) /\ w = Len(new)
    BY <1>3
  <1>5. /\ t \in Seq(UnitSet) /\ Len(t) = x + y + 3 + z
        /\ \A k \in 1..x : t[k] = before[k]
        /\ t[x + 1] = Named(name) /\ t[x + 2] = Quote
        /\ \A k \in 1..y : t[x + 2 + k] = v[k]
        /\ t[x + y + 3] = Quote
        /\ \A k \in 1..z : t[x + y + 3 + k] = after[k]
    BY <1>2, <1>4 DEF Around
  <1>6. PICK p \in Nat, q \in Nat, n \in Nat : p = x + 1 /\ q = x + y + 3 /\ n = Len(t)
    BY <1>5
  <1>7. AttrsSet(t, name, new) = SubSeq(t, 1, p + 1) \o new \o SubSeq(t, q, n)
    <2>1. p \in 1..Len(t) /\ q \in p + 2..Len(t)
      BY <1>5, <1>6
    <2>a. Mentions(Named(name), name) /\ Named(name) # Quote
      BY DEF Mentions, Named, EndsWith, Quote
    <2>2. Mentions(t[p], name) /\ t[p] # Quote
      BY <1>5, <1>6, <2>a
    <2>3. \A k \in 1..p - 1 : ~Mentions(t[k], name)
      <3> SUFFICES ASSUME NEW k \in 1..p - 1 PROVE ~Mentions(t[k], name)
        OBVIOUS
      <3>1. k \in 1..x /\ k \in DOMAIN before
        BY <1>4, <1>6
      <3> QED
        BY <1>5, <3>1 DEF NeverMentions
    <2>4. t[p + 1] = Quote /\ t[q] = Quote
      <3>1. p + 1 = x + 2
        BY <1>6
      <3> QED
        BY <1>5, <1>6, <3>1
    <2>5. ASSUME NEW k \in p + 2..q - 1
          PROVE  t[k] # Quote
      <3>1. PICK j : j = k - x - 2
        OBVIOUS
      <3>2. j \in 1..y /\ x + 2 + j = k
        BY <1>6, <2>5, <3>1
      <3> QED
        BY <1>3, <1>4, <1>5, <3>2
    <2>6. AttrsSet(t, name, new)
            = SubSeq(t, 1, p + 1) \o new \o SubSeq(t, q, Len(t))
      <3>1. NameAt(t, name, p, q)
        BY <2>1, <2>2, <2>3, <2>4, <2>5 DEF NameAt
      <3>2. t \in Seq(UnitSet)
        BY <1>5
      <3>3. AttrsSet(t, name, new) = WithValue(t, p, new, q)
        BY <3>1, <3>2, <1>d, Zenon
      <3> QED
        BY <3>3, Zenon DEF WithValue
    <2> QED
      BY <1>6, <2>6, Zenon
  <1>16. \A k \in 1..n : t[k] \in UnitSet
    BY <1>5, <1>6, ElementOfSeq
  <1>8. PICK a \in Seq(UnitSet) : a = SubSeq(t, 1, p + 1)
    <2>1. PICK i \in Nat, j \in Nat : i = 1 /\ j = p + 1
      BY <1>6
    <2>2. \A k \in i..j : t[k] \in UnitSet
      BY <1>5, <1>6, <1>16, <2>1
    <2>3. SubSeq(t, i, j) \in Seq(UnitSet)
      BY <2>2, SubSeqProperties
    <2> QED
      BY <2>1, <2>3
  <1>9. Len(a) = x + 2 /\ \A k \in 1..x + 2 : a[k] = t[k]
    <2>1. PICK i \in Nat, j \in Nat : i = 1 /\ j = p + 1
      BY <1>6
    <2>2. \A k \in i..j : t[k] \in UnitSet
      BY <1>5, <1>6, <1>16, <2>1
    <2>3. /\ Len(SubSeq(t, i, j)) = IF i <= j THEN j - i + 1 ELSE 0
          /\ \A k \in 1..j - i + 1 : SubSeq(t, i, j)[k] = t[i + k - 1]
      BY <2>2, SubSeqProperties
    <2>4. a = SubSeq(t, i, j) /\ j - i + 1 = x + 2 /\ \A k \in 1..x + 2 : i + k - 1 = k
      BY <1>6, <1>8, <2>1
    <2> QED
      BY <1>6, <2>1, <2>3, <2>4
  <1>10. PICK d \in Seq(UnitSet) : d = SubSeq(t, q, n)
    <2>1. \A k \in q..n : t[k] \in UnitSet
      BY <1>6, <1>16
    <2>2. SubSeq(t, q, n) \in Seq(UnitSet)
      BY <2>1, SubSeqProperties
    <2> QED
      BY <2>2, Zenon
  <1>11. Len(d) = z + 1 /\ \A k \in 1..z + 1 : d[k] = t[x + y + 3 + (k - 1)]
    <2>1. \A k \in q..n : t[k] \in UnitSet
      BY <1>6, <1>16
    <2>2. /\ Len(SubSeq(t, q, n)) = IF q <= n THEN n - q + 1 ELSE 0
          /\ \A k \in 1..n - q + 1 : SubSeq(t, q, n)[k] = t[q + k - 1]
      BY <2>1, SubSeqProperties
    <2>3. n - q + 1 = z + 1 /\ q <= n /\ \A k \in 1..z + 1 : q + k - 1 = x + y + 3 + (k - 1)
      BY <1>5, <1>6
    <2> QED
      BY <1>10, <2>2, <2>3
  <1>b. PICK u \in Seq(UnitSet) : u = new
    BY <1>3
  <1>12. PICK s : s = a \o u \o d
    OBVIOUS
  <1>c. /\ s \in Seq(UnitSet) /\ Len(s) = Len(a) + Len(u) + Len(d)
        /\ \A k \in 1..Len(a) : s[k] = a[k]
        /\ \A k \in 1..Len(u) : s[Len(a) + k] = u[k]
        /\ \A k \in 1..Len(d) : s[Len(a) + Len(u) + k] = d[k]
    BY <1>12, ThreeParts
  <1>13. /\ s \in Seq(UnitSet) /\ Len(s) = Len(a) + Len(new) + Len(d)
         /\ \A k \in 1..Len(a) : s[k] = a[k]
         /\ \A k \in 1..Len(new) : s[Len(a) + k] = new[k]
         /\ \A k \in 1..Len(d) : s[Len(a) + Len(new) + k] = d[k]
    BY <1>b, <1>c, Zenon
  <1>14. Around(s, before, name, new, after)
    <2>1. Len(s) = x + w + 3 + z
      BY <1>4, <1>9, <1>11, <1>13
    <2>2. ASSUME NEW k \in 1..x
          PROVE  s[k] = before[k]
      <3>1. k \in 1..Len(a) /\ k \in 1..x + 2
        BY <1>9
      <3>2. s[k] = a[k] /\ a[k] = t[k]
        BY <1>9, <1>13, <3>1
      <3> QED
        BY <1>5, <3>2
    <2>3. s[x + 1] = Named(name) /\ s[x + 2] = Quote
      <3>1. x + 1 \in 1..Len(a) /\ x + 1 \in 1..x + 2 /\ x + 2 \in 1..Len(a) /\ x + 2 \in 1..x + 2
        BY <1>9
      <3>2. s[x + 1] = t[x + 1] /\ s[x + 2] = t[x + 2]
        BY <1>9, <1>13, <3>1
      <3> QED
        BY <1>5, <3>2
    <2>4. \A k \in 1..w : s[x + 2 + k] = new[k]
      BY <1>4, <1>9, <1>13
    <2>5. ASSUME NEW k \in 1..z + 1
          PROVE  s[x + w + 2 + k] = t[x + y + 3 + (k - 1)]
      <3>1. Len(a) + Len(new) + k = x + w + 2 + k
        BY <1>4, <1>9
      <3> QED
        BY <1>11, <1>13, <3>1
    <2>6. s[x + w + 3] = Quote
      <3>1. 1 \in 1..z + 1 /\ x + w + 2 + 1 = x + w + 3 /\ x + y + 3 + (1 - 1) = x + y + 3
        OBVIOUS
      <3> QED
        BY <1>5, <2>5, <3>1
    <2>7. ASSUME NEW k \in 1..z
          PROVE  s[x + w + 3 + k] = after[k]
      <3>1. PICK j : j = k + 1
        OBVIOUS
      <3>2. /\ j \in 1..z + 1 /\ x + w + 2 + j = x + w + 3 + k
            /\ x + y + 3 + (j - 1) = x + y + 3 + k
        BY <3>1
      <3> QED
        BY <1>5, <2>5, <3>2
    <2> QED
      BY <1>4, <1>13, <2>1, <2>2, <2>3, <2>4, <2>6, <2>7 DEF Around
  <1>15. s = before \o AttrText(name, new) \o after
    <2>1. Around(before \o AttrText(name, new) \o after, before, name, new, after)
      BY AroundIs
    <2>2. new \in Seq(UnitSet)
      BY <1>3
    <2> QED
      BY <1>14, <2>1, <2>2, AroundIsOne
  <1> QED
    BY <1>1, <1>7, <1>8, <1>10, <1>12, <1>15, <1>b, Zenon

\* An attribute that is set reads as it was set, and the t around it stays.
LEMMA AttributesAreSet ==
  ASSUME subject \in AttrTextSet, change \in AttrEditSet
  PROVE  AttributeEditIsLocal
  <1>1. PICK s \in AttrTextSet, c \in AttrEditSet : s = subject /\ c = change
    OBVIOUS
  <1>2. PICK before \in Seq(UnitSet), after \in Seq(UnitSet), v \in ValueSet :
           before = s.before /\ after = s.after /\ v = s.value
    BY DEF AttrTextSet
  <1>3. PICK name \in STRING, value \in ValueSet : name = c.name /\ value = c.value
    BY DEF AttrEditSet
  <1>4. ASSUME NeverMentions(before, name)
        PROVE  AttrsSet(before \o AttrText(name, v) \o after, name, value)
                 = before \o AttrText(name, value) \o after
    BY <1>4, AttributeIsSet
  <1>5. ASSUME NeverMentions(before, name), NeverMentions(after, name)
        PROVE  AttrsSet(before \o <<>> \o after, name, value)
                 = before \o after \o AttrText(name, value)
    <2>1. before \o <<>> = before
      OBVIOUS
    <2>2. PICK text : text = before \o after
      OBVIOUS
    <2>3. /\ text \in Seq(UnitSet) /\ Len(text) = Len(before) + Len(after)
          /\ \A k \in 1..Len(before) + Len(after) :
               text[k] = IF k <= Len(before) THEN before[k] ELSE after[k - Len(before)]
      BY <2>2, ConcatProperties
    <2>4. ASSUME NEW k \in DOMAIN text, Mentions(text[k], name)
          PROVE  FALSE
      <3>1. k \in 1..Len(before) + Len(after)
        BY <2>3
      <3>2. CASE k <= Len(before)
        <4>1. k \in DOMAIN before
          BY <3>1, <3>2
        <4> QED
          BY <1>5, <2>3, <2>4, <3>1, <3>2, <4>1 DEF NeverMentions
      <3>3. CASE ~(k <= Len(before))
        <4>1. k - Len(before) \in DOMAIN after
          BY <3>1, <3>3
        <4> QED
          BY <1>5, <2>3, <2>4, <3>1, <3>3, <4>1 DEF NeverMentions
      <3> QED
        BY <3>2, <3>3
    <2>5. {k \in DOMAIN text : Mentions(text[k], name)} = {}
      BY <2>4
    <2>6. AttrsSet(text, name, value) = text \o AttrText(name, value)
      BY <2>5, Zenon DEF AttrsSet
    <2> QED
      BY <2>1, <2>2, <2>6
  <1>6. CASE s.present
    BY <1>1, <1>2, <1>3, <1>4, <1>6, Zenon DEF AttributeEditIsLocal
  <1>7. CASE ~s.present
    BY <1>1, <1>2, <1>3, <1>5, <1>7, Zenon DEF AttributeEditIsLocal
  <1> QED
    BY <1>6, <1>7

\* An HTML edit changes the node the selector names and nothing else, and a well-formed
\* file stays well-formed, for every file and every edit (html_replace_node,
\* html_insert_after_node, html_set_attribute).
THEOREM HtmlEditsAreLocal == MarkupSpec => []HtmlEditIsLocal
  <1>1. MarkupTypes => HtmlEditIsLocal
    <2> SUFFICES ASSUME MarkupTypes
                 PROVE  HtmlEditIsLocal
      OBVIOUS
    <2>1. form = "html" => subject \in Seq(TagSet)
      BY DEF MarkupTypes
    <2>2. form = "attrs" => subject \in AttrTextSet /\ change \in AttrEditSet
      BY DEF MarkupTypes
    <2> QED
      BY <2>1, <2>2, NodesAreWhole, AttributesAreSet DEF HtmlEditIsLocal
  <1> QED
    BY <1>1, MarkupIsTyped, PTL
=============================================================================
