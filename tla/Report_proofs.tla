--------------------------- MODULE Report_proofs ----------------------------
(***************************************************************************)
(* What the action report says, for any number of cards, processes and     *)
(* ticks, and any commits while it is built: its status is one tick's, its *)
(* sessions are the runs of every process, each once, those it calls past  *)
(* have ended and those it calls held were seen idle.                      *)
(***************************************************************************)
EXTENDS Report, FiniteSetTheorems, WellFoundedInduction, TLAPS

(* What holds of 0 and of n + 1 when of n, holds of every number.          *)
LEMMA StepByStep ==
    ASSUME NEW G \in SUBSET Nat, 0 \in G, \A n \in G : n + 1 \in G
    PROVE  \A n \in Nat : n \in G
<1> SUFFICES ASSUME Nat \ G # {} PROVE FALSE
  OBVIOUS
<1> DEFINE Bad == Nat \ G
           Below == OpToRel(<, Nat)
<1>1. PICK b \in Bad : \A n \in Bad : <<n, b>> \notin Below
  <2>1. Bad # {} /\ Bad \subseteq Nat
    OBVIOUS
  <2> HIDE DEF Bad, Below
  <2>2. IsWellFoundedOn(Below, Nat)
    BY NatLessThanWellFounded DEF Below
  <2> QED BY <2>1, <2>2, WFMin
<1>2. b \in Nat /\ b \notin G
  BY <1>1
<1> HIDE DEF Bad, Below
<1> DEFINE a == b - 1
<1>3. a \in Nat /\ a < b /\ a + 1 = b
  <2>1. b # 0
    BY <1>2
  <2> QED BY <1>2, <2>1
<1> HIDE DEF a
<1>4. a \notin Bad
  BY <1>1, <1>2, <1>3 DEF OpToRel, Below
<1>5. a + 1 \in G
  BY <1>3, <1>4 DEF Bad
<1> QED BY <1>2, <1>3, <1>5

(* A set of timestamps has a largest...                                    *)
LEMMA LargestBounds ==
    ASSUME NEW S, S \subseteq Times, S # {}
    PROVE  \E x \in S : \A y \in S : x >= y
<1> DEFINE Bounds == {n \in Nat : \A x \in S : x <= n}
<1>1. MaxTime \in Bounds
  BY ReportAssumption DEF Times
<1>2. PICK b \in Bounds : \A n \in Bounds : b <= n
  <2> DEFINE Below == OpToRel(<, Nat)
  <2>1. Bounds # {} /\ Bounds \subseteq Nat
    BY <1>1
  <2>2. PICK b \in Bounds : \A n \in Bounds : <<n, b>> \notin Below
    <3> HIDE DEF Bounds, Below
    <3>1. IsWellFoundedOn(Below, Nat)
      BY NatLessThanWellFounded DEF Below
    <3> QED BY <2>1, <3>1, WFMin
  <2>3. \A n \in Bounds : ~(n < b)
    <3> HIDE DEF Bounds
    <3> QED BY <2>1, <2>2 DEF OpToRel
  <2> QED BY <2>1, <2>3
<1>3. b \in S
  <2>1. SUFFICES ASSUME b \notin S PROVE FALSE
    OBVIOUS
  <2>2. PICK x \in S : TRUE
    OBVIOUS
  <2>3. x \in Nat /\ x < b
    BY <2>1, <2>2, ReportAssumption DEF Times
  <2>4. \A y \in S : y \in Int /\ y <= b - 1
    BY <2>1, ReportAssumption DEF Times
  <2>5. b - 1 \in Bounds
    BY <2>3, <2>4
  <2> QED BY <1>2, <2>5
<1>4. \A y \in S : b >= y
  BY <1>3, ReportAssumption DEF Times
<1> QED BY <1>3, <1>4

(* ... which Max returns.                                                  *)
LEMMA LargestTime ==
    ASSUME NEW S, S \subseteq Times, S # {}
    PROVE  Max(S) \in S /\ \A y \in S : y <= Max(S)
<1>1. Max(S) \in S /\ \A y \in S : Max(S) >= y
  BY LargestBounds DEF Max
<1> QED BY <1>1, ReportAssumption DEF Times

(* Rows of ticks with timestamps of their own...                           *)
OneEach(S) ==
    /\ \A r \in S : r.ts \in Times
    /\ \A r, s \in S : r.ts = s.ts => r = s

(* ... in the order of these.                                              *)
InOrder(f, n, S) ==
    /\ f \in [1 .. n -> S]
    /\ \A i, j \in 1 .. n : i < j => f[i].ts < f[j].ts

(* Of rows with timestamps of their own one is the latest.                 *)
LEMMA LatestRow ==
    ASSUME NEW S, OneEach(S), S # {}
    PROVE  \E x \in S : \A r \in S \ {x} : r.ts < x.ts
<1> DEFINE T == {r.ts : r \in S}
<1>1. T \subseteq Times /\ T # {}
  BY DEF OneEach
<1>2. Max(T) \in T /\ \A y \in T : y <= Max(T)
  <2> HIDE DEF T
  <2> QED BY <1>1, LargestTime
<1>4. PICK x \in S : x.ts = Max(T)
  BY <1>2
<1>5. ASSUME NEW r \in S \ {x}
      PROVE  r.ts < x.ts
  <2>1. r.ts <= x.ts /\ r.ts # x.ts
    BY <1>2, <1>4, ReportAssumption DEF OneEach, Times
  <2> QED BY <2>1, ReportAssumption DEF OneEach, Times
<1> QED BY <1>5

(* Such rows can be put in order.                                          *)
LEMMA OrderExists ==
    ASSUME NEW S, IsFiniteSet(S), OneEach(S)
    PROVE  \E f : InOrder(f, Cardinality(S), S)
<1> DEFINE G == {n \in Nat : \A T \in SUBSET S :
                    Cardinality(T) = n => \E f : InOrder(f, n, T)}
<1>1. 0 \in G
  <2> SUFFICES ASSUME NEW T \in SUBSET S, Cardinality(T) = 0 PROVE \E f : InOrder(f, 0, T)
    OBVIOUS
  <2>1. InOrder([i \in 1 .. 0 |-> i], 0, T)
    BY DEF InOrder
  <2> QED BY <2>1
<1>2. ASSUME NEW n \in G
      PROVE  n + 1 \in G
  <2> SUFFICES ASSUME NEW T \in SUBSET S, Cardinality(T) = n + 1
               PROVE  \E f : InOrder(f, n + 1, T)
    OBVIOUS
  <2>1. IsFiniteSet(T) /\ T # {} /\ OneEach(T)
    BY FS_Subset, FS_EmptySet DEF OneEach
  <2>2. PICK x \in T : \A r \in T \ {x} : r.ts < x.ts
    BY <2>1, LatestRow
  <2>3. Cardinality(T \ {x}) = n
    BY <2>1, FS_RemoveElement
  <2>4. PICK f : InOrder(f, n, T \ {x})
    BY <2>3
  <2> DEFINE h == [i \in 1 .. n + 1 |-> IF i = n + 1 THEN x ELSE f[i]]
  <2>5. \A i \in 1 .. n : h[i] = f[i] /\ f[i] \in T \ {x}
    BY <2>4 DEF InOrder
  <2>6. h[n + 1] = x
    OBVIOUS
  <2>7. h \in [1 .. n + 1 -> T]
    <3>1. ASSUME NEW i \in 1 .. n + 1
          PROVE  h[i] \in T
      <4>1. i = n + 1 \/ i \in 1 .. n
        OBVIOUS
      <4> HIDE DEF h
      <4> QED BY <2>2, <2>5, <2>6, <4>1
    <3>2. h = [i \in 1 .. n + 1 |-> h[i]]
      OBVIOUS
    <3> HIDE DEF h
    <3> QED BY <3>1, <3>2
  <2> HIDE DEF h
  <2>8. ASSUME NEW i \in 1 .. n + 1, NEW j \in 1 .. n + 1, i < j
        PROVE  h[i].ts < h[j].ts
    <3>1. i \in 1 .. n
      BY <2>8
    <3>2. CASE j = n + 1
      BY <2>2, <2>5, <2>6, <3>1, <3>2
    <3>3. CASE j \in 1 .. n
      BY <2>4, <2>5, <2>8, <3>1, <3>3 DEF InOrder
    <3> QED BY <3>2, <3>3
  <2>9. InOrder(h, n + 1, T)
    BY <2>7, <2>8 DEF InOrder
  <2> QED BY <2>9
<1>3. Cardinality(S) \in G
  <2>1. Cardinality(S) \in Nat
    BY FS_CardinalityType
  <2>2. G \in SUBSET Nat
    OBVIOUS
  <2> HIDE DEF G
  <2> QED BY <1>1, <1>2, <2>1, <2>2, StepByStep
<1> QED BY <1>3

(* ORDER BY ts gives every row once, the earlier first.                    *)
LEMMA OrderedRows ==
    ASSUME NEW S, IsFiniteSet(S), OneEach(S)
    PROVE  /\ InOrder(Ordered(S), Cardinality(S), S)
           /\ \A r \in S : \E i \in 1 .. Cardinality(S) : Ordered(S)[i] = r
<1> DEFINE n == Cardinality(S)
           Good(f) == f \in [1 .. n -> S] /\ \A i, j \in DOMAIN f : i < j => f[i].ts < f[j].ts
<1>1. PICK h : InOrder(h, n, S)
  BY OrderExists
<1>2. Good(h)
  BY <1>1 DEF InOrder
<1>3. Ordered(S) \in [1 .. n -> S]
      /\ \A i, j \in DOMAIN Ordered(S) : i < j => Ordered(S)[i].ts < Ordered(S)[j].ts
  BY <1>2 DEF Ordered
<1>4. InOrder(Ordered(S), n, S)
  BY <1>3 DEF InOrder
<1> DEFINE f == Ordered(S)
<1>5. n \in Nat
  BY FS_CardinalityType
<1>6. IsFiniteSet(1 .. n) /\ Cardinality(1 .. n) = n
  BY <1>5, FS_Interval
<1>7. f \in Injection(1 .. n, S)
  <2>1. ASSUME NEW i \in 1 .. n, NEW j \in 1 .. n, f[i] = f[j]
        PROVE  i = j
    <3>1. f[i].ts \in Nat /\ f[j].ts \in Nat
      BY <1>3, ReportAssumption DEF OneEach, Times
    <3>2. ~(i < j) /\ ~(j < i)
      BY <1>4, <2>1, <3>1 DEF InOrder
    <3> QED BY <3>2
  <2> QED BY <1>3, <2>1 DEF Injection, IsInjective
<1>8. f \in Surjection(1 .. n, S)
  <2> HIDE DEF f
  <2> QED BY <1>6, <1>7, FS_Injection
<1> QED BY <1>4, <1>8 DEF Surjection

-----------------------------------------------------------------------------
(* The pairwise scan: what FoldLeft has to be, for a fold to exist.        *)
Scan(it, f, n) ==
    it = [s \in SUBSET (1 .. n) |-> IF s = {} THEN <<>>
                                    ELSE Extend(it[s \ {Max(s)}], f[Max(s)])]

(* The last of the indices up to n + 1.                                    *)
LEMMA MaxOfPrefix ==
    ASSUME NEW n \in Nat, NEW s \in SUBSET (1 .. n + 1), n + 1 \in s
    PROVE  Max(s) = n + 1
<1>1. \A y \in s : n + 1 >= y
  OBVIOUS
<1>2. Max(s) \in s /\ \A y \in s : Max(s) >= y
  BY <1>1 DEF Max
<1> DEFINE m == n + 1
           x == Max(s)
<1>3. m \in Nat /\ m \in s /\ s \subseteq Int
  OBVIOUS
<1>4. x \in Int /\ m >= x /\ x >= m
  <2> HIDE DEF m, x
  <2>1. \A y \in s : m >= y
    BY <1>1 DEF m
  <2>2. x \in s /\ \A y \in s : x >= y
    BY <1>2 DEF x
  <2> QED BY <1>3, <2>1, <2>2
<1>5. x = m
  <2> HIDE DEF x, m
  <2> QED BY <1>3, <1>4
<1> QED BY <1>5

(* Such a fold exists.                                                     *)
LEMMA ScanExists ==
    ASSUME NEW f
    PROVE  \A n \in Nat : \E it : Scan(it, f, n)
<1> DEFINE G == {n \in Nat : \E it : Scan(it, f, n)}
<1>1. 0 \in G
  <2> DEFINE it == [s \in SUBSET (1 .. 0) |-> <<>>]
  <2>1. SUBSET (1 .. 0) = {{}}
    OBVIOUS
  <2>2. Scan(it, f, 0)
    BY <2>1 DEF Scan
  <2> HIDE DEF it
  <2> QED BY <2>2
<1>2. ASSUME NEW n \in G
      PROVE  n + 1 \in G
  <2>1. PICK it : Scan(it, f, n)
    OBVIOUS
  <2> DEFINE m == n + 1
             next == [s \in SUBSET (1 .. m) |->
                        IF m \in s THEN Extend(it[s \ {m}], f[m]) ELSE it[s]]
  <2>2. m \in Nat /\ \A s \in SUBSET (1 .. m) :
            /\ s \ {m} \in SUBSET (1 .. n)
            /\ m \notin s => s \in SUBSET (1 .. n)
            /\ m \in s => Max(s) = m
    <3>1. n \in Nat
      OBVIOUS
    <3>2. \A s \in SUBSET (1 .. m) : m \in s => Max(s) = m
      BY <3>1, MaxOfPrefix
    <3>3. 1 .. m \subseteq (1 .. n) \cup {m}
      BY <3>1
    <3> HIDE DEF m
    <3>4. \A s \in SUBSET (1 .. m) : s \ {m} \in SUBSET (1 .. n)
                                     /\ (m \notin s => s \in SUBSET (1 .. n))
      BY <3>3
    <3>5. m \in Nat
      BY <3>1 DEF m
    <3> QED BY <3>2, <3>4, <3>5
  <2>3. \A s \in SUBSET (1 .. n) :
            it[s] = IF s = {} THEN <<>> ELSE Extend(it[s \ {Max(s)}], f[Max(s)])
    BY <2>1 DEF Scan
  <2> HIDE DEF m
  <2>4. ASSUME NEW s \in SUBSET (1 .. m)
        PROVE  next[s] = IF s = {} THEN <<>> ELSE Extend(next[s \ {Max(s)}], f[Max(s)])
    <3>1. CASE m \in s
      <4>1. Max(s) = m /\ s # {} /\ s \ {m} \in SUBSET (1 .. m) /\ m \notin s \ {m}
        BY <2>2, <3>1
      <4>2. next[s] = Extend(it[s \ {m}], f[m]) /\ next[s \ {m}] = it[s \ {m}]
        BY <3>1, <4>1
      <4> HIDE DEF next
      <4> QED BY <4>1, <4>2
    <3>2. CASE m \notin s
      <4>1. next[s] = it[s] /\ s \in SUBSET (1 .. n)
        BY <2>2, <3>2
      <4>2. s \ {Max(s)} \in SUBSET (1 .. m) /\ m \notin s \ {Max(s)}
        BY <3>2
      <4>3. next[s \ {Max(s)}] = it[s \ {Max(s)}]
        BY <4>2
      <4> HIDE DEF next
      <4> QED BY <2>3, <4>1, <4>3
    <3> QED BY <3>1, <3>2
  <2>5. next = [s \in SUBSET (1 .. m) |-> next[s]]
    OBVIOUS
  <2> HIDE DEF next
  <2>6. Scan(next, f, m)
    BY <2>4, <2>5 DEF Scan
  <2> QED BY <2>2, <2>6 DEF m
<1>3. G \in SUBSET Nat
  OBVIOUS
<1>4. \A n \in Nat : n \in G
  <2> HIDE DEF G
  <2> QED BY <1>1, <1>2, <1>3, StepByStep
<1> QED BY <1>4

(* The chunks of k + 1 rows are those of k, extended.                      *)
LEMMA FoldIsScan ==
    ASSUME NEW n \in Nat, NEW f, DOMAIN f = 1 .. n
    PROVE  \E it : /\ FoldLeft(Extend, <<>>, f) = it[1 .. n]
                   /\ it[1 .. 0] = <<>>
                   /\ \A k \in Nat : k + 1 <= n => it[1 .. k + 1] = Extend(it[1 .. k], f[k + 1])
<1> DEFINE Rec(it) == it = [s \in SUBSET (1 .. n) |-> IF s = {} THEN <<>>
                            ELSE Extend(it[s \ {Max(s)}], f[Max(s)])]
           it == CHOOSE it : Rec(it)
<1>1. FoldLeft(Extend, <<>>, f) = it[1 .. n]
  BY DEF FoldLeft, MapThenFoldSet
<1>2. \E h : Rec(h)
  BY ScanExists DEF Scan
<1>3. Rec(it)
  <2> HIDE DEF Rec
  <2> QED BY <1>2
<1> HIDE DEF it
<1>4. it[1 .. 0] = <<>>
  BY <1>3
<1>5. ASSUME NEW k \in Nat, k + 1 <= n
      PROVE  it[1 .. k + 1] = Extend(it[1 .. k], f[k + 1])
  <2> DEFINE s == 1 .. k + 1
  <2>1. s \in SUBSET (1 .. n) /\ s # {} /\ Max(s) = k + 1 /\ s \ {k + 1} = 1 .. k
    <3>1. Max(s) = k + 1
      BY MaxOfPrefix
    <3> QED BY <1>5, <3>1
  <2> HIDE DEF s
  <2>2. it[s] = Extend(it[s \ {Max(s)}], f[Max(s)])
    BY <1>3, <2>1
  <2> QED BY <2>1, <2>2 DEF s
<1> QED BY <1>1, <1>4, <1>5

-----------------------------------------------------------------------------
(* Rows a .. b of the ordered ones, none a gap after the one before.       *)
Seg(f, a, b) == [i \in 1 .. b - a + 1 |-> f[a + i - 1]]
Far(f, i) == ~(f[i + 1].ts - f[i].ts <= Gap)
Linked(f, a, b) == \A i \in a .. b - 1 : ~Far(f, i)
Starts(f, a) == a = 1 \/ Far(f, a - 1)
Closed(f, a, b) == a <= b /\ Starts(f, a) /\ Linked(f, a, b) /\ Far(f, b)

(* What the loop of load_sessions has after k rows: the chunk it extends,  *)
(* and before it every stretch that a gap has ended.                       *)
SplitAt(f, k, C, a, D) ==
    /\ C = Append(D, Seg(f, a, k))
    /\ Starts(f, a) /\ Linked(f, a, k)
    /\ \A i \in 1 .. Len(D) : \E x, y \in 1 .. k - 1 :
            Closed(f, x, y) /\ D[i] = Seg(f, x, y)
    /\ \A x, y \in 1 .. k - 1 : Closed(f, x, y) =>
            \E i \in 1 .. Len(D) : D[i] = Seg(f, x, y)

Split(R, f, k, C) ==
    IF k = 0 THEN C = <<>>
    ELSE \E a \in 1 .. k, D \in Seq(Seq(R)) : SplitAt(f, k, C, a, D)

(* The parts of an appended sequence.                                      *)
LEMMA EndsOfAppend ==
    ASSUME NEW T, NEW D \in Seq(T), NEW e \in T
    PROVE  /\ Append(D, e) \in Seq(T) /\ Append(D, e) # <<>>
           /\ Last(Append(D, e)) = e
           /\ Front(Append(D, e)) = D
           /\ \A i \in 1 .. Len(D) + 1 : Append(D, e)[i] = IF i = Len(D) + 1 THEN e ELSE D[i]
           /\ Len(Append(D, e)) = Len(D) + 1
<1> DEFINE A == Append(D, e)
<1>1. A \in Seq(T) /\ A # <<>> /\ Len(A) = Len(D) + 1 /\ Len(D) \in Nat
  OBVIOUS
<1>2. \A i \in 1 .. Len(D) + 1 : A[i] = IF i = Len(D) + 1 THEN e ELSE D[i]
  OBVIOUS
<1>3. Last(A) = e
  BY <1>1, <1>2 DEF Last
<1>4. Front(A) = D
  <2>1. SubSeq(A, 1, Len(D)) = D
    OBVIOUS
  <2>2. Len(A) - 1 = Len(D)
    BY <1>1
  <2> QED BY <2>1, <2>2 DEF Front
<1> QED BY <1>1, <1>2, <1>3, <1>4

(* A stretch is as long as its bounds say, ...                             *)
LEMMA SegLen ==
    ASSUME NEW R, NEW n \in Nat, NEW f \in [1 .. n -> R],
           NEW a \in Nat, NEW k \in Nat, 1 <= a, a <= k, k <= n
    PROVE  Seg(f, a, k) \in Seq(R) /\ Len(Seg(f, a, k)) = k - a + 1
<1> DEFINE l == k - a + 1
<1>1. l \in Nat /\ Seg(f, a, k) \in [1 .. l -> R]
  BY DEF Seg
<1> QED BY <1>1

(* ... ends with row k, ...                                                *)
LEMMA SegEnds ==
    ASSUME NEW R, NEW n \in Nat, NEW f \in [1 .. n -> R],
           NEW a \in Nat, NEW k \in Nat, 1 <= a, a <= k, k <= n
    PROVE  /\ Seg(f, a, k) \in Seq(R) /\ Seg(f, a, k) # <<>>
           /\ Last(Seg(f, a, k)) = f[k]
<1> DEFINE c == Seg(f, a, k)
           l == k - a + 1
<1>1. c \in Seq(R) /\ Len(c) = l /\ l \in Nat /\ l >= 1
  BY SegLen
<1>2. c[l] = f[k]
  BY DEF Seg
<1> HIDE DEF c
<1>3. c # <<>> /\ Last(c) = f[k]
  BY <1>1, <1>2 DEF Last
<1> QED BY <1>1, <1>3 DEF c

(* ... starts with row a, ...                                              *)
Ends(f, a, k) == Last(Seg(f, a, k)) = f[k] /\ Head(Seg(f, a, k)) = f[a]

LEMMA SegHasEnds ==
    ASSUME NEW R, NEW n \in Nat, NEW f \in [1 .. n -> R],
           NEW a \in Nat, NEW k \in Nat, 1 <= a, a <= k, k <= n
    PROVE  Ends(f, a, k)
<1> DEFINE c == Seg(f, a, k)
           l == k - a + 1
<1>1. c \in Seq(R) /\ Len(c) = l /\ l \in Nat /\ l >= 1
  BY SegLen
<1>2. c[l] = f[k] /\ c[1] = f[a]
  BY DEF Seg
<1> HIDE DEF c
<1>3. c # <<>> /\ Last(c) = f[k] /\ Head(c) = f[a]
  BY <1>1, <1>2 DEF Last
<1> QED BY <1>3 DEF c, Ends

(* ... and grows by the row appended to it.                                *)
Grown(f, a, k, m) == Append(Seg(f, a, k), f[m]) = Seg(f, a, m)

LEMMA SegGrows ==
    ASSUME NEW R, NEW n \in Nat, NEW f \in [1 .. n -> R],
           NEW a \in Nat, NEW k \in Nat, NEW m \in Nat,
           1 <= a, a <= k, m = k + 1, m <= n
    PROVE  Grown(f, a, k, m)
<1> DEFINE c == Seg(f, a, k)
           d == Seg(f, a, m)
           e == Append(c, f[m])
           l == k - a + 1
<1>1. l \in Nat /\ f[m] \in R
  OBVIOUS
<1>2. c \in Seq(R) /\ Len(c) = l /\ d \in Seq(R) /\ Len(d) = l + 1
  <2>1. k <= n /\ a <= m
    OBVIOUS
  <2>2. c \in Seq(R) /\ Len(c) = l
    BY <2>1, SegLen
  <2>3. d \in Seq(R) /\ Len(d) = m - a + 1
    BY <2>1, SegLen
  <2> QED BY <2>2, <2>3
<1>3. e \in Seq(R) /\ Len(e) = l + 1
      /\ \A i \in 1 .. l + 1 : e[i] = IF i = l + 1 THEN f[m] ELSE c[i]
  <2> HIDE DEF c, l
  <2> QED BY <1>1, <1>2
<1>4. \A i \in 1 .. l + 1 : d[i] = f[a + i - 1]
  BY DEF Seg
<1>5. \A i \in 1 .. l : c[i] = f[a + i - 1]
  BY DEF Seg
<1>6. \A i \in 1 .. l + 1 : d[i] = e[i]
  <2> SUFFICES ASSUME NEW i \in 1 .. l + 1 PROVE d[i] = e[i]
    OBVIOUS
  <2>1. i = l + 1 => a + i - 1 = m
    OBVIOUS
  <2>2. i # l + 1 => i \in 1 .. l
    BY <1>1
  <2> HIDE DEF c, d, e, l
  <2> QED BY <1>3, <1>4, <1>5, <2>1, <2>2
<1> HIDE DEF d, e, l, c
<1>7. d = e
  BY <1>1, <1>2, <1>3, <1>6
<1> QED BY <1>7 DEF d, e, c, Grown

(* Two stretches that end at the same row are one.                         *)
LEMMA OneStart ==
    ASSUME NEW f, NEW k \in Nat, NEW a \in 1 .. k, NEW x \in 1 .. k,
           Starts(f, a), Linked(f, a, k), Starts(f, x), Linked(f, x, k)
    PROVE  x = a
<1>1. CASE x < a
  <2>1. a - 1 \in x .. k - 1 /\ a # 1
    BY <1>1
  <2> QED BY <2>1 DEF Linked, Starts
<1>2. CASE a < x
  <2>1. x - 1 \in a .. k - 1 /\ x # 1
    BY <1>2
  <2> QED BY <2>1 DEF Linked, Starts
<1> QED BY <1>1, <1>2

(* One row more: it goes to the chunk it is linked to...                   *)
LEMMA SplitLinked ==
    ASSUME NEW R, NEW n \in Nat, NEW f \in [1 .. n -> R],
           NEW k \in 1 .. n, k < n, NEW C, Split(R, f, k, C), ~Far(f, k)
    PROVE  Split(R, f, k + 1, Extend(C, f[k + 1]))
<1>0. k # 0
  OBVIOUS
<1>p. PICK a \in 1 .. k, D \in Seq(Seq(R)) : SplitAt(f, k, C, a, D)
  BY <1>0 DEF Split
<1>1. /\ C = Append(D, Seg(f, a, k))
      /\ Starts(f, a) /\ Linked(f, a, k)
      /\ \A i \in 1 .. Len(D) : \E x, y \in 1 .. k - 1 :
              Closed(f, x, y) /\ D[i] = Seg(f, x, y)
      /\ \A x, y \in 1 .. k - 1 : Closed(f, x, y) =>
              \E i \in 1 .. Len(D) : D[i] = Seg(f, x, y)
  BY <1>p DEF SplitAt
<1>q. a \in Nat /\ k \in Nat /\ 1 <= a /\ a <= k /\ k <= n
  OBVIOUS
<1>m. PICK m \in Nat : m = k + 1
  OBVIOUS
<1>f. f[k + 1] = f[m] /\ m \in 1 .. n
  BY <1>m
<1>2. Seg(f, a, k) \in Seq(R) /\ Seg(f, a, k) # <<>> /\ Last(Seg(f, a, k)) = f[k]
      /\ Append(Seg(f, a, k), f[m]) = Seg(f, a, m)
  <2>1. m \in Nat /\ m = k + 1 /\ m <= n
    BY <1>m
  <2>2. Seg(f, a, k) \in Seq(R) /\ Seg(f, a, k) # <<>> /\ Last(Seg(f, a, k)) = f[k]
    BY <1>q, SegEnds
  <2>3. Grown(f, a, k, m)
    BY <1>q, <2>1, SegGrows

  <2> QED BY <2>2, <2>3 DEF Grown
<1>3. C # <<>> /\ Last(C) = Seg(f, a, k) /\ Front(C) = D
  <2> DEFINE e == Seg(f, a, k)
  <2>1. C = Append(D, e) /\ e \in Seq(R)
    BY <1>1, <1>2
  <2> HIDE DEF e
  <2>2. C # <<>> /\ Last(C) = e /\ Front(C) = D
    BY <2>1, EndsOfAppend
  <2> QED BY <2>2 DEF e
<1>4. Extend(C, f[m]) = Append(D, Seg(f, a, m))
  BY <1>2, <1>3, <1>m, <1>f DEF Extend, Far
<1>5. Linked(f, a, m)
  <2>1. ASSUME NEW i \in a .. m - 1
        PROVE  ~Far(f, i)
    <3>1. i = k \/ i \in a .. k - 1
      BY <1>m
    <3> QED BY <1>1, <3>1 DEF Linked
  <2> QED BY <2>1 DEF Linked
<1>6. \A x \in 1 .. m - 1 : ~Closed(f, x, k)
  BY DEF Closed
<1>7. \A x, y \in 1 .. m - 1 : Closed(f, x, y) => x \in 1 .. k - 1 /\ y \in 1 .. k - 1
  <2> SUFFICES ASSUME NEW x \in 1 .. m - 1, NEW y \in 1 .. m - 1, Closed(f, x, y)
               PROVE  x \in 1 .. k - 1 /\ y \in 1 .. k - 1
    OBVIOUS
  <2>1. x <= y
    BY DEF Closed
  <2>2. y # k
    BY <1>6
  <2> QED BY <1>m, <2>1, <2>2
<1>8. \A i \in 1 .. Len(D) : \E x, y \in 1 .. m - 1 : Closed(f, x, y) /\ D[i] = Seg(f, x, y)
  <2>1. 1 .. k - 1 \subseteq 1 .. m - 1
    BY <1>m
  <2> QED BY <1>1, <2>1
<1>9. \A x, y \in 1 .. m - 1 : Closed(f, x, y) => \E i \in 1 .. Len(D) : D[i] = Seg(f, x, y)
  BY <1>1, <1>7
<1>10. m # 0 /\ a \in 1 .. m
  BY <1>m
<1>11. Split(R, f, m, Extend(C, f[m]))
  BY <1>1, <1>4, <1>5, <1>8, <1>9, <1>10 DEF Split, SplitAt
<1> QED BY <1>11, <1>m, <1>f

(* ... or begins one after a gap.                                          *)
LEMMA SplitAfterGap ==
    ASSUME NEW R, NEW n \in Nat, NEW f \in [1 .. n -> R],
           NEW k \in 1 .. n, k < n, NEW C, Split(R, f, k, C), Far(f, k)
    PROVE  Split(R, f, k + 1, Extend(C, f[k + 1]))
<1>0. k # 0
  OBVIOUS
<1>p. PICK a \in 1 .. k, D \in Seq(Seq(R)) : SplitAt(f, k, C, a, D)
  BY <1>0 DEF Split
<1>1. /\ C = Append(D, Seg(f, a, k))
      /\ Starts(f, a) /\ Linked(f, a, k)
      /\ \A i \in 1 .. Len(D) : \E x, y \in 1 .. k - 1 :
              Closed(f, x, y) /\ D[i] = Seg(f, x, y)
      /\ \A x, y \in 1 .. k - 1 : Closed(f, x, y) =>
              \E i \in 1 .. Len(D) : D[i] = Seg(f, x, y)
  BY <1>p DEF SplitAt
<1>q. a \in Nat /\ k \in Nat /\ 1 <= a /\ a <= k /\ k <= n
  OBVIOUS
<1> DEFINE m == k + 1
           e == Seg(f, a, k)
<1>2. e \in Seq(R) /\ e # <<>> /\ Last(e) = f[k]
  BY <1>q, SegEnds
<1>3. C # <<>> /\ Last(C) = e /\ C \in Seq(Seq(R)) /\ Len(C) = Len(D) + 1
      /\ \A i \in 1 .. Len(D) + 1 : C[i] = IF i = Len(D) + 1 THEN e ELSE D[i]
  <2> HIDE DEF e
  <2>1. C = Append(D, e)
    BY <1>1 DEF e
  <2> QED BY <1>2, <2>1, EndsOfAppend
<1>4. Extend(C, f[m]) = Append(C, <<f[m]>>)
  <2>1. ~(f[m].ts - Last(Last(C)).ts <= Gap)
    BY <1>2, <1>3 DEF Far
  <2> QED BY <2>1 DEF Extend
<1>5. <<f[m]>> = Seg(f, m, m)
  <2>1. Seg(f, m, m) = [i \in 1 .. 1 |-> f[m + i - 1]]
    BY DEF Seg
  <2>2. Seg(f, m, m) = [i \in 1 .. 1 |-> f[m]]
    BY <2>1
  <2> QED BY <2>2
<1>6. Starts(f, m) /\ Linked(f, m, m)
  BY DEF Starts, Linked
<1>7. Closed(f, a, k)
  BY <1>1 DEF Closed
<1>8. \A x \in 1 .. m - 1 : Closed(f, x, k) => x = a
  BY <1>1, OneStart DEF Closed
<1>9. ASSUME NEW i \in 1 .. Len(C)
      PROVE  \E x, y \in 1 .. m - 1 : Closed(f, x, y) /\ C[i] = Seg(f, x, y)
  <2>3. Len(D) \in Nat
    OBVIOUS
  <2>1. CASE i = Len(D) + 1
    <3>1. C[i] = e /\ a \in 1 .. m - 1 /\ k \in 1 .. m - 1
      BY <1>3, <2>1
    <3> QED BY <1>7, <3>1
  <2>2. CASE i \in 1 .. Len(D)
    <3>1. C[i] = D[i]
      <4>1. i # Len(D) + 1 /\ i \in 1 .. Len(D) + 1
        BY <2>2, <2>3
      <4> HIDE DEF e
      <4> QED BY <1>3, <4>1
    <3>2. PICK x, y \in 1 .. k - 1 : Closed(f, x, y) /\ D[i] = Seg(f, x, y)
      BY <1>1, <2>2
    <3>3. x \in 1 .. m - 1 /\ y \in 1 .. m - 1
      OBVIOUS
    <3> HIDE DEF m
    <3> QED BY <3>1, <3>2, <3>3
  <2> QED BY <1>3, <2>1, <2>2, <2>3
<1>10. ASSUME NEW x \in 1 .. m - 1, NEW y \in 1 .. m - 1, Closed(f, x, y)
       PROVE  \E i \in 1 .. Len(C) : C[i] = Seg(f, x, y)
  <2>1. Len(D) \in Nat
    OBVIOUS
  <2>2. CASE y = k
    <3>1. x = a
      BY <1>8, <1>10, <2>2
    <3> DEFINE l == Len(D) + 1
    <3>2. l \in 1 .. Len(C) /\ l \in 1 .. Len(D) + 1
      <4>1. Len(C) = l
        BY <1>3
      <4> HIDE DEF e
      <4> QED BY <2>1, <4>1
    <3>3. C[l] = e
      <4>1. l = Len(D) + 1
        OBVIOUS
      <4> HIDE DEF e, l
      <4> QED BY <1>3, <3>2, <4>1
    <3> QED BY <2>2, <3>1, <3>2, <3>3
  <2>3. CASE y # k
    <3>1. x <= y
      BY <1>10 DEF Closed
    <3>2. x \in 1 .. k - 1 /\ y \in 1 .. k - 1
      BY <2>3, <3>1
    <3>3. PICK i \in 1 .. Len(D) : D[i] = Seg(f, x, y)
      BY <1>1, <1>10, <3>2
    <3>4. i \in 1 .. Len(C) /\ C[i] = D[i]
      <4> HIDE DEF e
      <4> QED BY <1>3, <2>1
    <3> QED BY <3>3, <3>4
  <2> QED BY <2>2, <2>3
<1>11. m # 0 /\ m \in 1 .. m
  OBVIOUS
<1> HIDE DEF m, e
<1>12. Split(R, f, m, Append(C, Seg(f, m, m)))
  BY <1>3, <1>6, <1>9, <1>10, <1>11 DEF Split, SplitAt
<1> QED BY <1>4, <1>5, <1>12 DEF m

(* The first row is a chunk.                                               *)
LEMMA SplitFirst ==
    ASSUME NEW R, NEW n \in Nat, NEW f \in [1 .. n -> R], n >= 1
    PROVE  Split(R, f, 1, Extend(<<>>, f[1]))
<1> DEFINE D == <<>>
<1>1. Extend(<<>>, f[1]) = Append(D, <<f[1]>>)
  BY DEF Extend
<1>2. <<f[1]>> = Seg(f, 1, 1)
  <2>1. Seg(f, 1, 1) = [i \in 1 .. 1 |-> f[1]]
    BY DEF Seg
  <2> QED BY <2>1
<1>3. Starts(f, 1) /\ Linked(f, 1, 1)
  BY DEF Starts, Linked
<1>4. D \in Seq(Seq(R)) /\ Len(D) = 0
  OBVIOUS
<1>5. 1 .. 0 = {} /\ 1 .. 1 - 1 = {} /\ 1 \in 1 .. 1 /\ 1 # 0
  OBVIOUS
<1> HIDE DEF D
<1> QED BY <1>1, <1>2, <1>3, <1>4, <1>5 DEF Split, SplitAt

(* After all rows.                                                         *)
LEMMA FoldSplits ==
    ASSUME NEW R, NEW n \in Nat, NEW f \in [1 .. n -> R]
    PROVE  Split(R, f, n, FoldLeft(Extend, <<>>, f))
<1>1. PICK it : /\ FoldLeft(Extend, <<>>, f) = it[1 .. n]
                /\ it[1 .. 0] = <<>>
                /\ \A k \in Nat : k + 1 <= n => it[1 .. k + 1] = Extend(it[1 .. k], f[k + 1])
  BY FoldIsScan
<1> DEFINE G == {k \in Nat : k <= n => Split(R, f, k, it[1 .. k])}
<1>2. 0 \in G
  BY <1>1 DEF Split
<1>3. ASSUME NEW k \in G
      PROVE  k + 1 \in G
  <2> SUFFICES ASSUME k + 1 <= n PROVE Split(R, f, k + 1, it[1 .. k + 1])
    OBVIOUS
  <2>1. Split(R, f, k, it[1 .. k]) /\ k < n /\ k \in Nat
    OBVIOUS
  <2>2. it[1 .. k + 1] = Extend(it[1 .. k], f[k + 1])
    BY <1>1
  <2> HIDE DEF G
  <2>3. CASE k = 0
    <3>1. it[1 .. 1] = Extend(<<>>, f[1])
      BY <1>1, <2>2, <2>3
    <3>2. Split(R, f, 1, Extend(<<>>, f[1]))
      <4>1. n >= 1
        BY <2>1, <2>3
      <4> QED BY <4>1, SplitFirst
    <3> QED BY <2>3, <3>1, <3>2
  <2>4. CASE k # 0
    <3>1. k \in 1 .. n
      BY <2>1, <2>4
    <3> DEFINE C == it[1 .. k]
    <3>2. Split(R, f, k, C)
      BY <2>1
    <3> HIDE DEF C
    <3>3. Split(R, f, k + 1, Extend(C, f[k + 1]))
      <4>1. CASE Far(f, k)
        BY <2>1, <3>1, <3>2, <4>1, SplitAfterGap
      <4>2. CASE ~Far(f, k)
        BY <2>1, <3>1, <3>2, <4>2, SplitLinked
      <4> QED BY <4>1, <4>2
    <3> QED BY <2>2, <3>3 DEF C
  <2> QED BY <2>3, <2>4
<1>4. G \in SUBSET Nat
  OBVIOUS
<1>5. n \in G
  <2> HIDE DEF G
  <2> QED BY <1>2, <1>3, <1>4, StepByStep
<1> QED BY <1>1, <1>5

(* A stretch of the n rows: to the last of them or to a gap.               *)
Stretch(f, n, a, b) ==
    a <= b /\ Starts(f, a) /\ Linked(f, a, b) /\ (b = n \/ Far(f, b))

(* The chunks are the stretches.                                           *)
LEMMA ChunksAreStretches ==
    ASSUME NEW R, NEW n \in Nat, NEW f \in [1 .. n -> R]
    PROVE  LET C == FoldLeft(Extend, <<>>, f)
           IN  /\ \A c \in ToSet(C) : \E a, b \in 1 .. n :
                        Stretch(f, n, a, b) /\ c = Seg(f, a, b)
               /\ \A a, b \in 1 .. n : Stretch(f, n, a, b) => Seg(f, a, b) \in ToSet(C)
<1> DEFINE C == FoldLeft(Extend, <<>>, f)
<1>1. Split(R, f, n, C)
  BY FoldSplits
<1> HIDE DEF C
<1>2. CASE n = 0
  <2>1. C = <<>>
    BY <1>1, <1>2 DEF Split
  <2>2. ToSet(C) = {}
    BY <2>1 DEF ToSet
  <2>3. 1 .. n = {}
    BY <1>2
  <2> QED BY <2>2, <2>3 DEF C
<1>3. CASE n # 0
  <2>1. PICK k \in 1 .. n, D \in Seq(Seq(R)) : SplitAt(f, n, C, k, D)
    BY <1>1, <1>3 DEF Split
  <2>2. /\ C = Append(D, Seg(f, k, n))
        /\ Starts(f, k) /\ Linked(f, k, n)
        /\ \A i \in 1 .. Len(D) : \E x, y \in 1 .. n - 1 :
                Closed(f, x, y) /\ D[i] = Seg(f, x, y)
        /\ \A x, y \in 1 .. n - 1 : Closed(f, x, y) =>
                \E i \in 1 .. Len(D) : D[i] = Seg(f, x, y)
    BY <2>1 DEF SplitAt
  <2> DEFINE e == Seg(f, k, n)
             l == Len(D) + 1
  <2>3. e \in Seq(R)
    <3>1. k \in Nat /\ 1 <= k /\ k <= n /\ n <= n
      OBVIOUS
    <3> QED BY <3>1, SegEnds
  <2>4. C \in Seq(Seq(R)) /\ Len(C) = l
        /\ \A i \in 1 .. l : C[i] = IF i = l THEN e ELSE D[i]
    <3>1. C = Append(D, e)
      BY <2>2
    <3> HIDE DEF e
    <3> QED BY <2>3, <3>1, EndsOfAppend
  <2>5. l \in Nat /\ l >= 1 /\ Len(D) = l - 1
    OBVIOUS
  <2>6. DOMAIN C = 1 .. l
    <3> HIDE DEF e, l
    <3> QED BY <2>4, <2>5
  <2>7. Stretch(f, n, k, n)
    BY <2>2 DEF Stretch
  <2>8. ASSUME NEW c \in ToSet(C)
        PROVE  \E a, b \in 1 .. n : Stretch(f, n, a, b) /\ c = Seg(f, a, b)
    <3>1. PICK i \in 1 .. l : c = C[i]
      BY <2>6 DEF ToSet
    <3>2. CASE i = l
      <4>1. c = Seg(f, k, n)
        <5> HIDE DEF l
        <5> QED BY <2>4, <3>1, <3>2
      <4> QED BY <2>7, <4>1
    <3>3. CASE i # l
      <4>1. i \in 1 .. Len(D) /\ c = D[i]
        <5> HIDE DEF e, l
        <5> QED BY <2>4, <2>5, <3>1, <3>3
      <4>2. PICK x, y \in 1 .. n - 1 : Closed(f, x, y) /\ D[i] = Seg(f, x, y)
        BY <2>2, <4>1
      <4>3. Stretch(f, n, x, y) /\ x \in 1 .. n /\ y \in 1 .. n
        BY <4>2 DEF Stretch, Closed
      <4> QED BY <4>1, <4>2, <4>3
    <3> QED BY <3>2, <3>3
  <2>9. ASSUME NEW a \in 1 .. n, NEW b \in 1 .. n, Stretch(f, n, a, b)
        PROVE  Seg(f, a, b) \in ToSet(C)
    <3>1. CASE b = n
      <4>1. a = k
        BY <2>2, <2>9, <3>1, OneStart DEF Stretch
      <4>2. C[l] = Seg(f, a, b) /\ l \in 1 .. l
        <5> HIDE DEF l
        <5> QED BY <2>4, <2>5, <3>1, <4>1
      <4> HIDE DEF l
      <4> QED BY <2>6, <4>2 DEF ToSet
    <3>2. CASE b # n
      <4>1. a <= b
        BY <2>9 DEF Stretch
      <4>2. Closed(f, a, b) /\ a \in 1 .. n - 1 /\ b \in 1 .. n - 1
        BY <2>9, <3>2, <4>1 DEF Stretch, Closed
      <4>3. PICK i \in 1 .. Len(D) : D[i] = Seg(f, a, b)
        BY <2>2, <4>2
      <4>4. i \in 1 .. l /\ C[i] = D[i]
        <5> HIDE DEF e, l
        <5> QED BY <2>4, <2>5, <4>3
      <4> HIDE DEF l
      <4> QED BY <2>6, <4>3, <4>4 DEF ToSet
    <3> QED BY <3>1, <3>2
  <2> QED BY <2>8, <2>9 DEF C
<1> QED BY <1>2, <1>3
-----------------------------------------------------------------------------
(* A set of timestamps has a smallest.                                     *)
LEMMA SmallestTime ==
    ASSUME NEW S, S \subseteq Times, S # {}
    PROVE  Min(S) \in S /\ \A y \in S : Min(S) <= y
<1> DEFINE Below == OpToRel(<, Nat)
<1>1. S \subseteq Nat
  BY ReportAssumption DEF Times
<1>2. PICK b \in S : \A y \in S : <<y, b>> \notin Below
  <2> HIDE DEF Below
  <2>1. IsWellFoundedOn(Below, Nat)
    BY NatLessThanWellFounded DEF Below
  <2> QED BY <1>1, <2>1, WFMin
<1>3. \A y \in S : ~(y < b)
  BY <1>1, <1>2 DEF OpToRel
<1>4. \A y \in S : b <= y
  BY <1>1, <1>3
<1> QED BY <1>2, <1>4 DEF Min

(* Timestamps in order, and where a gap cuts them.                         *)
Rising(u, n) ==
    /\ u \in [1 .. n -> Times]
    /\ \A i, j \in 1 .. n : i < j => u[i] < u[j]
Piece(u, a, b) == {u[i] : i \in a .. b}
Cut(u, n, a, b) ==
    /\ a <= b
    /\ a = 1 \/ u[a] - u[a - 1] > Gap
    /\ \A i \in a .. b - 1 : u[i + 1] - u[i] <= Gap
    /\ b = n \/ u[b + 1] - u[b] > Gap

(* The order of timestamps is that of their indices.                       *)
LEMMA RisingBack ==
    ASSUME NEW n \in Nat, NEW u, Rising(u, n)
    PROVE  /\ \A i \in 1 .. n : u[i] \in Nat
           /\ \A i, j \in 1 .. n : u[i] < u[j] => i < j
           /\ \A i, j \in 1 .. n : u[i] <= u[j] => i <= j
           /\ \A i, j \in 1 .. n : i <= j => u[i] <= u[j]
<1>1. \A i \in 1 .. n : u[i] \in Nat
  BY ReportAssumption DEF Rising, Times
<1>2. ASSUME NEW i \in 1 .. n, NEW j \in 1 .. n
      PROVE  (u[i] < u[j] => i < j) /\ (u[i] <= u[j] => i <= j) /\ (i <= j => u[i] <= u[j])
  <2>1. i < j \/ i = j \/ j < i
    OBVIOUS
  <2>2. u[i] \in Nat /\ u[j] \in Nat
    BY <1>1
  <2>3. CASE i < j
    <3>1. u[i] < u[j]
      BY <2>3 DEF Rising
    <3> QED BY <2>2, <2>3, <3>1
  <2>4. CASE j < i
    <3>1. u[j] < u[i]
      BY <2>4 DEF Rising
    <3> QED BY <2>2, <2>4, <3>1
  <2>5. CASE i = j
    BY <2>2, <2>5
  <2> QED BY <2>1, <2>3, <2>4, <2>5
<1> QED BY <1>1, <1>2

(* What gaps cut out is a run, ...                                         *)
LEMMA CutIsRun ==
    ASSUME NEW n \in Nat, NEW u, Rising(u, n), NEW a \in 1 .. n, NEW b \in 1 .. n,
           Cut(u, n, a, b)
    PROVE  IsRun(Piece(u, a, b), Piece(u, 1, n))
<1> DEFINE T == Piece(u, a, b)
           S == Piece(u, 1, n)
<1>1. \A i \in 1 .. n : u[i] \in Nat /\ u[i] \in Times
  BY RisingBack DEF Rising
<1>2. \A i, j \in 1 .. n : i <= j => u[i] <= u[j]
  BY RisingBack
<1>3. a <= b /\ a .. b \subseteq 1 .. n
  BY DEF Cut
<1>4. u[a] \in T /\ u[b] \in T /\ \A y \in T : u[a] <= y /\ y <= u[b]
  <2>1. \A i \in a .. b : u[a] <= u[i] /\ u[i] <= u[b]
    BY <1>2, <1>3
  <2> QED BY <1>3, <2>1 DEF Piece
<1>5. T \subseteq Times
  BY <1>1, <1>3 DEF Piece
<1>6. Max(T) = u[b] /\ Min(T) = u[a]
  <2> HIDE DEF T
  <2>1. Max(T) \in T /\ (\A y \in T : y <= Max(T)) /\ Min(T) \in T /\ (\A y \in T : Min(T) <= y)
    BY <1>4, <1>5, LargestTime, SmallestTime
  <2> DEFINE x == Max(T)
             z == Min(T)
  <2>2. x \in Nat /\ z \in Nat /\ u[a] \in Nat /\ u[b] \in Nat
    <3>1. T \subseteq Nat
      BY <1>5, ReportAssumption DEF Times
    <3>2. x \in T /\ z \in T
      BY <2>1
    <3> HIDE DEF x, z
    <3> QED BY <1>1, <3>1, <3>2
  <2>3. x <= u[b] /\ u[b] <= x /\ z <= u[a] /\ u[a] <= z
    BY <1>4, <2>1
  <2> HIDE DEF x, z
  <2>4. x = u[b] /\ z = u[a]
    BY <2>2, <2>3
  <2> QED BY <2>4 DEF x, z
<1>7. ASSUME NEW x \in T, NEW y \in S \ T
      PROVE  ~Near(x, y)
  <2>1. PICK i \in a .. b : x = u[i]
    BY DEF Piece
  <2>2. PICK j \in 1 .. n : y = u[j]
    BY DEF Piece
  <2>3. j \notin a .. b
    BY <2>2 DEF Piece
  <2>4. x \in Nat /\ y \in Nat
    BY <1>1, <1>3, <2>1, <2>2
  <2>5. CASE j < a
    <3>1. a # 1 /\ a - 1 \in 1 .. n /\ j <= a - 1 /\ a <= i
      BY <2>5
    <3>2. u[a] - u[a - 1] > Gap
      BY <3>1 DEF Cut
    <3>3. y <= u[a - 1] /\ u[a] <= x
      BY <1>2, <1>3, <2>1, <2>2, <3>1
    <3>4. u[a] \in Nat /\ u[a - 1] \in Nat
      BY <1>1, <3>1
    <3> DEFINE v == u[a]
               w == u[a - 1]
    <3> HIDE DEF v, w
    <3>5. v \in Nat /\ w \in Nat /\ v - w > Gap /\ y <= w /\ v <= x
      BY <3>2, <3>3, <3>4 DEF v, w
    <3>6. x - y > Gap
      BY <2>4, <3>5, ReportAssumption
    <3> QED BY <2>4, <3>6, ReportAssumption DEF Near
  <2>6. CASE b < j
    <3>1. b # n /\ b + 1 \in 1 .. n /\ b + 1 <= j /\ i <= b
      BY <2>6
    <3>2. u[b + 1] - u[b] > Gap
      BY <3>1 DEF Cut
    <3>3. u[b + 1] <= y /\ x <= u[b]
      BY <1>2, <1>3, <2>1, <2>2, <3>1
    <3>4. u[b] \in Nat /\ u[b + 1] \in Nat
      BY <1>1, <3>1
    <3> DEFINE v == u[b + 1]
               w == u[b]
    <3> HIDE DEF v, w
    <3>5. v \in Nat /\ w \in Nat /\ v - w > Gap /\ v <= y /\ x <= w
      BY <3>2, <3>3, <3>4 DEF v, w
    <3>6. y - x > Gap
      BY <2>4, <3>5, ReportAssumption
    <3> QED BY <2>4, <3>6, ReportAssumption DEF Near
  <2> QED BY <2>3, <2>5, <2>6
<1>8. ASSUME NEW x \in T \ {Max(T)}
      PROVE  \E y \in T : x < y /\ Near(x, y)
  <2>1. PICK i \in a .. b : x = u[i]
    BY DEF Piece
  <2>2. i # b
    BY <1>6, <1>8, <2>1
  <2>3. i \in a .. b - 1 /\ i + 1 \in a .. b
    BY <2>2
  <2>4. u[i + 1] \in T
    BY <2>3 DEF Piece
  <2>5. u[i] < u[i + 1]
    BY <1>3, <2>3 DEF Rising
  <2>6. u[i + 1] - u[i] <= Gap
    BY <2>3 DEF Cut
  <2> DEFINE v == u[i + 1]
  <2>7. v \in T /\ x < v /\ v - x <= Gap
    BY <2>1, <2>4, <2>5, <2>6
  <2>8. v \in Nat /\ x \in Nat
    BY <1>1, <1>3, <2>1, <2>3
  <2> HIDE DEF v, T
  <2>9. Near(x, v)
    BY <2>7, <2>8, ReportAssumption DEF Near
  <2> QED BY <2>7, <2>9
<1>9. ASSUME NEW x \in S, Min(T) <= x, x <= Max(T)
      PROVE  x \in T
  <2>1. PICK j \in 1 .. n : x = u[j]
    BY DEF Piece
  <2>2. u[a] <= u[j] /\ u[j] <= u[b]
    BY <1>6, <1>9, <2>1
  <2>3. a <= j /\ j <= b
    BY <2>2, RisingBack
  <2> QED BY <2>1, <2>3 DEF Piece
<1> HIDE DEF S, T
<1>10. IsRun(T, S)
  BY <1>4, <1>7, <1>8, <1>9 DEF IsRun
<1> QED BY <1>10 DEF S, T

(* ... and every run is cut out by gaps.                                   *)
LEMMA RunIsCut ==
    ASSUME NEW n \in Nat, NEW u, Rising(u, n), NEW T \in SUBSET Piece(u, 1, n),
           IsRun(T, Piece(u, 1, n))
    PROVE  \E a, b \in 1 .. n : Cut(u, n, a, b) /\ T = Piece(u, a, b)
<1> DEFINE S == Piece(u, 1, n)
<1>1. \A i \in 1 .. n : u[i] \in Nat /\ u[i] \in Times
  BY RisingBack DEF Rising
<1>2. T # {} /\ T \subseteq Times
  BY <1>1 DEF IsRun, Piece
<1>3. Max(T) \in T /\ (\A y \in T : y <= Max(T)) /\ Min(T) \in T /\ (\A y \in T : Min(T) <= y)
  BY <1>2, LargestTime, SmallestTime
<1>4. PICK a \in 1 .. n : u[a] = Min(T)
  BY <1>3 DEF Piece
<1>5. PICK b \in 1 .. n : u[b] = Max(T)
  BY <1>3 DEF Piece
<1>6. u[a] \in T /\ u[b] \in T /\ \A y \in T : u[a] <= y /\ y <= u[b]
  BY <1>3, <1>4, <1>5
<1>7. a <= b
  BY <1>6, RisingBack
<1>8. \A i \in 1 .. n : u[i] \in T <=> i \in a .. b
  <2>1. ASSUME NEW i \in 1 .. n, u[i] \in T
        PROVE  i \in a .. b
    <3>1. u[a] <= u[i] /\ u[i] <= u[b]
      BY <1>6, <2>1
    <3>2. a <= i /\ i <= b
      BY <3>1, RisingBack
    <3> QED BY <3>2
  <2>2. ASSUME NEW i \in 1 .. n, i \in a .. b
        PROVE  u[i] \in T
    <3>1. u[a] <= u[i] /\ u[i] <= u[b]
      BY <2>2, RisingBack
    <3>2. u[i] \in S
      BY DEF Piece
    <3> QED BY <1>4, <1>5, <3>1, <3>2 DEF IsRun
  <2> QED BY <2>1, <2>2
<1>9. T = Piece(u, a, b)
  <2>1. ASSUME NEW x \in T
        PROVE  x \in Piece(u, a, b)
    <3>1. PICK i \in 1 .. n : x = u[i]
      BY DEF Piece
    <3> QED BY <1>8, <2>1, <3>1 DEF Piece
  <2>2. ASSUME NEW x \in Piece(u, a, b)
        PROVE  x \in T
    <3>1. PICK i \in a .. b : x = u[i]
      BY DEF Piece
    <3>2. i \in 1 .. n
      OBVIOUS
    <3> QED BY <1>8, <3>1, <3>2
  <2> QED BY <2>1, <2>2
<1>10. a = 1 \/ u[a] - u[a - 1] > Gap
  <2> SUFFICES ASSUME a # 1 PROVE u[a] - u[a - 1] > Gap
    OBVIOUS
  <2> DEFINE c == a - 1
  <2>1. c \in 1 .. n /\ c \notin a .. b /\ c < a
    OBVIOUS
  <2> HIDE DEF c
  <2>2. u[c] \in S \ T
    BY <1>8, <2>1 DEF Piece
  <2>3. ~Near(u[a], u[c]) /\ u[c] < u[a]
    BY <1>6, <2>1, <2>2 DEF IsRun, Rising
  <2>4. u[a] \in Nat /\ u[c] \in Nat
    BY <1>1, <2>1
  <2>5. u[a] - u[c] > Gap
    BY <2>3, <2>4, ReportAssumption DEF Near
  <2> QED BY <2>5 DEF c
<1>11. b = n \/ u[b + 1] - u[b] > Gap
  <2> SUFFICES ASSUME b # n PROVE u[b + 1] - u[b] > Gap
    OBVIOUS
  <2> DEFINE c == b + 1
  <2>1. c \in 1 .. n /\ c \notin a .. b /\ b < c
    OBVIOUS
  <2> HIDE DEF c
  <2>2. u[c] \in S \ T
    BY <1>8, <2>1 DEF Piece
  <2>3. ~Near(u[b], u[c]) /\ u[b] < u[c]
    BY <1>6, <2>1, <2>2 DEF IsRun, Rising
  <2>4. u[b] \in Nat /\ u[c] \in Nat
    BY <1>1, <2>1
  <2>5. u[c] - u[b] > Gap
    BY <2>3, <2>4, ReportAssumption DEF Near
  <2> QED BY <2>5 DEF c
<1>12. ASSUME NEW i \in a .. b - 1
       PROVE  u[i + 1] - u[i] <= Gap
  <2> DEFINE c == i + 1
  <2>1. c \in 1 .. n /\ i \in 1 .. n /\ i \in a .. b /\ i < b /\ i < c
    OBVIOUS
  <2>2. \A j \in 1 .. n : i < j => c <= j
    OBVIOUS
  <2> HIDE DEF c
  <2>3. u[i] < u[b]
    BY <2>1 DEF Rising
  <2>4. u[i] \in T /\ u[i] # Max(T)
    BY <1>1, <1>5, <1>8, <2>1, <2>3
  <2>5. PICK y \in T : u[i] < y /\ Near(u[i], y)
    BY <2>4 DEF IsRun
  <2>6. PICK j \in 1 .. n : y = u[j]
    BY DEF Piece
  <2>7. i < j
    BY <2>1, <2>5, <2>6, RisingBack
  <2>8. u[c] <= u[j]
    BY <2>1, <2>2, <2>7, RisingBack
  <2>9. u[c] \in Nat /\ u[i] \in Nat /\ y \in Nat
    BY <1>1, <2>1, <2>6
  <2>10. u[c] - u[i] <= Gap
    BY <2>5, <2>6, <2>8, <2>9, ReportAssumption DEF Near
  <2> QED BY <2>10 DEF c
<1>13. Cut(u, n, a, b)
  BY <1>7, <1>10, <1>11, <1>12 DEF Cut
<1> QED BY <1>9, <1>13
-----------------------------------------------------------------------------
(* Ticks have timestamps of their own, the one load_current_status has     *)
(* chosen is among them, and what it then keeps are that tick's processes. *)
OwnTimes == \A t, u \in db : t.ts = u.ts => t = u
LatestStays == latest # NoTick => \E t \in db : t.ts = latest
HolderOf(g) ==
    IF Holders(g, latest) = {} THEN holder[g] = NoTick
    ELSE holder[g] \in Largest(Holders(g, latest))
HoldersOfLatest == pc = "gpus" => \A g \in Gpus : HolderOf(g)

IInv ==
    /\ db \subseteq Ticks /\ OwnTimes /\ LatestStays
    /\ pc \in {"holders", "gpus"} => latest # NoTick
    /\ HoldersOfLatest /\ StatusIsOneTick

LEMMA OneTickAt ==
    ASSUME OwnTimes, NEW t \in db
    PROVE  At(t.ts) = {t}
  BY DEF OwnTimes, At

LEMMA LatestIsATick ==
    ASSUME db \subseteq Ticks, Latest # NoTick
    PROVE  \E t \in db : t.ts = Latest
<1> DEFINE S == {t.ts : t \in InWindow}
<1>1. InWindow # {} /\ Latest = Max(S)
  BY DEF Latest
<1>2. S \subseteq Times /\ S # {}
  BY <1>1 DEF InWindow, Ticks
<1>3. Max(S) \in S
  <2> HIDE DEF S
  <2> QED BY <1>2, LargestTime
<1> QED BY <1>1, <1>3 DEF InWindow

(* One line of the status, from the tick of the line and a largest holder. *)
LEMMA LineIsOfTick ==
    ASSUME db \subseteq Ticks, OwnTimes, NEW t \in db, t.ts = latest,
           NEW g \in Gpus, HolderOf(g), NEW s, s = Line(t, g)
    PROVE  LET here == {p \in Compute(t) : p.gpu = s.gpu}
           IN  /\ s.gpu = g
               /\ s.util = t.util[s.gpu]
               /\ s.owner = NoTick <=> here = {}
               /\ s.state = "idle_held" => s.util < ActiveUtil
               /\ s.state = "empty" => \A p \in here : p.mem <= MemFloor
               /\ \A p \in here : p.mem > MemFloor => s.state # "empty"
               /\ s.owner # NoTick =>
                       \E p \in here : p.pid = s.owner /\ p \in Largest(here)
<1> DEFINE here == {p \in Compute(t) : p.gpu = g}
<1>1. Holders(g, latest) = here
  BY OneTickAt DEF Holders
<1>2. here \subseteq ProcRow /\ t.util[g] \in Nat
  BY ReportAssumption DEF Ticks, Compute
<1>3. \A p \in here : p.mem \in Nat /\ p.pid \in Pids /\ p.pid # NoTick /\ p # NoTick
  BY <1>2, ReportAssumption DEF ProcRow
<1>4. CASE here = {}
  <2>1. holder[g] = NoTick
    BY <1>1, <1>4 DEF HolderOf
  <2> QED BY <1>2, <1>4, <2>1, ReportAssumption DEF Line, State
<1>5. CASE here # {}
  <2>1. holder[g] \in here /\ \A q \in here : q.mem <= holder[g].mem
    BY <1>1, <1>5 DEF HolderOf, Largest
  <2>2. s.gpu = g /\ s.owner = holder[g].pid /\ s.util = t.util[g]
        /\ s.state = State(t.util[g], holder[g])
    BY <1>3, <2>1 DEF Line
  <2>3. /\ s.state = "idle_held" => s.util < ActiveUtil
        /\ s.state = "empty" => holder[g].mem <= MemFloor
    BY <1>2, <1>3, <2>1, <2>2, ReportAssumption DEF State
  <2>4. s.state = "empty" => \A p \in here : p.mem <= MemFloor
    BY <1>3, <2>1, <2>3, ReportAssumption
  <2>5. \A p \in here : p.mem > MemFloor => s.state # "empty"
    BY <1>3, <2>4, ReportAssumption
  <2>6. holder[g] \in Largest(here)
    BY <2>1 DEF Largest
  <2> QED BY <1>3, <1>5, <2>1, <2>2, <2>3, <2>4, <2>5, <2>6
<1> QED BY <1>4, <1>5

-----------------------------------------------------------------------------
LEMMA StatusInit == Init => IInv
  BY DEF Init, IInv, OwnTimes, LatestStays, HoldersOfLatest, StatusIsOneTick

LEMMA StatusStep == IInv /\ [Next]_vars => IInv'
<1> SUFFICES ASSUME IInv, [Next]_vars PROVE IInv'
  OBVIOUS
<1> USE DEF IInv
<1>1. ASSUME NEW t \in Ticks, Commit(t) PROVE IInv'
  <2>1. db \subseteq db' /\ db' \subseteq Ticks /\ OwnTimes'
    BY <1>1 DEF Commit, OwnTimes
  <2>2. UNCHANGED <<pc, latest, holder, gpus>>
    BY <1>1 DEF Commit
  <2>3. LatestStays'
    BY <2>1, <2>2 DEF LatestStays
  <2>4. HoldersOfLatest'
    <3> SUFFICES ASSUME pc = "gpus" PROVE \A g \in Gpus : HolderOf(g)'
      BY <2>2 DEF HoldersOfLatest
    <3>1. PICK u \in db : u.ts = latest
      BY DEF LatestStays
    <3>2. At(latest) = {u} /\ At(latest)' = {u}
      BY <2>1, <2>2, <3>1 DEF At, OwnTimes
    <3>3. \A g \in Gpus : Holders(g, latest)' = Holders(g, latest)
      BY <3>2 DEF Holders
    <3> QED BY <2>2, <3>3 DEF HoldersOfLatest, HolderOf
  <2>5. StatusIsOneTick'
    <3> SUFFICES ASSUME pc \in {"newest", "done"}, latest # NoTick
                 PROVE  StatusIsOneTick'
      BY <2>2 DEF StatusIsOneTick
    <3> QED BY <2>1, <2>2 DEF StatusIsOneTick
  <2> QED BY <2>1, <2>2, <2>3, <2>4, <2>5
<1>2. CASE ReadUtils \/ ReadRows
  BY <1>2 DEF ReadUtils, ReadRows, OwnTimes, LatestStays, HoldersOfLatest, StatusIsOneTick
<1>3. CASE ReadLatest
  <2>1. LatestStays'
    BY <1>3, LatestIsATick DEF ReadLatest, LatestStays
  <2> QED BY <1>3, <2>1 DEF ReadLatest, OwnTimes, HoldersOfLatest, StatusIsOneTick
<1>4. CASE ReadHolders
  <2>1. HoldersOfLatest'
    <3>1. \A g \in Gpus : Holders(g, latest)' = Holders(g, latest)
      BY <1>4 DEF ReadHolders, Holders, At
    <3> QED BY <1>4, <3>1 DEF ReadHolders, HoldersOfLatest, HolderOf
  <2> QED BY <1>4, <2>1 DEF ReadHolders, OwnTimes, LatestStays, StatusIsOneTick
<1>5. CASE ReadGpus
  <2>1. PICK t \in db : t.ts = latest
    BY <1>5 DEF ReadGpus, LatestStays
  <2>2. gpus' = {Line(t, g) : g \in Gpus}
    <3> DEFINE Lines(u) == {Line(u, g) : g \in Gpus}
    <3>1. At(latest) = {t}
      BY <2>1, OneTickAt
    <3>2. gpus' = UNION {Lines(u) : u \in {t}}
      <4>1. gpus' = UNION {{Line(u, g) : g \in Gpus} : u \in At(latest)}
        BY <1>5 DEF ReadGpus
      <4> QED BY <3>1, <4>1, Zenon
    <3>3. UNION {Lines(u) : u \in {t}} = Lines(t)
      <4> HIDE DEF Lines
      <4> QED OBVIOUS
    <3> QED BY <3>2, <3>3
  <2>3. \A g \in Gpus : HolderOf(g)
    BY <1>5 DEF ReadGpus, HoldersOfLatest
  <2>4. db' = db /\ latest' = latest /\ pc' = "newest"
    BY <1>5 DEF ReadGpus
  <2>5. {s.gpu : s \in gpus'} = Gpus
    <3>1. \A g \in Gpus : Line(t, g).gpu = g
      BY DEF Line
    <3>2. \A g \in Gpus : g \in {s.gpu : s \in gpus'}
      BY <2>2, <3>1, Zenon
    <3>3. \A x \in {s.gpu : s \in gpus'} : x \in Gpus
      BY <2>2, <3>1, Zenon
    <3> QED BY <3>2, <3>3
  <2>6. StatusIsOneTick'
    <3> SUFFICES
          /\ {s.gpu : s \in gpus'} = Gpus
          /\ \A s \in gpus' :
                LET here == {p \in Compute(t) : p.gpu = s.gpu}
                IN  /\ s.util = t.util[s.gpu]
                    /\ s.owner = NoTick <=> here = {}
                    /\ s.state = "idle_held" => s.util < ActiveUtil
                    /\ s.state = "empty" => \A p \in here : p.mem <= MemFloor
                    /\ \A p \in here : p.mem > MemFloor => s.state # "empty"
                    /\ s.owner # NoTick =>
                            \E p \in here : p.pid = s.owner /\ p \in Largest(here)
      BY <2>1, <2>4 DEF StatusIsOneTick
    <3> QED BY <2>1, <2>2, <2>3, <2>5, LineIsOfTick
  <2> QED BY <2>4, <2>6 DEF OwnTimes, LatestStays, HoldersOfLatest
<1>6. CASE ReadNewest
  BY <1>6 DEF ReadNewest, OwnTimes, LatestStays, HoldersOfLatest, StatusIsOneTick
<1>7. CASE Render
  BY <1>7 DEF Render, OwnTimes, LatestStays, HoldersOfLatest, StatusIsOneTick
<1>8. CASE UNCHANGED vars
  BY <1>8 DEF vars, OwnTimes, LatestStays, HoldersOfLatest, HolderOf, Holders, At, StatusIsOneTick
<1> QED BY <1>1, <1>2, <1>3, <1>4, <1>5, <1>6, <1>7, <1>8 DEF Next, Sample, Query

(* load_current_status: load, verdict and holder of every card are those   *)
(* of one committed tick.                                                  *)
THEOREM StatusOfOneTick == Spec => []StatusIsOneTick
<1>1. IInv => StatusIsOneTick
  BY DEF IInv
<1> QED BY <1>1, StatusInit, StatusStep, PTL DEF Spec

-----------------------------------------------------------------------------
(* The rows read are those of ticks of the window that are still there.    *)
Kept(t, p) == [gpu |-> p.gpu, pid |-> p.pid, mem |-> p.mem, ts |-> t.ts]
RowsOfTicks ==
    \A r \in rows : \E t \in db :
        t.ts >= Cutoff /\ \E p \in Compute(t) : r = Kept(t, p)

(* A process has one row on a card per tick.                               *)
LEMMA RowsOfOne ==
    ASSUME db \subseteq Ticks, OwnTimes, RowsOfTicks, NEW g, NEW p
    PROVE  OneEach(RowsOf(g, p)) /\ IsFiniteSet(RowsOf(g, p))
<1> DEFINE S == RowsOf(g, p)
<1>1. ASSUME NEW r \in S
      PROVE  \E t \in db : \E q \in t.procs :
                r = Kept(t, q) /\ q.gpu = g /\ q.pid = p /\ r.ts = t.ts
  <2>1. r \in rows /\ r.gpu = g /\ r.pid = p
    BY DEF RowsOf
  <2>2. PICK t \in db : \E q \in Compute(t) : r = Kept(t, q)
    BY <2>1 DEF RowsOfTicks
  <2>3. PICK q \in Compute(t) : r = Kept(t, q)
    BY <2>2
  <2>4. q.gpu = g /\ q.pid = p /\ r.ts = t.ts
    BY <2>1, <2>3 DEF Kept
  <2> QED BY <2>3, <2>4 DEF Compute
<1>2. \A r \in S : r.ts \in Times
  BY <1>1 DEF Ticks
<1>3. ASSUME NEW r \in S, NEW s \in S, r.ts = s.ts
      PROVE  r = s
  <2>1. PICK t \in db : \E q \in t.procs :
            r = Kept(t, q) /\ q.gpu = g /\ q.pid = p /\ r.ts = t.ts
    BY <1>1
  <2>2. PICK u \in db : \E q \in u.procs :
            s = Kept(u, q) /\ q.gpu = g /\ q.pid = p /\ s.ts = u.ts
    BY <1>1
  <2>3. t = u
    BY <1>3, <2>1, <2>2 DEF OwnTimes
  <2>4. \A x, y \in t.procs : x.gpu = y.gpu /\ x.pid = y.pid => x = y
    BY DEF Ticks
  <2> QED BY <2>1, <2>2, <2>3, <2>4
<1>4. OneEach(S)
  BY <1>2, <1>3 DEF OneEach
<1> DEFINE h == [r \in S |-> r.ts]
<1>5. h \in Injection(S, Times)
  BY <1>2, <1>3 DEF Injection, IsInjective
<1>6. IsFiniteSet(Times)
  BY FS_Interval, ReportAssumption DEF Times
<1>7. IsFiniteSet(S)
  <2> HIDE DEF h, S
  <2> QED BY <1>5, <1>6, FS_Injection
<1> QED BY <1>4, <1>7

(* The ordered rows of a process, and their timestamps.                    *)
Count(g, p) == Cardinality(RowsOf(g, p))
Queue(g, p) == Ordered(RowsOf(g, p))
Stamps(g, p) == [i \in 1 .. Count(g, p) |-> Queue(g, p)[i].ts]

(* In order they are all its rows.                                         *)
LEMMA OrderedOfOne ==
    ASSUME db \subseteq Ticks, OwnTimes, RowsOfTicks, NEW g, NEW p
    PROVE  /\ Count(g, p) \in Nat
           /\ Queue(g, p) \in [1 .. Count(g, p) -> RowsOf(g, p)]
           /\ \A r \in RowsOf(g, p) : \E i \in 1 .. Count(g, p) : Queue(g, p)[i] = r
           /\ Rising(Stamps(g, p), Count(g, p))
           /\ Piece(Stamps(g, p), 1, Count(g, p)) = {r.ts : r \in RowsOf(g, p)}
<1> DEFINE S == RowsOf(g, p)
           n == Count(g, p)
           f == Queue(g, p)
           u == Stamps(g, p)
<1>1. OneEach(S) /\ IsFiniteSet(S)
  BY RowsOfOne
<1>2. InOrder(f, n, S) /\ \A r \in S : \E i \in 1 .. n : f[i] = r
  BY <1>1, OrderedRows DEF Count, Queue
<1>3. n \in Nat
  BY <1>1, FS_CardinalityType DEF Count
<1>4. f \in [1 .. n -> S]
  BY <1>2 DEF InOrder
<1>5. u = [i \in 1 .. n |-> f[i].ts]
  BY DEF Stamps
<1> HIDE DEF S, n, f, u
<1>6. \A i \in 1 .. n : f[i] \in S /\ f[i].ts \in Times /\ u[i] = f[i].ts
  BY <1>1, <1>4, <1>5 DEF OneEach
<1>7. Rising(u, n)
  <2>1. u \in [1 .. n -> Times]
    BY <1>5, <1>6
  <2>2. \A i, j \in 1 .. n : i < j => u[i] < u[j]
    BY <1>2, <1>6 DEF InOrder
  <2> QED BY <2>1, <2>2 DEF Rising
<1>8. Piece(u, 1, n) = {r.ts : r \in S}
  <2>1. ASSUME NEW x \in Piece(u, 1, n)
        PROVE  x \in {r.ts : r \in S}
    <3>1. PICK i \in 1 .. n : x = u[i]
      BY DEF Piece
    <3> QED BY <1>6, <3>1
  <2>2. ASSUME NEW r \in S
        PROVE  r.ts \in Piece(u, 1, n)
    <3>1. PICK i \in 1 .. n : f[i] = r
      BY <1>2
    <3>2. r.ts = u[i]
      BY <1>6, <3>1
    <3> QED BY <3>2 DEF Piece
  <2> QED BY <2>1, <2>2
<1> QED BY <1>2, <1>3, <1>4, <1>7, <1>8 DEF S, n, f, u

(* The loop's gaps are those between the timestamps.                       *)
LEMMA CutIsStretch ==
    ASSUME db \subseteq Ticks, OwnTimes, RowsOfTicks, NEW g, NEW p,
           NEW a \in 1 .. Count(g, p), NEW b \in 1 .. Count(g, p)
    PROVE  Stretch(Queue(g, p), Count(g, p), a, b) <=> Cut(Stamps(g, p), Count(g, p), a, b)
<1> DEFINE n == Count(g, p)
           f == Queue(g, p)
           u == Stamps(g, p)
<1>1. n \in Nat /\ \A i \in 1 .. n : u[i] = f[i].ts
  BY OrderedOfOne DEF Stamps
<1>2. Rising(u, n)
  BY OrderedOfOne
<1> HIDE DEF n, f, u
<1>3. \A i \in 1 .. n : u[i] \in Nat
  BY <1>1, <1>2, RisingBack
<1>4. ASSUME NEW i \in 1 .. n - 1
      PROVE  Far(f, i) <=> u[i + 1] - u[i] > Gap
  <2> DEFINE j == i + 1
  <2>1. j \in 1 .. n /\ i \in 1 .. n
    BY <1>1
  <2> HIDE DEF j
  <2>2. u[j] = f[j].ts /\ u[i] = f[i].ts /\ u[j] \in Nat /\ u[i] \in Nat
    BY <1>1, <1>3, <2>1
  <2>3. ~(f[j].ts - f[i].ts <= Gap) <=> u[j] - u[i] > Gap
    BY <2>2, ReportAssumption
  <2> QED BY <2>3 DEF Far, j
<1>5. ASSUME NEW i \in 1 .. n - 1
      PROVE  ~Far(f, i) <=> u[i + 1] - u[i] <= Gap
  <2> DEFINE j == i + 1
  <2>1. j \in 1 .. n /\ i \in 1 .. n
    BY <1>1
  <2> HIDE DEF j
  <2>2. u[j] = f[j].ts /\ u[i] = f[i].ts
    BY <1>1, <2>1
  <2> QED BY <2>2 DEF Far, j
<1>6. a \in 1 .. n /\ b \in 1 .. n
  BY DEF n
<1>7. Starts(f, a) <=> (a = 1 \/ u[a] - u[a - 1] > Gap)
  <2>1. CASE a = 1
    BY <2>1 DEF Starts
  <2>2. CASE a # 1
    <3> DEFINE i == a - 1
    <3>1. i \in 1 .. n - 1 /\ i + 1 = a
      BY <1>1, <1>6, <2>2
    <3> HIDE DEF i
    <3>2. Far(f, i) <=> u[a] - u[i] > Gap
      BY <1>4, <3>1
    <3> QED BY <2>2, <3>2 DEF Starts, i
  <2> QED BY <2>1, <2>2
<1>8. Linked(f, a, b) <=> \A i \in a .. b - 1 : u[i + 1] - u[i] <= Gap
  <2>1. a .. b - 1 \subseteq 1 .. n - 1
    BY <1>1, <1>6
  <2> QED BY <1>5, <2>1 DEF Linked
<1>9. (b = n \/ Far(f, b)) <=> (b = n \/ u[b + 1] - u[b] > Gap)
  <2>1. b # n => b \in 1 .. n - 1
    BY <1>1, <1>6
  <2> QED BY <1>4, <2>1
<1>10. Stretch(f, n, a, b) <=> Cut(u, n, a, b)
  BY <1>7, <1>8, <1>9 DEF Stretch, Cut
<1> QED BY <1>10 DEF n, f, u

(* What load_sessions makes of a process' rows a .. b.                     *)
Made(g, p, a, b) == MakeSession(g, p, Seg(Queue(g, p), a, b))

(* The sessions are made of the stretches, one of each.                    *)
LEMMA SessionsAreMade ==
    ASSUME db \subseteq Ticks, OwnTimes, RowsOfTicks
    PROVE  /\ \A s \in Sessions : \E g \in Gpus, p \in Pids : \E a, b \in 1 .. Count(g, p) :
                    Cut(Stamps(g, p), Count(g, p), a, b) /\ s = Made(g, p, a, b)
           /\ \A g \in Gpus, p \in Pids : \A a, b \in 1 .. Count(g, p) :
                    Cut(Stamps(g, p), Count(g, p), a, b) => Made(g, p, a, b) \in Sessions
<1>1. ASSUME NEW g \in Gpus, NEW p \in Pids
      PROVE  /\ \A c \in ToSet(Chunks(g, p)) : \E a, b \in 1 .. Count(g, p) :
                    Cut(Stamps(g, p), Count(g, p), a, b) /\ c = Seg(Queue(g, p), a, b)
             /\ \A a, b \in 1 .. Count(g, p) : Cut(Stamps(g, p), Count(g, p), a, b) =>
                    Seg(Queue(g, p), a, b) \in ToSet(Chunks(g, p))
  <2> DEFINE n == Count(g, p)
             f == Queue(g, p)
             C == FoldLeft(Extend, <<>>, f)
  <2>1. n \in Nat /\ f \in [1 .. n -> RowsOf(g, p)]
    BY OrderedOfOne
  <2>2. Chunks(g, p) = C
    BY DEF Chunks, Queue
  <2> HIDE DEF n, f
  <2>3. /\ \A c \in ToSet(C) : \E a, b \in 1 .. n : Stretch(f, n, a, b) /\ c = Seg(f, a, b)
        /\ \A a, b \in 1 .. n : Stretch(f, n, a, b) => Seg(f, a, b) \in ToSet(C)
    BY <2>1, ChunksAreStretches
  <2>4. \A a, b \in 1 .. n : Stretch(f, n, a, b) <=> Cut(Stamps(g, p), n, a, b)
    BY CutIsStretch DEF n, f
  <2> HIDE DEF C
  <2> QED BY <2>2, <2>3, <2>4 DEF n, f
<1>2. ASSUME NEW s \in Sessions
      PROVE  \E g \in Gpus, p \in Pids : \E a, b \in 1 .. Count(g, p) :
                    Cut(Stamps(g, p), Count(g, p), a, b) /\ s = Made(g, p, a, b)
  <2>1. PICK g \in Gpus, p \in Pids : \E c \in ToSet(Chunks(g, p)) : s = MakeSession(g, p, c)
    BY DEF Sessions
  <2>2. PICK c \in ToSet(Chunks(g, p)) : s = MakeSession(g, p, c)
    BY <2>1
  <2> QED BY <1>1, <2>2 DEF Made
<1>3. ASSUME NEW g \in Gpus, NEW p \in Pids, NEW a \in 1 .. Count(g, p),
             NEW b \in 1 .. Count(g, p), Cut(Stamps(g, p), Count(g, p), a, b)
      PROVE  Made(g, p, a, b) \in Sessions
  <2>1. Seg(Queue(g, p), a, b) \in ToSet(Chunks(g, p))
    BY <1>1, <1>3
  <2> DEFINE Of(h, q) == {MakeSession(h, q, c) : c \in ToSet(Chunks(h, q))}
  <2>2. Made(g, p, a, b) \in Of(g, p)
    BY <2>1 DEF Made
  <2>3. Sessions = UNION {Of(h, q) : h \in Gpus, q \in Pids}
    BY DEF Sessions
  <2> HIDE DEF Of
  <2> QED BY <2>2, <2>3
<1> QED BY <1>2, <1>3

(* Whose, from when to when, and at which ticks.                           *)
LEMMA MadeFields ==
    ASSUME db \subseteq Ticks, OwnTimes, RowsOfTicks, NEW g, NEW p,
           NEW a \in 1 .. Count(g, p), NEW b \in 1 .. Count(g, p), a <= b
    PROVE  /\ Made(g, p, a, b).gpu = g /\ Made(g, p, a, b).pid = p
           /\ Made(g, p, a, b).start = Stamps(g, p)[a]
           /\ Made(g, p, a, b).end = Stamps(g, p)[b]
           /\ Made(g, p, a, b).ticks = Piece(Stamps(g, p), a, b)
<1> DEFINE n == Count(g, p)
           f == Queue(g, p)
           u == Stamps(g, p)
           c == Seg(f, a, b)
           s == Made(g, p, a, b)
<1>1. n \in Nat /\ f \in [1 .. n -> RowsOf(g, p)] /\ \A i \in 1 .. n : u[i] = f[i].ts
  BY OrderedOfOne DEF Stamps
<1>2. Head(c) = f[a] /\ Last(c) = f[b]
  <2>1. a \in Nat /\ b \in Nat /\ 1 <= a /\ a <= b /\ b <= n
    BY <1>1
  <2>2. n \in Nat /\ f \in [1 .. n -> RowsOf(g, p)]
    BY <1>1
  <2> DEFINE R == RowsOf(g, p)
  <2> HIDE DEF n, f, u, s, R
  <2>3. f \in [1 .. n -> R]
    BY <2>2 DEF R
  <2>4. Ends(f, a, b)
    BY <2>1, <2>2, <2>3, SegHasEnds
  <2> QED BY <2>4 DEF Ends
<1>3. /\ s.gpu = g /\ s.pid = p /\ s.start = Head(c).ts /\ s.end = Last(c).ts
      /\ s.ticks = {r.ts : r \in ToSet(c)}
  BY DEF Made, MakeSession
<1>4. ToSet(c) = {f[i] : i \in a .. b}
  <2>1. DOMAIN c = 1 .. b - a + 1 /\ \A i \in 1 .. b - a + 1 : c[i] = f[a + i - 1]
    BY DEF Seg
  <2>2. ASSUME NEW r \in ToSet(c)
        PROVE  r \in {f[i] : i \in a .. b}
    <3>1. PICK i \in 1 .. b - a + 1 : r = f[a + i - 1]
      BY <2>1 DEF ToSet
    <3>2. a + i - 1 \in a .. b
      OBVIOUS
    <3> QED BY <3>1, <3>2
  <2>3. ASSUME NEW i \in a .. b
        PROVE  f[i] \in ToSet(c)
    <3>1. i - a + 1 \in 1 .. b - a + 1 /\ a + (i - a + 1) - 1 = i
      OBVIOUS
    <3>2. c[i - a + 1] = f[i]
      BY <2>1, <3>1
    <3> HIDE DEF c
    <3> QED BY <2>1, <3>1, <3>2 DEF ToSet
  <2> QED BY <2>2, <2>3
<1>5. a .. b \subseteq 1 .. n
  BY <1>1
<1> HIDE DEF n, f, u, c, s
<1>6. s.ticks = Piece(u, a, b)
  BY <1>1, <1>3, <1>4, <1>5 DEF Piece
<1>7. a \in 1 .. n /\ b \in 1 .. n
  BY DEF n
<1>8. s.start = u[a] /\ s.end = u[b]
  BY <1>1, <1>2, <1>3, <1>7
<1> QED BY <1>3, <1>6, <1>8 DEF s, u
-----------------------------------------------------------------------------
(* The loads read are those of ticks of the window...                      *)
LoadsOfTicks ==
    \A k \in DOMAIN utilMap :
        /\ k \in Gpus \X Times /\ k[2] >= Cutoff
        /\ \E t \in db : t.ts = k[2] /\ utilMap[k] = t.util[k[1]]

(* ... whose compute processes the SELECT after it has read too, ...       *)
KnownAreRead ==
    pc \notin {"utils", "rows"} =>
        \A k \in DOMAIN utilMap : \A t \in db :
            t.ts = k[2] => \A p \in Compute(t) : Kept(t, p) \in rows

(* ... and no row is newer than the newest tick asked for at the end.      *)
NewestIsLast ==
    pc = "done" => \A r \in rows : newest \in Times /\ r.ts <= newest

RInv == IInv /\ RowsOfTicks /\ LoadsOfTicks /\ KnownAreRead /\ NewestIsLast

(* One lemma per part of the invariant.                                    *)
LEMMA RowsStep ==
    ASSUME db \subseteq Ticks, OwnTimes, RowsOfTicks, [Next]_vars
    PROVE  RowsOfTicks'
<1>1. ASSUME NEW t \in Ticks, Commit(t) PROVE RowsOfTicks'
  BY <1>1 DEF Commit, RowsOfTicks, Compute, Kept
<1>2. CASE ReadRows
  <2> SUFFICES ASSUME NEW r \in rows'
               PROVE  \E t \in db : t.ts >= Cutoff /\ \E p \in Compute(t) : r = Kept(t, p)
    BY <1>2 DEF ReadRows, RowsOfTicks, Compute, Kept
  <2> DEFINE Of(t) == {[gpu |-> p.gpu, pid |-> p.pid, mem |-> p.mem, ts |-> t.ts] :
                            p \in Compute(t)}
  <2>1. rows' = UNION {Of(t) : t \in InWindow}
    BY <1>2 DEF ReadRows
  <2>2. PICK t \in InWindow : r \in Of(t)
    <3> HIDE DEF Of
    <3> QED BY <2>1
  <2>3. \E p \in Compute(t) : r = Kept(t, p)
    BY <2>2 DEF Kept
  <2> QED BY <2>3 DEF InWindow
<1>3. CASE ReadUtils \/ ReadLatest \/ ReadHolders \/ ReadGpus \/ ReadNewest
  BY <1>3 DEF ReadUtils, ReadLatest, ReadHolders, ReadGpus, ReadNewest, RowsOfTicks, Compute, Kept
<1>4. CASE Render
  BY <1>4 DEF Render, RowsOfTicks
<1>5. CASE UNCHANGED vars
  BY <1>5 DEF vars, RowsOfTicks, Compute, Kept
<1> QED BY <1>1, <1>2, <1>3, <1>4, <1>5 DEF Next, Sample, Query

LEMMA LoadsStep ==
    ASSUME db \subseteq Ticks, OwnTimes, LoadsOfTicks, [Next]_vars
    PROVE  LoadsOfTicks'
<1>1. ASSUME NEW t \in Ticks, Commit(t) PROVE LoadsOfTicks'
  BY <1>1 DEF Commit, LoadsOfTicks
<1>2. CASE ReadUtils
  <2> DEFINE D == Gpus \X {t.ts : t \in InWindow}
             m == utilMap'
             v(k) == (CHOOSE t \in db : t.ts = k[2]).util[k[1]]
  <2>1. m = [k \in D |-> v(k)] /\ db' = db
    BY <1>2 DEF ReadUtils
  <2>2. ASSUME NEW k \in D
        PROVE  /\ k \in Gpus \X Times /\ k[2] >= Cutoff
               /\ \E t \in db : t.ts = k[2] /\ v(k) = t.util[k[1]]
    <3>1. PICK t \in InWindow : k[2] = t.ts
      OBVIOUS
    <3>2. t \in db /\ t.ts \in Times /\ t.ts >= Cutoff
      BY DEF InWindow, Ticks
    <3>3. (CHOOSE u \in db : u.ts = k[2]) = t
      BY <3>1, <3>2 DEF OwnTimes
    <3>4. k \in Gpus \X Times
      BY <3>1, <3>2
    <3>5. v(k) = t.util[k[1]]
      BY <3>3
    <3> QED BY <3>1, <3>2, <3>4, <3>5
  <2>3. DOMAIN m = D /\ \A k \in D : m[k] = v(k)
    <3> HIDE DEF D, m, v
    <3> QED BY <2>1
  <2> HIDE DEF v, D
  <2>4. \A k \in DOMAIN m :
            /\ k \in Gpus \X Times /\ k[2] >= Cutoff
            /\ \E t \in db : t.ts = k[2] /\ m[k] = t.util[k[1]]
    <3> HIDE DEF m
    <3> QED BY <2>2, <2>3
  <2> QED BY <2>1, <2>4 DEF LoadsOfTicks
<1>3. CASE ReadRows \/ ReadLatest \/ ReadHolders \/ ReadGpus \/ ReadNewest
  BY <1>3 DEF ReadRows, ReadLatest, ReadHolders, ReadGpus, ReadNewest, LoadsOfTicks
<1>4. CASE Render
  <2>1. utilMap' = <<>>
    BY <1>4 DEF Render
  <2>2. DOMAIN utilMap' = {}
    BY <2>1
  <2> QED BY <2>2 DEF LoadsOfTicks
<1>5. CASE UNCHANGED vars
  BY <1>5 DEF vars, LoadsOfTicks
<1> QED BY <1>1, <1>2, <1>3, <1>4, <1>5 DEF Next, Sample, Query

LEMMA KnownStep ==
    ASSUME db \subseteq Ticks, OwnTimes, LoadsOfTicks, KnownAreRead, [Next]_vars
    PROVE  KnownAreRead'
<1>1. ASSUME NEW t \in Ticks, Commit(t) PROVE KnownAreRead'
  <2>1. db' = db \cup {t} /\ UNCHANGED <<pc, utilMap, rows>> /\ \A u \in db : u.ts # t.ts
    BY <1>1 DEF Commit
  <2> SUFFICES ASSUME pc \notin {"utils", "rows"}, NEW k \in DOMAIN utilMap, NEW u \in db',
                      u.ts = k[2], NEW p \in Compute(u)
               PROVE  Kept(u, p) \in rows
    BY <2>1 DEF KnownAreRead, Compute, Kept
  <2>2. PICK w \in db : w.ts = k[2]
    BY DEF LoadsOfTicks
  <2>3. u \in db
    BY <2>1, <2>2
  <2> QED BY <2>3 DEF KnownAreRead
<1>2. CASE ReadRows
  <2>1. db' = db /\ utilMap' = utilMap
    BY <1>2 DEF ReadRows
  <2> SUFFICES ASSUME NEW k \in DOMAIN utilMap, NEW u \in db, u.ts = k[2], NEW p \in Compute(u)
               PROVE  Kept(u, p) \in rows'
    BY <2>1 DEF KnownAreRead, Compute, Kept
  <2>2. u \in InWindow
    BY DEF LoadsOfTicks, InWindow
  <2> DEFINE Of(t) == {[gpu |-> q.gpu, pid |-> q.pid, mem |-> q.mem, ts |-> t.ts] :
                            q \in Compute(t)}
  <2>3. rows' = UNION {Of(t) : t \in InWindow}
    BY <1>2 DEF ReadRows
  <2>4. Kept(u, p) \in Of(u)
    BY DEF Kept
  <2> HIDE DEF Of
  <2> QED BY <2>2, <2>3, <2>4
<1>3. CASE ReadLatest \/ ReadHolders \/ ReadGpus \/ ReadNewest
  BY <1>3 DEF ReadLatest, ReadHolders, ReadGpus, ReadNewest, KnownAreRead, Compute, Kept
<1>4. CASE Render \/ ReadUtils
  BY <1>4 DEF Render, ReadUtils, KnownAreRead
<1>5. CASE UNCHANGED vars
  BY <1>5 DEF vars, KnownAreRead, Compute, Kept
<1> QED BY <1>1, <1>2, <1>3, <1>4, <1>5 DEF Next, Sample, Query

LEMMA NewestStep ==
    ASSUME db \subseteq Ticks, RowsOfTicks, NewestIsLast, [Next]_vars
    PROVE  NewestIsLast'
<1>1. ASSUME NEW t \in Ticks, Commit(t) PROVE NewestIsLast'
  BY <1>1 DEF Commit, NewestIsLast
<1>2. CASE ReadNewest
  <2>1. newest' = Latest /\ rows' = rows
    BY <1>2 DEF ReadNewest
  <2> SUFFICES ASSUME NEW r \in rows PROVE Latest \in Times /\ r.ts <= Latest
    BY <2>1 DEF NewestIsLast
  <2>2. PICK t \in db : t.ts >= Cutoff /\ r.ts = t.ts
    BY DEF RowsOfTicks, Kept
  <2> DEFINE S == {u.ts : u \in InWindow}
  <2>3. t \in InWindow /\ t.ts \in S /\ S \subseteq Times
    BY <2>2 DEF InWindow, Ticks
  <2>4. Latest = Max(S)
    BY <2>3 DEF Latest
  <2> HIDE DEF S
  <2>5. Max(S) \in S /\ \A y \in S : y <= Max(S)
    BY <2>3, LargestTime
  <2> QED BY <2>2, <2>3, <2>4, <2>5
<1>3. CASE ReadUtils \/ ReadRows \/ ReadLatest \/ ReadHolders \/ ReadGpus \/ Render
  BY <1>3 DEF ReadUtils, ReadRows, ReadLatest, ReadHolders, ReadGpus, Render, NewestIsLast
<1>4. CASE UNCHANGED vars
  BY <1>4 DEF vars, NewestIsLast
<1> QED BY <1>1, <1>2, <1>3, <1>4 DEF Next, Sample, Query

LEMMA ReportInit == Init => RInv
<1> SUFFICES ASSUME Init PROVE RInv
  OBVIOUS
<1>1. IInv
  BY StatusInit
<1>2. RowsOfTicks /\ KnownAreRead /\ NewestIsLast
  BY DEF Init, RowsOfTicks, KnownAreRead, NewestIsLast
<1>3. LoadsOfTicks
  <2>1. DOMAIN utilMap = {}
    BY DEF Init
  <2> QED BY <2>1 DEF LoadsOfTicks
<1> QED BY <1>1, <1>2, <1>3 DEF RInv

LEMMA ReportStep == RInv /\ [Next]_vars => RInv'
<1> SUFFICES ASSUME RInv, [Next]_vars PROVE RInv'
  OBVIOUS
<1>1. /\ db \subseteq Ticks /\ OwnTimes /\ IInv
      /\ RowsOfTicks /\ LoadsOfTicks /\ KnownAreRead /\ NewestIsLast
  BY DEF RInv, IInv
<1>2. IInv'
  BY <1>1, StatusStep
<1>3. RowsOfTicks'
  BY <1>1, RowsStep
<1>4. LoadsOfTicks'
  BY <1>1, LoadsStep
<1>5. KnownAreRead'
  BY <1>1, KnownStep
<1>6. NewestIsLast'
  BY <1>1, NewestStep
<1> QED BY <1>2, <1>3, <1>4, <1>5, <1>6 DEF RInv
-----------------------------------------------------------------------------
(* The sessions of a process are its runs.                                 *)
LEMMA RunsAreRebuilt ==
    ASSUME db \subseteq Ticks, OwnTimes, RowsOfTicks
    PROVE  SessionsAreRuns
<1> SUFFICES ASSUME NEW g \in Gpus, NEW p \in Pids
             PROVE  LET S == {r.ts : r \in RowsOf(g, p)}
                    IN  {s.ticks : s \in {t \in Sessions : t.gpu = g /\ t.pid = p}}
                            = {T \in SUBSET S : IsRun(T, S)}
  BY DEF SessionsAreRuns
<1> DEFINE S == {r.ts : r \in RowsOf(g, p)}
           n == Count(g, p)
           u == Stamps(g, p)
           Mine == {t \in Sessions : t.gpu = g /\ t.pid = p}
<1>1. n \in Nat /\ Rising(u, n) /\ Piece(u, 1, n) = S
  BY OrderedOfOne
<1>2. ASSUME NEW s \in Mine
      PROVE  s.ticks \in SUBSET S /\ IsRun(s.ticks, S)
  <2>1. PICK h \in Gpus, q \in Pids : \E a, b \in 1 .. Count(h, q) :
            Cut(Stamps(h, q), Count(h, q), a, b) /\ s = Made(h, q, a, b)
    BY SessionsAreMade
  <2>2. PICK a \in 1 .. Count(h, q), b \in 1 .. Count(h, q) :
            Cut(Stamps(h, q), Count(h, q), a, b) /\ s = Made(h, q, a, b)
    BY <2>1
  <2>3. a <= b
    BY <2>2 DEF Cut
  <2>4. s.gpu = h /\ s.pid = q /\ s.ticks = Piece(Stamps(h, q), a, b)
    BY <2>2, <2>3, MadeFields
  <2>5. h = g /\ q = p
    BY <2>4
  <2>6. Cut(u, n, a, b) /\ a \in 1 .. n /\ b \in 1 .. n /\ s.ticks = Piece(u, a, b)
    BY <2>2, <2>4, <2>5
  <2> HIDE DEF n, u, S, Mine
  <2>7. IsRun(Piece(u, a, b), Piece(u, 1, n))
    BY <1>1, <2>6, CutIsRun
  <2>8. Piece(u, a, b) \subseteq Piece(u, 1, n)
    BY <1>1, <2>6 DEF Piece
  <2> QED BY <1>1, <2>6, <2>7, <2>8
<1>3. ASSUME NEW T \in SUBSET S, IsRun(T, S)
      PROVE  \E s \in Mine : s.ticks = T
  <2>1. PICK a \in 1 .. n, b \in 1 .. n : Cut(u, n, a, b) /\ T = Piece(u, a, b)
    <3> HIDE DEF n, u, S
    <3> QED BY <1>1, <1>3, RunIsCut
  <2>2. a <= b
    BY <2>1 DEF Cut
  <2>3. Made(g, p, a, b) \in Sessions
    BY <2>1, SessionsAreMade
  <2>4. /\ Made(g, p, a, b).gpu = g /\ Made(g, p, a, b).pid = p
        /\ Made(g, p, a, b).ticks = Piece(u, a, b)
    BY <2>2, MadeFields
  <2> QED BY <2>1, <2>3, <2>4
<1> HIDE DEF S, Mine, n, u
<1>4. {s.ticks : s \in Mine} = {T \in SUBSET S : IsRun(T, S)}
  BY <1>2, <1>3
<1> QED BY <1>4 DEF S, Mine

(* A session, as its process' rows a .. b.                                 *)
IsPiece(s, a, b) ==
    /\ a \in 1 .. Count(s.gpu, s.pid) /\ b \in 1 .. Count(s.gpu, s.pid)
    /\ Cut(Stamps(s.gpu, s.pid), Count(s.gpu, s.pid), a, b)
    /\ s = Made(s.gpu, s.pid, a, b)
    /\ s.gpu \in Gpus /\ s.pid \in Pids
    /\ s.end = Stamps(s.gpu, s.pid)[b]
    /\ s.ticks = Piece(Stamps(s.gpu, s.pid), a, b)

(* Every session is such.                                                  *)
LEMMA SessionIsPiece ==
    ASSUME db \subseteq Ticks, OwnTimes, RowsOfTicks, NEW s \in Sessions
    PROVE  \E a, b \in Nat : IsPiece(s, a, b)
<1>1. PICK h \in Gpus, q \in Pids : \E a, b \in 1 .. Count(h, q) :
          Cut(Stamps(h, q), Count(h, q), a, b) /\ s = Made(h, q, a, b)
  BY SessionsAreMade
<1>2. PICK a \in 1 .. Count(h, q), b \in 1 .. Count(h, q) :
          Cut(Stamps(h, q), Count(h, q), a, b) /\ s = Made(h, q, a, b)
  BY <1>1
<1>3. a <= b
  BY <1>2 DEF Cut
<1>4. /\ s.gpu = h /\ s.pid = q /\ s.ticks = Piece(Stamps(h, q), a, b)
      /\ s.end = Stamps(h, q)[b]
  BY <1>2, <1>3, MadeFields
<1>5. a \in Nat /\ b \in Nat
  BY OrderedOfOne
<1> QED BY <1>2, <1>4, <1>5 DEF IsPiece

(* Two sessions of a process on a card that end together are one.          *)
LEMMA SameEndSameSession ==
    ASSUME db \subseteq Ticks, OwnTimes, RowsOfTicks, NEW s, NEW t, s.gpu = t.gpu, s.pid = t.pid,
           NEW a \in Nat, NEW b \in Nat, NEW c \in Nat, IsPiece(s, a, b), IsPiece(t, c, b)
    PROVE  s = t
<1> DEFINE g == s.gpu
           p == s.pid
           n == Count(g, p)
           f == Queue(g, p)
<1>1. /\ a \in 1 .. n /\ b \in 1 .. n /\ c \in 1 .. n
      /\ Cut(Stamps(g, p), n, a, b) /\ s = Made(g, p, a, b)
      /\ Cut(Stamps(g, p), n, c, b) /\ t = Made(g, p, c, b)
  BY DEF IsPiece
<1>2. Stretch(f, n, a, b) /\ Stretch(f, n, c, b)
  BY <1>1, CutIsStretch
<1> HIDE DEF f, n, g, p
<1>3. a \in 1 .. b /\ c \in 1 .. b
  <2>1. a <= b /\ c <= b
    BY <1>1 DEF Cut
  <2>2. a >= 1 /\ c >= 1
    BY <1>1
  <2> QED BY <2>1, <2>2
<1>4. a = c
  BY <1>2, <1>3, OneStart DEF Stretch
<1> QED BY <1>1, <1>4

(* After a session's end a process has no row until a gap is over.         *)
LEMMA NoRowWithinGap ==
    ASSUME db \subseteq Ticks, OwnTimes, RowsOfTicks, NEW s, NEW a \in Nat, NEW b \in Nat,
           IsPiece(s, a, b), NEW r \in RowsOf(s.gpu, s.pid), s.end < r.ts
    PROVE  r.ts - s.end > Gap
<1> DEFINE n == Count(s.gpu, s.pid)
           u == Stamps(s.gpu, s.pid)
<1>1. n \in Nat /\ Rising(u, n) /\ Piece(u, 1, n) = {q.ts : q \in RowsOf(s.gpu, s.pid)}
  BY OrderedOfOne
<1>2. b \in 1 .. n /\ Cut(u, n, a, b) /\ s.end = u[b]
  BY DEF IsPiece
<1> HIDE DEF n, u
<1>3. PICK j \in 1 .. n : r.ts = u[j]
  BY <1>1 DEF Piece
<1>4. b < j
  BY <1>1, <1>2, <1>3, RisingBack
<1> DEFINE c == b + 1
<1>5. b # n /\ c \in 1 .. n /\ c <= j
  BY <1>1, <1>2, <1>4
<1>6. u[c] - u[b] > Gap
  BY <1>2, <1>5 DEF Cut
<1> HIDE DEF c
<1>7. u[c] <= u[j] /\ u[c] \in Nat /\ u[b] \in Nat /\ u[j] \in Nat
  BY <1>1, <1>2, <1>5, RisingBack
<1>8. u[j] - u[b] > Gap
  BY <1>6, <1>7, ReportAssumption
<1> QED BY <1>2, <1>3, <1>8

(* A session's end is the time of a row of its own.                        *)
LEMMA EndIsARow ==
    ASSUME db \subseteq Ticks, OwnTimes, RowsOfTicks, NEW s, NEW a \in Nat, NEW b \in Nat,
           IsPiece(s, a, b)
    PROVE  \E r \in RowsOf(s.gpu, s.pid) : r.ts = s.end
<1> DEFINE n == Count(s.gpu, s.pid)
           u == Stamps(s.gpu, s.pid)
<1>1. Piece(u, 1, n) = {q.ts : q \in RowsOf(s.gpu, s.pid)}
  BY OrderedOfOne
<1>2. b \in 1 .. n /\ s.end = u[b]
  BY DEF IsPiece
<1> HIDE DEF n, u
<1>3. u[b] \in Piece(u, 1, n)
  BY <1>2 DEF Piece
<1> QED BY <1>1, <1>2, <1>3

(* Of two sessions the earlier ended a gap before the newest tick.         *)
LEMMA LiveOnce ==
    ASSUME RInv
    PROVE  CurrentOncePerProcess
<1>0. db \subseteq Ticks /\ OwnTimes /\ RowsOfTicks /\ NewestIsLast
  BY DEF RInv, IInv
<1> SUFFICES ASSUME pc = "done", NEW s \in CurrentActions, NEW t \in CurrentActions,
                    s.gpu = t.gpu, s.pid = t.pid
             PROVE  s = t
  BY DEF CurrentOncePerProcess
<1>1. /\ s \in Sessions /\ s.end >= newest - Slack
      /\ t \in Sessions /\ t.end >= newest - Slack
  BY DEF CurrentActions, HeldSessions, IsLive
<1>2. PICK a \in Nat, b \in Nat : IsPiece(s, a, b)
  BY <1>0, <1>1, SessionIsPiece
<1>3. PICK c \in Nat, d \in Nat : IsPiece(t, c, d)
  BY <1>0, <1>1, SessionIsPiece
<1>4. PICK r \in RowsOf(s.gpu, s.pid) : r.ts = s.end
  BY <1>0, <1>2, EndIsARow
<1>5. PICK q \in RowsOf(s.gpu, s.pid) : q.ts = t.end
  BY <1>0, <1>3, EndIsARow
<1>6. r.ts \in Nat /\ q.ts \in Nat /\ newest \in Nat /\ r.ts <= newest /\ q.ts <= newest
  <2>1. r.ts \in Times /\ q.ts \in Times
    BY <1>0, RowsOfOne DEF OneEach
  <2>2. r \in rows /\ q \in rows
    BY DEF RowsOf
  <2> QED BY <1>0, <2>1, <2>2, ReportAssumption DEF NewestIsLast, Times
<1>7. ~(s.end < t.end)
  <2> SUFFICES ASSUME s.end < t.end PROVE FALSE
    OBVIOUS
  <2>1. q.ts - s.end > Gap
    BY <1>0, <1>2, <1>5, NoRowWithinGap
  <2> QED BY <1>1, <1>4, <1>5, <1>6, <2>1, ReportAssumption
<1>8. ~(t.end < s.end)
  <2> SUFFICES ASSUME t.end < s.end PROVE FALSE
    OBVIOUS
  <2>1. r \in RowsOf(t.gpu, t.pid)
    OBVIOUS
  <2>2. r.ts - t.end > Gap
    BY <1>0, <1>3, <1>4, <2>1, NoRowWithinGap
  <2> QED BY <1>1, <1>4, <1>5, <1>6, <2>2, ReportAssumption
<1>9. s.end = t.end
  BY <1>4, <1>5, <1>6, <1>7, <1>8
<1>10. b = d
  <2> DEFINE n == Count(s.gpu, s.pid)
             u == Stamps(s.gpu, s.pid)
  <2>1. n \in Nat /\ Rising(u, n)
    BY <1>0, OrderedOfOne
  <2>2. b \in 1 .. n /\ d \in 1 .. n /\ s.end = u[b] /\ t.end = u[d]
    BY <1>2, <1>3 DEF IsPiece
  <2> HIDE DEF n, u
  <2>3. u[b] \in Nat /\ u[b] = u[d]
    BY <1>9, <2>1, <2>2, RisingBack
  <2>4. b <= d /\ d <= b
    BY <2>1, <2>2, <2>3, RisingBack
  <2> QED BY <2>4
<1> QED BY <1>0, <1>2, <1>3, <1>10, SameEndSameSession

(* The known tick that follows a past session's end has no row of it; an   *)
(* end later than all known ticks is too close to the newest to be past.   *)
LEMMA PastHasEnded ==
    ASSUME RInv
    PROVE  PastIsOver
<1>0. db \subseteq Ticks /\ OwnTimes /\ RowsOfTicks /\ LoadsOfTicks /\ KnownAreRead /\ NewestIsLast
  BY DEF RInv, IInv
<1> SUFFICES ASSUME pc = "done", Regular, NEW s \in PastWaste
             PROVE  \E t \in db : /\ t.ts > s.end
                                  /\ \A p \in Compute(t) : p.gpu # s.gpu \/ p.pid # s.pid
  BY DEF PastIsOver
<1> DEFINE known == {k[2] : k \in DOMAIN utilMap}
<1>1. s \in Sessions /\ ~(s.end >= newest - Slack)
  BY DEF PastWaste, CurrentActions, HeldSessions, IsLive
<1>2. PICK a \in Nat, b \in Nat : IsPiece(s, a, b)
  BY <1>0, <1>1, SessionIsPiece
<1>3. PICK r \in RowsOf(s.gpu, s.pid) : r.ts = s.end
  BY <1>0, <1>2, EndIsARow
<1>4. r \in rows /\ r.ts \in Times /\ newest \in Times
  <2>1. r \in rows
    BY DEF RowsOf
  <2>2. r.ts \in Times
    BY <1>0, RowsOfOne DEF OneEach
  <2> QED BY <1>0, <2>1, <2>2 DEF NewestIsLast
<1>5. s.end \in Nat /\ newest \in Nat /\ s.end + Slack < newest
  BY <1>1, <1>3, <1>4, ReportAssumption DEF Times
<1>6. known \subseteq Times /\ known # {}
  <2>1. known # {}
    BY DEF Regular
  <2>2. \A k \in DOMAIN utilMap : k[2] \in Times
    BY <1>0 DEF LoadsOfTicks
  <2> QED BY <2>1, <2>2
<1>7. /\ \A x \in known : newest <= x + Slack \/ \E y \in known : x < y /\ y <= x + Slack
      /\ \A t \in InWindow : t.ts \in known \/ \A x \in known : x < t.ts
  BY DEF Regular
<1>8. CASE s.end \in known
  <2>1. PICK y \in known : s.end < y /\ y <= s.end + Slack
    BY <1>5, <1>7, <1>8, ReportAssumption
  <2>2. PICK k \in DOMAIN utilMap : k[2] = y
    BY <2>1
  <2>3. PICK t \in db : t.ts = y
    BY <1>0, <2>2 DEF LoadsOfTicks
  <2>4. ASSUME NEW p \in Compute(t), p.gpu = s.gpu, p.pid = s.pid
        PROVE  FALSE
    <3> DEFINE q == Kept(t, p)
    <3>1. q \in rows
      BY <1>0, <2>2, <2>3 DEF KnownAreRead
    <3>2. q \in RowsOf(s.gpu, s.pid) /\ q.ts = y
      BY <2>3, <2>4, <3>1 DEF RowsOf, Kept
    <3> HIDE DEF q
    <3>3. y - s.end > Gap
      BY <1>0, <1>2, <2>1, <3>2, NoRowWithinGap
    <3>4. y \in Nat
      BY <1>6, <2>1, ReportAssumption DEF Times
    <3> QED BY <1>5, <2>1, <3>3, <3>4, ReportAssumption
  <2> QED BY <2>1, <2>3, <2>4, <1>5, <1>6, ReportAssumption DEF Times
<1>9. CASE s.end \notin known
  <2>1. PICK t \in db : t.ts >= Cutoff /\ t.ts = s.end
    BY <1>0, <1>3, <1>4 DEF RowsOfTicks, Kept
  <2>2. t \in InWindow
    BY <2>1 DEF InWindow
  <2> HIDE DEF known
  <2>3. \A x \in known : x < s.end
    BY <1>7, <1>9, <2>1, <2>2
  <2> DEFINE x == Max(known)
  <2>4. x \in known /\ \A y \in known : y <= x
    BY <1>6, LargestTime
  <2>5. known \subseteq Nat
    BY <1>6, ReportAssumption DEF Times
  <2> HIDE DEF x
  <2>6. newest <= x + Slack
    BY <1>7, <2>4, <2>5
  <2> QED BY <1>5, <2>3, <2>4, <2>5, <2>6, ReportAssumption
<1> QED BY <1>8, <1>9
(* A set of as many pairs as the sum of w over T: every sum of this module *)
(* is the size of a set, whatever the order CHOOSE takes the terms in.     *)
Units(w, T) == UNION {{x} \X (1 .. w[x]) : x \in T}

(* What a fold over the subsets of S has to satisfy to be their sum.       *)
SumsUp(w, S, it) ==
    it = [T \in SUBSET S |-> IF T = {} THEN 0
                             ELSE w[CHOOSE x \in T : TRUE] + it[T \ {CHOOSE x \in T : TRUE}]]

(* What holds of the empty set, and of a set when of all that lack one of  *)
(* its elements, holds of a finite set.                                    *)
LEMMA OneByOne ==
    ASSUME NEW S, IsFiniteSet(S), NEW G \in SUBSET (SUBSET S), {} \in G,
           \A T \in SUBSET S : T # {} /\ (\A x \in T : T \ {x} \in G) => T \in G
    PROVE  S \in G
<1> SUFFICES ASSUME S \notin G PROVE FALSE
  OBVIOUS
<1> DEFINE Bad == (SUBSET S) \ G
<1>1. Bad # {} /\ Bad \subseteq FiniteSubsetsOf(S)
  BY FS_Subset DEF FiniteSubsetsOf
<1>2. IsWellFoundedOn(StrictSubsetOrdering(S), FiniteSubsetsOf(S))
  BY FS_StrictSubsetOrderingWellFounded
<1> HIDE DEF Bad
<1>3. PICK T \in Bad : \A U \in Bad : ~(<<U, T>> \in StrictSubsetOrdering(S))
  BY <1>1, <1>2, WFMin
<1>4. T \in SUBSET S /\ T \notin G
  BY <1>3 DEF Bad
<1>5. PICK x \in T : T \ {x} \notin G
  BY <1>4
<1>6. T \ {x} \in Bad
  BY <1>4, <1>5 DEF Bad
<1>7. <<T \ {x}, T>> \in StrictSubsetOrdering(S)
  <2> DEFINE U == T \ {x}
  <2>1. U \subseteq T /\ U # T /\ U \in SUBSET S
    BY <1>4, <1>5
  <2> HIDE DEF U
  <2>2. <<U, T>> \in StrictSubsetOrdering(S)
    BY <1>4, <2>1 DEF StrictSubsetOrdering
  <2> QED BY <2>2 DEF U
<1> QED BY <1>3, <1>6, <1>7

(* As many as one term says.                                               *)
LEMMA UnitsOfOne ==
    ASSUME NEW x, NEW k \in Nat
    PROVE  IsFiniteSet({x} \X (1 .. k)) /\ Cardinality({x} \X (1 .. k)) = k
<1> DEFINE A == {x}
           B == 1 .. k
<1>1. IsFiniteSet(A) /\ Cardinality(A) = 1
  BY FS_Singleton
<1>2. IsFiniteSet(B) /\ Cardinality(B) = k
  BY FS_Interval
<1> HIDE DEF A, B
<1>3. IsFiniteSet(A \X B) /\ Cardinality(A \X B) = Cardinality(A) * Cardinality(B)
  BY <1>1, <1>2, FS_Product
<1>4. IsFiniteSet(A \X B) /\ Cardinality(A \X B) = k
  BY <1>1, <1>2, <1>3
<1> QED BY <1>4 DEF A, B

(* Finitely many.                                                          *)
LEMMA UnitsAreFinite ==
    ASSUME NEW S, IsFiniteSet(S), NEW w \in [S -> Nat], NEW T \in SUBSET S
    PROVE  IsFiniteSet(Units(w, T)) /\ Cardinality(Units(w, T)) \in Nat
<1> DEFINE F == {{x} \X (1 .. w[x]) : x \in T}
           f == [x \in T |-> {x} \X (1 .. w[x])]
<1>1. IsFiniteSet(T)
  BY FS_Subset
<1>2. f \in Surjection(T, F)
  BY DEF Surjection
<1>3. IsFiniteSet(F)
  <2> HIDE DEF F, f
  <2> QED BY <1>1, <1>2, FS_Surjection
<1>4. ASSUME NEW x \in T
      PROVE  IsFiniteSet({x} \X (1 .. w[x]))
  BY UnitsOfOne
<1>5. IsFiniteSet(UNION F)
  <2>1. \A U \in F : IsFiniteSet(U)
    BY <1>4
  <2> HIDE DEF F
  <2> QED BY <1>3, <2>1, FS_UNION
<1> QED BY <1>5, FS_CardinalityType DEF Units

(* One element more.                                                       *)
LEMMA UnitsGrow ==
    ASSUME NEW S, IsFiniteSet(S), NEW w \in [S -> Nat], NEW T \in SUBSET S, NEW x \in T
    PROVE  Cardinality(Units(w, T)) = w[x] + Cardinality(Units(w, T \ {x}))
<1> DEFINE A == {x} \X (1 .. w[x])
           B == Units(w, T \ {x})
<1>1. IsFiniteSet(A) /\ Cardinality(A) = w[x]
  BY UnitsOfOne
<1>2. IsFiniteSet(B) /\ Cardinality(B) \in Nat
  BY UnitsAreFinite
<1>3. Units(w, T) = A \cup B
  BY DEF Units
<1>4. A \cap B = {}
  BY DEF Units
<1> HIDE DEF A, B
<1>5. Cardinality(A \cup B) = Cardinality(A) + Cardinality(B) - Cardinality(A \cap B)
  BY <1>1, <1>2, FS_Union
<1>6. Cardinality(A \cap B) = 0
  BY <1>4, FS_EmptySet
<1>7. Cardinality(Units(w, T)) = w[x] + Cardinality(B)
  BY <1>1, <1>2, <1>3, <1>5, <1>6
<1> QED BY <1>7 DEF B

(* Such a fold exists...                                                   *)
LEMMA SumExists ==
    ASSUME NEW S, IsFiniteSet(S), NEW w \in [S -> Nat]
    PROVE  \E it : SumsUp(w, S, it)
<1> DEFINE it == [T \in SUBSET S |-> Cardinality(Units(w, T))]
<1>1. ASSUME NEW T \in SUBSET S, T = {}
      PROVE  Cardinality(Units(w, T)) = 0
  BY <1>1, FS_EmptySet DEF Units
<1>2. ASSUME NEW T \in SUBSET S, T # {}
      PROVE  Cardinality(Units(w, T))
                = w[CHOOSE x \in T : TRUE] + it[T \ {CHOOSE x \in T : TRUE}]
  <2> DEFINE x == CHOOSE y \in T : TRUE
  <2>1. x \in T
    BY <1>2
  <2> HIDE DEF x
  <2>2. T \ {x} \in SUBSET S
    OBVIOUS
  <2>3. it[T \ {x}] = Cardinality(Units(w, T \ {x}))
    BY <2>2
  <2>4. Cardinality(Units(w, T)) = w[x] + it[T \ {x}]
    BY <2>1, <2>3, UnitsGrow
  <2> QED BY <2>4 DEF x
<1>3. \A T \in SUBSET S :
        it[T] = IF T = {} THEN 0
                ELSE w[CHOOSE x \in T : TRUE] + it[T \ {CHOOSE x \in T : TRUE}]
  BY <1>1, <1>2
<1>4. it = [T \in SUBSET S |-> it[T]]
  OBVIOUS
<1> HIDE DEF it
<1>5. SumsUp(w, S, it)
  BY <1>3, <1>4 DEF SumsUp
<1> QED BY <1>5

(* ... and there is only one.                                              *)
LEMMA SumIsUnits ==
    ASSUME NEW S, IsFiniteSet(S), NEW w \in [S -> Nat], NEW it, SumsUp(w, S, it)
    PROVE  it[S] = Cardinality(Units(w, S))
<1> DEFINE G == {T \in SUBSET S : it[T] = Cardinality(Units(w, T))}
<1>1. \A T \in SUBSET S :
        it[T] = IF T = {} THEN 0
                ELSE w[CHOOSE x \in T : TRUE] + it[T \ {CHOOSE x \in T : TRUE}]
  BY DEF SumsUp
<1>2. {} \in G
  <2>1. Units(w, {}) = {}
    BY DEF Units
  <2> QED BY <1>1, <2>1, FS_EmptySet
<1>3. ASSUME NEW T \in SUBSET S, T # {}, \A x \in T : T \ {x} \in G
      PROVE  T \in G
  <2> DEFINE x == CHOOSE y \in T : TRUE
  <2>1. x \in T
    BY <1>3
  <2>2. it[T] = w[x] + it[T \ {x}]
    BY <1>1, <1>3
  <2> HIDE DEF x
  <2>3. it[T \ {x}] = Cardinality(Units(w, T \ {x}))
    BY <1>3, <2>1
  <2>4. Cardinality(Units(w, T)) = w[x] + Cardinality(Units(w, T \ {x}))
    BY <2>1, UnitsGrow
  <2> QED BY <2>2, <2>3, <2>4
<1>4. S \in G
  <2> HIDE DEF G
  <2>1. G \in SUBSET (SUBSET S)
    BY DEF G
  <2> QED BY <1>2, <1>3, <2>1, OneByOne
<1> QED BY <1>4

(* A sum of terms of k and more.                                           *)
LEMMA SumAtLeast ==
    ASSUME NEW S, IsFiniteSet(S), NEW w \in [S -> Nat], NEW k \in Nat, \A x \in S : k <= w[x]
    PROVE  Cardinality(S) * k <= Cardinality(Units(w, S))
<1> DEFINE B == 1 .. k
           U == Units(w, S)
<1>1. S \X B \subseteq U
  <2> SUFFICES ASSUME NEW x \in S, NEW i \in B PROVE <<x, i>> \in U
    OBVIOUS
  <2>1. w[x] \in Nat /\ k <= w[x]
    OBVIOUS
  <2>2. i \in 1 .. w[x]
    BY <2>1
  <2>3. <<x, i>> \in {x} \X (1 .. w[x])
    BY <2>2
  <2> QED BY <2>3 DEF Units
<1>2. IsFiniteSet(B) /\ Cardinality(B) = k
  BY FS_Interval
<1>3. IsFiniteSet(U) /\ Cardinality(U) \in Nat
  BY UnitsAreFinite
<1> HIDE DEF B, U
<1>4. IsFiniteSet(S \X B) /\ Cardinality(S \X B) = Cardinality(S) * Cardinality(B)
  BY <1>2, FS_Product
<1>5. Cardinality(S \X B) <= Cardinality(U)
  BY <1>1, <1>3, FS_Subset
<1> QED BY <1>2, <1>4, <1>5 DEF U

(* What a chunk's rows add up to.                                          *)
Read(g, c) == {r \in ToSet(c) : <<g, r.ts>> \in DOMAIN utilMap}
Used(g, S) == MapThenSumSet(LAMBDA r : utilMap[<<g, r.ts>>], S)

(* It is a sum, whatever order the rows are taken in.                      *)
LEMMA UsedIsUnits ==
    ASSUME NEW g, NEW S, IsFiniteSet(S), \A r \in S : utilMap[<<g, r.ts>>] \in Nat
    PROVE  Used(g, S) = Cardinality(Units([r \in S |-> utilMap[<<g, r.ts>>]], S))
<1> DEFINE w == [r \in S |-> utilMap[<<g, r.ts>>]]
           Rec(it) == it = [T \in SUBSET S |-> IF T = {} THEN 0
                            ELSE utilMap[<<g, (CHOOSE x \in T : TRUE).ts>>]
                                    + it[T \ {CHOOSE x \in T : TRUE}]]
           SumOf(it) == SumsUp(w, S, it)
<1>1. Used(g, S) = (CHOOSE it : Rec(it))[S]
  BY DEF Used, MapThenSumSet, MapThenFoldSet
<1>2. \A it : SumOf(it) <=> Rec(it)
  BY DEF SumsUp
<1>3. w \in [S -> Nat]
  OBVIOUS
<1>4. \E it : SumOf(it)
  <2> HIDE DEF w
  <2> QED BY <1>3, SumExists
<1>5. SumOf(CHOOSE it : Rec(it))
  <2> HIDE DEF SumOf, Rec
  <2> QED BY <1>2, <1>4
<1> HIDE DEF w
<1>6. (CHOOSE it : Rec(it))[S] = Cardinality(Units(w, S))
  <2> HIDE DEF Rec
  <2>1. SumsUp(w, S, CHOOSE it : Rec(it))
    BY <1>5
  <2> QED BY <1>3, <2>1, SumIsUnits
<1> QED BY <1>1, <1>6 DEF w

(* A chunk is a finite set of its process' rows.                           *)
LEMMA RowsOfChunk ==
    ASSUME db \subseteq Ticks, OwnTimes, RowsOfTicks, NEW g, NEW p,
           NEW a \in 1 .. Count(g, p), NEW b \in 1 .. Count(g, p)
    PROVE  LET c == Seg(Queue(g, p), a, b)
           IN  IsFiniteSet(ToSet(c)) /\ ToSet(c) \subseteq RowsOf(g, p)
<1> DEFINE n == Count(g, p)
           f == Queue(g, p)
           c == Seg(f, a, b)
<1>1. n \in Nat /\ f \in [1 .. n -> RowsOf(g, p)]
  BY OrderedOfOne
<1>2. \A i \in 1 .. b - a + 1 : c[i] = f[a + i - 1] /\ a + i - 1 \in 1 .. n
  BY <1>1 DEF Seg
<1>3. DOMAIN c = 1 .. b - a + 1
  BY DEF Seg
<1>4. ToSet(c) \subseteq RowsOf(g, p)
  <2> HIDE DEF c, f, n
  <2> QED BY <1>1, <1>2, <1>3 DEF ToSet
<1>5. IsFiniteSet(RowsOf(g, p))
  BY RowsOfOne
<1>6. IsFiniteSet(ToSet(c))
  <2> HIDE DEF c
  <2> QED BY <1>4, <1>5, FS_Subset
<1> QED BY <1>4, <1>6

(* What a session's average is taken of.                                   *)
LEMMA MadeLoads ==
    ASSUME db \subseteq Ticks, OwnTimes, RowsOfTicks, NEW s, NEW a \in Nat, NEW b \in Nat,
           IsPiece(s, a, b)
    PROVE  LET c == Seg(Queue(s.gpu, s.pid), a, b)
           IN  /\ s.ticks = {r.ts : r \in ToSet(c)}
               /\ s.samples = Cardinality(Read(s.gpu, c))
               /\ s.used = Used(s.gpu, Read(s.gpu, c))
<1> DEFINE c == Seg(Queue(s.gpu, s.pid), a, b)
           g == s.gpu
           p == s.pid
<1>1. s = MakeSession(g, p, c)
  BY DEF IsPiece, Made
<1> HIDE DEF c, g, p
<1>2. MakeSession(g, p, c).ticks = {r.ts : r \in ToSet(c)}
  BY DEF MakeSession
<1>3. MakeSession(g, p, c).samples = Cardinality(Read(g, c))
  BY DEF MakeSession, Read
<1>4. MakeSession(g, p, c).used = Used(g, Read(g, c))
  BY DEF MakeSession, Read, Used
<1> QED BY <1>1, <1>2, <1>3, <1>4 DEF c, g

(* Loads of ACTIVE_UTIL and more add up to no average below it.            *)
LEMMA HeldWasIdle ==
    ASSUME RInv
    PROVE  HeldUnlessUnread
<1>0. db \subseteq Ticks /\ OwnTimes /\ RowsOfTicks /\ LoadsOfTicks
  BY DEF RInv, IInv
<1> SUFFICES ASSUME NEW s \in HeldSessions,
                    ~ \A ts \in s.ticks : <<s.gpu, ts>> \notin DOMAIN utilMap
             PROVE  \E t \in db : t.ts \in s.ticks /\ t.util[s.gpu] < ActiveUtil
  BY DEF HeldUnlessUnread
<1>1. s \in Sessions /\ Idle(s)
  BY DEF HeldSessions
<1>2. PICK a \in Nat, b \in Nat : IsPiece(s, a, b)
  BY <1>0, <1>1, SessionIsPiece
<1> DEFINE g == s.gpu
           c == Seg(Queue(s.gpu, s.pid), a, b)
           R == Read(g, c)
<1>3. /\ s.ticks = {r.ts : r \in ToSet(c)}
      /\ s.samples = Cardinality(R)
      /\ s.used = Used(g, R)
  BY <1>0, <1>2, MadeLoads
<1>4. IsFiniteSet(ToSet(c)) /\ ToSet(c) \subseteq rows
  <2>1. a \in 1 .. Count(s.gpu, s.pid) /\ b \in 1 .. Count(s.gpu, s.pid)
    BY <1>2 DEF IsPiece
  <2>2. IsFiniteSet(ToSet(c)) /\ ToSet(c) \subseteq RowsOf(s.gpu, s.pid)
    BY <1>0, <2>1, RowsOfChunk
  <2> QED BY <2>2 DEF RowsOf
<1>5. R \subseteq ToSet(c) /\ \A r \in R : <<g, r.ts>> \in DOMAIN utilMap
  BY DEF Read
<1>6. R # {}
  <2>1. PICK ts \in s.ticks : <<g, ts>> \in DOMAIN utilMap
    OBVIOUS
  <2>2. PICK r \in ToSet(c) : r.ts = ts
    BY <1>3, <2>1
  <2> QED BY <2>1, <2>2 DEF Read
<1> HIDE DEF c, R
<1>7. IsFiniteSet(R)
  BY <1>4, <1>5, FS_Subset
<1>8. \A r \in R : \E t \in db : /\ t.ts = r.ts /\ utilMap[<<g, r.ts>>] = t.util[g]
                                 /\ utilMap[<<g, r.ts>>] \in Nat
  <2> SUFFICES ASSUME NEW r \in R
               PROVE  \E t \in db : /\ t.ts = r.ts /\ utilMap[<<g, r.ts>>] = t.util[g]
                                    /\ utilMap[<<g, r.ts>>] \in Nat
    OBVIOUS
  <2> DEFINE k == <<g, r.ts>>
  <2>1. k \in DOMAIN utilMap /\ k[1] = g /\ k[2] = r.ts
    BY <1>5
  <2> HIDE DEF k
  <2>2. k \in Gpus \X Times /\ \E t \in db : t.ts = k[2] /\ utilMap[k] = t.util[k[1]]
    BY <1>0, <2>1 DEF LoadsOfTicks
  <2>3. PICK t \in db : t.ts = r.ts /\ utilMap[k] = t.util[g]
    BY <2>1, <2>2
  <2>4. t.util[g] \in Utils
    <3>1. g \in Gpus
      BY <2>1, <2>2
    <3> QED BY <1>0, <3>1 DEF Ticks
  <2>5. utilMap[k] \in Nat
    BY <2>3, <2>4, ReportAssumption
  <2> QED BY <2>3, <2>5 DEF k
<1> SUFFICES ASSUME \A t \in db : t.ts \in s.ticks => ~(t.util[g] < ActiveUtil)
             PROVE  FALSE
  OBVIOUS
<1>9. \A r \in R : ActiveUtil <= utilMap[<<g, r.ts>>]
  <2> SUFFICES ASSUME NEW r \in R PROVE ActiveUtil <= utilMap[<<g, r.ts>>]
    OBVIOUS
  <2>1. PICK t \in db : /\ t.ts = r.ts /\ utilMap[<<g, r.ts>>] = t.util[g]
                        /\ utilMap[<<g, r.ts>>] \in Nat
    BY <1>8
  <2>2. r.ts \in s.ticks
    BY <1>3, <1>5
  <2> DEFINE x == t.util[g]
  <2>3. ~(x < ActiveUtil) /\ x \in Nat /\ utilMap[<<g, r.ts>>] = x
    BY <2>1, <2>2
  <2> HIDE DEF x
  <2> QED BY <2>3, ReportAssumption
<1> DEFINE w == [r \in R |-> utilMap[<<g, r.ts>>]]
<1>10. w \in [R -> Nat] /\ \A r \in R : ActiveUtil <= w[r]
  BY <1>8, <1>9
<1>11. s.used = Cardinality(Units(w, R))
  BY <1>3, <1>7, <1>8, UsedIsUnits
<1> HIDE DEF w, g
<1>12. Cardinality(R) * ActiveUtil <= s.used
  <2>1. ActiveUtil \in Nat
    BY ReportAssumption
  <2> QED BY <1>7, <1>10, <1>11, <2>1, SumAtLeast
<1>13. s.samples \in Nat /\ s.samples # 0 /\ s.used \in Nat
  <2>1. Cardinality(R) \in Nat /\ Cardinality(R) # 0
    BY <1>6, <1>7, FS_CardinalityType, FS_EmptySet
  <2>2. Cardinality(Units(w, R)) \in Nat
    BY <1>7, <1>10, UnitsAreFinite
  <2> QED BY <1>3, <1>11, <2>1, <2>2
<1> DEFINE n == s.samples
           x == s.used
<1>14. n \in Nat /\ x \in Nat /\ n * ActiveUtil <= x /\ x < ActiveUtil * n
  BY <1>1, <1>3, <1>12, <1>13 DEF Idle
<1> HIDE DEF n, x
<1> QED BY <1>14, ReportAssumption

-----------------------------------------------------------------------------
LEMMA ReportSound == Spec => []RInv
<1> QED BY ReportInit, ReportStep, PTL DEF Spec

(* load_sessions rebuilds exactly the runs of every process, each once.    *)
THEOREM SessionsRebuilt == Spec => []SessionsAreRuns
<1>1. RInv => SessionsAreRuns
  BY RunsAreRebuilt DEF RInv, IInv
<1> QED BY <1>1, ReportSound, PTL

(* build_action_report lists a process on a card at most once to act on.   *)
THEOREM ActedOnOnce == Spec => []CurrentOncePerProcess
<1>1. RInv => CurrentOncePerProcess
  BY LiveOnce
<1> QED BY <1>1, ReportSound, PTL

(* What it calls past has ended, when ticks follow within LIVE_SLACK.      *)
THEOREM PastWasteIsOver == Spec => []PastIsOver
<1>1. RInv => PastIsOver
  BY PastHasEnded
<1> QED BY <1>1, ReportSound, PTL

(* What it calls idle-held had an idle tick, or none of its loads read.    *)
THEOREM HeldWasSeenIdle == Spec => []HeldUnlessUnread
<1>1. RInv => HeldUnlessUnread
  BY HeldWasIdle
<1> QED BY <1>1, ReportSound, PTL

(* The rest of the types.                                                  *)
Clock ==
    /\ meanwhile \in Nat
    /\ pc \in {"utils", "rows", "latest", "holders", "gpus", "newest", "done"}
    /\ latest \in Times \cup {NoTick} /\ newest \in Times \cup {NoTick}

LEMMA ClockStep == db \subseteq Ticks /\ Clock /\ [Next]_vars => Clock'
<1> SUFFICES ASSUME db \subseteq Ticks, Clock, [Next]_vars PROVE Clock'
  OBVIOUS
<1> USE DEF Clock
<1>1. Latest \in Times \cup {NoTick}
  <2> SUFFICES ASSUME Latest # NoTick PROVE Latest \in Times
    OBVIOUS
  <2> QED BY LatestIsATick DEF Ticks
<1>2. ASSUME NEW t \in Ticks, Commit(t) PROVE Clock'
  BY <1>2 DEF Commit
<1>3. CASE ReadUtils \/ ReadRows
  BY <1>3 DEF ReadUtils, ReadRows
<1>4. CASE ReadLatest
  BY <1>1, <1>4 DEF ReadLatest
<1>5. CASE ReadHolders \/ ReadGpus
  BY <1>5 DEF ReadHolders, ReadGpus
<1>6. CASE ReadNewest
  BY <1>1, <1>6 DEF ReadNewest
<1>7. CASE Render
  BY <1>7 DEF Render
<1>8. CASE UNCHANGED vars
  BY <1>8 DEF vars
<1> QED BY <1>2, <1>3, <1>4, <1>5, <1>6, <1>7, <1>8 DEF Next, Sample, Query

(* Every variable keeps its type.                                          *)
THEOREM ReportTypes == Spec => []TypeOK
<1>1. Init => Clock
  BY DEF Init, Clock
<1>2. RInv => db \subseteq Ticks
  BY DEF RInv, IInv
<1>3. RInv /\ Clock => TypeOK
  <2> SUFFICES ASSUME RInv, Clock PROVE TypeOK
    OBVIOUS
  <2>1. ASSUME NEW r \in rows
        PROVE  r \in [gpu : Gpus, pid : Pids, mem : Mems, ts : Times]
    <3>1. PICK t \in db : \E p \in Compute(t) : r = Kept(t, p)
      BY DEF RInv, RowsOfTicks
    <3>2. PICK p \in Compute(t) : r = Kept(t, p)
      BY <3>1
    <3>3. t.ts \in Times /\ p \in ProcRow
      BY <1>2 DEF Ticks, Compute
    <3> QED BY <3>2, <3>3 DEF ProcRow, Kept
  <2>2. DOMAIN utilMap \subseteq Gpus \X Times
    BY DEF RInv, LoadsOfTicks
  <2> QED BY <1>2, <2>1, <2>2 DEF TypeOK, Clock
<1> QED BY ReportInit, ReportStep, ClockStep, <1>1, <1>2, <1>3, PTL DEF Spec
=============================================================================
