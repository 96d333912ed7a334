---------------------------- MODULE RangesProofs ----------------------------
(***************************************************************************)
(* Proofs about Ranges, for every address space and every sequence of      *)
(* insertions, removals and clears.                                        *)
(*                                                                         *)
(* insert and remove are folds over the vector.  A fold is a recursive     *)
(* function over the subsets of its indices; that it exists, and that its  *)
(* value for 1..n is one iteration further than that for 1..(n-1), is      *)
(* shown once for each of the two loops.  What the loops keep is then an   *)
(* invariant of their iterations: the part of the vector that is done is   *)
(* sorted and coalesced, covers what it should, and ends before the rest   *)
(* begins.                                                                 *)
(***************************************************************************)
EXTENDS Ranges, FiniteSetTheorems, SequenceTheorems, WellFoundedInduction, TLAPS

\* A range of the vector: not empty, inside the address space.
Spans == {r \in [start : 0..MaxAddr, size : 1..(MaxAddr + 1)] : End(r) <= MaxAddr + 1}

Coalesced(s) ==
    /\ s \in Seq(Spans)
    /\ \A i, j \in 1..Len(s) : i < j => End(s[i]) < s[j].start

InSome(s, x) == \E i \in 1..Len(s) : x \in Points(s[i])

Inv == Coalesced(v) /\ OnlyFresh

-----------------------------------------------------------------------------
(* Induction.                                                              *)

LEMMA Least ==
    ASSUME NEW T \in SUBSET Nat, T # {}
    PROVE  \E x \in T : \A y \in T : x <= y
<1> DEFINE R == {ss \in Nat \X Nat : ss[1] < ss[2]}
<1>1. IsWellFoundedOn(R, Nat)
    BY NatLessThanWellFounded DEF OpToRel
<1>2. PICK x \in T : \A y \in T : ~(<<y, x>> \in R)
    <2> HIDE DEF R
    <2> QED BY <1>1, WFMin
<1>3. ASSUME NEW y \in T PROVE x <= y
    <2>1. x \in Nat /\ y \in Nat
        OBVIOUS
    <2>2. y < x => <<y, x>> \in R
        BY <2>1
    <2> QED BY <1>2, <2>1, <2>2
<1> QED BY <1>3

LEMMA SetInduction ==
    ASSUME NEW S, 0 \in S, \A n \in Nat : n \in S => n + 1 \in S
    PROVE  Nat \subseteq S
<1> SUFFICES ASSUME Nat \ S # {} PROVE FALSE
    OBVIOUS
<1>1. PICK x \in Nat \ S : \A y \in Nat \ S : x <= y
    BY Least
<1>2. x \in Nat /\ x # 0 /\ x - 1 \in Nat /\ x - 1 \notin S
    BY <1>1
<1> QED BY <1>1, <1>2

LEMMA MinIn ==
    ASSUME NEW S \in SUBSET Nat, S # {}
    PROVE  Min(S) \in S /\ \A y \in S : Min(S) <= y
BY Least DEF Min

LEMMA MaxIn ==
    ASSUME NEW n \in Nat, NEW S \in SUBSET (1..n), S # {}
    PROVE  Max(S) \in S /\ \A y \in S : Max(S) >= y
<1> DEFINE T == {n - x : x \in S}
<1>1. T \in SUBSET Nat /\ T # {}
    <2>1. PICK x : x \in S
        OBVIOUS
    <2>2. n - x \in T
        BY <2>1
    <2>3. T \subseteq Nat
        OBVIOUS
    <2> QED BY <2>2, <2>3
<1>2. PICK t \in T : \A y \in T : t <= y
    <2> HIDE DEF T
    <2> QED BY <1>1, Least
<1>3. PICK x \in S : t = n - x
    OBVIOUS
<1>4. ASSUME NEW y \in S PROVE x >= y
    <2>1. n - y \in T
        OBVIOUS
    <2>2. t <= n - y
        BY <1>2, <2>1
    <2> QED BY <1>3, <2>2
<1> QED BY <1>3, <1>4 DEF Max

-----------------------------------------------------------------------------
(* The two folds.                                                          *)

\* One iteration of the loop of remove for r, or of the coalescing loop of insert.
Iterate(loop, r, kept, c) ==
    IF loop = "insert" THEN Merge(kept, c) ELSE kept \o LeftPiece(c, r) \o RightPiece(c, r)

FoldStep(loop, r, t, sub, g) ==
    IF sub = {} THEN <<>> ELSE Iterate(loop, r, g[sub \ {Max(sub)}], t[Max(sub)])
IsFold(loop, r, t, g) == g = [sub \in SUBSET DOMAIN t |-> FoldStep(loop, r, t, sub, g)]

\* Without its greatest index a set of indices is smaller.
LEMMA Smaller ==
    ASSUME NEW n \in Nat, NEW sub \in SUBSET (1..n), sub # {}
    PROVE  /\ IsFiniteSet(sub) /\ Cardinality(sub) \in Nat
           /\ sub \ {Max(sub)} \in SUBSET (1..n)
           /\ Cardinality(sub \ {Max(sub)}) \in Nat
           /\ Cardinality(sub \ {Max(sub)}) = Cardinality(sub) - 1
<1>1. IsFiniteSet(1..n)
    BY FS_Interval
<1>2. IsFiniteSet(sub) /\ Cardinality(sub) \in Nat
    BY <1>1, FS_Subset, FS_CardinalityType
<1>3. Max(sub) \in sub
    BY MaxIn
<1>4. /\ IsFiniteSet(sub \ {Max(sub)})
      /\ Cardinality(sub \ {Max(sub)}) = Cardinality(sub) - 1
    BY <1>2, <1>3, FS_RemoveElement
<1>5. Cardinality(sub \ {Max(sub)}) \in Nat
    BY <1>4, FS_CardinalityType
<1> QED BY <1>2, <1>4, <1>5

\* A function that is right for the sets of at most k indices is right for one index more
\* after one application of the recursion.
LEMMA FoldExists ==
    ASSUME NEW loop, NEW r, NEW t, NEW n \in Nat, DOMAIN t = 1..n
    PROVE  \E g : IsFold(loop, r, t, g)
<1> DEFINE D == SUBSET (1..n)
           Upto(g, k) == \A sub \in D : Cardinality(sub) <= k => g[sub] = FoldStep(loop, r, t, sub, g)
           S == {k \in Nat : \E g : Upto(g, k)}
<1>1. 0 \in S
    <2> DEFINE g == [sub \in D |-> <<>>]
    <2>1. ASSUME NEW sub \in D, Cardinality(sub) <= 0 PROVE g[sub] = FoldStep(loop, r, t, sub, g)
        <3>1. sub = {}
            <4> SUFFICES ASSUME sub # {} PROVE FALSE
                OBVIOUS
            <4> DEFINE c == Cardinality(sub)
                       less == Cardinality(sub \ {Max(sub)})
            <4>1. c \in Nat /\ less \in Nat /\ less = c - 1
                BY Smaller
            <4>2. c <= 0
                BY <2>1
            <4> HIDE DEF c, less
            <4> QED BY <4>1, <4>2
        <3> QED BY <3>1 DEF FoldStep
    <2> HIDE DEF g
    <2>2. Upto(g, 0)
        BY <2>1
    <2> QED BY <2>2
<1>2. ASSUME NEW k \in Nat, k \in S PROVE k + 1 \in S
    <2>1. PICK g : Upto(g, k)
        BY <1>2
    <2> DEFINE f == [sub \in D |-> FoldStep(loop, r, t, sub, g)]
    <2>2. ASSUME NEW sub \in D, Cardinality(sub) <= k + 1 PROVE f[sub] = FoldStep(loop, r, t, sub, f)
        <3>1. CASE sub = {}
            BY <3>1 DEF FoldStep
        <3>2. CASE sub # {}
            <4> DEFINE less == sub \ {Max(sub)}
            <4>1. less \in D /\ Cardinality(less) <= k
                <5>1. /\ less \in D /\ Cardinality(less) \in Nat /\ Cardinality(sub) \in Nat
                      /\ Cardinality(less) = Cardinality(sub) - 1
                    BY <3>2, Smaller
                <5> HIDE DEF less
                <5> QED BY <2>2, <5>1
            <4> HIDE DEF less
            <4>2. f[less] = g[less]
                BY <2>1, <4>1
            <4>3. f[sub] = Iterate(loop, r, g[less], t[Max(sub)])
                BY <3>2 DEF FoldStep, less
            <4> HIDE DEF f
            <4> QED BY <3>2, <4>2, <4>3 DEF FoldStep, less
        <3> QED BY <3>1, <3>2
    <2> HIDE DEF f
    <2>3. Upto(f, k + 1)
        BY <2>2
    <2> HIDE DEF Upto
    <2> QED BY <2>3
<1> HIDE DEF S
<1>3. Nat \subseteq S
    BY <1>1, <1>2, SetInduction
<1>4. PICK g : Upto(g, n)
    BY <1>3 DEF S
<1>5. ASSUME NEW sub \in D PROVE Cardinality(sub) <= n
    <2> DEFINE all == 1..n
    <2>1. IsFiniteSet(all) /\ Cardinality(all) = n
        <3>1. IsFiniteSet(all) /\ Cardinality(all) = IF 1 > n THEN 0 ELSE n - 1 + 1
            BY FS_Interval
        <3> HIDE DEF all
        <3> QED BY <3>1
    <2> HIDE DEF all
    <2>2. sub \in SUBSET all
        BY DEF all
    <2> QED BY <2>1, <2>2, FS_Subset
<1> DEFINE f == [sub \in D |-> g[sub]]
<1>6. ASSUME NEW sub \in D PROVE f[sub] = FoldStep(loop, r, t, sub, f)
    <2>1. g[sub] = FoldStep(loop, r, t, sub, g)
        BY <1>4, <1>5
    <2>2. sub # {} => sub \ {Max(sub)} \in D
        OBVIOUS
    <2>3. FoldStep(loop, r, t, sub, f) = FoldStep(loop, r, t, sub, g)
        BY <2>2 DEF FoldStep
    <2> QED BY <2>1, <2>3
<1>7. f = [sub \in SUBSET DOMAIN t |-> f[sub]]
    OBVIOUS
<1> HIDE DEF f
<1> QED BY <1>6, <1>7 DEF IsFold

FoldValue(loop, r, t) == (CHOOSE g : IsFold(loop, r, t, g))[DOMAIN t]

LEMMA InsertIsFold ==
    ASSUME NEW s, NEW r
    PROVE  insert(s, r) = FoldValue("insert", r, InsertSorted(s, r))
BY DEF insert, FoldLeft, MapThenFoldSet, FoldValue, IsFold, FoldStep, Iterate

LEMMA RemoveIsFold ==
    ASSUME NEW s, NEW r, r.size # 0
    PROVE  remove(s, r) = FoldValue("remove", r, s)
BY DEF remove, FoldLeft, MapThenFoldSet, FoldValue, IsFold, FoldStep, Iterate

\* The results of the iterations, one by one.
Iterations(loop, r, t, n, K) ==
    K[0] = <<>> /\ \A k \in 1..n : K[k] = Iterate(loop, r, K[k - 1], t[k])

LEMMA FoldIterates ==
    ASSUME NEW loop, NEW r, NEW t, NEW n \in Nat, DOMAIN t = 1..n
    PROVE  \E K : Iterations(loop, r, t, n, K) /\ FoldValue(loop, r, t) = K[n]
<1> DEFINE g == CHOOSE f : IsFold(loop, r, t, f)
           K == [k \in 0..n |-> g[1..k]]
<1>1. IsFold(loop, r, t, g)
    BY FoldExists
<1> HIDE DEF g
<1>2. \A sub \in SUBSET (1..n) : g[sub] = FoldStep(loop, r, t, sub, g)
    BY <1>1 DEF IsFold
<1>3. K[0] = <<>>
    <2>1. K[0] = g[{}]
        OBVIOUS
    <2> QED BY <1>2, <2>1 DEF FoldStep
<1>4. ASSUME NEW k \in 1..n PROVE K[k] = Iterate(loop, r, K[k - 1], t[k])
    <2> DEFINE sub == 1..k
    <2>1. k \in Nat /\ sub \in SUBSET (1..n) /\ sub \in SUBSET (1..k) /\ sub # {} /\ k \in sub
        OBVIOUS
    <2>2. Max(sub) \in sub /\ \A y \in sub : Max(sub) >= y
        <3> HIDE DEF sub
        <3> QED BY <2>1, MaxIn
    <2>3. Max(sub) = k
        BY <2>1, <2>2
    <2>4. sub \ {k} = 1..(k - 1)
        OBVIOUS
    <2>5. K[k] = g[sub] /\ K[k - 1] = g[1..(k - 1)]
        OBVIOUS
    <2> HIDE DEF sub, K
    <2>6. g[sub] = Iterate(loop, r, g[sub \ {k}], t[k])
        BY <1>2, <2>1, <2>3 DEF FoldStep
    <2> QED BY <2>4, <2>5, <2>6
<1>5. g[DOMAIN t] = K[n]
    OBVIOUS
<1> HIDE DEF K
<1>6. Iterations(loop, r, t, n, K)
    BY <1>3, <1>4 DEF Iterations
<1> QED BY <1>5, <1>6 DEF g, FoldValue

-----------------------------------------------------------------------------
(* insert.                                                                 *)

LEMMA SpanType ==
    ASSUME NEW r \in Spans
    PROVE  /\ r.start \in Nat /\ r.size \in Nat /\ r.size > 0
           /\ r = [start |-> r.start, size |-> r.size]
           /\ End(r) \in Nat /\ End(r) = r.start + r.size /\ End(r) <= MaxAddr + 1 /\ r.start < End(r)
BY RangesAssumption DEF Spans, End

LEMMA MakeSpan ==
    ASSUME NEW a \in Nat, NEW n \in Nat, n > 0, a + n <= MaxAddr + 1
    PROVE  [start |-> a, size |-> n] \in Spans
BY RangesAssumption DEF Spans, End

LEMMA InPoints == ASSUME NEW r \in Spans, NEW x PROVE x \in Points(r) <=> x \in Int /\ r.start <= x /\ x < End(r)
BY SpanType DEF Points, End

\* The vector with r in its place is sorted by the starts.
LEMMA SortedInsertion ==
    ASSUME NEW s, Coalesced(s), NEW r \in Spans
    PROVE  LET t == InsertSorted(s, r)
           IN  /\ t \in Seq(Spans) /\ Len(t) = Len(s) + 1
               /\ \A i, j \in 1..Len(t) : i < j => t[i].start <= t[j].start
               /\ \A x : InSome(t, x) <=> InSome(s, x) \/ x \in Points(r)
<1> DEFINE t == InsertSorted(s, r)
           n == Len(s)
           I == {i \in 1..n : Less(r, s[i])}
           Shape(m) == /\ t \in Seq(Spans) /\ Len(t) = n + 1 /\ t[m] = r
                       /\ \A k \in 1..n : k < m => t[k] = s[k]
                       /\ \A k \in 1..n : m <= k => t[k + 1] = s[k]
           Place(m) == /\ \A k \in 1..n : k < m => s[k].start <= r.start
                       /\ \A k \in 1..n : m <= k => r.start <= s[k].start
<1>1. s \in Seq(Spans) /\ n \in Nat /\ \A k \in 1..n : s[k] \in Spans
    BY DEF Coalesced
<1>2. r.start \in Nat /\ \A k \in 1..n : s[k].start \in Nat /\ End(s[k]) \in Nat /\ s[k].start < End(s[k])
    <2>1. ASSUME NEW k \in 1..n PROVE s[k].start \in Nat /\ End(s[k]) \in Nat /\ s[k].start < End(s[k])
        <3>1. s[k] \in Spans
            BY <1>1
        <3> QED BY <3>1, SpanType
    <2> QED BY <2>1, SpanType
<1>3. ASSUME NEW i \in 1..n, NEW j \in 1..n, i < j PROVE s[i].start < s[j].start
    <2>1. End(s[i]) < s[j].start
        BY <1>3 DEF Coalesced
    <2> QED BY <1>2, <2>1
<1>4. PICK m \in 1..(n + 1) : Shape(m) /\ Place(m)
    <2>1. CASE I = {}
        <3>1. t = Append(s, r)
            BY <2>1 DEF InsertSorted, SelectInSeq
        <3> HIDE DEF t
        <3>2. Shape(n + 1)
            BY <1>1, <3>1
        <3>3. ASSUME NEW k \in 1..n PROVE s[k].start <= r.start
            BY <1>2, <2>1 DEF Less
        <3> QED BY <1>1, <3>2, <3>3
    <2>2. CASE I # {}
        <3> DEFINE m == Min(I)
        <3>1. m \in I /\ \A y \in I : m <= y
            <4>1. I \in SUBSET Nat
                OBVIOUS
            <4> HIDE DEF I
            <4> QED BY <2>2, <4>1, MinIn
        <3>2. m \in 1..n /\ m # 0
            BY <3>1
        <3> DEFINE a == SubSeq(s, 1, m - 1)
                   b == SubSeq(s, m, n)
                   c == a \o <<r>>
        <3>3. t = c \o b
            BY <2>2, <3>2 DEF InsertSorted, SelectInSeq, InsertAt
        <3> HIDE DEF m, t
        <3>4. a \in Seq(Spans) /\ Len(a) = m - 1 /\ \A k \in 1..(m - 1) : a[k] = s[k]
            BY <1>1, <3>2
        <3>5. b \in Seq(Spans) /\ Len(b) = n - m + 1 /\ \A k \in 1..(n - m + 1) : b[k] = s[m + k - 1]
            <4>1. m \in 1..n /\ n \in m..n /\ m \in Nat
                BY <1>1, <3>2
            <4> QED BY <1>1, <4>1
        <3> HIDE DEF a, b
        <3>6. c \in Seq(Spans) /\ Len(c) = m /\ c[m] = r /\ \A k \in 1..(m - 1) : c[k] = s[k]
            BY <1>1, <3>2, <3>4
        <3> HIDE DEF c
        <3>7. t \in Seq(Spans) /\ Len(t) = n + 1
            BY <1>1, <3>2, <3>3, <3>5, <3>6
        <3>8. ASSUME NEW k \in 1..m PROVE t[k] = c[k]
            BY <1>1, <3>2, <3>3, <3>5, <3>6
        <3>9. ASSUME NEW k \in 1..n, m <= k PROVE t[k + 1] = s[k]
            <4>1. k + 1 \in (Len(c) + 1)..(Len(c) + Len(b)) /\ k + 1 - m \in 1..(n - m + 1)
                BY <1>1, <3>2, <3>5, <3>6, <3>9
            <4>2. t[k + 1] = b[(k + 1) - Len(c)]
                BY <3>2, <3>3, <3>5, <3>6, <4>1
            <4>3. m + (k + 1 - m) - 1 = k
                BY <3>2
            <4>4. b[k + 1 - m] = s[m + (k + 1 - m) - 1]
                BY <3>5, <4>1
            <4>5. Len(c) = m
                BY <3>6
            <4> QED BY <4>2, <4>3, <4>4, <4>5
        <3>10. Shape(m)
            <4>1. m \in 1..m /\ \A k \in 1..n : k < m => k \in 1..m /\ k \in 1..(m - 1)
                BY <3>2
            <4>2. t[m] = r
                BY <3>6, <3>8, <4>1
            <4>3. \A k \in 1..n : k < m => t[k] = s[k]
                BY <3>6, <3>8, <4>1
            <4> QED BY <3>7, <3>9, <4>2, <4>3
        <3>11. ASSUME NEW k \in 1..n, k < m PROVE s[k].start <= r.start
            <4>1. k \notin I
                BY <3>1, <3>2, <3>11
            <4> QED BY <1>2, <4>1 DEF Less
        <3>12. ASSUME NEW k \in 1..n, m <= k PROVE r.start <= s[k].start
            <4>1. r.start <= s[m].start
                BY <1>2, <3>1, <3>2 DEF Less
            <4>2. m = k \/ m < k
                BY <3>2, <3>12
            <4> QED BY <1>2, <1>3, <3>2, <4>1, <4>2
        <3>13. Place(m)
            BY <3>11, <3>12
        <3>14. m \in 1..(n + 1)
            BY <1>1, <3>2
        <3> HIDE DEF Shape, Place
        <3> QED BY <3>10, <3>13, <3>14
    <2> QED BY <2>1, <2>2
<1> HIDE DEF t, I
<1>5. ASSUME NEW i \in 1..(n + 1), NEW j \in 1..(n + 1), i < j PROVE t[i].start <= t[j].start
    <2>1. \A k \in 1..(n + 1) : \/ k < m /\ k \in 1..n /\ t[k] = s[k]
                                \/ k = m /\ t[k] = r
                                \/ k > m /\ k - 1 \in 1..n /\ m <= k - 1 /\ t[k] = s[k - 1]
        <3> TAKE k \in 1..(n + 1)
        <3>1. k > m => k - 1 \in 1..n /\ m <= k - 1 /\ (k - 1) + 1 = k
            BY <1>1
        <3>2. k < m => k \in 1..n
            BY <1>1
        <3>3. k < m \/ k = m \/ k > m
            BY <1>1
        <3>4. k < m => t[k] = s[k]
            BY <1>4, <3>2
        <3>5. k > m => t[k] = s[k - 1]
            BY <1>4, <3>1
        <3> QED BY <1>4, <3>1, <3>2, <3>3, <3>4, <3>5
    <2>2. CASE i < m /\ j < m
        <3>1. i \in 1..n /\ j \in 1..n /\ t[i] = s[i] /\ t[j] = s[j]
            BY <2>1, <2>2
        <3>2. s[i].start < s[j].start /\ s[i].start \in Nat /\ s[j].start \in Nat
            BY <1>2, <1>3, <1>5, <3>1
        <3> QED BY <3>1, <3>2
    <2>3. CASE i < m /\ j = m
        <3>1. i \in 1..n /\ t[i] = s[i] /\ t[j] = r
            BY <2>1, <2>3
        <3> QED BY <1>4, <2>3, <3>1
    <2>4. CASE i < m /\ j > m
        <3>1. i \in 1..n /\ j - 1 \in 1..n /\ t[i] = s[i] /\ t[j] = s[j - 1] /\ m <= j - 1
            BY <2>1, <2>4
        <3>2. s[i].start <= r.start /\ r.start <= s[j - 1].start
            BY <1>4, <2>4, <3>1
        <3>3. s[i].start \in Nat /\ r.start \in Nat /\ s[j - 1].start \in Nat
            BY <1>2, <3>1
        <3>4. s[i].start <= s[j - 1].start
            BY <3>2, <3>3
        <3> QED BY <3>1, <3>4
    <2>5. CASE i = m /\ j > m
        <3>1. j - 1 \in 1..n /\ t[i] = r /\ t[j] = s[j - 1] /\ m <= j - 1
            BY <2>1, <2>5
        <3> QED BY <1>4, <3>1
    <2>6. CASE i > m /\ j > m
        <3>1. i - 1 \in 1..n /\ j - 1 \in 1..n /\ t[i] = s[i - 1] /\ t[j] = s[j - 1] /\ i - 1 < j - 1
            BY <1>5, <2>1, <2>6
        <3>2. s[i - 1].start < s[j - 1].start /\ s[i - 1].start \in Nat /\ s[j - 1].start \in Nat
            BY <1>2, <1>3, <3>1
        <3> QED BY <3>1, <3>2
    <2> QED BY <1>5, <2>2, <2>3, <2>4, <2>5, <2>6
<1>6. ASSUME NEW x PROVE InSome(t, x) <=> InSome(s, x) \/ x \in Points(r)
    <2>1. ASSUME NEW k \in 1..(n + 1), x \in Points(t[k]) PROVE InSome(s, x) \/ x \in Points(r)
        <3>1. k < m => k \in 1..n /\ t[k] = s[k]
            BY <1>1, <1>4
        <3>2. k > m => k - 1 \in 1..n /\ t[k] = s[k - 1]
            <4>1. k > m => k - 1 \in 1..n /\ m <= k - 1 /\ (k - 1) + 1 = k
                BY <1>1
            <4> QED BY <1>4, <4>1
        <3> QED BY <1>4, <2>1, <3>1, <3>2 DEF InSome
    <2>2. ASSUME NEW k \in 1..n, x \in Points(s[k]) PROVE InSome(t, x)
        <3>1. k < m => t[k] = s[k] /\ k \in 1..(n + 1)
            BY <1>1, <1>4
        <3>2. k >= m => t[k + 1] = s[k] /\ k + 1 \in 1..(n + 1)
            BY <1>1, <1>4
        <3> QED BY <1>1, <1>4, <2>2, <3>1, <3>2 DEF InSome
    <2>3. x \in Points(r) => InSome(t, x)
        BY <1>1, <1>4 DEF InSome
    <2> HIDE DEF n
    <2> QED BY <1>4, <2>1, <2>2, <2>3 DEF InSome, n
<1> QED BY <1>4, <1>5, <1>6 DEF t

LEMMA MaxOfTwo ==
    ASSUME NEW a \in Int, NEW b \in Int
    PROVE  Max({a, b}) = IF a >= b THEN a ELSE b
<1>1. \E x \in {a, b} : \A y \in {a, b} : x >= y
    OBVIOUS
<1>2. Max({a, b}) \in {a, b} /\ \A y \in {a, b} : Max({a, b}) >= y
    BY <1>1 DEF Max
<1> QED BY <1>2

\* A range that starts behind the end of the vector.
LEMMA AppendKeeps ==
    ASSUME NEW kept, Coalesced(kept), NEW c \in Spans,
           \A i \in 1..Len(kept) : End(kept[i]) < c.start
    PROVE  LET m == Append(kept, c)
           IN  /\ Coalesced(m) /\ m # <<>> /\ Last(m) = c
               /\ \A x : InSome(m, x) <=> InSome(kept, x) \/ x \in Points(c)
               /\ \A i \in 1..Len(m) : m[i] = c \/ \E j \in 1..Len(kept) : m[i] = kept[j]
<1> DEFINE m == Append(kept, c)
           n == Len(kept)
<1>1. kept \in Seq(Spans) /\ n \in Nat /\ \A i, j \in 1..n : i < j => End(kept[i]) < kept[j].start
    BY DEF Coalesced
<1>2. /\ m \in Seq(Spans) /\ Len(m) = n + 1 /\ m[n + 1] = c /\ n + 1 \in 1..(n + 1)
      /\ \A k \in 1..n : m[k] = kept[k] /\ k \in 1..(n + 1)
    BY <1>1
<1> HIDE DEF m
<1>3. ASSUME NEW i \in 1..(n + 1), NEW j \in 1..(n + 1), i < j PROVE End(m[i]) < m[j].start
    <2>1. i \in 1..n /\ m[i] = kept[i]
        BY <1>1, <1>2, <1>3
    <2>2. j = n + 1 \/ j \in 1..n
        BY <1>1
    <2> QED BY <1>1, <1>2, <1>3, <2>1, <2>2
<1>4. ASSUME NEW x PROVE InSome(m, x) <=> InSome(kept, x) \/ x \in Points(c)
    <2>1. ASSUME NEW k \in 1..(n + 1), x \in Points(m[k]) PROVE InSome(kept, x) \/ x \in Points(c)
        <3>1. k = n + 1 \/ k \in 1..n
            BY <1>1
        <3> QED BY <1>2, <2>1, <3>1 DEF InSome
    <2>2. ASSUME NEW k \in 1..n, x \in Points(kept[k]) PROVE InSome(m, x)
        BY <1>2, <2>2 DEF InSome
    <2>3. x \in Points(c) => InSome(m, x)
        BY <1>2 DEF InSome
    <2> QED BY <1>2, <2>1, <2>2, <2>3 DEF InSome
<1>5. Last(m) = c /\ m # <<>>
    BY <1>1, <1>2 DEF Last
<1>6. \A i \in 1..(n + 1) : m[i] = c \/ \E j \in 1..n : m[i] = kept[j]
    <2> TAKE i \in 1..(n + 1)
    <2>1. i = n + 1 \/ i \in 1..n
        BY <1>1
    <2> QED BY <1>2, <2>1
<1> QED BY <1>2, <1>3, <1>4, <1>5, <1>6 DEF Coalesced, m

\* One iteration of the coalescing loop.
LEMMA MergeKeeps ==
    ASSUME NEW kept, Coalesced(kept), NEW curr \in Spans,
           kept # <<>> => Last(kept).start <= curr.start
    PROVE  LET m == Merge(kept, curr)
           IN  /\ Coalesced(m) /\ m # <<>> /\ Last(m).start <= curr.start
               /\ \A x : InSome(m, x) <=> InSome(kept, x) \/ x \in Points(curr)
<1> DEFINE m == Merge(kept, curr)
           n == Len(kept)
           last == kept[n]
<1>1. /\ kept \in Seq(Spans) /\ n \in Nat /\ \A k \in 1..n : kept[k] \in Spans
      /\ kept # <<>> => n \in 1..n
    BY DEF Coalesced
<1>2. \A i, j \in 1..n : i < j => End(kept[i]) < kept[j].start
    BY DEF Coalesced
<1>3. /\ curr.start \in Nat /\ curr.size \in Nat /\ curr.size > 0
      /\ End(curr) = curr.start + curr.size /\ End(curr) <= MaxAddr + 1
    BY SpanType
<1>4. kept # <<>> => /\ last.start \in Nat /\ last.size \in Nat /\ last.size > 0
                     /\ End(last) = last.start + last.size /\ End(last) <= MaxAddr + 1
                     /\ last = [start |-> last.start, size |-> last.size]
                     /\ last.start <= curr.start
    BY <1>1, SpanType DEF Last
<1>5. CASE kept # <<>> /\ curr.start - last.start <= last.size
    <2> DEFINE size == Max({last.size, End(curr) - last.start})
               new == [start |-> last.start, size |-> size]
    <2>1. size = IF last.size >= End(curr) - last.start THEN last.size ELSE End(curr) - last.start
        <3>1. last.size \in Int /\ End(curr) - last.start \in Int
            BY <1>3, <1>4, <1>5
        <3> HIDE DEF last
        <3> QED BY <3>1, MaxOfTwo
    <2>2. m = [kept EXCEPT ![n] = new]
        <3>1. m = [kept EXCEPT ![n].size = size]
            BY <1>5 DEF Merge, Last
        <3>2. [last EXCEPT !.size = size] = new
            <4> HIDE DEF last, size
            <4> QED BY <1>4, <1>5
        <3> QED BY <3>1, <3>2
    <2> HIDE DEF size
    <2>3. size \in Nat /\ size > 0 /\ last.start + size <= MaxAddr + 1
        BY <1>3, <1>4, <1>5, <2>1, RangesAssumption
    <2>4. new \in Spans /\ End(new) = last.start + size
        BY <1>4, <1>5, <2>3, MakeSpan DEF End
    <2> HIDE DEF m
    <2>5. m \in Seq(Spans) /\ Len(m) = n /\ n \in 1..n /\ m[n] = new /\ \A k \in 1..n : k # n => m[k] = kept[k]
        <3> HIDE DEF new
        <3> QED BY <1>1, <1>5, <2>2, <2>4
    <2>6. ASSUME NEW i \in 1..n, NEW j \in 1..n, i < j PROVE End(m[i]) < m[j].start
        <3>1. i # n /\ m[i] = kept[i] /\ m[j].start = kept[j].start
            BY <1>1, <2>5, <2>6
        <3> QED BY <1>2, <2>6, <3>1
    <2>7. \A x : x \in Points(new) <=> x \in Points(last) \/ x \in Points(curr)
        <3> TAKE x
        <3>1. x \in Points(new) <=> x \in Int /\ last.start <= x /\ x < last.start + size
            BY <2>4, InPoints
        <3>2. x \in Points(last) <=> x \in Int /\ last.start <= x /\ x < last.start + last.size
            BY <1>1, <1>4, <1>5, InPoints
        <3>3. x \in Points(curr) <=> x \in Int /\ curr.start <= x /\ x < curr.start + curr.size
            BY <1>3, InPoints
        <3> HIDE DEF last
        <3> QED BY <1>3, <1>4, <1>5, <2>1, <2>3, <3>1, <3>2, <3>3
    <2>8. ASSUME NEW x PROVE InSome(m, x) <=> InSome(kept, x) \/ x \in Points(curr)
        <3>1. ASSUME NEW k \in 1..n, x \in Points(m[k]) PROVE InSome(kept, x) \/ x \in Points(curr)
            BY <2>5, <2>7, <3>1 DEF InSome
        <3>2. ASSUME NEW k \in 1..n, x \in Points(kept[k]) PROVE InSome(m, x)
            BY <2>5, <2>7, <3>2 DEF InSome
        <3>3. x \in Points(curr) => InSome(m, x)
            BY <2>5, <2>7 DEF InSome
        <3> QED BY <2>5, <3>1, <3>2, <3>3 DEF InSome
    <2> QED BY <1>4, <1>5, <2>5, <2>6, <2>8 DEF Coalesced, Last, m
<1>6. CASE ~(kept # <<>> /\ curr.start - last.start <= last.size)
    <2>1. m = Append(kept, curr)
        BY <1>6 DEF Merge, Last
    <2>2. ASSUME NEW i \in 1..n PROVE End(kept[i]) < curr.start
        <3>1. kept # <<>> /\ n \in 1..n /\ kept[i] \in Spans
            BY <1>1
        <3>2. End(last) < curr.start
            <4> HIDE DEF last
            <4> QED BY <1>3, <1>4, <1>6, <3>1
        <3>3. i = n \/ i < n
            BY <1>1
        <3>4. End(kept[i]) \in Nat
            BY <3>1, SpanType
        <3>5. i < n => End(kept[i]) < last.start
            BY <1>2, <3>1
        <3> QED BY <1>3, <1>4, <3>1, <3>2, <3>3, <3>4, <3>5
    <2>3. /\ Coalesced(m) /\ m # <<>> /\ Last(m) = curr
          /\ \A x : InSome(m, x) <=> InSome(kept, x) \/ x \in Points(curr)
        BY <2>1, <2>2, AppendKeeps
    <2> QED BY <1>3, <2>3
<1> QED BY <1>5, <1>6

\* The coalescing loop has dealt with the first k of t.
Merged(t, k, kept) ==
    /\ Coalesced(kept)
    /\ k > 0 => kept # <<>> /\ Last(kept).start <= t[k].start
    /\ k = 0 => kept = <<>>
    /\ \A x : InSome(kept, x) <=> \E i \in 1..k : x \in Points(t[i])

\* insert keeps the vector sorted and coalesced and adds exactly its argument.
LEMMA InsertKeeps ==
    ASSUME NEW s, Coalesced(s), NEW r \in Spans
    PROVE  /\ Coalesced(insert(s, r))
           /\ \A x : InSome(insert(s, r), x) <=> InSome(s, x) \/ x \in Points(r)
<1> DEFINE t == InsertSorted(s, r)
           n == Len(t)
<1>1. /\ t \in Seq(Spans)
      /\ \A i, j \in 1..n : i < j => t[i].start <= t[j].start
      /\ \A x : InSome(t, x) <=> InSome(s, x) \/ x \in Points(r)
    BY SortedInsertion
<1> HIDE DEF t
<1>2. n \in Nat /\ DOMAIN t = 1..n /\ \A k \in 1..n : t[k] \in Spans
    BY <1>1
<1>3. PICK K : Iterations("insert", r, t, n, K) /\ insert(s, r) = K[n]
    <2>1. PICK K : Iterations("insert", r, t, n, K) /\ FoldValue("insert", r, t) = K[n]
        BY <1>2, FoldIterates
    <2> QED BY <2>1, InsertIsFold DEF t
<1> DEFINE S == {k \in Nat : k <= n => Merged(t, k, K[k])}
<1>4. 0 \in S
    <2>1. K[0] = <<>>
        BY <1>3 DEF Iterations
    <2>2. Coalesced(<<>>)
        BY DEF Coalesced
    <2> QED BY <2>1, <2>2 DEF Merged, InSome
<1>5. ASSUME NEW k \in Nat, k \in S PROVE k + 1 \in S
    <2> SUFFICES ASSUME k + 1 <= n PROVE Merged(t, k + 1, K[k + 1])
        OBVIOUS
    <2>1. k + 1 \in 1..n /\ (k + 1) - 1 = k /\ t[k + 1] \in Spans /\ (k > 0 => k \in 1..n /\ k < k + 1)
        BY <1>2
    <2>2. Merged(t, k, K[k])
        BY <1>2, <1>5, <2>1
    <2>3. K[k + 1] = Merge(K[k], t[k + 1])
        BY <1>3, <2>1 DEF Iterations, Iterate
    <2>4. K[k] # <<>> => Last(K[k]).start <= t[k + 1].start
        <3> SUFFICES ASSUME K[k] # <<>> PROVE Last(K[k]).start <= t[k + 1].start
            OBVIOUS
        <3>1. k > 0
            BY <2>2 DEF Merged
        <3>2. Last(K[k]).start <= t[k].start /\ t[k].start <= t[k + 1].start
            BY <1>1, <2>1, <2>2, <3>1 DEF Merged
        <3>3. Last(K[k]) \in Spans /\ t[k] \in Spans
            BY <1>2, <2>1, <2>2, <3>1 DEF Merged, Coalesced, Last
        <3>4. Last(K[k]).start \in Nat /\ t[k].start \in Nat /\ t[k + 1].start \in Nat
            BY <2>1, <3>3, SpanType
        <3> QED BY <3>2, <3>4
    <2>5. /\ Coalesced(K[k + 1]) /\ K[k + 1] # <<>> /\ Last(K[k + 1]).start <= t[k + 1].start
          /\ \A x : InSome(K[k + 1], x) <=> InSome(K[k], x) \/ x \in Points(t[k + 1])
        BY <2>1, <2>2, <2>3, <2>4, MergeKeeps DEF Merged
    <2>6. \A x : InSome(K[k + 1], x) <=> \E i \in 1..(k + 1) : x \in Points(t[i])
        <3> TAKE x
        <3>1. InSome(K[k], x) <=> \E i \in 1..k : x \in Points(t[i])
            BY <2>2 DEF Merged
        <3>2. (\E i \in 1..(k + 1) : x \in Points(t[i])) <=> (\E i \in 1..k : x \in Points(t[i])) \/ x \in Points(t[k + 1])
            OBVIOUS
        <3> QED BY <2>5, <3>1, <3>2
    <2> QED BY <2>5, <2>6 DEF Merged
<1>6. n \in S
    <2> HIDE DEF S
    <2>1. Nat \subseteq S
        BY <1>4, <1>5, SetInduction
    <2> QED BY <1>2, <2>1
<1>7. Merged(t, n, K[n])
    BY <1>2, <1>6
<1> QED BY <1>1, <1>3, <1>7 DEF Merged, InSome

-----------------------------------------------------------------------------
(* remove and find.                                                        *)

\* What is kept of a range c: spans of it that avoid r, the one before r first.
LEMMA PieceSpans ==
    ASSUME NEW c \in Spans, NEW r, r.start \in Nat, r.size \in Nat, r.size > 0
    PROVE  /\ LeftPiece(c, r) # <<>> =>
                  /\ r.start > c.start /\ r.start < End(c)
                  /\ LeftPiece(c, r) = <<NewRange(c.start, r.start - c.start)>>
                  /\ NewRange(c.start, r.start - c.start) \in Spans
           /\ RightPiece(c, r) # <<>> =>
                  /\ End(r) > c.start /\ End(r) < End(c)
                  /\ RightPiece(c, r) = <<NewRange(End(r), End(c) - End(r))>>
                  /\ NewRange(End(r), End(c) - End(r)) \in Spans
<1>1. /\ c.start \in Nat /\ c.size \in Nat /\ c.size > 0 /\ End(c) = c.start + c.size /\ End(c) <= MaxAddr + 1
      /\ MaxAddr \in Nat /\ End(r) = r.start + r.size
    BY SpanType, RangesAssumption DEF End
<1>2. ASSUME LeftPiece(c, r) # <<>>
      PROVE  /\ r.start > c.start /\ r.start < End(c)
             /\ LeftPiece(c, r) = <<NewRange(c.start, r.start - c.start)>>
             /\ NewRange(c.start, r.start - c.start) \in Spans
    <2>1. IncludesPoint(c, r.start) /\ r.start > c.start /\ LeftPiece(c, r) = <<NewRange(c.start, r.start - c.start)>>
        BY <1>2 DEF LeftPiece
    <2>2. r.start < End(c) /\ r.start - c.start \in Nat /\ r.start - c.start > 0 /\ c.start + (r.start - c.start) <= MaxAddr + 1
        BY <1>1, <2>1 DEF IncludesPoint
    <2> QED BY <1>1, <2>1, <2>2, MakeSpan DEF NewRange
<1>3. ASSUME RightPiece(c, r) # <<>>
      PROVE  /\ End(r) > c.start /\ End(r) < End(c)
             /\ RightPiece(c, r) = <<NewRange(End(r), End(c) - End(r))>>
             /\ NewRange(End(r), End(c) - End(r)) \in Spans
    <2>1. IncludesPoint(c, End(r) - 1) /\ End(c) > End(r) /\ RightPiece(c, r) = <<NewRange(End(r), End(c) - End(r))>>
        BY <1>3 DEF RightPiece
    <2>2. End(r) > c.start /\ End(r) \in Nat /\ End(c) - End(r) \in Nat /\ End(c) - End(r) > 0
          /\ End(r) + (End(c) - End(r)) <= MaxAddr + 1
        BY <1>1, <2>1 DEF IncludesPoint
    <2> QED BY <2>1, <2>2, MakeSpan DEF NewRange
<1> QED BY <1>2, <1>3

\* The loop of remove has dealt with the first k of s.
Removed(s, r, k, kept) ==
    /\ Coalesced(kept)
    /\ \A i \in 1..Len(kept) : k > 0 /\ End(kept[i]) <= End(s[k])
    /\ \A x : InSome(kept, x) => x \notin Points(r) /\ \E i \in 1..k : x \in Points(s[i])

\* One iteration of it: what is kept so far ends before the next range c.
LEMMA KeepPieces ==
    ASSUME NEW kept, Coalesced(kept), NEW c \in Spans, NEW r, r.start \in Nat, r.size \in Nat, r.size > 0,
           \A i \in 1..Len(kept) : End(kept[i]) < c.start
    PROVE  LET m == kept \o LeftPiece(c, r) \o RightPiece(c, r)
           IN  /\ Coalesced(m)
               /\ \A i \in 1..Len(m) : End(m[i]) <= End(c)
               /\ \A x : InSome(m, x) => InSome(kept, x) \/ (x \in Points(c) /\ x \notin Points(r))
<1> DEFINE L == NewRange(c.start, r.start - c.start)
           R == NewRange(End(r), End(c) - End(r))
           one == kept \o LeftPiece(c, r)
           m == one \o RightPiece(c, r)
<1>1. /\ c.start \in Nat /\ c.size \in Nat /\ c.size > 0 /\ End(c) = c.start + c.size
      /\ End(r) = r.start + r.size /\ r.start < End(r) /\ kept \in Seq(Spans) /\ Len(kept) \in Nat
    BY SpanType DEF End, Coalesced
<1>2. L.start = c.start /\ End(L) = r.start /\ R.start = End(r) /\ End(R) = End(c)
    BY <1>1 DEF NewRange, End
<1>3. /\ LeftPiece(c, r) # <<>> => /\ r.start > c.start /\ r.start < End(c)
                                   /\ LeftPiece(c, r) = <<L>> /\ L \in Spans
      /\ RightPiece(c, r) # <<>> => /\ End(r) > c.start /\ End(r) < End(c)
                                    /\ RightPiece(c, r) = <<R>> /\ R \in Spans
    BY PieceSpans
<1> HIDE DEF L, R
<1>4. ASSUME NEW i \in 1..Len(kept) PROVE kept[i] \in Spans /\ End(kept[i]) \in Nat /\ End(kept[i]) < c.start
    <2>1. kept[i] \in Spans
        BY <1>1
    <2> QED BY <2>1, SpanType
<1>5. \A x : x \in Points(r) <=> x \in Int /\ r.start <= x /\ x < End(r)
    BY <1>1 DEF Points
<1>6. /\ Coalesced(one)
      /\ \A i \in 1..Len(one) : End(one[i]) \in Nat /\ (End(one[i]) < c.start \/ (End(one[i]) = r.start /\ r.start < End(c)))
      /\ \A x : InSome(one, x) => InSome(kept, x) \/ (x \in Points(c) /\ x \notin Points(r))
    <2>1. CASE LeftPiece(c, r) = <<>>
        <3>1. one = kept
            BY <1>1, <2>1
        <3> QED BY <1>4, <3>1
    <2>2. CASE LeftPiece(c, r) # <<>>
        <3>1. one = Append(kept, L)
            BY <1>1, <1>3, <2>2, AppendIsConcat
        <3>2. /\ Coalesced(one)
              /\ \A x : InSome(one, x) <=> InSome(kept, x) \/ x \in Points(L)
              /\ \A i \in 1..Len(one) : one[i] = L \/ \E j \in 1..Len(kept) : one[i] = kept[j]
            BY <1>2, <1>3, <1>4, <2>2, <3>1, AppendKeeps
        <3>3. \A x : x \in Points(L) => x \in Points(c) /\ x \notin Points(r)
            <4> TAKE x
            <4>1. x \in Points(L) <=> x \in Int /\ c.start <= x /\ x < r.start
                BY <1>2, <1>3, <2>2, InPoints
            <4>2. x \in Points(c) <=> x \in Int /\ c.start <= x /\ x < End(c)
                BY InPoints
            <4> QED BY <1>1, <1>3, <1>5, <2>2, <4>1, <4>2
        <3> QED BY <1>1, <1>2, <1>3, <1>4, <2>2, <3>2, <3>3
    <2> QED BY <2>1, <2>2
<1> HIDE DEF one
<1>7. one \in Seq(Spans) /\ Len(one) \in Nat
    BY <1>6 DEF Coalesced
<1>8. CASE RightPiece(c, r) = <<>>
    <2>1. m = one
        BY <1>7, <1>8
    <2>2. \A i \in 1..Len(one) : End(one[i]) <= End(c)
        BY <1>1, <1>6
    <2> QED BY <1>6, <2>1, <2>2 DEF one
<1>9. CASE RightPiece(c, r) # <<>>
    <2>1. m = Append(one, R)
        BY <1>3, <1>7, <1>9, AppendIsConcat
    <2>2. \A i \in 1..Len(one) : End(one[i]) < R.start /\ End(one[i]) <= End(c)
        BY <1>1, <1>2, <1>3, <1>6, <1>9
    <2>3. /\ Coalesced(m)
          /\ \A x : InSome(m, x) <=> InSome(one, x) \/ x \in Points(R)
          /\ \A i \in 1..Len(m) : m[i] = R \/ \E j \in 1..Len(one) : m[i] = one[j]
        BY <1>3, <1>6, <1>9, <2>1, <2>2, AppendKeeps
    <2>4. \A x : x \in Points(R) => x \in Points(c) /\ x \notin Points(r)
        <3> TAKE x
        <3>1. x \in Points(R) <=> x \in Int /\ End(r) <= x /\ x < End(c)
            BY <1>2, <1>3, <1>9, InPoints
        <3>2. x \in Points(c) <=> x \in Int /\ c.start <= x /\ x < End(c)
            BY InPoints
        <3> QED BY <1>1, <1>3, <1>5, <1>9, <3>1, <3>2
    <2>5. \A i \in 1..Len(m) : End(m[i]) <= End(c)
        <3> TAKE i \in 1..Len(m)
        <3>1. CASE m[i] = R
            BY <1>1, <1>2, <3>1
        <3>2. CASE \E j \in 1..Len(one) : m[i] = one[j]
            BY <2>2, <3>2
        <3> QED BY <2>3, <3>1, <3>2
    <2> QED BY <1>6, <2>3, <2>4, <2>5 DEF one
<1> QED BY <1>8, <1>9

\* remove keeps the vector sorted and coalesced, adds nothing and leaves nothing of its argument.
LEMMA RemoveKeeps ==
    ASSUME NEW s, Coalesced(s), NEW r, r.start \in Nat, r.size \in Nat
    PROVE  /\ Coalesced(remove(s, r))
           /\ \A x : InSome(remove(s, r), x) => InSome(s, x) /\ x \notin Points(r)
<1>1. CASE r.size = 0
    <2>1. remove(s, r) = s
        BY <1>1 DEF remove
    <2>2. Points(r) = {}
        BY <1>1 DEF Points
    <2> QED BY <2>1, <2>2
<1>2. CASE r.size > 0
    <2> DEFINE n == Len(s)
    <2>1. /\ s \in Seq(Spans) /\ n \in Nat /\ DOMAIN s = 1..n /\ \A k \in 1..n : s[k] \in Spans
          /\ \A i, j \in 1..n : i < j => End(s[i]) < s[j].start
        BY DEF Coalesced
    <2>2. PICK K : Iterations("remove", r, s, n, K) /\ remove(s, r) = K[n]
        <3>1. PICK K : Iterations("remove", r, s, n, K) /\ FoldValue("remove", r, s) = K[n]
            BY <2>1, FoldIterates
        <3>2. r.size # 0
            BY <1>2
        <3> QED BY <3>1, <3>2, RemoveIsFold
    <2> HIDE DEF n
    <2> DEFINE S == {k \in Nat : k <= n => Removed(s, r, k, K[k])}
    <2>3. 0 \in S
        <3>1. K[0] = <<>>
            BY <2>2 DEF Iterations
        <3>2. Coalesced(<<>>)
            BY DEF Coalesced
        <3> QED BY <3>1, <3>2 DEF Removed, InSome
    <2>4. ASSUME NEW k \in Nat, k \in S PROVE k + 1 \in S
        <3> SUFFICES ASSUME k + 1 <= n PROVE Removed(s, r, k + 1, K[k + 1])
            OBVIOUS
        <3> DEFINE c == s[k + 1]
        <3>1. k + 1 \in 1..n /\ (k + 1) - 1 = k /\ c \in Spans /\ (k > 0 => k \in 1..n /\ k < k + 1)
            BY <2>1
        <3>2. Removed(s, r, k, K[k])
            BY <2>1, <2>4, <3>1
        <3>3. K[k + 1] = K[k] \o LeftPiece(c, r) \o RightPiece(c, r)
            BY <2>2, <3>1 DEF Iterations, Iterate
        <3>4. ASSUME NEW i \in 1..Len(K[k]) PROVE End(K[k][i]) < c.start
            <4>1. k > 0 /\ End(K[k][i]) <= End(s[k]) /\ K[k][i] \in Spans
                BY <3>2 DEF Removed, Coalesced
            <4>2. End(s[k]) < c.start /\ s[k] \in Spans
                BY <2>1, <3>1, <4>1
            <4>3. End(K[k][i]) \in Nat /\ End(s[k]) \in Nat /\ c.start \in Nat
                BY <3>1, <4>1, <4>2, SpanType
            <4> QED BY <4>1, <4>2, <4>3
        <3>5. /\ Coalesced(K[k + 1])
              /\ \A i \in 1..Len(K[k + 1]) : End(K[k + 1][i]) <= End(c)
              /\ \A x : InSome(K[k + 1], x) => InSome(K[k], x) \/ (x \in Points(c) /\ x \notin Points(r))
            <4>1. Coalesced(K[k])
                BY <3>2 DEF Removed
            <4> DEFINE kept == K[k]
                       m == K[k + 1]
            <4>2. /\ Coalesced(kept) /\ c \in Spans /\ m = kept \o LeftPiece(c, r) \o RightPiece(c, r)
                  /\ \A i \in 1..Len(kept) : End(kept[i]) < c.start
                BY <3>1, <3>3, <3>4, <4>1
            <4> HIDE DEF c, kept, m
            <4>3. /\ Coalesced(m)
                  /\ \A i \in 1..Len(m) : End(m[i]) <= End(c)
                  /\ \A x : InSome(m, x) => InSome(kept, x) \/ (x \in Points(c) /\ x \notin Points(r))
                BY <1>2, <4>2, KeepPieces
            <4> QED BY <4>3 DEF kept, m
        <3>6. \A x : InSome(K[k + 1], x) => x \notin Points(r) /\ \E i \in 1..(k + 1) : x \in Points(s[i])
            <4> TAKE x
            <4>1. InSome(K[k], x) => x \notin Points(r) /\ \E i \in 1..k : x \in Points(s[i])
                BY <3>2 DEF Removed
            <4>2. (\E i \in 1..k : x \in Points(s[i])) \/ x \in Points(c) => \E i \in 1..(k + 1) : x \in Points(s[i])
                OBVIOUS
            <4> QED BY <3>5, <4>1, <4>2
        <3> QED BY <3>5, <3>6 DEF Removed
    <2>5. n \in S
        <3> HIDE DEF S
        <3>1. Nat \subseteq S
            BY <2>3, <2>4, SetInduction
        <3> QED BY <2>1, <3>1
    <2>6. Removed(s, r, n, K[n])
        BY <2>1, <2>5
    <2> QED BY <2>2, <2>6 DEF Removed, InSome, n
<1> QED BY <1>1, <1>2

\* A range that lies in the union of the vector's ranges lies in one of them, since there is
\* a gap behind each.
LEMMA FindIsExact ==
    ASSUME NEW s, Coalesced(s), NEW r, r.start \in Nat, r.size \in Nat
    PROVE  find(s, r) <=> \A x \in Points(r) : InSome(s, x)
<1> DEFINE n == Len(s)
<1>1. n \in Nat /\ DOMAIN s = 1..n /\ \A i, j \in 1..n : i < j => End(s[i]) < s[j].start
    BY DEF Coalesced
<1>2. ASSUME NEW i \in 1..n
      PROVE  /\ s[i] \in Spans /\ s[i].start \in Nat /\ s[i].size \in Nat /\ End(s[i]) \in Nat
             /\ End(s[i]) = s[i].start + s[i].size /\ s[i].start < End(s[i])
    <2>1. s[i] \in Spans
        BY DEF Coalesced
    <2> QED BY <2>1, SpanType
<1>3. \A x : x \in Points(r) <=> x \in Int /\ r.start <= x /\ x < r.start + r.size
    BY DEF Points
<1>4. CASE r.size = 0
    BY <1>3, <1>4 DEF find
<1>5. CASE r.size > 0
    <2>1. ASSUME NEW i \in 1..n, Includes(s[i], r), NEW x \in Points(r) PROVE InSome(s, x)
        <3>1. x \in Int /\ r.start <= x /\ x < r.start + r.size
            BY <1>3
        <3>2. s[i].start <= r.start /\ r.start - s[i].start + r.size <= s[i].size
            BY <1>5, <2>1 DEF Includes
        <3>3. s[i].start <= x /\ x < End(s[i])
            BY <1>2, <3>1, <3>2
        <3>4. x \in Points(s[i])
            BY <1>2, <3>1, <3>3, InPoints
        <3> QED BY <3>4 DEF InSome
    <2>2. ASSUME \A x \in Points(r) : InSome(s, x) PROVE \E i \in 1..n : Includes(s[i], r)
        <3>1. PICK i \in 1..n : r.start \in Points(s[i])
            <4>1. r.start \in Points(r)
                BY <1>3, <1>5
            <4> QED BY <2>2, <4>1 DEF InSome
        <3>2. s[i].start <= r.start /\ r.start < End(s[i])
            BY <1>2, <3>1, InPoints
        <3>3. r.start + r.size <= End(s[i])
            <4> SUFFICES ASSUME r.start + r.size > End(s[i]) PROVE FALSE
                BY <1>2
            <4>1. End(s[i]) \in Points(r)
                BY <1>2, <1>3, <3>2
            <4>2. PICK j \in 1..n : End(s[i]) \in Points(s[j])
                BY <2>2, <4>1 DEF InSome
            <4>3. s[j].start <= End(s[i]) /\ End(s[i]) < End(s[j])
                BY <1>2, <4>2, InPoints
            <4>4. ~(i < j)
                <5>1. i < j => End(s[i]) < s[j].start
                    BY <1>1
                <5> QED BY <1>2, <4>3, <5>1
            <4>5. ~(j < i)
                <5>1. j < i => End(s[j]) < s[i].start
                    BY <1>1
                <5> QED BY <1>2, <4>3, <5>1
            <4>6. i # j
                BY <1>2, <4>3
            <4>7. i \in Int /\ j \in Int
                BY <1>1
            <4> QED BY <4>4, <4>5, <4>6, <4>7
        <3>4. r.start - s[i].start + r.size <= s[i].size
            BY <1>2, <3>3
        <3> QED BY <3>2, <3>4 DEF Includes
    <2>3. find(s, r) <=> \E i \in 1..n : Includes(s[i], r)
        BY <1>1, <1>5 DEF find
    <2> QED BY <2>1, <2>2, <2>3
<1> QED BY <1>4, <1>5

-----------------------------------------------------------------------------
(* The state machine.                                                      *)

LEMMA CoveredIs == ASSUME Coalesced(v) PROVE \A x : x \in Covered <=> InSome(v, x)
<1>1. DOMAIN v = 1..Len(v)
    BY DEF Coalesced
<1> QED BY <1>1 DEF Covered, InSome

LEMMA ArgumentType == ASSUME NEW r \in Arguments PROVE r.start \in Nat /\ r.size \in Nat /\ (r.size > 0 => r \in Spans)
BY RangesAssumption DEF Arguments, Spans, End

LEMMA InsertStep ==
    ASSUME Coalesced(v), NEW r \in Arguments, InsertRange(r)
    PROVE  Coalesced(v') /\ \A x : InSome(v', x) <=> InSome(v, x) \/ x \in Points(r)
<1>1. r \in Spans /\ v' = insert(v, r)
    BY ArgumentType DEF InsertRange
<1> QED BY <1>1, InsertKeeps

\* The vector is always sorted, without empty, overlapping or adjacent ranges, and never
\* covers an address that the calls since the last commit do not denote.
THEOREM InvAlways == Spec => []Inv
<1>1. Init => Inv
    <2> SUFFICES ASSUME Init PROVE Inv
        OBVIOUS
    <2>1. Coalesced(v)
        BY DEF Init, Coalesced
    <2> QED BY <2>1 DEF Init, Inv, OnlyFresh, Covered
<1>2. Inv /\ [Next]_vars => Inv'
    <2> SUFFICES ASSUME Inv, [Next]_vars PROVE Inv'
        OBVIOUS
    <2>1. Coalesced(v) /\ \A x : InSome(v, x) => x \in points
        BY CoveredIs DEF Inv, OnlyFresh
    <2>2. ASSUME Coalesced(v'), \A x : InSome(v', x) => x \in points' PROVE Inv'
        <3>1. DOMAIN v' = 1..Len(v')
            BY <2>2 DEF Coalesced
        <3> QED BY <2>2, <3>1 DEF Inv, OnlyFresh, Covered, InSome, Coalesced
    <2>3. ASSUME NEW r \in Arguments, InsertRange(r) PROVE Inv'
        <3>1. Coalesced(v') /\ \A x : InSome(v', x) <=> InSome(v, x) \/ x \in Points(r)
            BY <2>1, <2>3, InsertStep
        <3>2. points' = points \cup Points(r)
            BY <2>3 DEF InsertRange
        <3> QED BY <2>1, <2>2, <3>1, <3>2
    <2>4. ASSUME NEW r \in Arguments, RemoveRange(r) PROVE Inv'
        <3>1. v' = remove(v, r) /\ points' = points \ Points(r)
            BY <2>4 DEF RemoveRange
        <3>2. Coalesced(v') /\ \A x : InSome(v', x) => InSome(v, x) /\ x \notin Points(r)
            BY <2>1, <3>1, ArgumentType, RemoveKeeps
        <3> QED BY <2>1, <2>2, <3>1, <3>2
    <2>5. CASE ClearRanges
        <3>1. v' = <<>>
            BY <2>5 DEF ClearRanges
        <3>2. Coalesced(v') /\ \A x : ~InSome(v', x)
            BY <3>1 DEF Coalesced, InSome
        <3> QED BY <2>2, <3>2
    <2>6. CASE UNCHANGED vars
        BY <2>1, <2>2, <2>6 DEF vars
    <2> QED BY <2>3, <2>4, <2>5, <2>6 DEF Next
<1> QED BY <1>1, <1>2, PTL DEF Spec

\* "Sorted, coalesced" (ranges.h), after any sequence of insert, remove and clear.
THEOREM SortedCoalescedTheorem == Spec => []SortedCoalesced
<1>1. Inv => SortedCoalesced
    <2> SUFFICES ASSUME Coalesced(v) PROVE SortedCoalesced
        BY DEF Inv
    <2>1. Len(v) \in Nat /\ DOMAIN v = 1..Len(v)
        BY DEF Coalesced
    <2>2. ASSUME NEW i \in 1..Len(v) PROVE v[i].size > 0 /\ Points(v[i]) \subseteq 0..MaxAddr
        <3>1. v[i] \in Spans
            BY DEF Coalesced
        <3> QED BY <3>1, SpanType, RangesAssumption DEF Points
    <2>3. ASSUME NEW i \in 1..(Len(v) - 1) PROVE End(v[i]) < v[i + 1].start
        <3>1. i \in 1..Len(v) /\ i + 1 \in 1..Len(v) /\ i < i + 1
            BY <2>1
        <3> QED BY <3>1 DEF Coalesced
    <2> QED BY <2>1, <2>2, <2>3 DEF SortedCoalesced
<1> QED BY <1>1, InvAlways, PTL

\* No address passes for freshly mapped that is not: undo_log_record leaves out only stores
\* into memory that the last commit did not know.
THEOREM OnlyFreshTheorem == Spec => []OnlyFresh
<1>1. Inv => OnlyFresh
    BY DEF Inv
<1> QED BY <1>1, InvAlways, PTL

\* find compares with one range of the vector at a time and yet answers for the whole set,
\* because adjacent ranges have been coalesced.
THEOREM FindExactTheorem == Spec => []FindExact
<1>1. Inv => FindExact
    <2> SUFFICES ASSUME Inv, NEW r \in Arguments PROVE find(v, r) <=> Points(r) \subseteq Covered
        BY DEF FindExact
    <2>1. find(v, r) <=> \A x \in Points(r) : InSome(v, x)
        BY ArgumentType, FindIsExact DEF Inv
    <2> QED BY <2>1, CoveredIs DEF Inv
<1> QED BY <1>1, InvAlways, PTL

\* The DR_ASSERTs of remove hold for every range that may be removed next.
THEOREM RemoveAssertsHoldTheorem == Spec => []RemoveAssertsHold
<1>1. Inv => RemoveAssertsHold
    <2> SUFFICES ASSUME Inv, NEW r \in Arguments, NEW i \in DOMAIN v, r.size > 0,
                        NEW piece \in {LeftPiece(v[i], r), RightPiece(v[i], r)}, piece # <<>>
                 PROVE  Includes(v[i], piece[1]) /\ ~Intersects(piece[1], r)
        BY DEF RemoveAssertsHold
    <2> DEFINE c == v[i]
    <2>1. c \in Spans /\ r.start \in Nat /\ r.size \in Nat
        BY ArgumentType DEF Inv, Coalesced
    <2> HIDE DEF c
    <2>2. /\ c.start \in Nat /\ c.size \in Nat /\ c.size > 0 /\ End(c) = c.start + c.size /\ End(r) = r.start + r.size
        BY <2>1, SpanType DEF End
    <2>3. CASE piece = LeftPiece(c, r)
        <3>1. r.start > c.start /\ r.start < End(c) /\ piece[1] = NewRange(c.start, r.start - c.start)
            BY <2>1, <2>3, PieceSpans
        <3> QED BY <2>1, <2>2, <3>1 DEF Includes, Intersects, IncludesPoint, NewRange, c
    <2>4. CASE piece = RightPiece(c, r)
        <3>1. End(r) > c.start /\ End(r) < End(c) /\ piece[1] = NewRange(End(r), End(c) - End(r))
            BY <2>1, <2>4, PieceSpans
        <3> QED BY <2>1, <2>2, <3>1 DEF Includes, Intersects, IncludesPoint, NewRange, c
    <2> QED BY <2>3, <2>4 DEF c
<1> QED BY <1>1, InvAlways, PTL

\* insert adds exactly its argument, however it overlaps, touches or encloses what is there.
THEOREM InsertExactTheorem == Spec => InsertExact
<1>1. Inv /\ Inv' /\ [Next]_vars => [\A r \in Arguments : InsertRange(r) => Covered' = Covered \cup Points(r)]_vars
    <2> SUFFICES ASSUME Inv, Inv', NEW r \in Arguments, InsertRange(r) PROVE Covered' = Covered \cup Points(r)
        OBVIOUS
    <2>1. \A x : InSome(v', x) <=> InSome(v, x) \/ x \in Points(r)
        BY InsertStep DEF Inv
    <2>2. \A x : x \in Covered <=> InSome(v, x)
        BY CoveredIs DEF Inv
    <2>3. \A x : x \in Covered' <=> InSome(v', x)
        <3>1. DOMAIN v' = 1..Len(v')
            BY DEF Inv, Coalesced
        <3> QED BY <3>1 DEF Covered, InSome
    <2> QED BY <2>1, <2>2, <2>3
<1> QED BY <1>1, InvAlways, PTL DEF Spec, InsertExact
=============================================================================
