------------------------- MODULE LoggedAddrsProofs -------------------------
(***************************************************************************)
(* Deduplication never loses an undo entry, and saves no block twice while *)
(* the table has space, proved for a hash table of any size and any        *)
(* writes.                                                                 *)
(*                                                                         *)
(* That no entry is lost holds because a slot of the table names a block   *)
(* only if the block has an entry.  It does not matter for that which      *)
(* slots are probed, nor whether the probes find every slot: they only     *)
(* have to be slots.                                                       *)
(*                                                                         *)
(* That none is saved twice takes number theory: once perturb is zero, the *)
(* probes follow i = (5 * i + 1) % HashSize, and this visits every slot    *)
(* because HashSize is a power of two.  After n steps from i one is at     *)
(* i + g[n] * (4 * i + 1), where g[n] = 1 + 5 + ... + 5 ^ (n - 1); a power *)
(* of two that divides g[n] divides n, by g[2 * k] = 2 * g[k] * (2 * g[k]  *)
(* + 1), so that the slots of HashSize steps differ.                       *)
(***************************************************************************)
EXTENDS LoggedAddrs, FiniteSetTheorems, FunctionTheorems, WellFoundedInduction, TLAPS

-----------------------------------------------------------------------------
(* Induction.  A property is a set here: the provers cannot instantiate an *)
(* operator.                                                               *)

LEMMA LeastElement ==
    ASSUME NEW T \in SUBSET Nat, T # {}
    PROVE  \E x \in T : \A y \in T : x <= y
<1> DEFINE R == {ss \in Nat \X Nat : ss[1] < ss[2]}
<1>1. IsWellFoundedOn(R, Nat)
    BY NatLessThanWellFounded DEF OpToRel
<1>2. PICK x \in T : \A y \in T : ~(<<y, x>> \in R)
    <2> HIDE DEF R
    <2> QED BY <1>1, WFMin
<1>3. ASSUME NEW y \in T PROVE x <= y
    <2>1. <<y, x>> \in Nat \X Nat
        OBVIOUS
    <2>2. ~(y < x)
        BY <1>2, <2>1
    <2> QED BY <2>2
<1> QED BY <1>3

LEMMA SetInduction ==
    ASSUME NEW S, 0 \in S, \A n \in Nat : n \in S => n + 1 \in S
    PROVE  Nat \subseteq S
<1> DEFINE T == Nat \ S
<1> SUFFICES ASSUME T # {} PROVE FALSE
    OBVIOUS
<1>1. PICK x \in T : \A y \in T : x <= y
    BY LeastElement
<1>2. x \in Nat /\ x # 0
    OBVIOUS
<1>3. x - 1 \in T
    BY <1>2
<1> QED BY <1>1, <1>2, <1>3

LEMMA StrongInduction ==
    ASSUME NEW S, \A n \in Nat : (\A m \in Nat : m < n => m \in S) => n \in S
    PROVE  Nat \subseteq S
<1> DEFINE T == {n \in Nat : \A m \in Nat : m < n => m \in S}
<1>1. 0 \in T
    OBVIOUS
<1>2. ASSUME NEW n \in Nat, n \in T PROVE n + 1 \in T
    <2>1. n \in S
        BY <1>2
    <2>2. ASSUME NEW m \in Nat, m < n + 1 PROVE m \in S
        <3>1. m < n \/ m = n
            BY <2>2
        <3> QED BY <1>2, <2>1, <3>1
    <2> QED BY <2>2
<1> HIDE DEF T
<1>3. Nat \subseteq T
    BY <1>1, <1>2, SetInduction
<1> QED BY <1>3 DEF T

-----------------------------------------------------------------------------
(* Powers of two, and a generator of period N modulo a power of two N.     *)

\* d divides a.
Divides(d, a) == \E q \in Int : a = d * q

LEMMA ModZero ==
    ASSUME NEW n \in Nat, NEW d \in Nat \ {0}
    PROVE  n % d = 0 <=> \E q \in Nat : n = d * q
<1>1. n \div d \in Nat /\ n % d \in 0..(d - 1)
    OBVIOUS
<1>2. ASSUME n % d = 0 PROVE \E q \in Nat : n = d * q
    <2>1. n = d * (n \div d)
        BY <1>2
    <2> QED BY <1>1, <2>1
<1>3. ASSUME NEW q \in Nat, n = d * q PROVE n % d = 0
    BY <1>3
<1> QED BY <1>2, <1>3

LEMMA EvenOdd ==
    ASSUME NEW x \in Nat
    PROVE  \E y \in Nat : x = 2 * y \/ x = 2 * y + 1
<1>1. x \div 2 \in Nat /\ (x = 2 * (x \div 2) \/ x = 2 * (x \div 2) + 1)
    OBVIOUS
<1> QED BY <1>1

LEMMA Half ==
    ASSUME NEW n \in Nat, n > 1, PowerOfTwo(n)
    PROVE  \E m \in Nat \ {0} : n = 2 * m /\ m < n /\ PowerOfTwo(m)
<1>1. n % 2 = 0
    <2>1. n % n = 0
        BY ModZero
    <2> QED BY <2>1 DEF PowerOfTwo
<1>2. PICK m \in Nat : n = 2 * m
    BY <1>1
<1>3. m \in Nat \ {0} /\ m < n
    BY <1>2
<1>4. ASSUME NEW d \in 2..m, m % d = 0 PROVE d % 2 = 0
    <2>1. d \in Nat \ {0} /\ d \in 2..n
        BY <1>2
    <2>2. PICK q \in Nat : m = d * q
        BY <1>4, <2>1, ModZero
    <2>3. n = d * (2 * q) /\ 2 * q \in Nat
        BY <1>2, <2>1, <2>2
    <2>4. n % d = 0
        BY <2>1, <2>3, ModZero
    <2> QED BY <2>1, <2>4 DEF PowerOfTwo
<1> QED BY <1>2, <1>3, <1>4 DEF PowerOfTwo

\* An odd factor can be cancelled.
LEMMA OddCancel ==
    ASSUME NEW n \in Nat \ {0}, PowerOfTwo(n), NEW a \in Nat, NEW c \in Nat, Divides(n, a * (2 * c + 1))
    PROVE  Divides(n, a)
<1> DEFINE S == {k \in Nat : k # 0 /\ PowerOfTwo(k) =>
                    \A x \in Nat : Divides(k, x * (2 * c + 1)) => Divides(k, x)}
<1>1. ASSUME NEW k \in Nat, \A m \in Nat : m < k => m \in S PROVE k \in S
    <2> SUFFICES ASSUME k # 0, PowerOfTwo(k), NEW x \in Nat, Divides(k, x * (2 * c + 1)) PROVE Divides(k, x)
        OBVIOUS
    <2>1. CASE k = 1
        <3>1. x = 1 * x
            OBVIOUS
        <3> QED BY <2>1, <3>1 DEF Divides
    <2>2. CASE k > 1
        <3>1. PICK m \in Nat \ {0} : k = 2 * m /\ m < k /\ PowerOfTwo(m)
            BY <2>2, Half
        <3>2. PICK q \in Int : x * (2 * c + 1) = k * q
            BY DEF Divides
        <3>3. PICK y \in Nat : x = 2 * y
            <4>1. PICK y \in Nat : x = 2 * y \/ x = 2 * y + 1
                BY EvenOdd, Zenon
            <4>2. CASE x = 2 * y + 1
                <5>1. PICK u \in Int : u = y * c
                    OBVIOUS
                <5>2. PICK v \in Int : v = m * q
                    OBVIOUS
                <5>3. x * (2 * c + 1) = 2 * (2 * u + y + c) + 1
                    BY <4>2, <5>1
                <5>4. k * q = 2 * v
                    BY <3>1, <5>2
                <5>5. 2 * (2 * u + y + c) + 1 = 2 * v
                    BY <3>2, <5>3, <5>4
                <5> QED BY ONLY <5>5, u \in Int, v \in Int, y \in Int, c \in Int
            <4> QED BY <4>1, <4>2
        <3>4. y * (2 * c + 1) = m * q
            <4>1. 2 * (y * (2 * c + 1)) = 2 * (m * q)
                BY <3>1, <3>2, <3>3
            <4> QED BY <4>1
        <3>5. Divides(m, y)
            <4>1. Divides(m, y * (2 * c + 1))
                BY <3>4 DEF Divides
            <4> QED BY <1>1, <3>1, <4>1
        <3>6. PICK p \in Int : y = m * p
            BY <3>5 DEF Divides
        <3>7. x = k * p
            BY <3>1, <3>3, <3>6
        <3> QED BY <3>7 DEF Divides
    <2> QED BY <2>1, <2>2
<1> HIDE DEF S
<1>2. Nat \subseteq S
    BY <1>1, StrongInduction
<1> QED BY <1>2 DEF S

\* g[n] = 1 + 5 + ... + 5 ^ (n - 1).
IsGeo(g, B) ==
    g \in [0..B -> Nat] /\ g[0] = 0 /\ \A n \in 0..(B - 1) : g[n + 1] = 5 * g[n] + 1

LEMMA GeoExists ==
    ASSUME NEW B \in Nat
    PROVE  \E g : IsGeo(g, B)
<1> DEFINE S == {k \in Nat : \E g : IsGeo(g, k)}
<1>1. 0 \in S
    <2>1. IsGeo([n \in 0..0 |-> 0], 0)
        BY DEF IsGeo
    <2> QED BY <2>1
<1>2. ASSUME NEW k \in Nat, k \in S PROVE k + 1 \in S
    <2>1. PICK h : IsGeo(h, k)
        BY <1>2
    <2> DEFINE g == [n \in 0..(k + 1) |-> IF n = k + 1 THEN 5 * h[k] + 1 ELSE h[n]]
    <2>2. h[k] \in Nat
        BY <2>1 DEF IsGeo
    <2>3. g \in [0..(k + 1) -> Nat] /\ g[0] = 0
        BY <2>1, <2>2 DEF IsGeo
    <2>4. ASSUME NEW n \in 0..((k + 1) - 1) PROVE g[n + 1] = 5 * g[n] + 1
        <3>1. CASE n = k
            BY <2>2, <3>1
        <3>2. CASE n \in 0..(k - 1)
            BY <2>1, <3>2 DEF IsGeo
        <3> QED BY <3>1, <3>2
    <2>5. IsGeo(g, k + 1)
        <3> HIDE DEF g
        <3> QED BY <2>3, <2>4 DEF IsGeo
    <2> QED BY <2>5
<1> HIDE DEF S
<1>3. Nat \subseteq S
    BY <1>1, <1>2, SetInduction
<1> QED BY <1>3 DEF S

\* g doubles like the sum of a geometric series.
LEMMA GeoDouble ==
    ASSUME NEW B \in Nat, NEW g, IsGeo(g, B), NEW k \in Nat, 2 * k <= B
    PROVE  g[k] \in Nat /\ g[2 * k] = 2 * (g[k] * (2 * g[k] + 1))
<1> DEFINE S == {j \in Nat : 2 * j <= B => g[2 * j] = 2 * (g[j] * (2 * g[j] + 1))}
<1>1. 0 \in S
    BY DEF IsGeo
<1>2. ASSUME NEW j \in Nat, j \in S PROVE j + 1 \in S
    <2> SUFFICES ASSUME 2 * (j + 1) <= B PROVE g[2 * (j + 1)] = 2 * (g[j + 1] * (2 * g[j + 1] + 1))
        OBVIOUS
    <2>1. PICK h \in Nat : h = g[j]
        BY DEF IsGeo
    <2>2. g[j + 1] = 5 * h + 1
        <3>1. j \in 0..(B - 1)
            OBVIOUS
        <3> QED BY <2>1, <3>1 DEF IsGeo
    <2>3. PICK d \in Nat : d = g[2 * j]
        BY DEF IsGeo
    <2>4. g[2 * j + 1] = 5 * d + 1
        <3>1. 2 * j \in 0..(B - 1)
            OBVIOUS
        <3> QED BY <2>3, <3>1 DEF IsGeo
    <2>5. g[2 * (j + 1)] = 5 * (5 * d + 1) + 1
        <3>1. 2 * j + 1 \in 0..(B - 1) /\ (2 * j + 1) + 1 = 2 * (j + 1)
            OBVIOUS
        <3>2. g[(2 * j + 1) + 1] = 5 * g[2 * j + 1] + 1
            BY <3>1 DEF IsGeo
        <3> QED BY <2>4, <3>1, <3>2
    <2>6. d = 2 * (h * (2 * h + 1))
        BY <1>2, <2>1, <2>3
    <2>7. PICK u \in Nat : u = h * h
        OBVIOUS
    <2>8. d = 4 * u + 2 * h
        BY <2>6, <2>7
    <2>9. 2 * ((5 * h + 1) * (2 * (5 * h + 1) + 1)) = 100 * u + 50 * h + 6
        BY <2>7
    <2> QED BY <2>2, <2>5, <2>8, <2>9
<1> HIDE DEF S
<1>3. Nat \subseteq S
    BY <1>1, <1>2, SetInduction
<1>4. k \in 0..B
    OBVIOUS
<1> QED BY <1>3, <1>4 DEF S, IsGeo

\* A power of two divides the sum of n terms only if it divides n.
LEMMA GeoDivides ==
    ASSUME NEW B \in Nat, NEW g, IsGeo(g, B), NEW N \in Nat \ {0}, PowerOfTwo(N),
           NEW n \in 0..B, Divides(N, g[n])
    PROVE  Divides(N, n)
<1> DEFINE S == {k \in Nat : k # 0 /\ PowerOfTwo(k) =>
                    \A x \in 0..B : Divides(k, g[x]) => Divides(k, x)}
<1>1. ASSUME NEW k \in Nat, \A m \in Nat : m < k => m \in S PROVE k \in S
    <2> SUFFICES ASSUME k # 0, PowerOfTwo(k), NEW x \in 0..B, Divides(k, g[x]) PROVE Divides(k, x)
        OBVIOUS
    <2>1. CASE k = 1
        <3>1. x = 1 * x
            OBVIOUS
        <3> QED BY <2>1, <3>1 DEF Divides
    <2>2. CASE k > 1
        <3>1. PICK m \in Nat \ {0} : k = 2 * m /\ m < k /\ PowerOfTwo(m)
            BY <2>2, Half
        <3>2. PICK q \in Int : g[x] = k * q
            BY DEF Divides
        <3>3. PICK y \in Nat : x = 2 * y \/ x = 2 * y + 1
            <4>1. x \in Nat
                OBVIOUS
            <4> QED BY <4>1, EvenOdd, Zenon
        <3>4. 2 * y <= B /\ y \in 0..B
            BY <3>3
        <3>5. g[y] \in Nat /\ g[2 * y] = 2 * (g[y] * (2 * g[y] + 1))
            BY <3>4, GeoDouble
        <3>6. PICK h \in Nat : h = g[y]
            BY <3>5
        <3>7. PICK p \in Nat : p = h * (2 * h + 1)
            OBVIOUS
        <3>8. PICK v \in Int : v = m * q
            OBVIOUS
        <3>9. g[x] = 2 * v
            BY <3>1, <3>2, <3>8
        <3>10. x = 2 * y
            <4>1. CASE x = 2 * y + 1
                <5>1. g[2 * y + 1] = 5 * g[2 * y] + 1
                    <6>1. 2 * y \in 0..(B - 1)
                        BY <4>1
                    <6> QED BY <6>1 DEF IsGeo
                <5>2. g[2 * y] = 2 * p
                    BY <3>5, <3>6, <3>7
                <5>3. 2 * v = 5 * (2 * p) + 1
                    BY <3>9, <4>1, <5>1, <5>2
                <5> QED BY ONLY <5>3, v \in Int, p \in Int
            <4> QED BY <3>3, <4>1
        <3>11. p = m * q
            <4>1. 2 * p = 2 * v
                BY <3>5, <3>6, <3>7, <3>9, <3>10
            <4> QED BY <3>8, <4>1
        <3>12. Divides(m, h)
            <4>1. Divides(m, h * (2 * h + 1))
                BY <3>7, <3>11 DEF Divides
            <4> QED BY <3>1, <4>1, OddCancel
        <3>13. Divides(m, y)
            BY <1>1, <3>1, <3>4, <3>6, <3>12
        <3>14. PICK t \in Int : y = m * t
            BY <3>13 DEF Divides
        <3>15. x = k * t
            BY <3>1, <3>10, <3>14
        <3> QED BY <3>15 DEF Divides
    <2> QED BY <2>1, <2>2
<1> HIDE DEF S
<1>2. Nat \subseteq S
    BY <1>1, StrongInduction
<1> QED BY <1>2 DEF S

\* The probes once perturb is zero: i = 5 * i + 1.
IsCycle(y, N, B) ==
    y \in [0..B -> 0..(N - 1)] /\ \A n \in 0..(B - 1) : y[n + 1] = (5 * y[n] + 1) % N

\* a and b have the same remainder.
Congruent(a, b, N) == \E q \in Int : a = b + N * q

LEMMA Remainder ==
    ASSUME NEW a \in Nat, NEW N \in Nat \ {0}
    PROVE  \E t \in Nat : a % N = a - N * t
<1>1. a \div N \in Nat /\ a % N = a - N * (a \div N)
    OBVIOUS
<1> QED BY <1>1

\* n steps after y[m].
LEMMA CycleFrom ==
    ASSUME NEW N \in Nat \ {0}, NEW B \in Nat, NEW g, IsGeo(g, B), NEW y, IsCycle(y, N, B),
           NEW m \in Nat, NEW n \in Nat, m + n <= B
    PROVE  Congruent(y[m + n], y[m] + g[n] * (4 * y[m] + 1), N)
<1>a. y[m] \in Nat /\ m \in 0..B
    BY DEF IsCycle
<1>b. PICK z \in Nat : z = y[m]
    BY <1>a
<1> DEFINE S == {k \in Nat : m + k <= B => Congruent(y[m + k], z + g[k] * (4 * z + 1), N)}
<1>1. 0 \in S
    <2>1. y[m + 0] = z + g[0] * (4 * z + 1) + N * 0
        BY <1>a, <1>b DEF IsGeo
    <2> QED BY <2>1 DEF Congruent
<1>2. ASSUME NEW k \in Nat, k \in S PROVE k + 1 \in S
    <2> SUFFICES ASSUME m + (k + 1) <= B
                 PROVE  Congruent(y[m + (k + 1)], z + g[k + 1] * (4 * z + 1), N)
        OBVIOUS
    <2>1. PICK q \in Int : y[m + k] = z + g[k] * (4 * z + 1) + N * q
        BY <1>2 DEF Congruent
    <2>2. k \in 0..(B - 1) /\ m + k \in 0..(B - 1) /\ (m + k) + 1 = m + (k + 1)
        OBVIOUS
    <2>3. PICK h \in Nat : h = g[k]
        BY <2>2 DEF IsGeo
    <2>4. g[k + 1] = 5 * h + 1
        BY <2>2, <2>3 DEF IsGeo
    <2>5. PICK x \in Nat : x = y[m + k]
        BY <2>2 DEF IsCycle
    <2>6. y[m + (k + 1)] = (5 * x + 1) % N
        BY <2>2, <2>5 DEF IsCycle
    <2>7. 5 * x + 1 \in Nat
        OBVIOUS
    <2>8. PICK t \in Nat : (5 * x + 1) % N = (5 * x + 1) - N * t
        BY <2>7, Remainder
    <2>9. PICK u \in Int : u = h * (4 * z + 1)
        OBVIOUS
    <2>10. (5 * h + 1) * (4 * z + 1) = 5 * u + (4 * z + 1)
        BY <2>9
    <2>11. N * (5 * q - t) = 5 * (N * q) - N * t /\ N * q \in Int /\ N * t \in Int
        OBVIOUS
    <2>12. x = z + u + N * q
        BY <2>1, <2>3, <2>5, <2>9
    <2>13. (5 * x + 1) - N * t = z + (5 * u + (4 * z + 1)) + N * (5 * q - t)
        BY <2>11, <2>12
    <2>14. y[m + (k + 1)] = z + g[k + 1] * (4 * z + 1) + N * (5 * q - t)
        BY <2>4, <2>6, <2>8, <2>10, <2>13
    <2>15. 5 * q - t \in Int
        OBVIOUS
    <2> QED BY <2>14, <2>15 DEF Congruent
<1> HIDE DEF S
<1>3. Nat \subseteq S
    BY <1>1, <1>2, SetInduction
<1> QED BY <1>3, <1>b DEF S

\* No slot comes back before N steps.
LEMMA CycleInjective ==
    ASSUME NEW N \in Nat \ {0}, PowerOfTwo(N), NEW B \in Nat, NEW y, IsCycle(y, N, B),
           NEW m \in Nat, NEW n \in Nat, m + n <= B, n < N, y[m + n] = y[m]
    PROVE  n = 0
<1>1. PICK g : IsGeo(g, B)
    BY GeoExists
<1>2. PICK q \in Int : y[m + n] = y[m] + g[n] * (4 * y[m] + 1) + N * q
    <2>1. Congruent(y[m + n], y[m] + g[n] * (4 * y[m] + 1), N)
        BY <1>1, CycleFrom
    <2> QED BY <2>1 DEF Congruent
<1>3. n \in 0..B /\ m \in 0..B
    OBVIOUS
<1>4. PICK h \in Nat : h = g[n]
    BY <1>1, <1>3 DEF IsGeo
<1>5. PICK z \in Nat : z = y[m]
    BY <1>3 DEF IsCycle
<1>6. Divides(N, h * (2 * (2 * z) + 1))
    <2>1. PICK u \in Int : u = h * (4 * z + 1)
        OBVIOUS
    <2>2. PICK v \in Int : v = N * q
        OBVIOUS
    <2>3. z = z + u + v
        BY <1>2, <1>4, <1>5, <2>1, <2>2
    <2>4. u = N * (0 - q)
        BY <2>2, <2>3
    <2>5. h * (2 * (2 * z) + 1) = u
        BY <2>1
    <2>6. 0 - q \in Int
        OBVIOUS
    <2> QED BY <2>4, <2>5, <2>6 DEF Divides
<1>7. Divides(N, h)
    <2>1. 2 * z \in Nat
        OBVIOUS
    <2> QED BY <1>6, <2>1, OddCancel
<1>8. Divides(N, n)
    BY <1>1, <1>3, <1>4, <1>7, GeoDivides
<1>9. PICK p \in Int : n = N * p
    BY <1>8 DEF Divides
<1>10. CASE p >= 1
    <2>1. N * p >= N
        BY <1>10
    <2> QED BY <1>9, <2>1
<1>11. CASE p <= 0
    <2>1. N * p <= 0
        BY <1>11
    <2> QED BY <1>9, <2>1
<1> QED BY <1>10, <1>11

\* So that N steps reach every slot.
LEMMA CycleCovers ==
    ASSUME NEW N \in Nat \ {0}, PowerOfTwo(N), NEW y, IsCycle(y, N, N - 1), NEW s \in 0..(N - 1)
    PROVE  \E n \in 0..(N - 1) : y[n] = s
<1> DEFINE I == 0..(N - 1)
<1>1. IsFiniteSet(I)
    BY FS_Interval
<1>2. y \in [I -> I]
    BY DEF IsCycle
<1>3. ASSUME NEW m \in I, NEW n \in I, y[m] = y[n], m <= n PROVE m = n
    <2>1. m \in Nat /\ n - m \in Nat /\ m + (n - m) = n /\ n - m < N /\ n <= N - 1 /\ N - 1 \in Nat
        BY <1>3
    <2>2. y[m + (n - m)] = y[m] /\ m + (n - m) <= N - 1
        BY <1>3, <2>1
    <2>3. n - m = 0
        BY <2>1, <2>2, CycleInjective
    <2> QED BY <2>3
<1>4. \A m, n \in I : y[m] = y[n] => m = n
    <2> TAKE m, n \in I
    <2> HAVE y[m] = y[n]
    <2>1. m <= n \/ n <= m
        OBVIOUS
    <2> QED BY <1>3, <2>1
<1> HIDE DEF I
<1>5. y \in Injection(I, I)
    BY <1>2, <1>4 DEF Injection, IsInjective
<1>6. y \in Surjection(I, I)
    BY <1>1, <1>5, FS_Injection
<1>7. \A t \in I : \E n \in I : y[n] = t
    BY <1>6 DEF Surjection
<1> QED BY <1>7 DEF I

-----------------------------------------------------------------------------
(* Blocks.                                                                 *)

USE LoggedAddrsAssumption

LEMMA DivFacts ==
    ASSUME NEW a \in Nat, NEW n \in Nat \ {0}
    PROVE  a \div n \in Nat /\ a % n \in 0..(n - 1)
OBVIOUS

LEMMA DivMultiple ==
    ASSUME NEW h \in Nat, NEW n \in Nat \ {0}
    PROVE  (h * n) \div n = h /\ h * n \in Nat
OBVIOUS

LEMMA BlockType == ASSUME NEW w \in Writes
    PROVE  /\ Block(w.addr) \in Nat /\ Block(w.addr + w.size - 1) \in Nat
           /\ Block(w.addr) <= Block(w.addr + w.size - 1)
           /\ w.addr \in Nat /\ w.size \in Nat \ {0} /\ w.addr + w.size - 1 \in Nat
<1>1. w.addr \in Nat /\ w.size \in Nat \ {0} /\ w.addr + w.size - 1 \in Nat /\ w.addr <= w.addr + w.size - 1
    OBVIOUS
<1>2. \A a, b \in Nat, n \in Nat \ {0} : a <= b => a \div n <= b \div n
    OBVIOUS
<1>3. \A a \in Nat, n \in Nat \ {0} : a \div n \in Nat
    BY DivFacts
<1> QED BY <1>1, <1>2, <1>3 DEF Block

LEMMA BlocksType ==
    /\ \A w \in Writes : BlocksOf(w) \subseteq Blocks /\ BlocksOf(w) \subseteq Nat
    /\ Blocks \subseteq Nat \ {0}
<1>1. \A w \in Writes : BlocksOf(w) \subseteq Blocks
    BY DEF Blocks
<1>2. \A w \in Writes : BlocksOf(w) \subseteq Nat
    <2> TAKE w \in Writes
    <2>1. Block(w.addr) \in Nat /\ Block(w.addr + w.size - 1) \in Nat
        BY BlockType
    <2> QED BY <2>1 DEF BlocksOf
<1>3. Blocks \subseteq Nat
    BY <1>2 DEF Blocks
<1>4. \A b \in Blocks : 0 < b
    OBVIOUS
<1> QED BY <1>1, <1>2, <1>3, <1>4

-----------------------------------------------------------------------------
(* The probes.                                                             *)

FirstProbe(b) == [i |-> b % HashSize, perturb |-> b]
NextProbe(p) == [i |-> (5 * p.i + p.perturb + 1) % HashSize, perturb |-> p.perturb \div 2 ^ PerturbShift]
ProbeStep(b, n, P) == IF n = 0 THEN FirstProbe(b) ELSE NextProbe(P[n - 1])
IsProbing(b, m, P) == P = [n \in 0..m |-> ProbeStep(b, n, P)]

\* undo_log_insert_logged_addr's i and perturb after n iterations are defined for every n.
LEMMA ProbingExists ==
    ASSUME NEW b, NEW m \in Nat
    PROVE  \E P : IsProbing(b, m, P)
<1> DEFINE S == {k \in Nat : \E P : P = [n \in 0..k |-> ProbeStep(b, n, P)]}
<1>1. 0 \in S
    <2> DEFINE P == [n \in 0..0 |-> FirstProbe(b)]
    <2>1. P = [n \in 0..0 |-> ProbeStep(b, n, P)]
        BY DEF ProbeStep
    <2> HIDE DEF P
    <2> QED BY <2>1
<1>2. ASSUME NEW k \in Nat, k \in S PROVE k + 1 \in S
    <2>1. PICK G : G = [n \in 0..k |-> ProbeStep(b, n, G)]
        BY <1>2
    <2> DEFINE P == [n \in 0..(k + 1) |-> IF n = k + 1 THEN NextProbe(G[k]) ELSE G[n]]
    <2>2. ASSUME NEW n \in 0..(k + 1) PROVE P[n] = ProbeStep(b, n, P)
        <3>1. CASE n = k + 1
            <4>1. n # 0 /\ n - 1 = k /\ P[n - 1] = G[k] /\ P[n] = NextProbe(G[k])
                BY <3>1
            <4> HIDE DEF P
            <4> QED BY <4>1 DEF ProbeStep
        <3>2. CASE n \in 0..k
            <4>1. P[n] = G[n] /\ (n # 0 => P[n - 1] = G[n - 1])
                BY <3>2
            <4>2. G[n] = ProbeStep(b, n, G)
                BY <2>1, <3>2
            <4> HIDE DEF P
            <4> QED BY <4>1, <4>2 DEF ProbeStep
        <3> QED BY <3>1, <3>2
    <2>3. P = [n \in 0..(k + 1) |-> P[n]]
        OBVIOUS
    <2> HIDE DEF P
    <2>4. P = [n \in 0..(k + 1) |-> ProbeStep(b, n, P)]
        BY <2>2, <2>3
    <2> QED BY <2>4
<1> HIDE DEF S
<1>3. Nat \subseteq S
    BY <1>1, <1>2, SetInduction
<1> QED BY <1>3 DEF S, IsProbing

\* P is the sequence of i and perturb for block b.
Runs(b, P) ==
    /\ P[0] = FirstProbe(b)
    /\ \A k \in 0..(Probes - 1) : P[k + 1] = NextProbe(P[k])
    /\ \A k \in 0..Probes : P[k].i \in Slots /\ P[k].perturb \in Nat
    /\ \A n \in 1..Probes : Probe[b][n] = P[n - 1].i

LEMMA ProbeRuns == ASSUME NEW b \in Blocks PROVE \E P : Runs(b, P)
<1> DEFINE P == CHOOSE G : IsProbing(b, Probes, G)
<1>1. Probes \in Nat /\ b \in Nat
    BY BlocksType DEF Probes
<1>2. IsProbing(b, Probes, P)
    BY <1>1, ProbingExists
<1>3. ASSUME NEW n \in 1..Probes PROVE Probe[b][n] = P[n - 1].i
    BY DEF Probe, IsProbing, ProbeStep, FirstProbe, NextProbe
<1> HIDE DEF P
<1>4. \A k \in 0..Probes : P[k] = ProbeStep(b, k, P)
    BY <1>2 DEF IsProbing
<1>5. P[0] = FirstProbe(b)
    BY <1>1, <1>4 DEF ProbeStep
<1>6. ASSUME NEW k \in 0..(Probes - 1) PROVE P[k + 1] = NextProbe(P[k])
    <2>1. k + 1 \in 0..Probes /\ k + 1 # 0 /\ (k + 1) - 1 = k
        BY <1>1
    <2> QED BY <1>4, <2>1 DEF ProbeStep
<1> DEFINE S == {k \in Nat : k <= Probes => P[k].i \in Slots /\ P[k].perturb \in Nat}
<1>7. 0 \in S
    <2>1. b % HashSize \in Slots
        BY <1>1, DivFacts DEF Slots
    <2> QED BY <1>1, <1>5, <2>1 DEF FirstProbe
<1>8. ASSUME NEW k \in Nat, k \in S PROVE k + 1 \in S
    <2> SUFFICES ASSUME k + 1 <= Probes PROVE P[k + 1].i \in Slots /\ P[k + 1].perturb \in Nat
        OBVIOUS
    <2>1. P[k].i \in Nat /\ P[k].perturb \in Nat
        BY <1>1, <1>8 DEF Slots
    <2>2. P[k + 1] = NextProbe(P[k])
        <3>1. k \in 0..(Probes - 1)
            BY <1>1
        <3> QED BY <1>6, <3>1
    <2>3. 5 * P[k].i + P[k].perturb + 1 \in Nat
        BY <2>1
    <2>4. (5 * P[k].i + P[k].perturb + 1) % HashSize \in Slots
        BY <2>3, DivFacts DEF Slots
    <2>5. P[k].perturb \div 2 ^ PerturbShift \in Nat
        BY <2>1, DivFacts
    <2> QED BY <2>2, <2>4, <2>5 DEF NextProbe
<1> HIDE DEF S
<1>9. Nat \subseteq S
    BY <1>7, <1>8, SetInduction
<1>10. \A k \in 0..Probes : P[k].i \in Slots /\ P[k].perturb \in Nat
    BY <1>1, <1>9 DEF S
<1>11. Runs(b, P)
    BY <1>3, <1>5, <1>6, <1>10 DEF Runs
<1> QED BY <1>11

\* Every probe is a slot.
LEMMA ProbeInSlots ==
    ASSUME NEW b \in Blocks, NEW n \in 1..Probes
    PROVE  Probe[b][n] \in Slots
<1>1. PICK P : Runs(b, P)
    BY ProbeRuns
<1>2. n - 1 \in 0..Probes
    BY DEF Probes
<1> QED BY <1>1, <1>2 DEF Runs

\* PerturbLimit is what its definition says.
LEMMA LimitFacts ==
    /\ PerturbLimit[0] = 1
    /\ \A n \in 0..(MaxShifts - 1) : PerturbLimit[n + 1] = 2 ^ PerturbShift * PerturbLimit[n]
    /\ \A n \in 0..MaxShifts : PerturbLimit[n] \in Nat
<1> DEFINE D == 2 ^ PerturbShift
           IsLimit(L, k) == L = [n \in 0..k |-> IF n = 0 THEN 1 ELSE D * L[n - 1]]
           S == {k \in Nat : \E L : IsLimit(L, k)}
<1>0. D \in Nat \ {0}
    OBVIOUS
<1>1. PerturbLimit = CHOOSE L : IsLimit(L, MaxShifts)
    BY DEF PerturbLimit
<1> HIDE DEF D
<1>2. 0 \in S
    <2> DEFINE L == [n \in 0..0 |-> 1]
    <2>1. L = [n \in 0..0 |-> IF n = 0 THEN 1 ELSE D * L[n - 1]]
        OBVIOUS
    <2> HIDE DEF L
    <2> QED BY <2>1
<1>3. ASSUME NEW k \in Nat, k \in S PROVE k + 1 \in S
    <2>1. PICK G : IsLimit(G, k)
        BY <1>3
    <2> DEFINE L == [n \in 0..(k + 1) |-> IF n = k + 1 THEN D * G[k] ELSE G[n]]
    <2>2. ASSUME NEW n \in 0..(k + 1) PROVE L[n] = IF n = 0 THEN 1 ELSE D * L[n - 1]
        <3>1. CASE n = k + 1
            <4>1. n # 0 /\ n - 1 = k /\ L[n - 1] = G[k] /\ L[n] = D * G[k]
                BY <3>1
            <4> HIDE DEF L
            <4> QED BY <4>1
        <3>2. CASE n \in 0..k
            <4>1. L[n] = G[n] /\ (n # 0 => L[n - 1] = G[n - 1])
                BY <3>2
            <4>2. G[n] = IF n = 0 THEN 1 ELSE D * G[n - 1]
                BY <2>1, <3>2
            <4> HIDE DEF L
            <4> QED BY <4>1, <4>2
        <3> QED BY <3>1, <3>2
    <2>3. L = [n \in 0..(k + 1) |-> L[n]]
        OBVIOUS
    <2> HIDE DEF L
    <2>4. IsLimit(L, k + 1)
        BY <2>2, <2>3
    <2> QED BY <2>4
<1> HIDE DEF S
<1>4. Nat \subseteq S
    BY <1>2, <1>3, SetInduction
<1>5. IsLimit(PerturbLimit, MaxShifts)
    <2>1. \E L : IsLimit(L, MaxShifts)
        BY <1>4 DEF S
    <2> HIDE DEF IsLimit
    <2> QED BY <1>1, <2>1
<1>6. PICK L : L = PerturbLimit
    OBVIOUS
<1>7. \A n \in 0..MaxShifts : L[n] = IF n = 0 THEN 1 ELSE D * L[n - 1]
    BY <1>5, <1>6
<1>8. L[0] = 1
    BY <1>7
<1>9. ASSUME NEW n \in 0..(MaxShifts - 1) PROVE L[n + 1] = D * L[n]
    <2>1. n + 1 \in 0..MaxShifts /\ n + 1 # 0 /\ (n + 1) - 1 = n
        OBVIOUS
    <2> QED BY <1>7, <2>1
<1> DEFINE T == {k \in Nat : k <= MaxShifts => L[k] \in Nat}
<1>10. 0 \in T
    BY <1>8
<1>11. ASSUME NEW k \in Nat, k \in T PROVE k + 1 \in T
    <2> SUFFICES ASSUME k + 1 <= MaxShifts PROVE L[k + 1] \in Nat
        OBVIOUS
    <2>1. L[k] \in Nat /\ k \in 0..(MaxShifts - 1)
        BY <1>11
    <2> QED BY <1>0, <1>9, <2>1
<1> HIDE DEF T
<1>12. Nat \subseteq T
    BY <1>10, <1>11, SetInduction
<1>13. \A n \in 0..MaxShifts : L[n] \in Nat
    BY <1>12 DEF T
<1> QED BY <1>6, <1>8, <1>9, <1>13 DEF D

LEMMA DivBound ==
    ASSUME NEW x \in Nat, NEW d \in Nat \ {0}, NEW l \in Nat, x < d * l
    PROVE  x \div d < l
<1>1. PICK q \in Nat : q = x \div d
    OBVIOUS
<1>2. d * q <= x
    BY <1>1
<1>3. CASE q >= l
    <2>1. d * q >= d * l
        BY <1>3
    <2>2. d * q \in Int /\ d * l \in Int
        OBVIOUS
    <2> QED BY <1>2, <2>1, <2>2
<1> QED BY <1>1, <1>3

\* "It takes < 13 shifts to get perturb to zero" (undo_log.h:104).
LEMMA PerturbGone ==
    ASSUME NEW b \in Blocks, NEW P, Runs(b, P), NEW k \in 0..Probes, k >= MaxShifts
    PROVE  P[k].perturb = 0
<1> DEFINE D == 2 ^ PerturbShift
           S == {n \in Nat : n <= MaxShifts => P[n].perturb < PerturbLimit[MaxShifts - n]}
           T == {n \in Nat : MaxShifts + n <= Probes => P[MaxShifts + n].perturb = 0}
<1>1. D \in Nat \ {0} /\ Probes \in Nat /\ MaxShifts \in 0..Probes
    BY DEF Probes
<1>2. ASSUME NEW n \in 0..(Probes - 1)
      PROVE  P[n].perturb \in Nat /\ P[n + 1].perturb = P[n].perturb \div D
    <2>1. n \in 0..Probes
        BY <1>1
    <2>2. P[n].perturb \in Nat /\ P[n + 1] = NextProbe(P[n])
        BY <2>1 DEF Runs
    <2>3. NextProbe(P[n]).perturb = P[n].perturb \div D
        BY DEF NextProbe
    <2> QED BY <2>2, <2>3
<1> HIDE DEF D
<1>3. 0 \in S
    <2>1. P[0].perturb = b
        BY DEF Runs, FirstProbe
    <2> QED BY <2>1
<1>4. ASSUME NEW n \in Nat, n \in S PROVE n + 1 \in S
    <2> SUFFICES ASSUME n + 1 <= MaxShifts PROVE P[n + 1].perturb < PerturbLimit[MaxShifts - (n + 1)]
        OBVIOUS
    <2> DEFINE r == MaxShifts - (n + 1)
    <2>1. r \in 0..(MaxShifts - 1) /\ r + 1 = MaxShifts - n /\ r \in 0..MaxShifts /\ n \in 0..(Probes - 1)
        BY <1>1
    <2>2. PerturbLimit[MaxShifts - n] = D * PerturbLimit[r] /\ PerturbLimit[r] \in Nat
        BY <2>1, LimitFacts DEF D
    <2>3. P[n].perturb < PerturbLimit[MaxShifts - n]
        BY <1>4
    <2>4. P[n].perturb \in Nat /\ P[n + 1].perturb = P[n].perturb \div D
        BY <1>2, <2>1
    <2>5. P[n].perturb < D * PerturbLimit[r]
        BY <2>2, <2>3
    <2>6. P[n].perturb \div D < PerturbLimit[r]
        BY <1>1, <2>2, <2>4, <2>5, DivBound
    <2> QED BY <2>4, <2>6
<1> HIDE DEF S
<1>5. Nat \subseteq S
    BY <1>3, <1>4, SetInduction
<1>6. 0 \in T
    <2>1. P[MaxShifts].perturb < PerturbLimit[MaxShifts - MaxShifts]
        BY <1>5 DEF S
    <2>2. P[MaxShifts].perturb \in Nat
        BY <1>1 DEF Runs
    <2>3. PerturbLimit[MaxShifts - MaxShifts] = 1
        BY LimitFacts
    <2> QED BY <2>1, <2>2, <2>3
<1>7. ASSUME NEW n \in Nat, n \in T PROVE n + 1 \in T
    <2> SUFFICES ASSUME MaxShifts + (n + 1) <= Probes PROVE P[MaxShifts + (n + 1)].perturb = 0
        OBVIOUS
    <2>1. MaxShifts + n \in 0..(Probes - 1) /\ (MaxShifts + n) + 1 = MaxShifts + (n + 1)
        BY <1>1
    <2>2. P[MaxShifts + n].perturb = 0
        BY <1>1, <1>7
    <2>3. P[MaxShifts + (n + 1)].perturb = 0 \div D
        BY <1>2, <2>1, <2>2
    <2> QED BY <1>1, <2>3
<1> HIDE DEF T
<1>8. Nat \subseteq T
    BY <1>6, <1>7, SetInduction
<1>9. k - MaxShifts \in Nat /\ MaxShifts + (k - MaxShifts) = k /\ k <= Probes
    BY <1>1
<1> QED BY <1>8, <1>9 DEF T

\* undo_log_insert_logged_addr probes every slot of the table, from whichever block it starts:
\* it says that the table is full only if it is.
THEOREM ProbesCover ==
    ASSUME NEW b \in Blocks, NEW s \in Slots
    PROVE  \E n \in 1..Probes : Probe[b][n] = s
<1>1. PICK P : Runs(b, P)
    BY ProbeRuns
<1> DEFINE y == [n \in 0..(HashSize - 1) |-> P[MaxShifts + n].i]
<1>2. HashSize \in Nat \ {0} /\ MaxShifts \in Nat /\ Probes = HashSize + MaxShifts
    BY DEF Probes
<1>3. y \in [0..(HashSize - 1) -> 0..(HashSize - 1)]
    <2>1. ASSUME NEW n \in 0..(HashSize - 1) PROVE P[MaxShifts + n].i \in 0..(HashSize - 1)
        <3>1. MaxShifts + n \in 0..Probes
            BY <1>2
        <3> QED BY <1>1, <3>1 DEF Runs, Slots
    <2> QED BY <2>1
<1>4. ASSUME NEW n \in 0..((HashSize - 1) - 1) PROVE y[n + 1] = (5 * y[n] + 1) % HashSize
    <2>1. /\ MaxShifts + n \in 0..(Probes - 1) /\ MaxShifts + n \in 0..Probes /\ MaxShifts + n >= MaxShifts
          /\ (MaxShifts + n) + 1 = MaxShifts + (n + 1)
          /\ n \in 0..(HashSize - 1) /\ n + 1 \in 0..(HashSize - 1)
        BY <1>2
    <2>2. P[MaxShifts + (n + 1)].i = (5 * P[MaxShifts + n].i + P[MaxShifts + n].perturb + 1) % HashSize
        <3>1. P[(MaxShifts + n) + 1] = NextProbe(P[MaxShifts + n])
            BY <1>1, <2>1 DEF Runs
        <3>2. NextProbe(P[MaxShifts + n]).i = (5 * P[MaxShifts + n].i + P[MaxShifts + n].perturb + 1) % HashSize
            BY DEF NextProbe
        <3> QED BY <2>1, <3>1, <3>2
    <2>3. P[MaxShifts + n].perturb = 0
        BY <1>1, <2>1, PerturbGone
    <2>4. y[n] = P[MaxShifts + n].i /\ y[n + 1] = P[MaxShifts + (n + 1)].i /\ y[n] \in Nat
        BY <1>3, <2>1
    <2> HIDE DEF y
    <2>5. 5 * y[n] + 0 + 1 = 5 * y[n] + 1
        BY <2>4
    <2> QED BY <2>2, <2>3, <2>4, <2>5
<1>5. PICK n \in 0..(HashSize - 1) : y[n] = s
    <2> HIDE DEF y
    <2>1. IsCycle(y, HashSize, HashSize - 1)
        BY <1>3, <1>4 DEF IsCycle
    <2>2. s \in 0..(HashSize - 1)
        BY DEF Slots
    <2> QED BY <1>2, <2>1, <2>2, CycleCovers
<1>6. MaxShifts + n + 1 \in 1..Probes /\ (MaxShifts + n + 1) - 1 = MaxShifts + n
    BY <1>2
<1>7. Probe[b][MaxShifts + n + 1] = P[MaxShifts + n].i
    BY <1>1, <1>6 DEF Runs
<1> QED BY <1>5, <1>6, <1>7

\* FirstHit is the first probe that finds the block or an empty slot.
LEMMA FirstHitFacts ==
    ASSUME NEW b \in Blocks
    PROVE  /\ FirstHit(b) = 0 => \A n \in 1..Probes : hash[Probe[b][n]] \notin {Null, b}
           /\ FirstHit(b) # 0 =>
                 /\ FirstHit(b) \in 1..Probes /\ hash[Probe[b][FirstHit(b)]] \in {Null, b}
                 /\ \A m \in 1..Probes : hash[Probe[b][m]] \in {Null, b} => FirstHit(b) <= m
<1> DEFINE hits == {n \in 1..Probes : hash[Probe[b][n]] \in {Null, b}}
<1>1. FirstHit(b) = IF hits = {} THEN 0 ELSE CHOOSE n \in hits : \A m \in hits : n <= m
    BY DEF FirstHit
<1>2. hits \in SUBSET Nat /\ 0 \notin hits
    BY DEF Probes
<1>3. CASE hits = {}
    <2>1. FirstHit(b) = 0
        BY <1>1, <1>3
    <2> QED BY <1>3, <2>1
<1>4. CASE hits # {}
    <2> HIDE DEF hits
    <2>1. \E n \in hits : \A m \in hits : n <= m
        BY <1>2, <1>4, LeastElement
    <2>2. FirstHit(b) \in hits /\ \A m \in hits : FirstHit(b) <= m
        BY <1>1, <1>4, <2>1
    <2>3. FirstHit(b) # 0
        BY <1>2, <2>2
    <2> QED BY <2>2, <2>3 DEF hits
<1> QED BY <1>3, <1>4

\* If undo_log_insert_logged_addr says that the block is there, some slot names it.
LEMMA LoggedHasSlot ==
    ASSUME NEW b \in Blocks, IsLogged(b)
    PROVE  \E s \in Slots : hash[s] = b
<1>1. FirstHit(b) # 0 /\ hash[Probe[b][FirstHit(b)]] = b
    BY DEF IsLogged
<1>2. FirstHit(b) \in 1..Probes
    BY <1>1, FirstHitFacts
<1>3. Probe[b][FirstHit(b)] \in Slots
    BY <1>2, ProbeInSlots
<1> QED BY <1>1, <1>3

-----------------------------------------------------------------------------
(* The invariant.                                                          *)

\* A slot names a block only if the block has an entry.
SlotsSaved == \A s \in Slots : hash[s] # Null => entries[hash[s]] > 0

\* In undo_log_record: the blocks done have entries.
Saving ==
    /\ pc \in {"app", "record"}
    /\ pc = "record" =>
          /\ write \in Writes /\ todo \subseteq BlocksOf(write)
          /\ \A b \in BlocksOf(write) : b \notin todo => entries[b] > 0

Types ==
    /\ hash \in [Slots -> Blocks \cup {Null}] /\ entries \in [Blocks -> Nat]
    /\ stored \subseteq Blocks

Inv == Types /\ SlotsSaved /\ Saving /\ StoredIsSaved

LEMMA InitKeeps == ASSUME Init PROVE Inv
BY DEF Init, Inv, Types, SlotsSaved, Saving, StoredIsSaved

\* The fast path is taken only if the whole write is in one block, which has an entry.
LEMMA FastIsSaved ==
    ASSUME Inv, NEW w \in Writes, FastPath(w)
    PROVE  \A b \in BlocksOf(w) : entries[b] > 0
<1> DEFINE b0 == Block(w.addr)
           s == b0 % HashSize
           h == hash[s]
<1>1. b0 \in Nat /\ Block(w.addr + w.size - 1) \in Nat /\ b0 <= Block(w.addr + w.size - 1)
    BY BlockType
<1>2. w.addr \in Compared /\ w.addr + w.size - 1 \in Compared
    BY DEF Compared
<1>3. Block(w.addr + w.size - 1) = b0
    <2>1. xor(w.addr + w.size - 1, w.addr) \in Nat /\ ~(xor(w.addr + w.size - 1, w.addr) > BlkSize - 1)
        BY <1>2, XorAssumption DEF FastPath, Straddles
    <2>2. xor(w.addr + w.size - 1, w.addr) < BlkSize
        BY <2>1
    <2> QED BY <1>2, <2>2, XorAssumption
<1>4. BlocksOf(w) = {b0}
    BY <1>1, <1>3 DEF BlocksOf
<1>5. s \in Slots /\ h \in Blocks \cup {Null}
    <2>1. s \in Slots
        BY <1>1, DivFacts DEF Slots
    <2> QED BY <2>1 DEF Inv, Types
<1>6. h \in Nat /\ h * BlkSize \in Compared /\ Block(h * BlkSize) = h
    <2>1. h \in Nat
        <3>1. Blocks \subseteq Nat
            BY BlocksType
        <3> HIDE DEF h
        <3> QED BY <1>5, <3>1 DEF Null
    <2>2. h * BlkSize \in Compared
        BY <1>5 DEF Compared, Null
    <2>3. Block(h * BlkSize) = h
        BY <2>1, DivMultiple DEF Block
    <2> QED BY <2>1, <2>2, <2>3
<1>7. h = b0
    <2>1. xor(h * BlkSize, w.addr) < BlkSize
        BY DEF FastPath
    <2> QED BY <1>2, <1>6, <2>1, XorAssumption
<1>8. b0 \in Blocks /\ b0 # Null
    <2>1. b0 \in Blocks
        BY <1>4, BlocksType
    <2> QED BY <2>1, BlocksType DEF Null
<1>9. entries[b0] > 0
    BY <1>5, <1>7, <1>8 DEF Inv, SlotsSaved
<1> QED BY <1>4, <1>9

LEMMA RecordBlockKeeps == ASSUME Inv, RecordBlock PROVE Inv'
<1> DEFINE b == CHOOSE x \in todo : \A y \in todo : x <= y
<1>1. /\ todo' = todo \ {b} /\ hash' = Inserted(b)
      /\ entries' = IF IsLogged(b) THEN entries ELSE [entries EXCEPT ![b] = @ + 1]
    BY Zenon DEF RecordBlock
<1>2. /\ pc = "record" /\ todo # {} /\ UNCHANGED <<stored, write, pc>>
      /\ write \in Writes /\ todo \subseteq BlocksOf(write)
      /\ \A c \in BlocksOf(write) : c \notin todo => entries[c] > 0
    BY DEF RecordBlock, Inv, Saving
<1>3. b \in todo
    <2>1. todo \in SUBSET Nat
        BY <1>2, BlocksType
    <2>2. \E x \in todo : \A y \in todo : x <= y
        BY <1>2, <2>1, LeastElement
    <2> QED BY <2>2
<1> HIDE DEF b
<1>4. b \in Blocks /\ b # Null
    BY <1>2, <1>3, BlocksType DEF Null
<1>5. /\ entries' \in [Blocks -> Nat] /\ entries'[b] > 0
      /\ \A c \in Blocks : entries[c] > 0 => entries'[c] > 0
    <2>1. entries \in [Blocks -> Nat]
        BY DEF Inv, Types
    <2>2. CASE IsLogged(b)
        <3>1. PICK s \in Slots : hash[s] = b
            BY <1>4, <2>2, LoggedHasSlot
        <3>2. entries[b] > 0
            BY <1>4, <3>1 DEF Inv, SlotsSaved
        <3> QED BY <1>1, <2>1, <2>2, <3>2
    <2>3. CASE ~IsLogged(b)
        <3>1. entries' = [entries EXCEPT ![b] = entries[b] + 1]
            BY <1>1, <2>3
        <3>2. entries[b] \in Nat
            BY <1>4, <2>1
        <3>3. entries'[b] = entries[b] + 1 /\ \A c \in Blocks : c # b => entries'[c] = entries[c]
            BY <1>4, <2>1, <3>1
        <3>4. entries' \in [Blocks -> Nat]
            BY <1>4, <2>1, <3>1, <3>2
        <3>5. entries'[b] > 0
            BY <3>2, <3>3
        <3> QED BY <3>3, <3>4, <3>5
    <2> QED BY <2>2, <2>3
<1>6. hash' \in [Slots -> Blocks \cup {Null}] /\ \A s \in Slots : hash'[s] \in {hash[s], b}
    <2>1. hash \in [Slots -> Blocks \cup {Null}]
        BY DEF Inv, Types
    <2>2. PICK x : hash' = hash \/ hash' = [hash EXCEPT ![x] = b]
        BY <1>1 DEF Inserted
    <2> QED BY <1>4, <2>1, <2>2
<1>7. SlotsSaved'
    <2> SUFFICES ASSUME NEW s \in Slots, hash'[s] # Null PROVE entries'[hash'[s]] > 0
        BY DEF SlotsSaved
    <2>1. CASE hash'[s] = b
        BY <1>5, <2>1
    <2>2. CASE hash'[s] = hash[s]
        <3>1. hash[s] \in Blocks
            BY <2>2 DEF Inv, Types
        <3>2. entries[hash[s]] > 0
            BY <2>2 DEF Inv, SlotsSaved
        <3> QED BY <1>5, <2>2, <3>1, <3>2
    <2> QED BY <1>6, <2>1, <2>2
<1>8. Saving'
    <2>1. \A c \in BlocksOf(write) : c \notin todo' => entries'[c] > 0
        <3> TAKE c \in BlocksOf(write)
        <3>1. c \in Blocks
            BY <1>2, BlocksType
        <3>2. CASE c = b
            BY <1>5, <3>2
        <3>3. CASE c # b
            BY <1>1, <1>2, <1>5, <3>1, <3>3
        <3> QED BY <3>2, <3>3
    <2> QED BY <1>1, <1>2, <2>1 DEF Saving
<1>9. StoredIsSaved' /\ stored' \subseteq Blocks
    BY <1>2, <1>5 DEF Inv, Types, StoredIsSaved
<1> QED BY <1>5, <1>6, <1>7, <1>8, <1>9 DEF Inv, Types

LEMMA NextKeeps == ASSUME Inv, [Next]_vars PROVE Inv'
<1>1. ASSUME NEW w \in Writes, \A b \in BlocksOf(w) : entries[b] > 0,
             Done(w), UNCHANGED <<hash, entries>>
      PROVE  Inv'
    <2>1. BlocksOf(w) \subseteq Blocks
        BY BlocksType
    <2> QED BY <1>1, <2>1 DEF Done, Inv, Types, SlotsSaved, Saving, StoredIsSaved
<1>2. ASSUME NEW w \in Writes, Skip(w) PROVE Inv'
    <2>1. \A b \in BlocksOf(w) : entries[b] > 0
        BY <1>2, FastIsSaved DEF Skip
    <2> QED BY <1>1, <1>2, <2>1 DEF Skip
<1>3. ASSUME NEW w \in Writes, Record(w) PROVE Inv'
    BY <1>3 DEF Record, Inv, Types, SlotsSaved, Saving, StoredIsSaved
<1>4. CASE Store
    <2>1. write \in Writes /\ \A b \in BlocksOf(write) : entries[b] > 0
        BY <1>4 DEF Store, Inv, Saving
    <2> QED BY <1>1, <1>4, <2>1 DEF Store
<1>5. CASE Commit
    BY <1>5 DEF Commit, Inv, Types, SlotsSaved, Saving, StoredIsSaved
<1>6. CASE UNCHANGED vars
    BY <1>6 DEF vars, Inv, Types, SlotsSaved, Saving, StoredIsSaved
<1> QED BY <1>2, <1>3, <1>4, <1>5, <1>6, RecordBlockKeeps DEF Next

-----------------------------------------------------------------------------
(* The invariant of the blocks that are saved once.                        *)

HasSpace == \E s \in Slots : hash[s] = Null

\* The probes find the block before they find an empty slot.
Reachable(b) ==
    \E n \in 1..Probes :
        hash[Probe[b][n]] = b /\ \A m \in 1..(n - 1) : hash[Probe[b][m]] # Null

\* While there is space, a block with an entry has one entry and is found.  That it is found
\* is what makes this inductive.
SavedOnce ==
    HasSpace => \A b \in Blocks : entries[b] <= 1 /\ (entries[b] > 0 => Reachable(b))

\* The slot that is filled is on the way of the probes of other blocks: they go on.
LEMMA RecordBlockOnce == ASSUME Inv, SavedOnce, RecordBlock PROVE SavedOnce'
<1> DEFINE b == CHOOSE x \in todo : \A y \in todo : x <= y
<1>1. /\ hash' = Inserted(b)
      /\ entries' = IF IsLogged(b) THEN entries ELSE [entries EXCEPT ![b] = @ + 1]
    BY Zenon DEF RecordBlock
<1>2. b \in Blocks /\ b # Null
    <2>1. todo # {} /\ write \in Writes /\ todo \subseteq BlocksOf(write)
        BY DEF RecordBlock, Inv, Saving
    <2>2. todo \in SUBSET Nat
        BY <2>1, BlocksType
    <2>3. \E x \in todo : \A y \in todo : x <= y
        BY <2>1, <2>2, LeastElement
    <2>4. b \in todo
        BY <2>3
    <2> HIDE DEF b
    <2> QED BY <2>1, <2>4, BlocksType DEF Null
<1> HIDE DEF b
<1>3. hash \in [Slots -> Blocks \cup {Null}] /\ entries \in [Blocks -> Nat]
    BY DEF Inv, Types
<1> SUFFICES ASSUME HasSpace', NEW c \in Blocks
             PROVE  entries'[c] <= 1 /\ (entries'[c] > 0 => Reachable(c)')
    BY DEF SavedOnce
<1>4. \A s \in Slots : hash'[s] \in {hash[s], b}
    <2>1. PICK x : hash' = hash \/ hash' = [hash EXCEPT ![x] = b]
        BY <1>1 DEF Inserted
    <2> QED BY <1>2, <1>3, <2>1
<1>5. PICK s \in Slots : hash[s] = Null
    <2>1. PICK t \in Slots : hash'[t] = Null
        BY DEF HasSpace
    <2> QED BY <1>2, <1>4, <2>1
<1>6. \A d \in Blocks : entries[d] <= 1 /\ (entries[d] > 0 => Reachable(d))
    BY <1>5 DEF SavedOnce, HasSpace
<1>7. FirstHit(b) # 0
    <2>1. PICK n \in 1..Probes : Probe[b][n] = s
        BY <1>2, ProbesCover
    <2> QED BY <1>2, <1>5, <2>1, FirstHitFacts
<1>8. PICK f \in 1..Probes : f = FirstHit(b)
    BY <1>2, <1>7, FirstHitFacts
<1>9. /\ hash[Probe[b][f]] \in {Null, b}
      /\ \A m \in 1..Probes : hash[Probe[b][m]] \in {Null, b} => f <= m
    BY <1>2, <1>7, <1>8, FirstHitFacts
<1>10. PICK p \in Slots : p = Probe[b][f]
    BY <1>2, <1>8, ProbeInSlots
<1>11. hash' = [hash EXCEPT ![p] = b]
    BY <1>1, <1>7, <1>8, <1>10 DEF Inserted
<1>12. ASSUME NEW d \in Blocks, NEW m \in 1..Probes, hash[Probe[d][m]] # Null
       PROVE  hash'[Probe[d][m]] # Null
    <2>1. Probe[d][m] \in Slots
        BY ProbeInSlots
    <2> QED BY <1>2, <1>4, <1>12, <2>1
<1>13. CASE c = b
    <2>1. hash'[Probe[b][f]] = b
        BY <1>3, <1>10, <1>11
    <2>2. ASSUME NEW m \in 1..(f - 1) PROVE hash'[Probe[b][m]] # Null
        <3>1. m \in 1..Probes /\ ~(f <= m)
            BY DEF Probes
        <3>2. hash[Probe[b][m]] # Null
            BY <1>9, <3>1
        <3> QED BY <1>2, <1>12, <3>1, <3>2
    <2>3. Reachable(c)'
        <3>1. hash'[Probe[c][f]] = c /\ \A m \in 1..(f - 1) : hash'[Probe[c][m]] # Null
            BY <1>13, <2>1, <2>2
        <3> QED BY <3>1 DEF Reachable
    <2>4. CASE IsLogged(b)
        BY <1>1, <1>2, <1>6, <1>13, <2>3, <2>4
    <2>5. CASE ~IsLogged(b)
        <3>1. hash[Probe[b][f]] = Null
            BY <1>7, <1>8, <1>9, <2>5 DEF IsLogged
        <3>2. ~(entries[b] > 0)
            <4> SUFFICES ASSUME entries[b] > 0 PROVE FALSE
                OBVIOUS
            <4>1. PICK n \in 1..Probes :
                    hash[Probe[b][n]] = b /\ \A m \in 1..(n - 1) : hash[Probe[b][m]] # Null
                BY <1>2, <1>6 DEF Reachable
            <4>2. f <= n /\ f # n
                BY <1>2, <1>9, <3>1, <4>1
            <4>3. f \in 1..(n - 1)
                BY <4>2 DEF Probes
            <4> QED BY <3>1, <4>1, <4>3
        <3>3. entries[b] = 0
            BY <1>2, <1>3, <3>2
        <3>4. entries'[b] = entries[b] + 1
            BY <1>1, <1>2, <1>3, <2>5
        <3> QED BY <1>13, <2>3, <3>3, <3>4
    <2> QED BY <2>4, <2>5
<1>14. CASE c # b
    <2>1. entries'[c] = entries[c]
        BY <1>1, <1>2, <1>3, <1>14
    <2>2. ASSUME entries[c] > 0 PROVE Reachable(c)'
        <3>1. PICK n \in 1..Probes :
                hash[Probe[c][n]] = c /\ \A m \in 1..(n - 1) : hash[Probe[c][m]] # Null
            BY <1>6, <2>2 DEF Reachable
        <3>2. Probe[c][n] \in Slots /\ c # Null
            BY BlocksType, ProbeInSlots DEF Null
        <3>3. Probe[c][n] # p
            BY <1>9, <1>10, <1>14, <3>1, <3>2
        <3>4. hash'[Probe[c][n]] = c
            BY <1>3, <1>11, <3>1, <3>2, <3>3
        <3>5. ASSUME NEW m \in 1..(n - 1) PROVE hash'[Probe[c][m]] # Null
            <4>1. m \in 1..Probes
                BY DEF Probes
            <4> QED BY <1>12, <3>1, <4>1
        <3> QED BY <3>4, <3>5 DEF Reachable
    <2> QED BY <1>6, <2>1, <2>2
<1> QED BY <1>13, <1>14

LEMMA NextOnce == ASSUME Inv, SavedOnce, [Next]_vars PROVE SavedOnce'
<1>1. ASSUME UNCHANGED <<hash, entries>> PROVE SavedOnce'
    BY <1>1 DEF SavedOnce, HasSpace, Reachable
<1>2. CASE Commit
    BY <1>2 DEF Commit, SavedOnce
<1>3. CASE RecordBlock
    BY <1>3, RecordBlockOnce
<1>4. CASE UNCHANGED <<hash, entries>>
    BY <1>1, <1>4
<1>5. Commit \/ RecordBlock \/ UNCHANGED <<hash, entries>>
    BY DEF Next, vars, Skip, Record, Store
<1> QED BY <1>2, <1>3, <1>4, <1>5

-----------------------------------------------------------------------------
(* Theorems.                                                               *)

\* Between two commits no store is executed on a block without an undo entry, by the fast
\* path inserted before the store (undo_insert_fast_path) or by record_write, however many
\* blocks collide in the hash table and even if it is full (undo_log.h, OPTIMIZE_DEDUPLICATE
\* and OPTIMIZE_SKIP_RECORD).
THEOREM StoredIsSavedTheorem == Spec => []StoredIsSaved
<1>1. Init => Inv
    BY InitKeeps
<1>2. Inv /\ [Next]_vars => Inv'
    BY NextKeeps
<1>3. Inv => StoredIsSaved
    BY DEF Inv
<1> QED BY <1>1, <1>2, <1>3, PTL DEF Spec

\* "Inserts the address if there's space" (undo_log.h:88): as long as a slot of the hash table
\* is empty, no block has a second undo entry, whatever the size of the table and however the
\* blocks collide: the LOGGED_ADDR_HASH_SIZE + 13 probes of undo_log_insert_logged_addr visit
\* every slot.
THEOREM SavedOnceWhileSpaceTheorem == Spec => []SavedOnceWhileSpace
<1>1. Init => Inv /\ SavedOnce
    <2> SUFFICES ASSUME Init PROVE Inv /\ SavedOnce
        OBVIOUS
    <2>1. \A b \in Blocks : entries[b] = 0
        BY DEF Init
    <2> QED BY <2>1, InitKeeps DEF SavedOnce
<1>2. (Inv /\ SavedOnce) /\ [Next]_vars => (Inv /\ SavedOnce)'
    BY NextKeeps, NextOnce
<1>3. Inv /\ SavedOnce => SavedOnceWhileSpace
    BY DEF SavedOnce, HasSpace, SavedOnceWhileSpace
<1> QED BY <1>1, <1>2, <1>3, PTL DEF Spec
=============================================================================
