-------------------------- MODULE MemsetNtProofs --------------------------
(***************************************************************************)
(* Proofs about MemsetNt, for every start in a cache line and every        *)
(* length.  The invariant: what lies before dest has been set and nothing  *)
(* else, dest and len move in step, and once the leading bytes are done    *)
(* dest stands on a cache line boundary or nothing is left.                *)
(***************************************************************************)
EXTENDS MemsetNt, TLAPS

Bytes(S) == UNION {BytesOf(s) : s \in S}

Store == [at : Nat, size : 1..64, nt : BOOLEAN]

\* What is left at each step: the loop and the three tests take whole lines.
Left ==
    /\ pc = "lines4" => len < 512
    /\ pc = "lines2" => len < 256
    /\ pc = "lines1" => len < 128
    /\ pc = "rest" => len < 64
    /\ pc = "end" => len = 0

\* The bytes asked for, those taken and those left.
Extent ==
    /\ arg \in [dest : 0..63, len : Nat] /\ (arg.len = 0 => arg.dest = 0)
    /\ dest \in Nat /\ len \in Nat
    /\ arg.dest <= dest /\ dest + len = arg.dest + arg.len
    /\ pc = "head" => dest = arg.dest

Written == stores \in SUBSET Store /\ Bytes(stores) = arg.dest..(dest - 1)

OnBoundary == pc # "head" => dest % 64 = 0 \/ len = 0

\* A call for whole lines keeps to whole lines and streams.
WholeLines == arg.dest = 0 /\ arg.len % 64 = 0 => len % 64 = 0 /\ \A s \in stores : s.nt

Inv ==
    /\ pc \in {"head", "lines8", "lines4", "lines2", "lines1", "rest", "end"}
    /\ Extent /\ Written /\ OnBoundary /\ Left /\ StreamsAligned /\ WholeLines

\* The stores in new set the next n bytes and obey the rules for streams.
Fills(n, new) ==
    /\ n <= len
    /\ new \in SUBSET Store
    /\ Bytes(new) = dest..(dest + n - 1)
    /\ \A s \in new : s.nt /\ s.size >= 16 => s.at % s.size = 0
    /\ arg.dest = 0 /\ arg.len % 64 = 0 => n % 64 = 0 /\ \A s \in new : s.nt

-----------------------------------------------------------------------------
(* What the helpers write.                                                 *)

LEMMA BytesUnion ==
    ASSUME NEW S, NEW T
    PROVE  Bytes(S \cup T) = Bytes(S) \cup Bytes(T)
BY DEF Bytes

LEMMA IntervalJoin ==
    ASSUME NEW a \in Nat, NEW b \in Nat, NEW n \in Nat, a <= b
    PROVE  (a..(b - 1)) \cup (b..(b + n - 1)) = a..(b + n - 1)
<1>1. \A x : x \in (a..(b - 1)) \cup (b..(b + n - 1)) <=> x \in a..(b + n - 1)
    OBVIOUS
<1> QED BY <1>1

LEMMA BytesEmpty == Bytes({}) = {}
BY DEF Bytes

\* Two stores of the largest size that fits cover n bytes.
LEMMA SmallStoresBytes ==
    ASSUME NEW d \in Nat, NEW n \in 1..64
    PROVE  /\ SmallStores(d, n) \in SUBSET Store
           /\ \A s \in SmallStores(d, n) : ~s.nt
           /\ Bytes(SmallStores(d, n)) = d..(d + n - 1)
<1> DEFINE size == CASE n > 32 -> 32 [] n \in 17..32 -> 16 [] n \in 9..16 -> 8 [] n \in 5..8 -> 4
                     [] n \in 2..4 -> 2 [] OTHER -> 1
<1>1. /\ size \in 1..32 /\ size <= n /\ n <= 2 * size
      /\ n <= 2 => size = n
    OBVIOUS
<1> HIDE DEF size
<1>2. SmallStores(d, n) = {Cached(d, size)} \cup (IF n > 2 THEN {Cached(d + n - size, size)} ELSE {})
    BY DEF SmallStores, size
<1>3. BytesOf(Cached(d, size)) = d..(d + size - 1)
    BY DEF BytesOf, Cached
<1>4. BytesOf(Cached(d + n - size, size)) = (d + n - size)..(d + n - 1)
    BY <1>1 DEF BytesOf, Cached
<1>5. CASE n > 2
    <2>1. Bytes(SmallStores(d, n)) = BytesOf(Cached(d, size)) \cup BytesOf(Cached(d + n - size, size))
        BY <1>2, <1>5 DEF Bytes
    <2>2. Bytes(SmallStores(d, n)) = d..(d + n - 1)
        BY <2>1, <1>1, <1>3, <1>4
    <2> QED BY <2>2, <1>1, <1>2, <1>5 DEF Cached, Store
<1>6. CASE n <= 2
    <2>1. Bytes(SmallStores(d, n)) = BytesOf(Cached(d, size))
        BY <1>2, <1>6 DEF Bytes
    <2>2. Bytes(SmallStores(d, n)) = d..(d + n - 1)
        BY <2>1, <1>1, <1>3, <1>6
    <2>3. SmallStores(d, n) = {Cached(d, size)}
        BY <1>2, <1>6
    <2> QED BY <2>2, <2>3, <1>1 DEF Cached, Store
<1> QED BY <1>5, <1>6

\* The streams of some lines fill them, and are aligned if the first line is.
LEMMA LineStreamsBytes ==
    ASSUME NEW d \in Nat, d % 64 = 0, NEW lines \in Nat \ {0}
    PROVE  /\ LineStreams(d, lines) \in SUBSET Store
           /\ \A s \in LineStreams(d, lines) : s.nt /\ s.size = 32 /\ s.at % 32 = 0
           /\ Bytes(LineStreams(d, lines)) = d..(d + 64 * lines - 1)
<1>1. ASSUME NEW s \in LineStreams(d, lines)
      PROVE  /\ s \in Store /\ s.nt /\ s.size = 32 /\ s.at % 32 = 0
             /\ BytesOf(s) \subseteq d..(d + 64 * lines - 1)
    <2>1. PICK i \in 0..(2 * lines - 1) : s = Stream(d + 32 * i, 32)
        BY DEF LineStreams
    <2>2. s = [at |-> d + 32 * i, size |-> 32, nt |-> TRUE]
        BY <2>1 DEF Stream
    <2>3. (d + 32 * i) % 32 = 0 /\ d + 32 * i \in Nat
        OBVIOUS
    <2>4. BytesOf(s) = (d + 32 * i)..(d + 32 * i + 31)
        BY <2>2, <2>3 DEF BytesOf
    <2> QED BY <2>2, <2>3, <2>4 DEF Store
<1>2. ASSUME NEW x \in d..(d + 64 * lines - 1)
      PROVE  x \in Bytes(LineStreams(d, lines))
    <2> DEFINE i == (x - d) \div 32
    <2>1. i \in 0..(2 * lines - 1) /\ d + 32 * i <= x /\ x <= d + 32 * i + 31
        OBVIOUS
    <2> HIDE DEF i
    <2>2. Stream(d + 32 * i, 32) \in LineStreams(d, lines)
        BY <2>1 DEF LineStreams
    <2>3. x \in BytesOf(Stream(d + 32 * i, 32))
        BY <2>1 DEF BytesOf, Stream
    <2> QED BY <2>2, <2>3 DEF Bytes
<1> QED BY <1>1, <1>2 DEF Bytes

-----------------------------------------------------------------------------

LEMMA InitInv == Init => Inv
<1> SUFFICES ASSUME Init PROVE Inv
    OBVIOUS
<1>1. arg \in [dest : 0..63, len : Nat] /\ (arg.len = 0 => arg.dest = 0)
    BY MemsetNtAssumption DEF Init
<1>2. stores = {} /\ pc = "head" /\ dest = arg.dest /\ len = arg.len
    BY DEF Init
<1>3. Written
    <2>1. dest = arg.dest /\ arg.dest \in Int /\ Bytes(stores) = {}
        BY <1>1, <1>2, BytesEmpty
    <2>2. \A x : x \notin arg.dest..(dest - 1)
        BY <2>1
    <2> QED BY <1>2, <2>1, <2>2 DEF Written
<1>4. Extent
    BY <1>1, <1>2 DEF Extent
<1>5. StreamsAligned /\ Left /\ OnBoundary /\ WholeLines
    BY <1>2 DEF StreamsAligned, Left, OnBoundary, WholeLines
<1> QED BY <1>2, <1>3, <1>4, <1>5 DEF Inv

\* A step that fills the bytes it takes keeps all of the invariant that does not speak of pc.
LEMMA AdvanceKeeps ==
    ASSUME Inv, NEW n \in Nat, NEW new, Fills(n, new), Advance(n, new), pc' # "head"
    PROVE  /\ dest' = dest + n /\ len' = len - n
           /\ Extent' /\ Written' /\ StreamsAligned' /\ WholeLines'
<1>1. stores' = stores \cup new /\ dest' = dest + n /\ len' = len - n /\ arg' = arg
    BY DEF Advance
<1>2. n <= len /\ new \in SUBSET Store /\ Bytes(new) = dest..(dest + n - 1)
    BY DEF Fills
<1>3. Extent /\ Written /\ StreamsAligned /\ WholeLines
    BY DEF Inv
<1>4. arg.dest \in Nat /\ arg.len \in Nat /\ dest \in Nat /\ len \in Nat /\ arg.dest <= dest
    BY <1>3 DEF Extent
<1>5. Extent'
    BY <1>1, <1>2, <1>3, <1>4 DEF Extent
<1>6. Written'
    <2> DEFINE a == arg.dest
    <2>1. a \in Nat /\ a <= dest /\ dest \in Nat /\ Bytes(stores) = a..(dest - 1)
        BY <1>3, <1>4 DEF Written
    <2> HIDE DEF a
    <2>2. Bytes(new) = dest..(dest + n - 1)
        BY <1>2
    <2>3. Bytes(stores \cup new) = Bytes(stores) \cup Bytes(new)
        BY BytesUnion
    <2>4. (a..(dest - 1)) \cup (dest..(dest + n - 1)) = a..(dest + n - 1)
        BY <2>1, IntervalJoin
    <2>5. Bytes(stores \cup new) = a..(dest + n - 1)
        BY <2>1, <2>2, <2>3, <2>4
    <2>6. stores' \in SUBSET Store
        BY <1>1, <1>2, <1>3 DEF Written
    <2>7. Bytes(stores') = Bytes(stores \cup new)
        BY <1>1
    <2>8. a..(dest + n - 1) = arg'.dest..(dest' - 1)
        BY <1>1, <2>1 DEF a
    <2>9. Bytes(stores') = arg'.dest..(dest' - 1)
        BY <2>5, <2>7, <2>8
    <2> QED BY <2>6, <2>9 DEF Written
<1>7. StreamsAligned'
    BY <1>1, <1>3 DEF StreamsAligned, Fills
<1>8. WholeLines'
    <2>1. len % 64 = 0 /\ n % 64 = 0 => (len - n) % 64 = 0
        BY <1>4
    <2>2. SUFFICES ASSUME arg.dest = 0, arg.len % 64 = 0
                   PROVE  (len - n) % 64 = 0 /\ \A s \in stores' : s.nt
        BY <1>1 DEF WholeLines
    <2>3. n % 64 = 0 /\ \A s \in new : s.nt
        BY <2>2 DEF Fills
    <2>4. len % 64 = 0 /\ \A s \in stores : s.nt
        BY <1>3, <2>2 DEF WholeLines
    <2> QED BY <1>1, <2>1, <2>3, <2>4
<1> QED BY <1>1, <1>5, <1>6, <1>7, <1>8

\* The streams of whole lines, at an aligned place, fill them.
LEMMA LinesFill ==
    ASSUME Inv, pc # "head", NEW lines \in {1, 2, 4, 8}, len >= lines * 64
    PROVE  Fills(lines * 64, LineStreams(dest, lines)) /\ dest % 64 = 0
<1>1. Extent /\ OnBoundary
    BY DEF Inv
<1>2. dest \in Nat /\ len \in Nat
    BY <1>1 DEF Extent
<1>3. dest % 64 = 0
    BY <1>1, <1>2 DEF OnBoundary
<1>4. lines \in Nat \ {0} /\ lines * 64 \in Nat /\ 64 * lines = lines * 64 /\ (lines * 64) % 64 = 0
    OBVIOUS
<1>5. /\ LineStreams(dest, lines) \in SUBSET Store
      /\ \A s \in LineStreams(dest, lines) : s.nt /\ s.size = 32 /\ s.at % 32 = 0
      /\ Bytes(LineStreams(dest, lines)) = dest..(dest + 64 * lines - 1)
    BY <1>2, <1>3, <1>4, LineStreamsBytes
<1>6. \A s \in LineStreams(dest, lines) : s.nt /\ s.size >= 16 => s.at % s.size = 0
    BY <1>5
<1>7. Bytes(LineStreams(dest, lines)) = dest..(dest + lines * 64 - 1)
    BY <1>4, <1>5
<1> QED BY <1>3, <1>4, <1>5, <1>6, <1>7 DEF Fills

\* So does memset_small_avx for a piece that is not empty, where the call is not for whole lines.
LEMMA SmallFill ==
    ASSUME Inv, NEW n \in 1..64, n <= len, ~(arg.dest = 0 /\ arg.len % 64 = 0)
    PROVE  Fills(n, SmallStores(dest, n))
<1>1. dest \in Nat
    BY DEF Inv, Extent
<1>2. /\ SmallStores(dest, n) \in SUBSET Store
      /\ \A s \in SmallStores(dest, n) : ~s.nt
      /\ Bytes(SmallStores(dest, n)) = dest..(dest + n - 1)
    BY <1>1, SmallStoresBytes
<1> QED BY <1>2 DEF Fills

LEMMA NothingFills == ASSUME Inv PROVE Fills(0, {})
<1>1. dest \in Nat /\ len \in Nat
    BY DEF Inv, Extent
<1>2. \A x : x \notin dest..(dest + 0 - 1)
    BY <1>1
<1>3. Bytes({}) = dest..(dest + 0 - 1)
    BY <1>2, BytesEmpty
<1> QED BY <1>1, <1>3 DEF Fills

-----------------------------------------------------------------------------
(* Each step keeps the invariant.                                          *)

\* Up to the first boundary, or to the end if that comes first.
LEMMA LeadKeeps == ASSUME Inv, Lead PROVE Inv'
<1>1. /\ pc = "head" /\ pc' = "lines8" /\ Extent
      /\ Advance(Gap, IF dest % 64 = 0 THEN {} ELSE SmallStores(dest, Gap))
    BY DEF Inv, Lead
<1>2. dest = arg.dest /\ dest \in 0..63 /\ len \in Nat /\ len = arg.len /\ (len = 0 => dest = 0)
    BY <1>1 DEF Extent
<1> DEFINE new == IF dest % 64 = 0 THEN {} ELSE SmallStores(dest, Gap)
<1>3. Gap \in Nat /\ Fills(Gap, new) /\ ((dest + Gap) % 64 = 0 \/ len - Gap = 0)
    <2>1. CASE dest = 0
        <3>1. dest % 64 = 0 /\ Gap = 0
            BY <2>1 DEF Gap
        <3> QED BY <1>2, <3>1, NothingFills
    <2>2. CASE dest # 0
        <3>1. dest % 64 = dest /\ Gap = IF 64 - dest > len THEN len ELSE 64 - dest
            BY <1>2, <2>2 DEF Gap
        <3>2. Gap \in 1..64 /\ Gap <= len /\ (dest + Gap = 64 \/ len - Gap = 0)
            BY <1>2, <2>2, <3>1
        <3>3. Fills(Gap, SmallStores(dest, Gap))
            BY <1>2, <2>2, <3>2, SmallFill
        <3>4. new = SmallStores(dest, Gap)
            BY <2>2, <3>1
        <3> QED BY <3>2, <3>3, <3>4
    <2> QED BY <2>1, <2>2
<1> HIDE DEF new
<1>4. Advance(Gap, new)
    BY <1>1 DEF new
<1>5. dest' = dest + Gap /\ len' = len - Gap /\ Extent' /\ Written' /\ StreamsAligned' /\ WholeLines'
    BY <1>1, <1>3, <1>4, AdvanceKeeps
<1>6. OnBoundary' /\ Left'
    BY <1>1, <1>3, <1>5 DEF OnBoundary, Left
<1> QED BY <1>1, <1>5, <1>6 DEF Inv

\* Whole lines where the test before them succeeds: all but what the test of the next step needs.
LEMMA LinesKeep ==
    ASSUME Inv, pc # "head", pc' # "head", NEW lines \in {1, 2, 4, 8}, len >= lines * 64,
           Advance(lines * 64, LineStreams(dest, lines))
    PROVE  len' = len - lines * 64 /\ Extent' /\ Written' /\ StreamsAligned' /\ WholeLines' /\ OnBoundary'
<1>1. Fills(lines * 64, LineStreams(dest, lines)) /\ dest % 64 = 0
    BY LinesFill
<1>2. dest \in Nat /\ lines * 64 \in Nat /\ (dest + lines * 64) % 64 = 0
    <2>1. dest \in Nat
        BY DEF Inv, Extent
    <2> QED BY <1>1, <2>1
<1>3. /\ dest' = dest + lines * 64 /\ len' = len - lines * 64
      /\ Extent' /\ Written' /\ StreamsAligned' /\ WholeLines'
    BY <1>1, <1>2, AdvanceKeeps
<1> QED BY <1>2, <1>3 DEF OnBoundary

\* A test that fails moves pc alone.
LEMMA SkipKeeps ==
    ASSUME Inv, pc # "head", pc' # "head", UNCHANGED <<arg, dest, len, stores>>
    PROVE  len' = len /\ Extent' /\ Written' /\ StreamsAligned' /\ WholeLines' /\ OnBoundary'
<1>1. Extent'
    BY DEF Inv, Extent
<1>2. Written' /\ StreamsAligned' /\ WholeLines' /\ OnBoundary'
    BY DEF Inv, Written, StreamsAligned, WholeLines, OnBoundary
<1> QED BY <1>1, <1>2

LEMMA Lines8Keeps == ASSUME Inv, Lines8 PROVE Inv'
<1>1. pc = "lines8" /\ len \in Nat
    BY DEF Inv, Extent, Lines8
<1>2. CASE len >= 8 * 64
    <2>1. pc' = "lines8" /\ Advance(8 * 64, LineStreams(dest, 8))
        BY <1>1, <1>2 DEF Lines8
    <2>2. Extent' /\ Written' /\ StreamsAligned' /\ WholeLines' /\ OnBoundary'
        BY <1>1, <1>2, <2>1, LinesKeep
    <2> QED BY <2>1, <2>2 DEF Inv, Left
<1>3. CASE ~(len >= 8 * 64)
    <2>1. pc' = "lines4" /\ UNCHANGED <<arg, dest, len, stores>>
        BY <1>3 DEF Lines8
    <2>2. len' = len /\ Extent' /\ Written' /\ StreamsAligned' /\ WholeLines' /\ OnBoundary'
        BY <1>1, <2>1, SkipKeeps
    <2> QED BY <1>1, <1>3, <2>1, <2>2 DEF Inv, Left
<1> QED BY <1>2, <1>3

\* The tests for 4, 2 and 1 lines: each finds less than twice what it takes.
LEMMA LinesStepKeeps ==
    ASSUME Inv, NEW lines \in {1, 2, 4}, NEW from, NEW to, Lines(lines, from, to),
           <<lines, from, to>> \in {<<4, "lines4", "lines2">>, <<2, "lines2", "lines1">>, <<1, "lines1", "rest">>}
    PROVE  Inv'
<1>1. pc = from /\ pc' = to /\ pc # "head" /\ pc' # "head"
    BY DEF Lines
<1>2. len \in Nat /\ len < 2 * lines * 64
    BY <1>1 DEF Inv, Extent, Left
<1>3. ASSUME len' \in Nat, len' < lines * 64 PROVE Left'
    BY <1>1, <1>3 DEF Left
<1>4. CASE len >= lines * 64
    <2>1. Advance(lines * 64, LineStreams(dest, lines))
        BY <1>4 DEF Lines
    <2>2. len' = len - lines * 64 /\ Extent' /\ Written' /\ StreamsAligned' /\ WholeLines' /\ OnBoundary'
        BY <1>1, <1>4, <2>1, LinesKeep
    <2>3. Left'
        BY <1>2, <1>3, <1>4, <2>2
    <2> QED BY <1>1, <2>2, <2>3 DEF Inv
<1>5. CASE ~(len >= lines * 64)
    <2>1. UNCHANGED <<arg, dest, len, stores>>
        BY <1>5 DEF Lines
    <2>2. len' = len /\ Extent' /\ Written' /\ StreamsAligned' /\ WholeLines' /\ OnBoundary'
        BY <1>1, <2>1, SkipKeeps
    <2>3. Left'
        BY <1>2, <1>3, <1>5, <2>2
    <2> QED BY <1>1, <2>2, <2>3 DEF Inv
<1> QED BY <1>4, <1>5

\* The rest is less than a line; if there is any, the call is not for whole lines and dest is
\* on a boundary, so that a stream of 16 or 32 bytes is aligned.
LEMMA TrailKeeps == ASSUME Inv, Trail PROVE Inv'
<1>1. pc = "rest" /\ pc' = "end" /\ Advance(len, Rest(dest, len))
    BY DEF Trail
<1>2. dest \in Nat /\ len \in Nat /\ len < 64
    BY <1>1 DEF Inv, Extent, Left
<1>3. ASSUME len # 0
      PROVE  dest % 64 = 0 /\ ~(arg.dest = 0 /\ arg.len % 64 = 0)
    <2>1. OnBoundary /\ WholeLines
        BY DEF Inv
    <2>2. len % 64 # 0
        BY <1>2, <1>3
    <2> QED BY <1>1, <1>3, <2>1, <2>2 DEF OnBoundary, WholeLines
<1>4. Fills(len, Rest(dest, len))
    <2>1. CASE len = 0
        BY <2>1, NothingFills DEF Rest
    <2>2. CASE len \in {4, 8, 16, 32}
        <3>1. Rest(dest, len) = {[at |-> dest, size |-> len, nt |-> TRUE]}
            BY <2>2 DEF Rest, Stream
        <3>2. Bytes(Rest(dest, len)) = dest..(dest + len - 1)
            BY <3>1 DEF Bytes, BytesOf
        <3>3. dest % 64 = 0 /\ ~(arg.dest = 0 /\ arg.len % 64 = 0)
            BY <1>3, <2>2
        <3>4. Rest(dest, len) \in SUBSET Store
            BY <1>2, <2>2, <3>1 DEF Store
        <3>5. dest % 16 = 0 /\ dest % 32 = 0
            BY <1>2, <3>3
        <3>6. \A s \in Rest(dest, len) : s.nt /\ s.size >= 16 => s.at % s.size = 0
            BY <2>2, <3>1, <3>5
        <3> QED BY <1>2, <3>2, <3>3, <3>4, <3>6 DEF Fills
    <2>3. CASE len # 0 /\ len \notin {4, 8, 16, 32}
        <3>1. Rest(dest, len) = SmallStores(dest, len)
            BY <2>3 DEF Rest
        <3>2. len \in 1..64 /\ len <= len
            BY <1>2, <2>3
        <3> QED BY <1>3, <2>3, <3>1, <3>2, SmallFill
    <2> QED BY <2>1, <2>2, <2>3
<1> DEFINE new == Rest(dest, len)
<1>5. Fills(len, new) /\ Advance(len, new)
    BY <1>1, <1>4
<1> HIDE DEF new
<1>6. len' = len - len /\ Extent' /\ Written' /\ StreamsAligned' /\ WholeLines'
    BY <1>1, <1>2, <1>5, AdvanceKeeps
<1>7. len' = 0
    BY <1>2, <1>6
<1> QED BY <1>1, <1>6, <1>7 DEF Inv, OnBoundary, Left

LEMMA StutterKeeps == ASSUME Inv, UNCHANGED vars PROVE Inv'
<1>1. Extent'
    BY DEF Inv, Extent, vars
<1>2. Written' /\ OnBoundary' /\ Left' /\ StreamsAligned' /\ WholeLines'
    BY DEF Inv, Written, OnBoundary, Left, StreamsAligned, WholeLines, vars
<1> QED BY <1>1, <1>2 DEF Inv, vars

LEMMA NextKeeps == Inv /\ [Next]_vars => Inv'
<1> SUFFICES ASSUME Inv, [Next]_vars PROVE Inv'
    OBVIOUS
<1>1. CASE Lead
    BY <1>1, LeadKeeps
<1>2. CASE Lines8
    BY <1>2, Lines8Keeps
<1>3. CASE Lines(4, "lines4", "lines2")
    BY <1>3, LinesStepKeeps
<1>4. CASE Lines(2, "lines2", "lines1")
    BY <1>4, LinesStepKeeps
<1>5. CASE Lines(1, "lines1", "rest")
    BY <1>5, LinesStepKeeps
<1>6. CASE Trail
    BY <1>6, TrailKeeps
<1>7. CASE UNCHANGED vars
    BY <1>7, StutterKeeps
<1> QED BY <1>1, <1>2, <1>3, <1>4, <1>5, <1>6, <1>7 DEF Next

LEMMA InvAlways == Spec => []Inv
BY InitInv, NextKeeps, PTL DEF Spec

-----------------------------------------------------------------------------
(* Theorems.                                                               *)

\* memset_movnt_avx sets the bytes it is asked to set, all of them by the time it returns, and
\* never one outside of them, for every start in a cache line and every length.
THEOREM SetsExactlyTheorem == Spec => []SetsExactly
<1>1. Inv => SetsExactly
    <2> SUFFICES ASSUME Inv PROVE SetsExactly
        OBVIOUS
    <2>1. /\ arg.dest \in Nat /\ arg.len \in Nat /\ dest \in Nat /\ len \in Nat
          /\ arg.dest <= dest /\ dest + len = arg.dest + arg.len
        BY DEF Inv, Extent
    <2>2. Bytes(stores) = arg.dest..(dest - 1)
        BY DEF Inv, Written
    <2>3. (arg.dest..(dest - 1)) \subseteq arg.dest..(arg.dest + arg.len - 1)
        BY <2>1
    <2>4. pc = "end" => dest - 1 = arg.dest + arg.len - 1
        BY <2>1 DEF Inv, Left
    <2>5. Bytes(stores) \subseteq arg.dest..(arg.dest + arg.len - 1)
        BY <2>2, <2>3
    <2>6. pc = "end" => Bytes(stores) = arg.dest..(arg.dest + arg.len - 1)
        BY <2>2, <2>4
    <2> QED BY <2>5, <2>6 DEF SetsExactly, Bytes
<1> QED BY <1>1, InvAlways, PTL

\* No stream of memset_movnt_avx is misaligned, so that none faults.
THEOREM StreamsAlignedTheorem == Spec => []StreamsAligned
<1>1. Inv => StreamsAligned
    BY DEF Inv
<1> QED BY <1>1, InvAlways, PTL

\* A call for whole, aligned cache lines, as undo_log_clear makes, leaves nothing in the cache:
\* draining is enough to make it persistent, however many entries the log has.
THEOREM ClearPersistsTheorem == Spec => []ClearPersists
<1>1. Inv => ClearPersists
    BY DEF Inv, WholeLines, ClearPersists
<1> QED BY <1>1, InvAlways, PTL
=============================================================================
