---------------------------- MODULE PsmLogProofs ----------------------------
(***************************************************************************)
(* Proofs about PsmLog, for every size of the buffer and of the lines and  *)
(* any number of operations and crashes.                                   *)
(*                                                                         *)
(* The buffer is circular, so offsets alone do not tell what is before     *)
(* what.  The invariant unrolls it: pos[k] is the place behind the k-th    *)
(* operation of log \o pending as a lap and an offset, lens[k] that        *)
(* operation's length, and every pointer of the two processes is the       *)
(* offset of some pos[k].  All that is left of the circle is the window:   *)
(* the end of what is reserved is less than one lap ahead of the tail that *)
(* psm_reserve knows.  Within it no two entries share a line, and offsets  *)
(* compare as the readers compare them.                                    *)
(*                                                                         *)
(* The last part shows that the log in persistent memory implements        *)
(* DurableQueue.  What a reader of the persistent buffer meets between     *)
(* rtail and the persistent head is a recursive walk.  By induction on the *)
(* number of entries that are left, it yields the operations of log that   *)
(* are not in dexec; the walk's bound is large enough because entries in   *)
(* the window start on different lines.  So the queue changes with log and *)
(* dexec only.                                                             *)
(***************************************************************************)
EXTENDS PsmLog, SequenceTheorems, FiniteSetTheorems, WellFoundedInduction, TLAPS

Pos == [lap : Nat, off : Offsets]
Origin == [lap |-> 0, off |-> 0]

Before(p, q) == p.lap < q.lap \/ (p.lap = q.lap /\ p.off < q.off)

\* q is less than one lap ahead of p.
Fits(p, q) == \/ q.lap = p.lap /\ p.off <= q.off
              \/ q.lap = p.lap + 1 /\ q.off < p.off

Size(n) == align_to_cache_line_size(n)

\* Where an entry of n bytes is placed that is reserved at p, and the place behind it.
EntryAt(p, n) == IF p.off + Size(n) > LogSize THEN [lap |-> p.lap + 1, off |-> 0] ELSE p
After(p, n) ==
    LET e == EntryAt(p, n)
    IN  IF e.off + Size(n) = LogSize THEN [lap |-> e.lap + 1, off |-> 0]
                                     ELSE [lap |-> e.lap, off |-> e.off + Size(n)]

EntryLines(p, n) == LinesOf([at |-> EntryAt(p, n).off, len |-> n])

\* Buffer b holds the entry of operation op, and the mark of the padding before it.
Placed(b, p, n, op) ==
    /\ EntryAt(p, n) # p => b[p.off] = Pad
    /\ \A o \in EntryLines(p, n) :
           b[o] = [op |-> op, part |-> (o - EntryAt(p, n).off) \div LineSize, len |-> n]

\* How many operations have been issued, have space, and are persistent.
Issued == Len(log) + Len(pending)
Reserved == Issued + (IF fpc = "fill" THEN 1 ELSE 0)
Drained == Len(log) + (IF fpc = "persist_head" THEN Len(pending) ELSE 0)
OpAt(k) == (log \o pending)[k]

Layout(pos, lens) ==
    /\ pos \in [Nat -> Pos] /\ lens \in [Nat -> Nat]
    /\ pos[0] = Origin
    /\ \A k \in 1..Reserved : lens[k] \in EntryLens /\ pos[k] = After(pos[k - 1], lens[k])
    /\ \A i, j \in 0..Reserved : i < j => Before(pos[i], pos[j])

\* The pointers; h, p, t and lt are the places of head, ptail, tail and local_tail.
Pointers(pos, h, p, t, lt) ==
    /\ h \in Nat /\ p \in Nat /\ t \in Nat /\ lt \in Nat
    /\ lt <= t /\ t <= p /\ p <= Len(dexec) /\ Len(dexec) <= Len(bexec) /\ Len(bexec) <= h /\ h <= Len(log)
    /\ head = pos[h].off /\ ptail = pos[p].off /\ tail = pos[t].off /\ local_tail = pos[lt].off
    /\ phead = pos[Len(log)].off /\ local_head = pos[Reserved].off
    /\ rtail = pos[Len(dexec)].off /\ btail = pos[Len(bexec)].off
    /\ fpc # "publish_head" => h = Len(log)
    /\ fpc = "replay" => lt <= Len(fexec) /\ ftail = pos[Len(fexec)].off
    /\ bpc = "publish_tail" => p = Len(bexec)
    /\ Fits(pos[lt], pos[Reserved])

\* What the two images of the buffer hold from local_tail on.
Contents(pos, lens, lt) ==
    /\ \A k \in (lt + 1)..Issued : Placed(buf, pos[k - 1], lens[k], OpAt(k))
    /\ \A k \in (lt + 1)..Drained : Placed(nbuf, pos[k - 1], lens[k], OpAt(k))

\* Until the drain, what is pending is in flight as far as psm_commit may rely on it.
Inflight(pos, lens) ==
    fpc # "persist_head" =>
        /\ \A k \in (Len(log) + 1)..Reserved :
               EntryAt(pos[k - 1], lens[k]) # pos[k - 1] => pos[k - 1].off \in inflight
        /\ all_pushed => \A k \in (Len(log) + 1)..Issued : EntryLines(pos[k - 1], lens[k]) \subseteq inflight

\* What psm_reserve has promised.
Promise(pos, lens) ==
    /\ fpc \in {"reserve", "fill"} => nops < MaxOps /\ entry.len \in EntryLens
    /\ fpc = "reserve" =>
           /\ want = Needed(Size(entry.len))
           /\ entry.at = EntryAt(pos[Reserved], entry.len).off
    /\ fpc = "fill" =>
           /\ lens[Reserved] = entry.len
           /\ entry.at = EntryAt(pos[Reserved - 1], entry.len).off
           /\ EntryAt(pos[Reserved - 1], entry.len) # pos[Reserved - 1] => buf[pos[Reserved - 1].off] = Pad

Good(pos, lens, h, p, t, lt) ==
    /\ Layout(pos, lens) /\ Pointers(pos, h, p, t, lt) /\ Contents(pos, lens, lt)
    /\ Inflight(pos, lens) /\ Promise(pos, lens)

\* s is the beginning of t.
Begins(s, t) == Len(s) <= Len(t) /\ \A k \in 1..Len(s) : s[k] = t[k]

Executed ==
    /\ Begins(bexec, log) /\ Begins(dexec, bexec) /\ Begins(fexec, log)
    /\ fpc = "recovered" => Len(fexec) = Len(log)
    /\ bpc \in {"persist_tail", "publish_tail"} => dexec = bexec
    /\ bpc \in {"consume", "commit"} => consumed = Len(bexec) - Len(dexec)
    /\ bpc = "consume" => consumed < CommitBatch
    /\ bpc = "commit" => consumed > 0

Ops == 1..MaxOps

\* Types of what is not a place; no operation has the number of Pad.
Types ==
    /\ buf \in [Offsets -> Line] /\ nbuf \in [Offsets -> Line]
    /\ ftail \in Offsets /\ inflight \subseteq Offsets /\ all_pushed \in BOOLEAN
    /\ want \in 0..(2 * LogSize) /\ entry \in [at : Offsets, len : {0} \cup EntryLens]
    /\ fpc \in FgPCs /\ bpc \in BgPCs /\ consumed \in 0..CommitBatch
    /\ nops \in 0..MaxOps /\ crashes \in 0..MaxCrashes
    /\ pending \in Seq(Ops) /\ log \in Seq(Ops)
    /\ dexec \in Seq(Ops) /\ bexec \in Seq(Ops) /\ fexec \in Seq(Ops)
    /\ fpc \in {"publish_head", "replay", "recovered"} => pending = <<>>

Inv == Types /\ Executed /\ \E pos, lens, h, p, t, lt : Good(pos, lens, h, p, t, lt)

-----------------------------------------------------------------------------
(* Arithmetic.                                                             *)

LEMMA ModTwice ==
    ASSUME NEW d \in Nat \ {0}, NEW x \in 0..(2 * d - 1)
    PROVE  x % d = IF x < d THEN x ELSE x - d
OBVIOUS

LEMMA MultipleMod == ASSUME NEW d \in Nat \ {0}, NEW q \in Nat PROVE (d * q) % d = 0
OBVIOUS

LEMMA AlignedSum ==
    ASSUME NEW d \in Nat \ {0}, NEW x \in Nat, NEW y \in Nat, x % d = 0, y % d = 0
    PROVE  (x + y) % d = 0
<1>1. x = d * (x \div d) /\ y = d * (y \div d) /\ x \div d \in Nat /\ y \div d \in Nat
    OBVIOUS
<1>2. PICK q \in Nat : x + y = d * q
    <2>1. x + y = d * ((x \div d) + (y \div d)) /\ (x \div d) + (y \div d) \in Nat
        BY <1>1
    <2> QED BY <2>1
<1> QED BY <1>2, MultipleMod

\* A length that the application may ask for takes whole lines, less than the buffer.
LEMMA SizeOf ==
    ASSUME NEW n \in EntryLens
    PROVE  Size(n) \in 1..(LogSize - 1) /\ Size(n) % LineSize = 0
<1>1. n \in Nat /\ n >= 1 /\ n + LineSize - 1 \in Nat /\ n <= LogSize - LineSize /\ LineSize \in Nat \ {0}
      /\ LogSize \in Nat
    BY PsmLogAssumption
<1> DEFINE q == (n + LineSize - 1) \div LineSize
<1>2. q \in Nat /\ LineSize * q \in n..(n + LineSize - 1) /\ Size(n) = LineSize * q
    BY <1>1 DEF Size, align_to_cache_line_size
<1> HIDE DEF q
<1>3. (LineSize * q) % LineSize = 0
    BY <1>1, <1>2, MultipleMod
<1> QED BY <1>1, <1>2, <1>3

LEMMA OffsetPlus ==
    ASSUME NEW o \in Offsets, NEW n \in EntryLens, o + Size(n) < LogSize
    PROVE  o + Size(n) \in Offsets
<1>1. (o + Size(n)) % LineSize = 0
    BY PsmLogAssumption, SizeOf, AlignedSum DEF Offsets
<1> QED BY PsmLogAssumption, <1>1, SizeOf DEF Offsets

LEMMA ZeroOffset == 0 \in Offsets
BY PsmLogAssumption DEF Offsets

LEMMA OffsetRange == ASSUME NEW o \in Offsets PROVE o \in 0..(LogSize - 1)
BY DEF Offsets

-----------------------------------------------------------------------------
(* Places.                                                                 *)

LEMMA PlaceAfter ==
    ASSUME NEW p \in Pos, NEW n \in EntryLens
    PROVE  /\ EntryAt(p, n) \in Pos /\ After(p, n) \in Pos
           /\ EntryAt(p, n).off + Size(n) <= LogSize
           /\ Before(p, After(p, n))
           /\ EntryAt(p, n) = p \/ EntryAt(p, n) = [lap |-> p.lap + 1, off |-> 0]
<1>1. Size(n) \in 1..(LogSize - 1) /\ LogSize \in Nat
    BY PsmLogAssumption, SizeOf
<1>2. p.lap \in Nat /\ p.off \in Offsets /\ p.off \in 0..(LogSize - 1)
    BY OffsetRange DEF Pos
<1>3. EntryAt(p, n) \in Pos
    BY ZeroOffset DEF EntryAt, Pos
<1>4. EntryAt(p, n).off + Size(n) <= LogSize
    BY <1>1, <1>2 DEF EntryAt
<1>5. After(p, n) \in Pos
    <2>1. EntryAt(p, n).off \in Offsets /\ EntryAt(p, n).lap \in Nat
        BY <1>3 DEF Pos
    <2>2. CASE EntryAt(p, n).off + Size(n) = LogSize
        BY <2>1, <2>2, ZeroOffset DEF After, Pos
    <2>3. CASE EntryAt(p, n).off + Size(n) # LogSize
        <3>1. EntryAt(p, n).off + Size(n) < LogSize
            BY <1>1, <1>4, <2>1, <2>3, OffsetRange
        <3>2. EntryAt(p, n).off + Size(n) \in Offsets
            BY <2>1, <3>1, OffsetPlus
        <3> QED BY <2>1, <2>3, <3>2 DEF After, Pos
    <2> QED BY <2>2, <2>3
<1>6. Before(p, After(p, n))
    BY <1>1, <1>2 DEF Before, After, EntryAt
<1>7. EntryAt(p, n) = p \/ EntryAt(p, n) = [lap |-> p.lap + 1, off |-> 0]
    BY DEF EntryAt
<1> QED BY <1>3, <1>4, <1>5, <1>6, <1>7

LEMMA PosType == ASSUME NEW p \in Pos PROVE p.lap \in Nat /\ p.off \in 0..(LogSize - 1) /\ p.off \in Offsets
BY OffsetRange DEF Pos

\* What lies between the ends of a window is less than one lap from either of them.
LEMMA FitsBetween ==
    ASSUME NEW base \in Pos, NEW p \in Pos, NEW q \in Pos,
           ~Before(p, base), ~Before(q, p), Fits(base, q)
    PROVE  Fits(base, p) /\ Fits(p, q)
BY PosType, PsmLogAssumption DEF Before, Fits

\* In a window, places compare as their offsets do for equality.
LEMMA FitsDistinct ==
    ASSUME NEW base \in Pos, NEW p \in Pos, NEW q \in Pos,
           ~Before(p, base), Before(p, q), Fits(base, q)
    PROVE  p.off # q.off
BY PosType, PsmLogAssumption DEF Before, Fits

LEMMA BeforeTransitive ==
    ASSUME NEW p \in Pos, NEW q \in Pos, NEW r \in Pos, Before(p, q), ~Before(r, q)
    PROVE  Before(p, r) /\ ~Before(r, p)
BY PosType, PsmLogAssumption DEF Before

\* An entry and its padding lie between the places before and behind it.
LEMMA InEntry ==
    ASSUME NEW p \in Pos, NEW n \in EntryLens, NEW o \in EntryLines(p, n)
    PROVE  /\ o \in 0..(LogSize - 1) /\ o \in Offsets
           /\ EntryAt(p, n).off <= o /\ o < EntryAt(p, n).off + Size(n)
BY OffsetRange DEF EntryLines, LinesOf, Size

\* Two entries in a window share no line, and neither one's padding mark is in the other.
LEMMA Apart ==
    ASSUME NEW base \in Pos, NEW p \in Pos, NEW n \in EntryLens, NEW q \in Pos, NEW m \in EntryLens,
           ~Before(p, base), ~Before(q, After(p, n)), Fits(base, After(q, m))
    PROVE  /\ EntryLines(p, n) \cap EntryLines(q, m) = {}
           /\ EntryAt(p, n) # p => p.off \notin EntryLines(q, m)
           /\ EntryAt(q, m) # q => q.off \notin EntryLines(p, n)
<1>1. Size(n) \in 1..(LogSize - 1) /\ Size(m) \in 1..(LogSize - 1) /\ LogSize \in Nat
    BY PsmLogAssumption, SizeOf
<1>2. /\ base.lap \in Nat /\ base.off \in 0..(LogSize - 1)
      /\ p.lap \in Nat /\ p.off \in 0..(LogSize - 1)
      /\ q.lap \in Nat /\ q.off \in 0..(LogSize - 1)
    BY PosType
<1>3. ASSUME NEW o \in EntryLines(p, n) PROVE o \notin EntryLines(q, m)
    <2> SUFFICES ASSUME o \in EntryLines(q, m) PROVE FALSE
        OBVIOUS
    <2>1. /\ o \in Nat /\ EntryAt(p, n).off <= o /\ o < EntryAt(p, n).off + Size(n)
          /\ EntryAt(q, m).off <= o /\ o < EntryAt(q, m).off + Size(m)
        BY <1>3, InEntry
    <2> QED BY <1>1, <1>2, <2>1 DEF Before, Fits, After, EntryAt
<1>4. ASSUME EntryAt(p, n) # p, p.off \in EntryLines(q, m) PROVE FALSE
    <2>1. EntryAt(q, m).off <= p.off /\ p.off < EntryAt(q, m).off + Size(m)
        BY <1>4, InEntry
    <2> QED BY <1>1, <1>2, <1>4, <2>1 DEF Before, Fits, After, EntryAt
<1>5. ASSUME EntryAt(q, m) # q, q.off \in EntryLines(p, n) PROVE FALSE
    <2>1. EntryAt(p, n).off <= q.off /\ q.off < EntryAt(p, n).off + Size(n)
        BY <1>5, InEntry
    <2> QED BY <1>1, <1>2, <1>5, <2>1 DEF Before, Fits, After, EntryAt
<1> QED BY <1>3, <1>4, <1>5

-----------------------------------------------------------------------------
(* What psm_reserve, consume and the flush loop compute of places.         *)

\* psm_reserve: if its test succeeds the entry fits in the window, and local_head moves behind it.
LEMMA ReservePlace ==
    ASSUME NEW base \in Pos, NEW p \in Pos, NEW n \in EntryLens, Fits(base, p),
           local_tail = base.off, local_head = p.off, Free >= Needed(Size(n))
    PROVE  /\ Fits(base, After(p, n))
           /\ (local_head + Needed(Size(n))) % LogSize = After(p, n).off
           /\ Needed(Size(n)) > Size(n) <=> EntryAt(p, n) # p
<1>1. Size(n) \in 1..(LogSize - 1) /\ LogSize \in Nat \ {0}
    BY PsmLogAssumption, SizeOf
<1>2. /\ base.lap \in Nat /\ base.off \in 0..(LogSize - 1)
      /\ p.lap \in Nat /\ p.off \in 0..(LogSize - 1)
    BY PosType
<1> DEFINE x == base.off + LogSize - p.off - 1
           y == p.off + Needed(Size(n))
<1>3. x \in 0..(2 * LogSize - 1)
    BY <1>1, <1>2
<1>4. y \in 0..(2 * LogSize - 1) /\ y = (IF p.off + Size(n) > LogSize THEN LogSize + Size(n) ELSE p.off + Size(n))
    BY <1>1, <1>2 DEF Needed, Truncated
<1>5. Free = (IF x < LogSize THEN x ELSE x - LogSize)
    <2> HIDE DEF x
    <2>1. x % LogSize = (IF x < LogSize THEN x ELSE x - LogSize)
        BY <1>1, <1>3, ModTwice
    <2> QED BY <2>1 DEF Free, x
<1>6. y % LogSize = (IF y < LogSize THEN y ELSE y - LogSize)
    <2> HIDE DEF y
    <2> QED BY <1>1, <1>4, ModTwice
<1>7. y - p.off <= Free
    BY <1>1, <1>2 DEF Needed, Truncated
<1> HIDE DEF y
<1>8. Fits(base, After(p, n))
    BY <1>1, <1>2, <1>4, <1>5, <1>7 DEF Fits, After, EntryAt
<1>9. y % LogSize = After(p, n).off
    BY <1>1, <1>2, <1>4, <1>6 DEF After, EntryAt
<1>10. Needed(Size(n)) > Size(n) <=> EntryAt(p, n) # p
    BY <1>1, <1>2 DEF Needed, Truncated, EntryAt
<1> QED BY <1>8, <1>9, <1>10 DEF y

\* consume: at a place where an entry is, padding is recognised and skipped, and the entry is whole.
LEMMA ConsumePlace ==
    ASSUME NEW b, NEW p \in Pos, NEW n \in EntryLens, NEW op, op # 0, Placed(b, p, n, op)
    PROVE  /\ b[p.off] = Pad <=> EntryAt(p, n) # p
           /\ EntryOp(b, p.off) = op
           /\ b[EntryAt(p, n).off].len = n
           /\ Intact(b, p.off)
<1> DEFINE e == EntryAt(p, n)
<1>1. Size(n) \in 1..(LogSize - 1) /\ LogSize \in Nat \ {0}
    BY PsmLogAssumption, SizeOf
<1>2. /\ e \in Pos /\ e.off \in 0..(LogSize - 1) /\ e.off \in Offsets
      /\ e.off + Size(n) <= LogSize
      /\ e = p \/ e.off = 0
    BY PlaceAfter, PosType
<1>3. e.off \in EntryLines(p, n)
    BY <1>1, <1>2 DEF EntryLines, LinesOf, Size
<1>4. b[e.off] = [op |-> op, part |-> (e.off - e.off) \div LineSize, len |-> n]
    BY <1>3 DEF Placed
<1>5. b[e.off].op = op /\ b[e.off].len = n /\ b[e.off] # Pad
    BY <1>4 DEF Pad
<1>6. b[p.off] = Pad <=> e # p
    BY <1>5 DEF Placed
<1>7. EntryStart(b, p.off) = e.off
    BY <1>2, <1>6 DEF EntryStart
<1>9. Intact(b, p.off)
    BY <1>5, <1>7 DEF Intact, Placed, EntryLines
<1> QED BY <1>5, <1>6, <1>7, <1>9 DEF EntryOp

LEMMA ConsumeStart ==
    ASSUME NEW b, NEW p \in Pos, NEW n \in EntryLens, NEW op, op # 0, Placed(b, p, n, op)
    PROVE  EntryStart(b, p.off) = EntryAt(p, n).off
<1>1. b[p.off] = Pad <=> EntryAt(p, n) # p
    BY ConsumePlace
<1> QED BY <1>1 DEF EntryStart, EntryAt

LEMMA ConsumeNext ==
    ASSUME NEW b, NEW p \in Pos, NEW n \in EntryLens, NEW op, op # 0, Placed(b, p, n, op)
    PROVE  NextTail(b, p.off) = After(p, n).off
<1> DEFINE e == EntryAt(p, n)
           x == e.off + Size(n)
<1>1. e.off \in 0..(LogSize - 1) /\ x <= LogSize
    BY PlaceAfter, PosType
<1>2. x \in 0..(2 * LogSize - 1) /\ LogSize \in Nat \ {0}
    BY PsmLogAssumption, <1>1, SizeOf
<1>3. EntryStart(b, p.off) = e.off
    BY ConsumeStart
<1>4. b[e.off].len = n
    BY ConsumePlace
<1>5. NextTail(b, p.off) = x % LogSize
    BY <1>3, <1>4 DEF NextTail, Size
<1>6. After(p, n).off = IF x = LogSize THEN 0 ELSE x
    BY DEF After
<1> HIDE DEF x
<1>7. x % LogSize = IF x < LogSize THEN x ELSE x - LogSize
    BY <1>2, ModTwice
<1> QED BY <1>1, <1>2, <1>5, <1>6, <1>7

\* consume's tests: at a place before head there is an entry, at head there is none.
LEMMA HasEntryPlace ==
    ASSUME NEW b, NEW base \in Pos, NEW p \in Pos, NEW n \in EntryLens, NEW op, op # 0, NEW q \in Pos,
           Placed(b, p, n, op), ~Before(p, base), ~Before(q, After(p, n)), Fits(base, q)
    PROVE  HasEntry(b, q.off, p.off) /\ (b[p.off] = Pad => p.off > q.off)
<1>1. Size(n) \in 1..(LogSize - 1) /\ LogSize \in Nat \ {0}
    BY PsmLogAssumption, SizeOf
<1>2. /\ base.lap \in Nat /\ base.off \in 0..(LogSize - 1)
      /\ p.lap \in Nat /\ p.off \in 0..(LogSize - 1)
      /\ q.lap \in Nat /\ q.off \in 0..(LogSize - 1)
    BY PosType
<1>3. EntryStart(b, p.off) = EntryAt(p, n).off /\ (b[p.off] = Pad <=> EntryAt(p, n) # p)
    BY ConsumePlace, ConsumeStart
<1>4. p.off # q.off
    BY <1>1, <1>2 DEF Before, Fits, After, EntryAt
<1>5. EntryAt(p, n).off # q.off
    BY <1>1, <1>2 DEF Before, Fits, After, EntryAt
<1>6. EntryAt(p, n) # p => p.off > q.off
    BY <1>1, <1>2 DEF Before, Fits, After, EntryAt
<1> QED BY <1>3, <1>4, <1>5, <1>6 DEF HasEntry

\* The flush loop of psm_commit meets every line of an entry between head and local_head, and
\* the mark of its padding.
LEMMA FlushPlace ==
    ASSUME NEW p \in Pos, NEW n \in EntryLens, NEW base \in Pos, NEW q \in Pos,
           head = base.off, local_head = q.off, Fits(base, q), ~Before(p, base), ~Before(q, After(p, n))
    PROVE  EntryLines(p, n) \subseteq Uncommitted /\ p.off \in Uncommitted
<1>1. Size(n) \in 1..(LogSize - 1) /\ LogSize \in Nat \ {0}
    BY PsmLogAssumption, SizeOf
<1>2. /\ base.lap \in Nat /\ base.off \in 0..(LogSize - 1)
      /\ p.lap \in Nat /\ p.off \in 0..(LogSize - 1) /\ p.off \in Offsets
      /\ q.lap \in Nat /\ q.off \in 0..(LogSize - 1)
    BY PosType
<1> DEFINE D(o) == (o + LogSize - base.off) % LogSize
<1>3. ASSUME NEW o \in 0..(LogSize - 1)
      PROVE  D(o) = IF o < base.off THEN o + LogSize - base.off ELSE o - base.off
    <2> DEFINE x == o + LogSize - base.off
    <2>1. x \in 0..(2 * LogSize - 1)
        BY <1>1, <1>2
    <2>2. x % LogSize = IF x < LogSize THEN x ELSE x - LogSize
        <3> HIDE DEF x
        <3> QED BY <1>1, <2>1, ModTwice
    <2> QED BY <1>1, <1>2, <2>2
<1>4. \A o \in Offsets : D(o) < D(q.off) => o \in Uncommitted
    BY DEF Uncommitted
<1> HIDE DEF D
<1>5. ASSUME NEW o \in EntryLines(p, n) PROVE o \in Uncommitted
    <2>1. o \in 0..(LogSize - 1) /\ o \in Offsets /\ EntryAt(p, n).off <= o /\ o < EntryAt(p, n).off + Size(n)
        BY InEntry
    <2>2. D(o) < D(q.off)
        BY <1>1, <1>2, <1>3, <2>1 DEF Before, Fits, After, EntryAt
    <2> QED BY <1>4, <2>1, <2>2
<1>6. p.off \in Uncommitted
    <2>1. D(p.off) < D(q.off)
        BY <1>1, <1>2, <1>3 DEF Before, Fits, After, EntryAt
    <2> QED BY <1>2, <1>4, <2>1
<1> QED BY <1>5, <1>6

\* Lines taken from two images that both hold an entry hold it as well.
LEMMA PlacedMix ==
    ASSUME NEW p \in Pos, NEW n \in EntryLens, NEW op, NEW a, NEW b, NEW c,
           Placed(a, p, n, op), Placed(b, p, n, op),
           \A o \in Offsets : c[o] = a[o] \/ c[o] = b[o]
    PROVE  Placed(c, p, n, op)
<1>1. p.off \in Offsets /\ EntryLines(p, n) \subseteq Offsets
    BY PosType DEF EntryLines, LinesOf
<1> QED BY <1>1 DEF Placed

-----------------------------------------------------------------------------
(* What a reader meets.                                                    *)

LEMMA Counts ==
    ASSUME Types
    PROVE  /\ Len(log) \in Nat /\ Len(pending) \in Nat /\ Issued \in Nat /\ Reserved \in Nat /\ Drained \in Nat
           /\ Len(dexec) \in Nat /\ Len(bexec) \in Nat /\ Len(fexec) \in Nat
           /\ Len(log) <= Issued /\ Issued <= Reserved /\ Len(log) <= Drained /\ Drained <= Issued
<1>1. /\ Len(log) \in Nat /\ Len(pending) \in Nat
      /\ Len(dexec) \in Nat /\ Len(bexec) \in Nat /\ Len(fexec) \in Nat
    BY DEF Types
<1> QED BY <1>1 DEF Issued, Reserved, Drained

LEMMA OpAtLog ==
    ASSUME Types
    PROVE  \A k \in 1..Len(log) : OpAt(k) = log[k] /\ OpAt(k) \in Ops
<1>1. log \in Seq(Ops) /\ pending \in Seq(Ops)
    BY DEF Types
<1>2. \A k \in 1..Len(log) : log[k] \in Ops
    BY <1>1
<1>3. \A k \in 1..Len(log) : (log \o pending)[k] = log[k]
    BY <1>1, ConcatProperties
<1> QED BY <1>2, <1>3 DEF OpAt

\* The place behind k operations, for any k that has space.
LEMMA PlaceOf ==
    ASSUME Types, NEW pos, NEW lens, Layout(pos, lens), NEW k \in 1..Reserved
    PROVE  /\ k \in Nat /\ k - 1 \in Nat /\ k - 1 \in 0..Reserved /\ k \in 0..Reserved
           /\ pos[k - 1] \in Pos /\ pos[k] \in Pos
           /\ lens[k] \in EntryLens /\ pos[k] = After(pos[k - 1], lens[k])
<1>1. Reserved \in Nat
    BY Counts
<1>2. k \in Nat /\ k - 1 \in Nat /\ k - 1 \in 0..Reserved /\ k \in 0..Reserved
    BY <1>1
<1> QED BY <1>2 DEF Layout

\* Places are in the order of the operations.
LEMMA Ordered ==
    ASSUME Types, NEW pos, NEW lens, Layout(pos, lens), NEW i \in 0..Reserved, NEW j \in 0..Reserved, i <= j
    PROVE  pos[i] \in Pos /\ pos[j] \in Pos /\ ~Before(pos[j], pos[i])
<1>1. i \in Nat /\ j \in Nat /\ pos[i] \in Pos /\ pos[j] \in Pos
    BY DEF Layout
<1>2. CASE i < j
    <2>1. Before(pos[i], pos[j])
        BY <1>2 DEF Layout
    <2> QED BY <1>1, <2>1, PosType DEF Before
<1>3. CASE i = j
    BY <1>1, <1>3, PosType DEF Before
<1> QED BY <1>1, <1>2, <1>3

\* Buffer b holds the entries behind lt up to e.
Holds(b, pos, lens, lt, e) == \A k \in (lt + 1)..e : Placed(b, pos[k - 1], lens[k], OpAt(k))

\* A reader of b that is behind k operations finds an entry unless it is at the end e, and then
\* it finds the next operation of the log, whole.
Finds(b, pos, e, k) ==
    /\ HasEntry(b, pos[e].off, pos[k].off) <=> k < e
    /\ pos[k].off # pos[e].off <=> k < e
    /\ k < e => /\ EntryOp(b, pos[k].off) = log[k + 1]
                /\ NextTail(b, pos[k].off) = pos[k + 1].off
                /\ Intact(b, pos[k].off)
                /\ b[pos[k].off] = Pad => pos[k].off > pos[e].off
                /\ EntryStart(b, pos[k].off) + Size(b[EntryStart(b, pos[k].off)].len) <= LogSize

LEMMA Meets ==
    ASSUME Types, NEW pos, NEW lens, NEW lt \in Nat, Layout(pos, lens), Fits(pos[lt], pos[Reserved]),
           NEW b, NEW e \in Nat, e <= Len(log),
           Holds(b, pos, lens, lt, e), NEW k \in Nat, lt <= k, k <= e
    PROVE  Finds(b, pos, e, k)
<1>1. Len(log) \in Nat /\ Len(log) <= Reserved /\ Reserved \in Nat
    BY Counts
<1>2. CASE k = e
    BY <1>2 DEF HasEntry, Finds
<1>3. CASE k < e
    <2> DEFINE n == lens[k + 1]
               op == OpAt(k + 1)
               q == pos[k]
    <2>1. k + 1 \in 1..Reserved /\ k + 1 \in 1..Len(log) /\ k + 1 \in (lt + 1)..e /\ (k + 1) - 1 = k
        BY <1>1, <1>3
    <2>2. q \in Pos /\ pos[k + 1] \in Pos /\ n \in EntryLens /\ pos[k + 1] = After(q, n)
        BY <2>1, PlaceOf
    <2>3. Placed(b, q, n, op)
        BY <2>1 DEF Holds
    <2>4. op = log[k + 1] /\ op # 0
        BY <2>1, OpAtLog DEF Ops
    <2>5. /\ pos[lt] \in Pos /\ pos[e] \in Pos /\ pos[Reserved] \in Pos
          /\ ~Before(q, pos[lt]) /\ ~Before(pos[e], pos[k + 1]) /\ ~Before(pos[e], pos[lt])
          /\ ~Before(pos[Reserved], pos[e])
        <3>1. /\ lt \in 0..Reserved /\ k \in 0..Reserved /\ e \in 0..Reserved /\ k + 1 \in 0..Reserved
              /\ Reserved \in 0..Reserved /\ lt <= k /\ k + 1 <= e /\ lt <= e /\ e <= Reserved
            BY <1>1, <1>3
        <3> QED BY <3>1, Ordered
    <2>6. Fits(pos[lt], pos[e])
        BY <2>5, FitsBetween
    <2> HIDE DEF n, op, q
    <2>7. HasEntry(b, pos[e].off, q.off) /\ (b[q.off] = Pad => q.off > pos[e].off)
        BY <2>2, <2>3, <2>4, <2>5, <2>6, HasEntryPlace
    <2>8. q \in Pos /\ n \in EntryLens /\ op # 0 /\ Placed(b, q, n, op)
        BY <2>2, <2>3, <2>4
    <2>9. EntryStart(b, q.off) = EntryAt(q, n).off
        BY <2>8, ConsumeStart
    <2>10. EntryOp(b, q.off) = op
        BY <2>8, ConsumePlace
    <2>11. NextTail(b, q.off) = After(q, n).off
        BY <2>8, ConsumeNext
    <2>12. Intact(b, q.off)
        BY <2>8, ConsumePlace
    <2>13. b[EntryAt(q, n).off].len = n
        BY <2>8, ConsumePlace
    <2>14. EntryAt(q, n).off + Size(n) <= LogSize
        BY <2>2, PlaceAfter
    <2>15. q.off # pos[e].off
        BY <2>7 DEF HasEntry
    <2> QED BY <1>3, <2>2, <2>4, <2>7, <2>9, <2>10, <2>11, <2>12, <2>13, <2>14, <2>15 DEF q, Finds
<1> QED BY <1>2, <1>3

\* The readers of the two processes, which go up to head.
LEMMA ReaderMeets ==
    ASSUME Types, NEW pos, NEW lens, NEW h, NEW p, NEW t, NEW lt, Good(pos, lens, h, p, t, lt),
           NEW k \in Nat, lt <= k, k <= h
    PROVE  /\ HasEntry(buf, head, pos[k].off) <=> k < h
           /\ pos[k].off # head <=> k < h
           /\ k < h => /\ EntryOp(buf, pos[k].off) = log[k + 1]
                       /\ NextTail(buf, pos[k].off) = pos[k + 1].off
                       /\ Intact(buf, pos[k].off)
                       /\ buf[pos[k].off] = Pad => pos[k].off > head
                       /\ EntryStart(buf, pos[k].off) + Size(buf[EntryStart(buf, pos[k].off)].len) <= LogSize
<1>1. /\ Layout(pos, lens) /\ lt \in Nat /\ h \in Nat /\ h <= Len(log) /\ head = pos[h].off
      /\ Fits(pos[lt], pos[Reserved])
    BY DEF Good, Pointers
<1>2. Holds(buf, pos, lens, lt, h)
    <2>1. \A i \in (lt + 1)..h : i \in (lt + 1)..Issued
        BY <1>1, Counts
    <2> QED BY <2>1 DEF Good, Contents, Holds
<1>3. Finds(buf, pos, h, k)
    BY <1>1, <1>2, Meets
<1> QED BY <1>1, <1>3 DEF Finds

-----------------------------------------------------------------------------
(* Steps of the background process.                                        *)

\* They leave alone what the foreground has laid out.
LEMMA BgLeaves ==
    ASSUME NEW pos, NEW lens, NEW lt, Layout(pos, lens), Contents(pos, lens, lt),
           Inflight(pos, lens), Promise(pos, lens), UNCHANGED <<pvars, gvars, buf, nbuf, fpc>>
    PROVE  /\ Layout(pos, lens)' /\ Contents(pos, lens, lt)' /\ Inflight(pos, lens)' /\ Promise(pos, lens)'
           /\ Reserved' = Reserved
<1>1. Reserved' = Reserved /\ Issued' = Issued /\ Drained' = Drained /\ \A k : OpAt(k)' = OpAt(k)
    BY DEF Reserved, Issued, Drained, OpAt, gvars
<1>2. Layout(pos, lens)'
    BY <1>1 DEF Layout
<1>3. Contents(pos, lens, lt)'
    BY <1>1 DEF Contents
<1>4. Inflight(pos, lens)'
    BY <1>1 DEF Inflight, pvars, gvars
<1>5. Promise(pos, lens)'
    BY <1>1 DEF Promise, pvars, gvars, Needed, Truncated
<1> QED BY <1>1, <1>2, <1>3, <1>4, <1>5

LEMMA BgConsumeKeeps == ASSUME Inv, BgConsume PROVE Inv'
<1>1. PICK pos, lens, h, p, t, lt : Good(pos, lens, h, p, t, lt)
    BY DEF Inv
<1>2. /\ bpc = "consume" /\ HasEntry(buf, head, btail) /\ consumed' = consumed + 1
      /\ bexec' = Append(bexec, EntryOp(buf, btail)) /\ btail' = NextTail(buf, btail)
      /\ bpc' \in {"commit"} \cup (IF consumed + 1 < CommitBatch THEN {"consume"} ELSE {})
      /\ UNCHANGED <<nvars, pvars, rvars, gvars, buf, head, tail, fpc>>
    BY DEF BgConsume
<1> DEFINE k == Len(bexec)
<1>3. Types /\ Executed /\ bexec \in Seq(Ops) /\ log \in Seq(Ops) /\ k \in Nat /\ Len(log) \in Nat
    BY DEF Inv, Types
<1>4. Pointers(pos, h, p, t, lt)
    BY <1>1 DEF Good
<1>5. lt <= k /\ k <= h /\ h <= Len(log) /\ btail = pos[k].off /\ h \in Nat /\ lt \in Nat
    BY <1>3, <1>4, Counts DEF Pointers
<1>6. k < h /\ EntryOp(buf, btail) = log[k + 1] /\ NextTail(buf, btail) = pos[k + 1].off
    <2>1. HasEntry(buf, head, pos[k].off)
        BY <1>2, <1>5
    <2> HIDE DEF k
    <2> QED BY <1>1, <1>3, <1>5, <2>1, ReaderMeets
<1>7. k + 1 \in 1..Len(log) /\ log[k + 1] \in Ops
    BY <1>3, <1>5, <1>6
<1>8. /\ bexec' \in Seq(Ops) /\ Len(bexec') = k + 1 /\ bexec'[k + 1] = log[k + 1]
      /\ \A i \in 1..k : bexec'[i] = bexec[i]
    BY <1>2, <1>3, <1>6, <1>7
<1>9. Types'
    <2>1. consumed' \in 0..CommitBatch
        BY PsmLogAssumption, <1>2, <1>3 DEF Types, Executed
    <2> QED BY <1>2, <1>3, <1>8, <2>1 DEF Types, BgPCs, nvars, pvars, rvars, gvars
<1>10. Executed'
    <2>1. Begins(bexec', log')
        <3>1. \A i \in 1..(k + 1) : bexec'[i] = log[i]
            <4>1. Len(bexec) \in Nat /\ \A i \in 1..k : bexec[i] = log[i]
                BY <1>3 DEF Executed, Begins
            <4>2. \A i \in 1..(k + 1) : i \in 1..k \/ i = k + 1
                BY <1>3
            <4> HIDE DEF k
            <4> QED BY <1>8, <4>1, <4>2
        <3> QED BY <1>2, <1>5, <1>6, <1>8, <3>1 DEF Begins, gvars
    <2>2. Begins(dexec', bexec') /\ Begins(fexec', log')
        <3>1. dexec' = dexec /\ fexec' = fexec /\ log' = log
            BY <1>2 DEF nvars, rvars, gvars
        <3>2. Len(dexec) \in Nat
            BY <1>3, Counts
        <3> QED BY <1>3, <1>8, <3>1, <3>2 DEF Executed, Begins
    <2>3. consumed' = Len(bexec') - Len(dexec') /\ consumed' > 0
        BY <1>2, <1>3, <1>8 DEF Executed, Types, nvars
    <2> QED BY PsmLogAssumption, <1>2, <1>3, <2>1, <2>2, <2>3 DEF Executed, Types, rvars, gvars
<1>11. Good(pos, lens, h, p, t, lt)'
    <2>1. /\ Layout(pos, lens)' /\ Contents(pos, lens, lt)' /\ Inflight(pos, lens)' /\ Promise(pos, lens)'
          /\ Reserved' = Reserved
        BY <1>1, <1>2, BgLeaves DEF Good, nvars
    <2>2. Pointers(pos, h, p, t, lt)'
        BY <1>2, <1>4, <1>5, <1>6, <1>8, <2>1, <1>3, Counts DEF Pointers, nvars, pvars, rvars, gvars
    <2> QED BY <2>1, <2>2 DEF Good
<1> QED BY <1>9, <1>10, <1>11 DEF Inv

LEMMA BgIdleKeeps == ASSUME Inv, BgIdle PROVE Inv'
<1>1. PICK pos, lens, h, p, t, lt : Good(pos, lens, h, p, t, lt)
    BY DEF Inv
<1>2. /\ bpc = "consume" /\ consumed > 0 /\ bpc' = "commit"
      /\ UNCHANGED <<nvars, pvars, rvars, gvars, buf, head, tail, fpc, btail, consumed, bexec>>
    BY DEF BgIdle
<1>3. Types'
    BY <1>2 DEF Inv, Types, BgPCs, nvars, pvars, rvars, gvars
<1>4. Executed'
    BY <1>2 DEF Inv, Executed, Begins, nvars, rvars, gvars
<1>5. Good(pos, lens, h, p, t, lt)'
    <2>1. /\ Layout(pos, lens)' /\ Contents(pos, lens, lt)' /\ Inflight(pos, lens)' /\ Promise(pos, lens)'
          /\ Reserved' = Reserved
        BY <1>1, <1>2, BgLeaves DEF Good, nvars
    <2>2. Pointers(pos, h, p, t, lt)'
        BY <1>1, <1>2, <2>1 DEF Good, Pointers, nvars, pvars, rvars, gvars
    <2> QED BY <2>1, <2>2 DEF Good
<1> QED BY <1>3, <1>4, <1>5 DEF Inv

LEMMA BgCommitKeeps == ASSUME Inv, BgCommit PROVE Inv'
<1>1. PICK pos, lens, h, p, t, lt : Good(pos, lens, h, p, t, lt)
    BY DEF Inv
<1>2. /\ bpc = "commit" /\ bpc' = "persist_tail" /\ dexec' = bexec /\ rtail' = btail
      /\ UNCHANGED <<nbuf, phead, ptail, pvars, rvars, gvars, buf, head, tail, fpc, btail, consumed, bexec>>
    BY DEF BgCommit
<1>3. Types'
    BY <1>2 DEF Inv, Types, BgPCs, pvars, rvars, gvars
<1>4. Executed'
    <2>1. Len(bexec) \in Nat
        BY Counts DEF Inv
    <2> QED BY <1>2, <2>1 DEF Inv, Executed, Begins, rvars, gvars
<1>5. Good(pos, lens, h, p, t, lt)'
    <2>1. /\ Layout(pos, lens)' /\ Contents(pos, lens, lt)' /\ Inflight(pos, lens)' /\ Promise(pos, lens)'
          /\ Reserved' = Reserved
        BY <1>1, <1>2, BgLeaves DEF Good
    <2>2. Pointers(pos, h, p, t, lt)'
        <3>1. Len(bexec) \in Nat /\ Len(dexec) \in Nat
            BY Counts DEF Inv
        <3> QED BY <1>1, <1>2, <2>1, <3>1 DEF Good, Pointers, pvars, rvars, gvars
    <2> QED BY <2>1, <2>2 DEF Good
<1> QED BY <1>3, <1>4, <1>5 DEF Inv

LEMMA BgPersistTailKeeps == ASSUME Inv, BgPersistTail PROVE Inv'
<1>1. PICK pos, lens, h, p, t, lt : Good(pos, lens, h, p, t, lt)
    BY DEF Inv
<1>2. /\ bpc = "persist_tail" /\ bpc' = "publish_tail" /\ ptail' = btail
      /\ UNCHANGED <<nbuf, phead, rtail, dexec, pvars, rvars, gvars, buf, head, tail, fpc, btail, consumed, bexec>>
    BY DEF BgPersistTail
<1>3. Types'
    BY <1>2 DEF Inv, Types, BgPCs, pvars, rvars, gvars
<1>4. Executed'
    BY <1>2 DEF Inv, Executed, Begins, rvars, gvars
<1>5. Good(pos, lens, h, Len(bexec), t, lt)'
    <2>1. /\ Layout(pos, lens)' /\ Contents(pos, lens, lt)' /\ Inflight(pos, lens)' /\ Promise(pos, lens)'
          /\ Reserved' = Reserved
        BY <1>1, <1>2, BgLeaves DEF Good
    <2>2. Pointers(pos, h, Len(bexec), t, lt)'
        <3>1. Len(bexec) \in Nat /\ dexec = bexec
            BY <1>2, Counts DEF Inv, Executed
        <3> QED BY <1>1, <1>2, <2>1, <3>1 DEF Good, Pointers, pvars, rvars, gvars
    <2> QED BY <2>1, <2>2 DEF Good
<1> QED BY <1>3, <1>4, <1>5 DEF Inv

LEMMA BgPublishTailKeeps == ASSUME Inv, BgPublishTail PROVE Inv'
<1>1. PICK pos, lens, h, p, t, lt : Good(pos, lens, h, p, t, lt)
    BY DEF Inv
<1>2. /\ bpc = "publish_tail" /\ bpc' = "consume" /\ tail' = btail /\ consumed' = 0
      /\ UNCHANGED <<nvars, pvars, rvars, gvars, buf, head, fpc, btail, bexec>>
    BY DEF BgPublishTail
<1>3. Types'
    BY PsmLogAssumption, <1>2 DEF Inv, Types, BgPCs, nvars, pvars, rvars, gvars
<1>4. Executed'
    <2>1. Len(bexec) \in Nat
        BY Counts DEF Inv
    <2> QED BY PsmLogAssumption, <1>2, <2>1 DEF Inv, Executed, Begins, nvars, rvars, gvars
<1>5. Good(pos, lens, h, p, p, lt)'
    <2>1. /\ Layout(pos, lens)' /\ Contents(pos, lens, lt)' /\ Inflight(pos, lens)' /\ Promise(pos, lens)'
          /\ Reserved' = Reserved
        BY <1>1, <1>2, BgLeaves DEF Good, nvars
    <2>2. Pointers(pos, h, p, p, lt)'
        BY <1>1, <1>2, <2>1 DEF Good, Pointers, nvars, pvars, rvars, gvars
    <2> QED BY <2>1, <2>2 DEF Good
<1> QED BY <1>3, <1>4, <1>5 DEF Inv

-----------------------------------------------------------------------------
(* Steps of the foreground that move no operation.                         *)

LEMMA ReserveKeeps == ASSUME Inv, NEW n \in EntryLens, Reserve(n) PROVE Inv'
<1>1. PICK pos, lens, h, p, t, lt : Good(pos, lens, h, p, t, lt)
    BY DEF Inv
<1>2. /\ fpc = "app" /\ fpc' = "reserve" /\ nops < MaxOps
      /\ want' = Needed(Size(n))
      /\ entry' = [at |-> IF Truncated(Size(n)) THEN 0 ELSE local_head, len |-> n]
      /\ UNCHANGED <<nvars, rvars, bvars, gvars, buf, head, tail, local_head, local_tail, inflight, all_pushed>>
    BY DEF Reserve, Size
<1>3. Reserved' = Reserved /\ Issued' = Issued /\ Drained' = Drained /\ (\A k : OpAt(k)' = OpAt(k)) /\ Reserved \in Nat
    BY <1>2, Counts DEF Inv, Reserved, Issued, Drained, OpAt, gvars
<1>4. pos[Reserved] \in Pos /\ local_head = pos[Reserved].off
    BY <1>1, <1>3 DEF Good, Layout, Pointers
<1>5. entry'.at = EntryAt(pos[Reserved], n).off /\ entry'.len = n
    BY <1>2, <1>4 DEF EntryAt, Truncated
<1>6. Types'
    <2>1. Size(n) \in 1..(LogSize - 1) /\ LogSize \in Nat /\ local_head \in 0..(LogSize - 1) /\ local_head \in Offsets
        BY PsmLogAssumption, <1>4, SizeOf, PosType
    <2>2. want' \in 0..(2 * LogSize)
        BY <1>2, <2>1 DEF Needed, Truncated
    <2>3. entry' \in [at : Offsets, len : {0} \cup EntryLens]
        BY <1>2, <2>1, ZeroOffset
    <2> QED BY <1>2, <2>2, <2>3 DEF Inv, Types, FgPCs, nvars, rvars, bvars, gvars
<1>7. Executed'
    BY <1>2 DEF Inv, Executed, Begins, nvars, rvars, bvars, gvars
<1>8. Layout(pos, lens)' /\ Contents(pos, lens, lt)' /\ Inflight(pos, lens)'
    BY <1>1, <1>2, <1>3 DEF Good, Layout, Contents, Inflight, nvars, gvars
<1>9. Pointers(pos, h, p, t, lt)'
    BY <1>1, <1>2, <1>3 DEF Good, Pointers, nvars, rvars, bvars, gvars
<1>10. Promise(pos, lens)'
    <2>1. Needed(Size(n))' = Needed(Size(n))
        BY <1>2 DEF Needed, Truncated
    <2> QED BY <1>2, <1>3, <1>5, <2>1 DEF Promise, gvars
<1>11. Good(pos, lens, h, p, t, lt)'
    BY <1>8, <1>9, <1>10 DEF Good
<1> QED BY <1>6, <1>7, <1>11 DEF Inv

LEMMA ReserveSpinKeeps == ASSUME Inv, ReserveSpin PROVE Inv'
<1>1. PICK pos, lens, h, p, t, lt : Good(pos, lens, h, p, t, lt)
    BY DEF Inv
<1>2. /\ fpc = "reserve" /\ local_tail' = tail
      /\ UNCHANGED <<nvars, rvars, bvars, gvars, buf, head, tail, fpc, local_head, want, entry, inflight, all_pushed>>
    BY DEF ReserveSpin
<1>3. /\ Reserved' = Reserved /\ Issued' = Issued /\ Drained' = Drained /\ \A k : OpAt(k)' = OpAt(k)
      /\ Reserved \in Nat /\ Issued \in Nat /\ Drained \in Nat /\ Len(log) <= Reserved /\ Len(log) \in Nat
      /\ Len(dexec) \in Nat /\ Len(bexec) \in Nat
    BY <1>2, Counts DEF Inv, Reserved, Issued, Drained, OpAt, gvars
<1>4. Types' /\ Executed'
    BY <1>2 DEF Inv, Types, Executed, Begins, nvars, rvars, bvars, gvars
<1>5. /\ lt \in Nat /\ t \in Nat /\ lt <= t /\ t <= Reserved /\ Fits(pos[lt], pos[Reserved])
      /\ Layout(pos, lens) /\ Pointers(pos, h, p, t, lt)
    BY <1>1, <1>3 DEF Good, Pointers
<1>6. Fits(pos[t], pos[Reserved])
    <2>1. lt \in 0..Reserved /\ t \in 0..Reserved /\ Reserved \in 0..Reserved
        BY <1>3, <1>5
    <2>2. /\ pos[lt] \in Pos /\ pos[t] \in Pos /\ pos[Reserved] \in Pos
          /\ ~Before(pos[t], pos[lt]) /\ ~Before(pos[Reserved], pos[t])
        BY <1>3, <1>5, <2>1, Ordered DEF Inv
    <2> QED BY <1>5, <2>2, FitsBetween
<1>7. Layout(pos, lens)' /\ Inflight(pos, lens)' /\ Promise(pos, lens)'
    BY <1>1, <1>2, <1>3 DEF Good, Layout, Inflight, Promise, nvars, gvars, Needed, Truncated
<1>8. Contents(pos, lens, t)'
    BY <1>1, <1>2, <1>3, <1>5 DEF Good, Contents, nvars
<1>9. Pointers(pos, h, p, t, t)'
    BY <1>2, <1>3, <1>5, <1>6 DEF Pointers, nvars, rvars, bvars, gvars
<1>10. Good(pos, lens, h, p, t, t)'
    BY <1>7, <1>8, <1>9 DEF Good
<1> QED BY <1>4, <1>10 DEF Inv

LEMMA PublishHeadKeeps == ASSUME Inv, PublishHead PROVE Inv'
<1>1. PICK pos, lens, h, p, t, lt : Good(pos, lens, h, p, t, lt)
    BY DEF Inv
<1>2. /\ fpc = "publish_head" /\ fpc' = "app" /\ head' = local_head
      /\ UNCHANGED <<nvars, pvars, rvars, bvars, gvars, buf, tail>>
    BY DEF PublishHead
<1>3. /\ pending = <<>> /\ Len(log) \in Nat /\ Len(dexec) \in Nat /\ Len(bexec) \in Nat
    BY <1>2, Counts DEF Inv, Types
<1>4. /\ Reserved' = Reserved /\ Issued' = Issued /\ Drained' = Drained /\ \A k : OpAt(k)' = OpAt(k)
      /\ Reserved = Len(log)
    BY <1>2, <1>3 DEF Reserved, Issued, Drained, OpAt, gvars
<1>5. Types' /\ Executed'
    BY <1>2 DEF Inv, Types, Executed, Begins, FgPCs, nvars, pvars, rvars, bvars, gvars
<1>6. Layout(pos, lens)' /\ Contents(pos, lens, lt)' /\ Inflight(pos, lens)' /\ Promise(pos, lens)'
    BY <1>1, <1>2, <1>4 DEF Good, Layout, Contents, Inflight, Promise, nvars, pvars, gvars
<1>7. Pointers(pos, Len(log), p, t, lt)'
    BY <1>1, <1>2, <1>3, <1>4 DEF Good, Pointers, nvars, pvars, rvars, bvars, gvars
<1>8. Good(pos, lens, Len(log), p, t, lt)'
    BY <1>6, <1>7 DEF Good
<1> QED BY <1>5, <1>8 DEF Inv

LEMMA ReplayKeeps == ASSUME Inv, Replay PROVE Inv'
<1>1. PICK pos, lens, h, p, t, lt : Good(pos, lens, h, p, t, lt)
    BY DEF Inv
<1>2. /\ fpc = "replay" /\ HasEntry(buf, head, ftail)
      /\ fexec' = Append(fexec, EntryOp(buf, ftail)) /\ ftail' = NextTail(buf, ftail)
      /\ UNCHANGED <<nvars, pvars, bvars, gvars, buf, head, tail, fpc>>
    BY DEF Replay
<1> DEFINE k == Len(fexec)
<1>3. Types /\ Executed /\ fexec \in Seq(Ops) /\ log \in Seq(Ops) /\ k \in Nat /\ Len(log) \in Nat
    BY DEF Inv, Types
<1>4. Pointers(pos, h, p, t, lt)
    BY <1>1 DEF Good
<1>5. lt <= k /\ k <= h /\ h = Len(log) /\ ftail = pos[k].off /\ h \in Nat /\ lt \in Nat
    BY <1>2, <1>3, <1>4 DEF Pointers, Executed, Begins
<1>6. k < h /\ EntryOp(buf, ftail) = log[k + 1] /\ NextTail(buf, ftail) = pos[k + 1].off
    <2>1. HasEntry(buf, head, pos[k].off)
        BY <1>2, <1>5
    <2> HIDE DEF k
    <2> QED BY <1>1, <1>3, <1>5, <2>1, ReaderMeets
<1>7. k + 1 \in 1..Len(log) /\ log[k + 1] \in Ops
    BY <1>3, <1>5, <1>6
<1>8. /\ fexec' \in Seq(Ops) /\ Len(fexec') = k + 1 /\ fexec'[k + 1] = log[k + 1]
      /\ \A i \in 1..k : fexec'[i] = fexec[i]
    BY <1>2, <1>3, <1>6, <1>7
<1>9. /\ Layout(pos, lens)' /\ Contents(pos, lens, lt)' /\ Inflight(pos, lens)' /\ Promise(pos, lens)'
      /\ Reserved' = Reserved
    BY <1>1, <1>2, BgLeaves DEF Good, nvars
<1>10. Types'
    <2>1. ftail' \in Offsets
        <3>1. pos[k + 1] \in Pos
            BY <1>1, <1>3 DEF Good, Layout
        <3> QED BY <1>2, <1>6, <3>1, PosType
    <2> QED BY <1>2, <1>3, <1>8, <2>1 DEF Types, nvars, pvars, bvars, gvars
<1>11. Executed'
    <2>1. Begins(fexec', log')
        <3>1. \A i \in 1..(k + 1) : fexec'[i] = log[i]
            <4>1. Len(fexec) \in Nat /\ \A i \in 1..k : fexec[i] = log[i]
                BY <1>3 DEF Executed, Begins
            <4>2. \A i \in 1..(k + 1) : i \in 1..k \/ i = k + 1
                BY <1>3
            <4> HIDE DEF k
            <4> QED BY <1>8, <4>1, <4>2
        <3> QED BY <1>2, <1>5, <1>6, <1>8, <3>1 DEF Begins, gvars
    <2> QED BY <1>2, <1>3, <2>1 DEF Executed, Begins, nvars, bvars, gvars
<1>12. Pointers(pos, h, p, t, lt)'
    BY <1>2, <1>4, <1>5, <1>6, <1>8, <1>9 DEF Pointers, nvars, pvars, bvars, gvars
<1>13. Good(pos, lens, h, p, t, lt)'
    BY <1>9, <1>12 DEF Good
<1> QED BY <1>10, <1>11, <1>13 DEF Inv

\* The replay loop ends only at head, which is then the end of the log.
LEMMA ReplayDoneKeeps == ASSUME Inv, ReplayDone PROVE Inv'
<1>1. PICK pos, lens, h, p, t, lt : Good(pos, lens, h, p, t, lt)
    BY DEF Inv
<1>2. /\ fpc = "replay" /\ ~HasEntry(buf, head, ftail) /\ fpc' = "recovered"
      /\ UNCHANGED <<nvars, pvars, rvars, bvars, gvars, buf, head, tail>>
    BY DEF ReplayDone
<1> DEFINE k == Len(fexec)
<1>3. Types /\ Executed /\ k \in Nat /\ Len(log) \in Nat
    BY Counts DEF Inv
<1>4. lt <= k /\ k <= h /\ h = Len(log) /\ ftail = pos[k].off
    BY <1>1, <1>2, <1>3 DEF Good, Pointers, Executed, Begins
<1>5. k = Len(log)
    <2>1. ~HasEntry(buf, head, pos[k].off)
        BY <1>2, <1>4
    <2> HIDE DEF k
    <2>2. ~(k < h)
        BY <1>1, <1>3, <1>4, <2>1, ReaderMeets
    <2> QED BY <1>3, <1>4, <2>2
<1>6. Types'
    BY <1>2, <1>3 DEF Types, FgPCs, nvars, pvars, rvars, bvars, gvars
<1>7. Executed'
    BY <1>2, <1>3, <1>5 DEF Executed, Begins, nvars, rvars, bvars, gvars
<1>8. Reserved' = Reserved /\ Issued' = Issued /\ Drained' = Drained /\ \A i : OpAt(i)' = OpAt(i)
    BY <1>2 DEF Reserved, Issued, Drained, OpAt, gvars
<1>9. Layout(pos, lens)' /\ Contents(pos, lens, lt)' /\ Inflight(pos, lens)' /\ Promise(pos, lens)'
    BY <1>1, <1>2, <1>8 DEF Good, Layout, Contents, Inflight, Promise, nvars, pvars, gvars
<1>10. Pointers(pos, h, p, t, lt)'
    BY <1>1, <1>2, <1>8 DEF Good, Pointers, nvars, pvars, rvars, bvars, gvars
<1>11. Good(pos, lens, h, p, t, lt)'
    BY <1>9, <1>10 DEF Good
<1> QED BY <1>6, <1>7, <1>11 DEF Inv

LEMMA InitReturnKeeps == ASSUME Inv, InitReturn PROVE Inv'
<1>1. PICK pos, lens, h, p, t, lt : Good(pos, lens, h, p, t, lt)
    BY DEF Inv
<1>2. /\ fpc = "recovered" /\ fpc' = "app" /\ ftail' = 0 /\ fexec' = <<>>
      /\ UNCHANGED <<nvars, pvars, bvars, gvars, buf, head, tail>>
    BY DEF InitReturn
<1>3. Types'
    BY <1>2, ZeroOffset DEF Inv, Types, FgPCs, nvars, pvars, bvars, gvars
<1>4. Executed'
    <2>1. Len(log) \in Nat
        BY Counts DEF Inv
    <2> QED BY <1>2, <2>1 DEF Inv, Executed, Begins, nvars, bvars, gvars
<1>5. Reserved' = Reserved /\ Issued' = Issued /\ Drained' = Drained /\ \A k : OpAt(k)' = OpAt(k)
    BY <1>2 DEF Reserved, Issued, Drained, OpAt, gvars
<1>6. Layout(pos, lens)' /\ Contents(pos, lens, lt)' /\ Inflight(pos, lens)' /\ Promise(pos, lens)'
    BY <1>1, <1>2, <1>5 DEF Good, Layout, Contents, Inflight, Promise, nvars, pvars, gvars
<1>7. Pointers(pos, h, p, t, lt)'
    BY <1>1, <1>2, <1>5 DEF Good, Pointers, nvars, pvars, bvars, gvars
<1>8. Good(pos, lens, h, p, t, lt)'
    BY <1>6, <1>7 DEF Good
<1> QED BY <1>3, <1>4, <1>8 DEF Inv

-----------------------------------------------------------------------------
(* Steps of the foreground that reserve, write and commit.                 *)

LEMMA BeforeAfter ==
    ASSUME NEW p \in Pos, NEW q \in Pos, NEW n \in EntryLens, ~Before(q, p)
    PROVE  Before(p, After(q, n))
<1>1. Before(q, After(q, n)) /\ After(q, n) \in Pos
    BY PlaceAfter
<1> QED BY <1>1, PosType DEF Before

\* The mark of an entry's own padding is not in the entry.
LEMMA MarkApart ==
    ASSUME NEW base \in Pos, NEW q \in Pos, NEW m \in EntryLens,
           ~Before(q, base), Fits(base, After(q, m)), EntryAt(q, m) # q
    PROVE  q.off \notin EntryLines(q, m)
<1>1. Size(m) \in 1..(LogSize - 1) /\ LogSize \in Nat
    BY PsmLogAssumption, SizeOf
<1>2. /\ base.lap \in Nat /\ base.off \in 0..(LogSize - 1)
      /\ q.lap \in Nat /\ q.off \in 0..(LogSize - 1)
    BY PosType
<1> SUFFICES ASSUME q.off \in EntryLines(q, m) PROVE FALSE
    OBVIOUS
<1>3. EntryAt(q, m).off <= q.off /\ q.off < EntryAt(q, m).off + Size(m)
    BY InEntry
<1> QED BY <1>1, <1>2, <1>3 DEF Before, Fits, After, EntryAt

\* An image that agrees with another one on an entry and its mark holds the entry, too.
LEMMA PlacedAgree ==
    ASSUME NEW p, NEW n, NEW op, NEW b, NEW c, Placed(b, p, n, op),
           \A o \in EntryLines(p, n) : c[o] = b[o],
           EntryAt(p, n) # p => c[p.off] = Pad
    PROVE  Placed(c, p, n, op)
BY DEF Placed

\* A layout can be continued by one place.
NatTo(S) == [Nat -> S]
Extends(g, f, r, v) == g[r + 1] = v /\ \A k \in 0..r : g[k] = f[k]

LEMMA Extend ==
    ASSUME NEW S, NEW f \in NatTo(S), NEW r \in Nat, NEW v \in S
    PROVE  \E g \in NatTo(S) : Extends(g, f, r, v)
<1> DEFINE g == [f EXCEPT ![r + 1] = v]
<1>1. g \in NatTo(S)
    BY DEF NatTo
<1>2. g[r + 1] = v /\ \A k \in 0..r : g[k] = f[k]
    BY DEF NatTo
<1> HIDE DEF g
<1> QED BY <1>1, <1>2 DEF Extends

LEMMA ReserveReturnKeeps == ASSUME Inv, ReserveReturn PROVE Inv'
<1>1. PICK pos, lens, h, p, t, lt : Good(pos, lens, h, p, t, lt)
    BY DEF Inv
<1> DEFINE R == Reserved
           n == entry.len
           q == pos[R]
<1>2. /\ fpc = "reserve" /\ fpc' = "fill" /\ Free >= want
      /\ IF want > Size(n) THEN /\ buf' = [buf EXCEPT ![local_head] = Pad]
                                /\ inflight' = inflight \cup {local_head}
                           ELSE UNCHANGED <<buf, inflight>>
      /\ local_head' = (local_head + want) % LogSize
      /\ UNCHANGED <<nvars, rvars, bvars, gvars, head, tail, local_tail, want, entry, all_pushed>>
    BY DEF ReserveReturn, Size
<1>3. /\ Types /\ Layout(pos, lens) /\ Pointers(pos, h, p, t, lt) /\ Contents(pos, lens, lt)
      /\ Inflight(pos, lens) /\ Promise(pos, lens)
    BY <1>1 DEF Inv, Good
<1>4. /\ R \in Nat /\ Issued = R /\ Len(log) \in Nat /\ Len(log) <= R /\ Drained \in Nat /\ Drained <= R
      /\ Len(dexec) \in Nat /\ Len(bexec) \in Nat
    BY <1>2, <1>3, Counts DEF Reserved
<1>5. R' = R + 1 /\ Issued' = R /\ Drained' = Drained /\ \A k : OpAt(k)' = OpAt(k)
    BY <1>2, <1>4 DEF Reserved, Issued, Drained, OpAt, gvars
<1>6. /\ n \in EntryLens /\ want = Needed(Size(n)) /\ entry.at = EntryAt(q, n).off /\ nops < MaxOps
    BY <1>2, <1>3 DEF Promise
<1>7. /\ lt \in Nat /\ lt <= R /\ h \in Nat /\ p \in Nat /\ t \in Nat /\ h <= R /\ p <= R /\ t <= R
      /\ Len(dexec) <= R /\ Len(bexec) <= R
      /\ local_tail = pos[lt].off /\ local_head = q.off /\ Fits(pos[lt], q)
    BY <1>3, <1>4 DEF Pointers
<1>8. pos \in [Nat -> Pos] /\ lens \in [Nat -> Nat] /\ q \in Pos /\ pos[lt] \in Pos
    BY <1>3, <1>4, <1>7 DEF Layout
<1>9. ~Before(q, pos[lt])
    <2>1. lt \in 0..R /\ R \in 0..R
        BY <1>4, <1>7
    <2> QED BY <1>3, <1>7, <2>1, Ordered
<1> HIDE DEF R, n
<1>10. /\ Fits(pos[lt], After(q, n)) /\ local_head' = After(q, n).off
       /\ want > Size(n) <=> EntryAt(q, n) # q
    <2>1. Free >= Needed(Size(n))
        BY <1>2, <1>6
    <2> HIDE DEF q
    <2> QED BY <1>2, <1>6, <1>7, <1>8, <2>1, ReservePlace
<1>11. After(q, n) \in Pos /\ q.off \in Offsets
    BY <1>6, <1>8, PlaceAfter, PosType
<1>12. PICK pos2, lens2 :
           /\ pos2 \in [Nat -> Pos] /\ pos2[R + 1] = After(q, n) /\ \A k \in 0..R : pos2[k] = pos[k]
           /\ lens2 \in [Nat -> Nat] /\ lens2[R + 1] = n /\ \A k \in 0..R : lens2[k] = lens[k]
    <2>1. n \in Nat
        BY <1>6, PsmLogAssumption
    <2>2. R \in Nat /\ pos \in NatTo(Pos) /\ lens \in NatTo(Nat) /\ After(q, n) \in Pos
        BY <1>4, <1>8, <1>11 DEF NatTo
    <2>3. \E g \in NatTo(Pos) : Extends(g, pos, R, After(q, n))
        BY <2>2, Extend
    <2>4. \E g \in NatTo(Nat) : Extends(g, lens, R, n)
        BY <2>1, <2>2, Extend
    <2> QED BY <2>3, <2>4 DEF Extends, NatTo
<1>13. buf \in [Offsets -> Line] /\ Pad \in Line
    <2>1. Pad \in Line
        BY PsmLogAssumption DEF Pad, Line
    <2> QED BY <1>3, <2>1 DEF Types
<1>14. Types'
    <2>1. buf' \in [Offsets -> Line] /\ inflight' \subseteq Offsets
        BY <1>2, <1>3, <1>7, <1>11, <1>13 DEF Types
    <2> QED BY <1>2, <1>3, <2>1 DEF Types, FgPCs, nvars, rvars, bvars, gvars
<1>15. Executed'
    BY <1>2 DEF Inv, Executed, Begins, nvars, rvars, bvars, gvars
<1>16. Layout(pos2, lens2)'
    <2>1. pos2[0] = Origin
        BY <1>3, <1>4, <1>12 DEF Layout
    <2>2. ASSUME NEW k \in 1..(R + 1) PROVE lens2[k] \in EntryLens /\ pos2[k] = After(pos2[k - 1], lens2[k])
        <3>1. CASE k \in 1..R
            <4>1. k \in 0..R /\ k - 1 \in 0..R
                BY <1>4, <3>1
            <4>2. lens[k] \in EntryLens /\ pos[k] = After(pos[k - 1], lens[k])
                BY <1>3, <3>1 DEF Layout, R
            <4> QED BY <1>12, <4>1, <4>2
        <3>2. CASE k = R + 1
            <4>1. k - 1 = R /\ R \in 0..R
                BY <1>4, <3>2
            <4> QED BY <1>6, <1>12, <3>2, <4>1
        <3> QED BY <1>4, <3>1, <3>2
    <2>3. ASSUME NEW i \in 0..(R + 1), NEW j \in 0..(R + 1), i < j PROVE Before(pos2[i], pos2[j])
        <3>1. CASE j \in 0..R
            <4>1. i \in 0..R
                BY <1>4, <2>3, <3>1
            <4>2. Before(pos[i], pos[j])
                BY <1>3, <2>3, <3>1, <4>1 DEF Layout, R
            <4> QED BY <1>12, <3>1, <4>1, <4>2
        <3>2. CASE j = R + 1
            <4>1. i \in 0..R /\ R \in 0..R /\ i <= R
                BY <1>4, <2>3, <3>2
            <4>2. pos[i] \in Pos /\ ~Before(q, pos[i])
                BY <1>3, <4>1, Ordered DEF R
            <4>3. Before(pos[i], After(q, n))
                BY <1>6, <1>8, <4>2, BeforeAfter
            <4> QED BY <1>12, <3>2, <4>1, <4>3
        <3> QED BY <1>4, <3>1, <3>2
    <2> QED BY <1>5, <1>12, <2>1, <2>2, <2>3 DEF Layout, R
<1>17. Pointers(pos2, h, p, t, lt)'
    <2>1. /\ pos2[h] = pos[h] /\ pos2[p] = pos[p] /\ pos2[t] = pos[t] /\ pos2[lt] = pos[lt]
          /\ pos2[Len(log)] = pos[Len(log)] /\ pos2[Len(dexec)] = pos[Len(dexec)]
          /\ pos2[Len(bexec)] = pos[Len(bexec)]
        <3>1. {h, p, t, lt, Len(log), Len(dexec), Len(bexec)} \subseteq 0..R
            BY <1>4, <1>7
        <3> QED BY <1>12, <3>1
    <2>2. Reserved' = R + 1
        BY <1>5 DEF R
    <2> QED BY <1>2, <1>3, <1>10, <1>12, <2>1, <2>2 DEF Pointers, nvars, rvars, bvars, gvars
<1>18. Contents(pos2, lens2, lt)'
    <2>1. ASSUME NEW k \in (lt + 1)..R
          PROVE  /\ k \in 0..R /\ k - 1 \in 0..R /\ pos2[k - 1] = pos[k - 1] /\ lens2[k] = lens[k]
        <3>1. k \in 0..R /\ k - 1 \in 0..R
            BY <1>4, <1>7
        <3> QED BY <1>12, <3>1
    <2>2. ASSUME NEW k \in (lt + 1)..R PROVE Placed(buf', pos[k - 1], lens[k], OpAt(k))
        <3>1. Placed(buf, pos[k - 1], lens[k], OpAt(k))
            BY <1>3, <1>4 DEF Contents
        <3>2. CASE EntryAt(q, n) = q
            <4>1. buf' = buf
                BY <1>2, <1>10, <3>2
            <4> QED BY <3>1, <4>1
        <3>3. CASE EntryAt(q, n) # q
            <4>1. buf' = [buf EXCEPT ![q.off] = Pad]
                BY <1>2, <1>7, <1>10, <3>3
            <4>2. k \in 1..R /\ lt \in 0..R /\ k - 1 \in 0..R /\ k \in 0..R /\ R \in 0..R /\ lt <= k - 1 /\ k <= R
                BY <1>4, <1>7
            <4>3. /\ pos[k - 1] \in Pos /\ lens[k] \in EntryLens /\ pos[k] = After(pos[k - 1], lens[k])
                BY <1>3, <4>2, PlaceOf DEF R
            <4>4. ~Before(pos[k - 1], pos[lt]) /\ ~Before(q, pos[k])
                BY <1>3, <4>2, Ordered DEF R
            <4>5. q.off \notin EntryLines(pos[k - 1], lens[k])
                <5>1. /\ pos[lt] \in Pos /\ q \in Pos /\ n \in EntryLens
                      /\ ~Before(q, After(pos[k - 1], lens[k])) /\ Fits(pos[lt], After(q, n))
                    BY <1>6, <1>8, <1>10, <4>3, <4>4
                <5> HIDE DEF q
                <5> QED BY <3>3, <4>3, <4>4, <5>1, Apart
            <4>6. pos[k - 1].off \in Offsets /\ EntryLines(pos[k - 1], lens[k]) \subseteq Offsets
                BY <4>3, PosType DEF EntryLines, LinesOf
            <4>7. \A o \in EntryLines(pos[k - 1], lens[k]) : buf'[o] = buf[o]
                BY <1>13, <4>1, <4>5, <4>6
            <4>8. EntryAt(pos[k - 1], lens[k]) # pos[k - 1] => buf'[pos[k - 1].off] = Pad
                BY <1>13, <3>1, <4>1, <4>6 DEF Placed
            <4> QED BY <3>1, <4>7, <4>8, PlacedAgree
        <3> QED BY <3>2, <3>3
    <2>3. nbuf' = nbuf /\ \A k \in (lt + 1)..Drained : Placed(nbuf, pos[k - 1], lens[k], OpAt(k))
        BY <1>2, <1>3 DEF Contents, nvars
    <2>4. \A k \in (lt + 1)..Drained : k \in (lt + 1)..R
        BY <1>4, <1>7
    <2> QED BY <1>5, <2>1, <2>2, <2>3, <2>4 DEF Contents
<1>19. Inflight(pos2, lens2)'
    <2>1. inflight \subseteq inflight' /\ (EntryAt(q, n) # q => q.off \in inflight')
        BY <1>2, <1>7, <1>10
    <2>2. ASSUME NEW k \in (Len(log) + 1)..(R + 1), EntryAt(pos2[k - 1], lens2[k]) # pos2[k - 1]
          PROVE  pos2[k - 1].off \in inflight'
        <3>1. CASE k = R + 1
            <4>1. pos2[k - 1] = q /\ lens2[k] = n
                BY <1>4, <1>12, <3>1
            <4> QED BY <2>1, <2>2, <4>1
        <3>2. CASE k \in (Len(log) + 1)..R
            <4>1. pos2[k - 1] = pos[k - 1] /\ lens2[k] = lens[k]
                <5>1. k \in 0..R /\ k - 1 \in 0..R
                    BY <1>4, <3>2
                <5> QED BY <1>12, <5>1
            <4> QED BY <1>2, <1>3, <2>1, <2>2, <3>2, <4>1 DEF Inflight, R
        <3> QED BY <1>4, <3>1, <3>2
    <2>3. ASSUME all_pushed, NEW k \in (Len(log) + 1)..R
          PROVE  EntryLines(pos2[k - 1], lens2[k]) \subseteq inflight'
        <3>1. pos2[k - 1] = pos[k - 1] /\ lens2[k] = lens[k]
            <4>1. k \in 0..R /\ k - 1 \in 0..R
                BY <1>4
            <4> QED BY <1>12, <4>1
        <3> QED BY <1>2, <1>3, <1>4, <2>1, <2>3, <3>1 DEF Inflight
    <2>4. log' = log /\ all_pushed' = all_pushed
        BY <1>2 DEF gvars
    <2> QED BY <1>5, <2>2, <2>3, <2>4 DEF Inflight, R
<1>20. Promise(pos2, lens2)'
    <2>1. pos2[R] = q /\ (R + 1) - 1 = R
        BY <1>4, <1>12
    <2>2. EntryAt(q, n) # q => buf'[q.off] = Pad
        BY <1>2, <1>7, <1>10, <1>11, <1>13
    <2>3. entry' = entry /\ nops' = nops /\ Reserved' = R + 1
        BY <1>2, <1>5 DEF gvars, R
    <2> QED BY <1>2, <1>6, <1>12, <2>1, <2>2, <2>3 DEF Promise, n
<1>21. Good(pos2, lens2, h, p, t, lt)'
    BY <1>16, <1>17, <1>18, <1>19, <1>20 DEF Good
<1> QED BY <1>14, <1>15, <1>21 DEF Inv

LEMMA FillKeeps == ASSUME Inv, NEW push \in BOOLEAN, Fill(push) PROVE Inv'
<1>1. PICK pos, lens, h, p, t, lt : Good(pos, lens, h, p, t, lt)
    BY DEF Inv
<1> DEFINE R == Reserved
           q == pos[R - 1]
           m == lens[R]
           op == nops + 1
<1>2. /\ fpc = "fill" /\ fpc' = "app"
      /\ buf' = [o \in Offsets |-> IF o \in LinesOf(entry)
                                   THEN [op |-> op, part |-> (o - entry.at) \div LineSize, len |-> entry.len]
                                   ELSE buf[o]]
      /\ inflight' = (IF push THEN inflight \cup LinesOf(entry) ELSE inflight)
      /\ all_pushed' = (all_pushed /\ push)
      /\ nops' = op /\ pending' = Append(pending, op)
      /\ UNCHANGED <<nvars, rvars, bvars, head, tail, local_head, local_tail, want, entry, log, crashes>>
    BY DEF Fill
<1>3. /\ Types /\ Layout(pos, lens) /\ Pointers(pos, h, p, t, lt) /\ Contents(pos, lens, lt)
      /\ Inflight(pos, lens) /\ Promise(pos, lens)
    BY <1>1 DEF Inv, Good
<1>4. /\ R \in Nat \ {0} /\ R = Issued + 1 /\ Issued \in Nat /\ Len(log) \in Nat /\ Len(log) <= Issued
      /\ Drained = Len(log) /\ R - 1 \in Nat
    BY <1>2, <1>3, Counts DEF Reserved, Drained
<1>5. pending \in Seq(Ops) /\ log \in Seq(Ops) /\ op \in Ops /\ nops \in 0..MaxOps /\ op \in 0..MaxOps
    BY <1>2, <1>3, PsmLogAssumption DEF Types, Promise, Ops
<1>6. pending' \in Seq(Ops) /\ Len(pending') = Len(pending) + 1
    BY <1>2, <1>5
<1>7. /\ Reserved' = R /\ Issued' = R /\ Drained' = Len(log) /\ log' = log
    BY <1>2, <1>4, <1>5, <1>6 DEF Reserved, Issued, Drained
<1>8. \A k \in 1..R : OpAt(k)' = IF k = R THEN op ELSE OpAt(k)
    <2>1. /\ \A k \in 1..(Len(log) + Len(pending)) :
                 (log \o pending)[k] = IF k <= Len(log) THEN log[k] ELSE pending[k - Len(log)]
          /\ \A k \in 1..(Len(log) + Len(pending')) :
                 (log \o pending')[k] = IF k <= Len(log) THEN log[k] ELSE pending'[k - Len(log)]
        BY <1>5, <1>6, ConcatProperties
    <2>2. (\A k \in 1..Len(pending) : pending'[k] = pending[k]) /\ pending'[Len(pending) + 1] = op
        BY <1>2, <1>5
    <2>3. Len(pending) \in Nat /\ Issued = Len(log) + Len(pending) /\ R = Len(log) + Len(pending')
        BY <1>4, <1>5, <1>6 DEF Issued
    <2>4. ASSUME NEW k \in 1..Issued PROVE (log \o pending')[k] = (log \o pending)[k]
        <3>1. CASE k <= Len(log)
            BY <1>4, <1>6, <2>1, <2>3, <3>1
        <3>2. CASE k > Len(log)
            <4>1. k - Len(log) \in 1..Len(pending)
                BY <1>4, <2>3, <3>2
            <4>2. k \in 1..(Len(log) + Len(pending)) /\ k \in 1..(Len(log) + Len(pending')) /\ ~(k <= Len(log))
                BY <1>4, <1>6, <2>3, <3>2
            <4>3. (log \o pending)[k] = pending[k - Len(log)]
                BY <2>1, <4>2
            <4>4. (log \o pending')[k] = pending'[k - Len(log)]
                BY <2>1, <4>2
            <4> QED BY <2>2, <4>1, <4>3, <4>4
        <3>3. k <= Len(log) \/ k > Len(log)
            BY <1>4
        <3> QED BY <3>1, <3>2, <3>3
    <2>5. (log \o pending')[R] = op
        <3>1. R \in 1..(Len(log) + Len(pending')) /\ ~(R <= Len(log)) /\ R - Len(log) = Len(pending) + 1
            BY <1>4, <1>6, <2>3
        <3> QED BY <2>1, <2>2, <3>1
    <2>6. ASSUME NEW k \in 1..R PROVE OpAt(k)' = IF k = R THEN op ELSE OpAt(k)
        <3>1. OpAt(k)' = (log \o pending')[k] /\ OpAt(k) = (log \o pending)[k]
            BY <1>7 DEF OpAt
        <3>2. k # R => k \in 1..Issued
            BY <1>4
        <3> QED BY <2>4, <2>5, <3>1, <3>2
    <2> QED BY <2>6
<1>9. R \in 1..R /\ q \in Pos /\ m \in EntryLens /\ pos[R] = After(q, m) /\ pos[R] \in Pos
    <2>1. R \in 1..R
        BY <1>4
    <2> QED BY <1>3, <2>1, PlaceOf
<1>10. /\ entry.len = m /\ entry.at = EntryAt(q, m).off
       /\ EntryAt(q, m) # q => buf[q.off] = Pad
    BY <1>2, <1>3 DEF Promise
<1>11. LinesOf(entry) = EntryLines(q, m)
    BY <1>10 DEF EntryLines, LinesOf
<1>12. /\ lt \in Nat /\ lt <= R - 1 /\ pos[lt] \in Pos /\ Fits(pos[lt], After(q, m)) /\ ~Before(q, pos[lt])
    <2>1. lt \in Nat /\ lt <= Len(log) /\ Fits(pos[lt], pos[R])
        BY <1>3, Counts DEF Pointers
    <2>2. lt \in 0..R /\ R - 1 \in 0..R /\ lt <= R - 1
        BY <1>4, <2>1
    <2> QED BY <1>3, <1>9, <2>1, <2>2, Ordered
<1> HIDE DEF R, q, m, op
<1>13. /\ \A o \in Offsets : o \notin EntryLines(q, m) => buf'[o] = buf[o]
       /\ \A o \in EntryLines(q, m) :
              o \in Offsets /\ buf'[o] = [op |-> op, part |-> (o - EntryAt(q, m).off) \div LineSize, len |-> m]
    <2>1. EntryLines(q, m) \subseteq Offsets
        BY DEF EntryLines, LinesOf
    <2> QED BY <1>2, <1>10, <1>11, <2>1
<1>14. Types'
    <2>1. buf' \in [Offsets -> Line]
        <3>1. ASSUME NEW o \in EntryLines(q, m)
              PROVE  [op |-> op, part |-> (o - EntryAt(q, m).off) \div LineSize, len |-> m] \in Line
            <4>1. o - EntryAt(q, m).off \in Nat
                BY <1>9, InEntry, PlaceAfter, PosType
            <4>2. (o - EntryAt(q, m).off) \div LineSize \in Nat
                BY <4>1, PsmLogAssumption
            <4> QED BY <1>5, <1>9, <4>2 DEF Line
        <3>2. \A o \in Offsets : buf'[o] \in Line
            BY <1>3, <1>13, <3>1 DEF Types
        <3> QED BY <1>2, <3>2
    <2>2. inflight' \subseteq Offsets
        BY <1>2, <1>3 DEF Types, LinesOf
    <2>3. all_pushed' \in BOOLEAN
        BY <1>2
    <2>4. nops' \in 0..MaxOps
        BY <1>2, <1>5
    <2> QED BY <1>2, <1>3, <1>6, <2>1, <2>2, <2>3, <2>4 DEF Types, FgPCs, nvars, rvars, bvars
<1>15. Executed'
    BY <1>2 DEF Inv, Executed, Begins, nvars, rvars, bvars
<1>16. Layout(pos, lens)'
    BY <1>3, <1>7 DEF Layout, R
<1>17. Pointers(pos, h, p, t, lt)'
    BY <1>2, <1>3, <1>7 DEF Pointers, R, nvars, rvars, bvars
<1>18. Contents(pos, lens, lt)'
    <2>1. ASSUME NEW k \in (lt + 1)..Issued PROVE Placed(buf', pos[k - 1], lens[k], OpAt(k))
        <3>1. Placed(buf, pos[k - 1], lens[k], OpAt(k))
            BY <1>3 DEF Contents
        <3>2. /\ k \in 1..R /\ lt \in 0..R /\ k - 1 \in 0..R /\ k \in 0..R /\ R - 1 \in 0..R
              /\ lt <= k - 1 /\ k <= R - 1
            BY <1>4, <1>12
        <3>3. pos[k - 1] \in Pos /\ lens[k] \in EntryLens /\ pos[k] = After(pos[k - 1], lens[k])
            BY <1>3, <3>2, PlaceOf DEF R
        <3>4. ~Before(pos[k - 1], pos[lt]) /\ ~Before(q, pos[k])
            BY <1>3, <3>2, Ordered DEF R, q
        <3>5. /\ EntryLines(pos[k - 1], lens[k]) \cap EntryLines(q, m) = {}
              /\ EntryAt(pos[k - 1], lens[k]) # pos[k - 1] => pos[k - 1].off \notin EntryLines(q, m)
            BY <1>9, <1>12, <3>3, <3>4, Apart
        <3>6. pos[k - 1].off \in Offsets /\ EntryLines(pos[k - 1], lens[k]) \subseteq Offsets
            BY <3>3, PosType DEF EntryLines, LinesOf
        <3>7. \A o \in EntryLines(pos[k - 1], lens[k]) : buf'[o] = buf[o]
            BY <1>13, <3>5, <3>6
        <3>8. EntryAt(pos[k - 1], lens[k]) # pos[k - 1] => buf'[pos[k - 1].off] = Pad
            BY <1>13, <3>1, <3>5, <3>6 DEF Placed
        <3> QED BY <3>1, <3>7, <3>8, PlacedAgree
    <2>2. Placed(buf', q, m, op)
        <3>1. EntryAt(q, m) # q => q.off \notin EntryLines(q, m) /\ q.off \in Offsets
            BY <1>9, <1>12, MarkApart, PosType
        <3>2. EntryAt(q, m) # q => buf'[q.off] = Pad
            BY <1>10, <1>13, <3>1
        <3> QED BY <1>13, <3>2 DEF Placed
    <2>3. ASSUME NEW k \in (lt + 1)..R PROVE Placed(buf', pos[k - 1], lens[k], OpAt(k)')
        <3>1. CASE k \in (lt + 1)..Issued
            <4>1. k \in 1..R /\ k # R
                BY <1>4, <1>12, <3>1
            <4> QED BY <1>8, <2>1, <3>1, <4>1
        <3>2. CASE k = R
            <4>1. pos[k - 1] = q /\ lens[k] = m
                BY <3>2 DEF q, m
            <4>2. OpAt(k)' = op
                BY <1>8, <1>9, <3>2
            <4> QED BY <2>2, <4>1, <4>2
        <3> QED BY <1>4, <1>12, <3>1, <3>2
    <2>4. ASSUME NEW k \in (lt + 1)..Len(log) PROVE Placed(nbuf', pos[k - 1], lens[k], OpAt(k)')
        <3>1. Placed(nbuf, pos[k - 1], lens[k], OpAt(k))
            BY <1>3, <1>4 DEF Contents
        <3>2. k \in 1..R /\ k # R
            BY <1>4, <1>12
        <3>3. nbuf' = nbuf
            BY <1>2 DEF nvars
        <3> QED BY <1>8, <3>1, <3>2, <3>3
    <2> QED BY <1>7, <2>3, <2>4 DEF Contents
<1>19. Inflight(pos, lens)'
    <2>1. inflight \subseteq inflight' /\ (push => EntryLines(q, m) \subseteq inflight')
        BY <1>2, <1>11
    <2>2. ASSUME NEW k \in (Len(log) + 1)..R, EntryAt(pos[k - 1], lens[k]) # pos[k - 1]
          PROVE  pos[k - 1].off \in inflight'
        BY <1>2, <1>3, <2>1, <2>2 DEF Inflight, R
    <2>3. ASSUME all_pushed', NEW k \in (Len(log) + 1)..R PROVE EntryLines(pos[k - 1], lens[k]) \subseteq inflight'
        <3>1. all_pushed /\ push
            BY <1>2, <2>3
        <3>2. CASE k \in (Len(log) + 1)..Issued
            BY <1>2, <1>3, <2>1, <3>1, <3>2 DEF Inflight
        <3>3. CASE k = R
            BY <2>1, <3>1, <3>3 DEF q, m
        <3> QED BY <1>4, <3>2, <3>3
    <2> QED BY <1>7, <2>2, <2>3 DEF Inflight
<1>20. Promise(pos, lens)'
    BY <1>2 DEF Promise
<1>21. Good(pos, lens, h, p, t, lt)'
    BY <1>16, <1>17, <1>18, <1>19, <1>20 DEF Good
<1> QED BY <1>14, <1>15, <1>21 DEF Inv

\* The drain makes persistent what psm_commit relies on: with push_only what is in flight,
\* otherwise everything between head and local_head.
LEMMA CommitFlushKeeps == ASSUME Inv, NEW push_only \in BOOLEAN, CommitFlush(push_only) PROVE Inv'
<1>1. PICK pos, lens, h, p, t, lt : Good(pos, lens, h, p, t, lt)
    BY DEF Inv
<1> DEFINE R == Reserved
           lines == IF push_only THEN inflight ELSE inflight \cup Uncommitted
<1>2. /\ fpc = "app" /\ fpc' = "persist_head" /\ (push_only => all_pushed)
      /\ nbuf' = [o \in Offsets |-> IF o \in lines THEN buf[o] ELSE nbuf[o]]
      /\ inflight' = {}
      /\ UNCHANGED <<phead, ptail, rtail, dexec, rvars, bvars, gvars, buf, head, tail,
                     local_head, local_tail, want, entry, all_pushed>>
    BY DEF CommitFlush
<1>3. /\ Types /\ Layout(pos, lens) /\ Pointers(pos, h, p, t, lt) /\ Contents(pos, lens, lt)
      /\ Inflight(pos, lens)
    BY <1>1 DEF Inv, Good
<1>4. R \in Nat /\ Issued = R /\ Len(log) \in Nat /\ Len(log) <= R /\ Drained = Len(log)
    BY <1>2, <1>3, Counts DEF Reserved, Drained
<1>5. Reserved' = R /\ Issued' = R /\ Drained' = R /\ \A k : OpAt(k)' = OpAt(k)
    BY <1>2, <1>4 DEF Reserved, Issued, Drained, OpAt, gvars
<1>6. /\ h = Len(log) /\ lt \in Nat /\ lt <= h /\ head = pos[h].off /\ local_head = pos[R].off
      /\ Fits(pos[lt], pos[R])
    BY <1>2, <1>3, Counts DEF Pointers
<1>7. /\ pos[lt] \in Pos /\ pos[h] \in Pos /\ pos[R] \in Pos /\ Fits(pos[h], pos[R])
    <2>1. lt \in 0..R /\ h \in 0..R /\ R \in 0..R /\ h <= R
        BY <1>4, <1>6
    <2>2. /\ pos[lt] \in Pos /\ pos[h] \in Pos /\ pos[R] \in Pos
          /\ ~Before(pos[h], pos[lt]) /\ ~Before(pos[R], pos[h])
        BY <1>3, <1>6, <2>1, Ordered
    <2> QED BY <1>6, <2>2, FitsBetween
<1> HIDE DEF R, lines
<1>8. Types'
    <2>1. nbuf' \in [Offsets -> Line]
        BY <1>2, <1>3 DEF Types
    <2> QED BY <1>2, <1>3, <2>1 DEF Types, FgPCs, rvars, bvars, gvars
<1>9. Executed'
    BY <1>2 DEF Inv, Executed, Begins, rvars, bvars, gvars
<1>10. Layout(pos, lens)'
    BY <1>3, <1>5 DEF Layout, R
<1>11. Pointers(pos, h, p, t, lt)'
    BY <1>2, <1>3, <1>5 DEF Pointers, R, rvars, bvars, gvars
<1>12. Contents(pos, lens, lt)'
    <2>1. ASSUME NEW k \in (lt + 1)..R PROVE Placed(nbuf', pos[k - 1], lens[k], OpAt(k))
        <3>1. Placed(buf, pos[k - 1], lens[k], OpAt(k))
            BY <1>3, <1>4 DEF Contents
        <3>2. k \in 1..R /\ k - 1 \in 0..R /\ k \in 0..R /\ R \in 0..R /\ k <= R
            BY <1>4, <1>6
        <3>3. pos[k - 1] \in Pos /\ lens[k] \in EntryLens /\ pos[k] = After(pos[k - 1], lens[k])
            BY <1>3, <3>2, PlaceOf DEF R
        <3>4. CASE k <= Len(log)
            <4>1. Placed(nbuf, pos[k - 1], lens[k], OpAt(k))
                BY <1>3, <1>4, <1>6, <3>4 DEF Contents
            <4>2. \A o \in Offsets : nbuf'[o] = nbuf[o] \/ nbuf'[o] = buf[o]
                BY <1>2
            <4> QED BY <3>1, <3>3, <4>1, <4>2, PlacedMix
        <3>5. CASE k > Len(log)
            <4>1. k \in (Len(log) + 1)..R
                BY <1>4, <3>5
            <4>2. EntryAt(pos[k - 1], lens[k]) # pos[k - 1] => pos[k - 1].off \in lines
                BY <1>2, <1>3, <4>1 DEF Inflight, R, lines
            <4>3. EntryLines(pos[k - 1], lens[k]) \subseteq lines
                <5>1. CASE push_only
                    BY <1>2, <1>3, <1>4, <4>1, <5>1 DEF Inflight, lines
                <5>2. CASE ~push_only
                    <6>1. h \in 0..R /\ h <= k - 1
                        BY <1>4, <1>6, <3>5
                    <6>2. ~Before(pos[k - 1], pos[h]) /\ ~Before(pos[R], pos[k])
                        BY <1>3, <3>2, <6>1, Ordered DEF R
                    <6>3. EntryLines(pos[k - 1], lens[k]) \subseteq Uncommitted
                        BY <1>6, <1>7, <3>3, <6>2, FlushPlace
                    <6> QED BY <5>2, <6>3 DEF lines
                <5> QED BY <5>1, <5>2
            <4>4. pos[k - 1].off \in Offsets /\ EntryLines(pos[k - 1], lens[k]) \subseteq Offsets
                BY <3>3, PosType DEF EntryLines, LinesOf
            <4>5. \A o \in EntryLines(pos[k - 1], lens[k]) : nbuf'[o] = buf[o]
                BY <1>2, <4>3, <4>4
            <4>6. EntryAt(pos[k - 1], lens[k]) # pos[k - 1] => nbuf'[pos[k - 1].off] = Pad
                BY <1>2, <3>1, <4>2, <4>4 DEF Placed
            <4> QED BY <3>1, <4>5, <4>6, PlacedAgree
        <3> QED BY <1>4, <3>4, <3>5
    <2>2. \A k \in (lt + 1)..R : Placed(buf', pos[k - 1], lens[k], OpAt(k))
        BY <1>2, <1>3, <1>4 DEF Contents
    <2> QED BY <1>5, <2>1, <2>2 DEF Contents
<1>13. Inflight(pos, lens)' /\ Promise(pos, lens)'
    BY <1>2 DEF Inflight, Promise
<1>14. Good(pos, lens, h, p, t, lt)'
    BY <1>10, <1>11, <1>12, <1>13 DEF Good
<1> QED BY <1>8, <1>9, <1>14 DEF Inv

LEMMA PersistHeadKeeps == ASSUME Inv, PersistHead PROVE Inv'
<1>1. PICK pos, lens, h, p, t, lt : Good(pos, lens, h, p, t, lt)
    BY DEF Inv
<1>2. /\ fpc = "persist_head" /\ fpc' = "publish_head" /\ phead' = local_head
      /\ log' = log \o pending /\ pending' = <<>> /\ all_pushed' = TRUE
      /\ UNCHANGED <<nbuf, ptail, rtail, dexec, rvars, bvars, buf, head, tail,
                     local_head, local_tail, want, entry, inflight, nops, crashes>>
    BY DEF PersistHead
<1>3. /\ Types /\ Layout(pos, lens) /\ Pointers(pos, h, p, t, lt) /\ Contents(pos, lens, lt)
    BY <1>1 DEF Inv, Good
<1>4. log \in Seq(Ops) /\ pending \in Seq(Ops) /\ Len(log) \in Nat /\ Len(pending) \in Nat
    BY <1>3 DEF Types
<1>5. /\ log' \in Seq(Ops) /\ Len(log') = Len(log) + Len(pending)
      /\ \A k \in 1..Len(log) : log'[k] = log[k]
    BY <1>2, <1>4, ConcatProperties
<1>6. Issued \in Nat /\ Reserved = Issued /\ Drained = Issued /\ Issued = Len(log')
    BY <1>2, <1>4, <1>5 DEF Issued, Reserved, Drained
<1>7. Issued' = Issued /\ Reserved' = Issued /\ Drained' = Issued /\ Len(pending') = 0
    BY <1>2, <1>5, <1>6 DEF Issued, Reserved, Drained
<1>8. \A k : OpAt(k)' = OpAt(k)
    <2>1. log' \o <<>> = log'
        BY <1>5, ConcatEmptySeq
    <2> QED BY <1>2, <2>1 DEF OpAt
<1>9. Types'
    BY <1>2, <1>3, <1>5 DEF Types, FgPCs, rvars, bvars
<1>10. Executed'
    <2>1. Begins(bexec, log)' /\ Begins(fexec, log)'
        <3>1. Len(bexec) \in Nat /\ Len(fexec) \in Nat /\ bexec' = bexec /\ fexec' = fexec
            BY <1>2, <1>3, Counts DEF bvars, rvars
        <3> QED BY <1>4, <1>5, <3>1 DEF Inv, Executed, Begins
    <2> QED BY <1>2, <2>1 DEF Inv, Executed, Begins, rvars, bvars
<1>11. Layout(pos, lens)'
    BY <1>3, <1>6, <1>7 DEF Layout
<1>12. Pointers(pos, h, p, t, lt)'
    BY <1>2, <1>3, <1>4, <1>5, <1>6, <1>7 DEF Pointers, rvars, bvars
<1>13. Contents(pos, lens, lt)'
    BY <1>2, <1>3, <1>6, <1>7, <1>8 DEF Contents
<1>14. Inflight(pos, lens)' /\ Promise(pos, lens)'
    BY <1>2, <1>6, <1>7 DEF Inflight, Promise
<1>15. Good(pos, lens, h, p, t, lt)'
    BY <1>11, <1>12, <1>13, <1>14 DEF Good
<1> QED BY <1>9, <1>10, <1>15 DEF Inv

-----------------------------------------------------------------------------
(* Write-backs and crashes.                                                *)

LEMMA WriteBackKeeps == ASSUME Inv, NEW o \in Offsets, WriteBack(o) PROVE Inv'
<1>1. PICK pos, lens, h, p, t, lt : Good(pos, lens, h, p, t, lt)
    BY DEF Inv
<1>2. /\ nbuf' = [nbuf EXCEPT ![o] = buf[o]]
      /\ UNCHANGED <<phead, ptail, rtail, dexec, pvars, rvars, bvars, gvars, buf, head, tail, fpc>>
    BY DEF WriteBack
<1>3. /\ Types /\ Layout(pos, lens) /\ Pointers(pos, h, p, t, lt) /\ Contents(pos, lens, lt)
      /\ Inflight(pos, lens) /\ Promise(pos, lens)
    BY <1>1 DEF Inv, Good
<1>4. Reserved' = Reserved /\ Issued' = Issued /\ Drained' = Drained /\ \A k : OpAt(k)' = OpAt(k)
    BY <1>2 DEF Reserved, Issued, Drained, OpAt, gvars
<1>5. buf \in [Offsets -> Line] /\ nbuf \in [Offsets -> Line]
    BY <1>3 DEF Types
<1>6. Types'
    <2>1. nbuf' \in [Offsets -> Line]
        BY <1>2, <1>5
    <2> QED BY <1>2, <1>3, <2>1 DEF Types, pvars, rvars, bvars, gvars
<1>7. Executed'
    BY <1>2 DEF Inv, Executed, Begins, rvars, bvars, gvars
<1>8. Layout(pos, lens)' /\ Inflight(pos, lens)'
    BY <1>2, <1>3, <1>4 DEF Layout, Inflight, pvars, gvars
<1>9. Promise(pos, lens)'
    BY <1>2, <1>3, <1>4 DEF Promise, pvars, gvars, Needed, Truncated
<1>10. Pointers(pos, h, p, t, lt)'
    BY <1>2, <1>3, <1>4 DEF Pointers, pvars, rvars, bvars, gvars
<1>11. Contents(pos, lens, lt)'
    <2>1. ASSUME NEW k \in (lt + 1)..Drained PROVE Placed(nbuf', pos[k - 1], lens[k], OpAt(k))
        <3>1. lt \in Nat /\ Drained \in Nat /\ Issued \in Nat /\ Reserved \in Nat /\ Drained <= Issued
              /\ Issued <= Reserved
            BY <1>3, Counts DEF Pointers
        <3>2. k \in (lt + 1)..Issued /\ k \in 1..Reserved
            BY <3>1
        <3>3. Placed(buf, pos[k - 1], lens[k], OpAt(k)) /\ Placed(nbuf, pos[k - 1], lens[k], OpAt(k))
            BY <1>3, <3>2 DEF Contents
        <3>4. pos[k - 1] \in Pos /\ lens[k] \in EntryLens
            BY <1>3, <3>2, PlaceOf
        <3>5. \A i \in Offsets : nbuf'[i] = nbuf[i] \/ nbuf'[i] = buf[i]
            BY <1>2, <1>5
        <3> QED BY <3>3, <3>4, <3>5, PlacedMix
    <2>2. \A k \in (lt + 1)..Issued : Placed(buf', pos[k - 1], lens[k], OpAt(k))
        BY <1>2, <1>3 DEF Contents
    <2> QED BY <1>4, <2>1, <2>2 DEF Contents
<1>12. Good(pos, lens, h, p, t, lt)'
    BY <1>8, <1>9, <1>10, <1>11 DEF Good
<1> QED BY <1>6, <1>7, <1>12 DEF Inv

\* A crash loses what is pending.  The readers restart at rtail, which is not before ptail.
LEMMA CrashKeeps == ASSUME Inv, Crash PROVE Inv'
<1>1. PICK pos, lens, h, p, t, lt : Good(pos, lens, h, p, t, lt)
    BY DEF Inv
<1> DEFINE L == Len(log)
<1>2. /\ crashes < MaxCrashes /\ crashes' = crashes + 1 /\ buf' = nbuf
      /\ head' = phead /\ local_head' = phead /\ tail' = ptail /\ local_tail' = ptail
      /\ want' = 0 /\ entry' = [at |-> 0, len |-> 0] /\ inflight' = {} /\ all_pushed' = TRUE
      /\ fpc' = "replay" /\ ftail' = rtail /\ fexec' = dexec
      /\ bpc' = "persist_tail" /\ btail' = rtail /\ consumed' = 0 /\ bexec' = dexec /\ pending' = <<>>
      /\ UNCHANGED <<nvars, nops, log>>
    BY DEF Crash, RestartTail
<1>3. /\ Types /\ Layout(pos, lens) /\ Pointers(pos, h, p, t, lt) /\ Contents(pos, lens, lt)
    BY <1>1 DEF Inv, Good
<1>4. /\ L \in Nat /\ L <= Drained /\ L <= Reserved /\ Drained \in Nat /\ Reserved \in Nat
      /\ Len(dexec) \in Nat /\ Len(bexec) \in Nat
    BY <1>3, Counts
<1>5. /\ lt \in Nat /\ p \in Nat /\ lt <= p /\ p <= Len(dexec) /\ Len(dexec) <= L
      /\ ptail = pos[p].off /\ phead = pos[L].off /\ rtail = pos[Len(dexec)].off
      /\ Fits(pos[lt], pos[Reserved])
    BY <1>3, <1>4 DEF Pointers
<1>6. Reserved' = L /\ Issued' = L /\ Drained' = L /\ log' = log
    BY <1>2, <1>4 DEF Reserved, Issued, Drained
<1>7. \A k \in 1..L : OpAt(k)' = OpAt(k)
    <2>1. log \o <<>> = log
        BY <1>3, ConcatEmptySeq DEF Types
    <2> QED BY <1>2, <1>3, <1>6, <2>1, OpAtLog DEF OpAt
<1>8. Types'
    <2>1. ftail' \in Offsets
        <3>1. pos[Len(dexec)] \in Pos
            BY <1>3, <1>4 DEF Layout
        <3> QED BY <1>2, <1>5, <3>1, PosType
    <2>2. entry' \in [at : Offsets, len : {0} \cup EntryLens]
        BY <1>2, ZeroOffset
    <2>3. crashes' \in 0..MaxCrashes /\ want' \in 0..(2 * LogSize) /\ consumed' \in 0..CommitBatch
        BY <1>2, <1>3, PsmLogAssumption DEF Types
    <2>4. pending' \in Seq(Ops) /\ inflight' \subseteq Offsets /\ all_pushed' \in BOOLEAN
        BY <1>2
    <2> QED BY <1>2, <1>3, <2>1, <2>2, <2>3, <2>4 DEF Types, FgPCs, BgPCs, nvars
<1>9. Executed'
    <2>1. Begins(dexec, log)
        BY <1>4 DEF Inv, Executed, Begins
    <2>2. Begins(dexec, dexec)
        BY <1>4 DEF Begins
    <2>3. dexec' = dexec
        BY <1>2 DEF nvars
    <2> QED BY <1>2, <1>6, <2>1, <2>2, <2>3 DEF Executed
<1>10. Layout(pos, lens)'
    <2>1. (\A k \in 1..L : k \in 1..Reserved) /\ (\A k \in 0..L : k \in 0..Reserved)
        BY <1>4
    <2> QED BY <1>3, <1>6, <2>1 DEF Layout
<1>11. Fits(pos[p], pos[L])
    <2>1. {lt, p, L, Reserved} \subseteq 0..Reserved /\ p <= L /\ lt <= L
        BY <1>4, <1>5
    <2>2. /\ pos[lt] \in Pos /\ pos[p] \in Pos /\ pos[L] \in Pos /\ pos[Reserved] \in Pos
          /\ ~Before(pos[p], pos[lt]) /\ ~Before(pos[L], pos[p]) /\ ~Before(pos[L], pos[lt])
          /\ ~Before(pos[Reserved], pos[L])
        BY <1>3, <1>4, <1>5, <2>1, Ordered
    <2>3. Fits(pos[lt], pos[L])
        BY <1>5, <2>2, FitsBetween
    <2> QED BY <2>2, <2>3, FitsBetween
<1>12. Pointers(pos, L, p, p, p)'
    BY <1>2, <1>4, <1>5, <1>6, <1>11 DEF Pointers, nvars
<1>13. Contents(pos, lens, p)'
    <2>1. ASSUME NEW k \in (p + 1)..L PROVE Placed(nbuf, pos[k - 1], lens[k], OpAt(k)')
        <3>1. k \in (lt + 1)..Drained /\ k \in 1..L
            BY <1>4, <1>5
        <3> QED BY <1>3, <1>7, <3>1 DEF Contents
    <2>2. buf' = nbuf /\ nbuf' = nbuf
        BY <1>2 DEF nvars
    <2> QED BY <1>6, <2>1, <2>2 DEF Contents
<1>14. Inflight(pos, lens)'
    BY <1>4, <1>6 DEF Inflight
<1>15. Promise(pos, lens)'
    BY <1>2 DEF Promise
<1>16. Good(pos, lens, L, p, p, p)'
    BY <1>10, <1>12, <1>13, <1>14, <1>15 DEF Good
<1> QED BY <1>8, <1>9, <1>16 DEF Inv

-----------------------------------------------------------------------------
(* The invariant.                                                          *)

LEMMA InitInv == Init => Inv
<1> SUFFICES ASSUME Init PROVE Inv
    OBVIOUS
<1>1. /\ Issued = 0 /\ Reserved = 0 /\ Drained = 0
      /\ Len(log) = 0 /\ Len(dexec) = 0 /\ Len(bexec) = 0 /\ Len(fexec) = 0
    BY DEF Init, Issued, Reserved, Drained
<1>2. Types
    <2>1. Pad \in Line
        BY PsmLogAssumption DEF Pad, Line
    <2>2. buf \in [Offsets -> Line] /\ nbuf \in [Offsets -> Line]
        BY <2>1 DEF Init
    <2>3. want \in 0..(2 * LogSize) /\ consumed \in 0..CommitBatch /\ nops \in 0..MaxOps /\ crashes \in 0..MaxCrashes
        BY PsmLogAssumption DEF Init
    <2>4. ftail \in Offsets /\ entry \in [at : Offsets, len : {0} \cup EntryLens]
        BY ZeroOffset DEF Init
    <2> QED BY <2>2, <2>3, <2>4 DEF Init, Types, FgPCs, BgPCs
<1>3. Executed
    BY PsmLogAssumption, <1>1 DEF Init, Executed, Begins
<1>4. PICK pos, lens : pos \in [Nat -> Pos] /\ lens \in [Nat -> Nat] /\ pos[0] = Origin
    <2> DEFINE f == [k \in Nat |-> Origin]
               g == [k \in Nat |-> 0]
    <2>1. f \in [Nat -> Pos] /\ g \in [Nat -> Nat] /\ f[0] = Origin
        BY ZeroOffset DEF Origin, Pos
    <2> HIDE DEF f, g
    <2> QED BY <2>1
<1>5. Layout(pos, lens)
    BY <1>1, <1>4 DEF Layout
<1>6. Pointers(pos, 0, 0, 0, 0)
    BY <1>1, <1>4 DEF Init, Pointers, Origin, Fits
<1>7. Contents(pos, lens, 0) /\ Inflight(pos, lens) /\ Promise(pos, lens)
    BY <1>1 DEF Init, Contents, Inflight, Promise
<1>8. Good(pos, lens, 0, 0, 0, 0)
    BY <1>5, <1>6, <1>7 DEF Good
<1> QED BY <1>2, <1>3, <1>8 DEF Inv

LEMMA StutterKeeps == ASSUME Inv, UNCHANGED vars PROVE Inv'
<1>1. PICK pos, lens, h, p, t, lt : Good(pos, lens, h, p, t, lt)
    BY DEF Inv
<1>2. Types' /\ Executed'
    BY DEF Inv, Types, Executed, Begins, vars
<1>3. Reserved' = Reserved /\ Issued' = Issued /\ Drained' = Drained /\ \A k : OpAt(k)' = OpAt(k)
    BY DEF Reserved, Issued, Drained, OpAt, vars
<1>4. Good(pos, lens, h, p, t, lt)'
    BY <1>1, <1>3 DEF Good, Layout, Pointers, Contents, Inflight, Promise, Needed, Truncated, vars
<1> QED BY <1>2, <1>4 DEF Inv

LEMMA NextKeeps == Inv /\ [Next]_vars => Inv'
<1> SUFFICES ASSUME Inv, [Next]_vars PROVE Inv'
    OBVIOUS
<1>1. CASE BgStep
    BY <1>1, BgConsumeKeeps, BgIdleKeeps, BgCommitKeeps, BgPersistTailKeeps, BgPublishTailKeeps, StutterKeeps
       DEF BgStep, BgSpin
<1>2. CASE FgStep
    BY <1>2, ReserveSpinKeeps, ReserveReturnKeeps, FillKeeps, PersistHeadKeeps, PublishHeadKeeps,
       ReplayKeeps, ReplayDoneKeeps, InitReturnKeeps DEF FgStep
<1>3. CASE \E n \in EntryLens : Reserve(n)
    BY <1>3, ReserveKeeps
<1>4. CASE \E push_only \in BOOLEAN : CommitFlush(push_only)
    BY <1>4, CommitFlushKeeps
<1>5. CASE \E o \in Offsets : WriteBack(o)
    BY <1>5, WriteBackKeeps
<1>6. CASE Crash
    BY <1>6, CrashKeeps
<1>7. CASE UNCHANGED vars
    BY <1>7, StutterKeeps
<1> QED BY <1>1, <1>2, <1>3, <1>4, <1>5, <1>6, <1>7 DEF Next

\* Every reachable buffer has a layout: the operations of log and pending lie one behind the
\* other, each whole in the images of the buffer that must hold it.
THEOREM InvAlways == Spec => []Inv
BY InitInv, NextKeeps, PTL DEF Spec

-----------------------------------------------------------------------------
(* What it implies.                                                        *)

\* The foreground and background pointers stay cache-line offsets of the buffer, and every
\* variable keeps its type (struct psm, struct psm_log and the producer's state).
THEOREM TypeCorrect == Spec => []TypeOK
<1>1. Inv => TypeOK
    <2> SUFFICES ASSUME Inv PROVE TypeOK
        OBVIOUS
    <2>1. PICK pos, lens, h, p, t, lt : Good(pos, lens, h, p, t, lt)
        BY DEF Inv
    <2>2. Types
        BY DEF Inv
    <2>3. \A k \in Nat : pos[k].off \in Offsets
        BY <2>1, PosType DEF Good, Layout
    <2>4. {head, tail, phead, ptail, rtail, local_head, local_tail, ftail, btail} \subseteq Offsets
        <3>1. Pointers(pos, h, p, t, lt)
            BY <2>1 DEF Good
        <3>2. h \in Nat /\ p \in Nat /\ t \in Nat /\ lt \in Nat
            BY <3>1 DEF Pointers
        <3>3. Len(log) \in Nat /\ Len(dexec) \in Nat /\ Len(bexec) \in Nat /\ Reserved \in Nat
            BY <2>2, Counts
        <3>4. head \in Offsets /\ tail \in Offsets /\ ptail \in Offsets /\ local_tail \in Offsets
            BY <2>3, <3>1, <3>2 DEF Pointers
        <3>5. phead \in Offsets /\ rtail \in Offsets /\ local_head \in Offsets /\ btail \in Offsets
            BY <2>3, <3>1, <3>3 DEF Pointers
        <3>6. ftail \in Offsets
            BY <2>2 DEF Types
        <3> QED BY <3>4, <3>5, <3>6
    <2>5. \A s : s \in Seq(Ops) => s \in Seq(0..MaxOps)
        BY PsmLogAssumption DEF Ops
    <2>6. {pending, log, dexec, bexec, fexec} \subseteq Seq(0..MaxOps)
        BY <2>2, <2>5 DEF Types
    <2> QED BY <2>2, <2>4, <2>6 DEF Types, TypeOK
<1> QED BY <1>1, InvAlways, PTL

LEMMA BeginsPrefix ==
    ASSUME NEW S, NEW s \in Seq(S), NEW t \in Seq(S), Begins(s, t)
    PROVE  IsPrefix(s, t)
BY DEF Begins, IsPrefix

\* consume and the replay loop of psm_init hand the committed operations to consume_func in the
\* order of psm_commit, none twice and none left out, whatever crashes intervene.
THEOREM ExecutedInOrderTheorem == Spec => []ExecutedInOrder
<1>1. Inv => ExecutedInOrder
    BY BeginsPrefix DEF Inv, Types, Executed, ExecutedInOrder
<1> QED BY <1>1, InvAlways, PTL

\* consume never hands over a torn or overwritten entry: psm_reserve's test of the free space
\* keeps the producer behind both readers, and psm_commit drains before it moves head.
THEOREM ConsumedIntactTheorem == Spec => []ConsumedIntact
<1>1. Inv => ConsumedIntact
    <2> SUFFICES ASSUME Inv PROVE ConsumedIntact
        OBVIOUS
    <2>1. PICK pos, lens, h, p, t, lt : Good(pos, lens, h, p, t, lt)
        BY DEF Inv
    <2>2. Types /\ Executed /\ Pointers(pos, h, p, t, lt)
        BY <2>1 DEF Inv, Good
    <2>3. Len(bexec) \in Nat /\ lt <= Len(bexec) /\ Len(bexec) <= h /\ btail = pos[Len(bexec)].off
        BY <2>2, Counts DEF Pointers
    <2>4. HasEntry(buf, head, btail) => Intact(buf, btail)
        BY <2>1, <2>2, <2>3, ReaderMeets
    <2>5. CASE fpc = "replay"
        <3>1. Len(fexec) \in Nat /\ lt <= Len(fexec) /\ Len(fexec) <= h /\ ftail = pos[Len(fexec)].off
            BY <2>2, <2>5, Counts DEF Pointers, Executed, Begins
        <3>2. HasEntry(buf, head, ftail) => Intact(buf, ftail)
            BY <2>1, <2>2, <3>1, ReaderMeets
        <3> QED BY <2>4, <3>2 DEF ConsumedIntact
    <2> QED BY <2>4, <2>5 DEF ConsumedIntact
<1> QED BY <1>1, InvAlways, PTL

\* The two asserts of consume hold in both processes.
THEOREM ConsumeAssertsHoldTheorem == Spec => []ConsumeAssertsHold
<1>1. Inv => ConsumeAssertsHold
    <2> SUFFICES ASSUME Inv PROVE ConsumeAssertsHold
        OBVIOUS
    <2>1. PICK pos, lens, h, p, t, lt : Good(pos, lens, h, p, t, lt)
        BY DEF Inv
    <2>2. Types /\ Executed /\ Pointers(pos, h, p, t, lt)
        BY <2>1 DEF Inv, Good
    <2> DEFINE Asserts(x) ==
            x # head =>
                /\ buf[x] = Pad => x > head
                /\ EntryStart(buf, x) + Size(buf[EntryStart(buf, x)].len) <= LogSize
    <2>3. ASSUME NEW k \in Nat, lt <= k, k <= h PROVE Asserts(pos[k].off)
        BY <2>1, <2>2, <2>3, ReaderMeets
    <2> HIDE DEF Asserts
    <2>4. Len(bexec) \in Nat /\ lt <= Len(bexec) /\ Len(bexec) <= h /\ btail = pos[Len(bexec)].off
        BY <2>2, Counts DEF Pointers
    <2>5. Asserts(btail)
        BY <2>3, <2>4
    <2>6. fpc = "replay" => Asserts(ftail)
        <3> SUFFICES ASSUME fpc = "replay" PROVE Asserts(ftail)
            OBVIOUS
        <3>1. Len(fexec) \in Nat /\ lt <= Len(fexec) /\ Len(fexec) <= h /\ ftail = pos[Len(fexec)].off
            BY <2>2, Counts DEF Pointers, Executed, Begins
        <3> QED BY <2>3, <3>1
    <2>7. \A x \in (IF bpc = "consume" THEN {btail} ELSE {}) \cup (IF fpc = "replay" THEN {ftail} ELSE {}) :
              Asserts(x)
        BY <2>5, <2>6
    <2> QED BY <2>7 DEF Asserts, ConsumeAssertsHold, Size
<1> QED BY <1>1, InvAlways, PTL

\* When the replay loop of psm_init ends, the foreground has executed the whole log, although
\* the background process has been moving ptail and tail meanwhile.
THEOREM ReplayCompleteTheorem == Spec => []ReplayComplete
<1>1. Inv => ReplayComplete
    <2> SUFFICES ASSUME Inv, fpc = "recovered" PROVE fexec = log
        BY DEF ReplayComplete
    <2>1. /\ fexec \in Seq(Ops) /\ log \in Seq(Ops) /\ Len(fexec) = Len(log)
          /\ \A k \in 1..Len(fexec) : fexec[k] = log[k]
        BY DEF Inv, Types, Executed, Begins
    <2> QED BY <2>1, SeqEqual
<1> QED BY <1>1, InvAlways, PTL

-----------------------------------------------------------------------------
(* Refinement of DurableQueue.                                             *)

Lines == LogSize \div LineSize

\* The queue that the persistent log should be.
Unexecuted == SubSeq(log, Len(dexec) + 1, Len(log))

-----------------------------------------------------------------------------
(* Induction, and the recursive function that walks.                       *)

LEMMA SetInduction ==
    ASSUME NEW S, 0 \in S, \A n \in Nat : n \in S => n + 1 \in S
    PROVE  Nat \subseteq S
<1> DEFINE T == Nat \ S
           R == {ss \in Nat \X Nat : ss[1] < ss[2]}
<1> SUFFICES ASSUME T # {} PROVE FALSE
    OBVIOUS
<1>1. IsWellFoundedOn(R, Nat)
    BY NatLessThanWellFounded DEF OpToRel
<1>2. PICK x \in T : \A y \in T : ~(<<y, x>> \in R)
    <2>1. T \subseteq Nat
        OBVIOUS
    <2> HIDE DEF T, R
    <2> QED BY <1>1, <2>1, WFMin
<1>3. x \in Nat /\ x # 0
    OBVIOUS
<1>4. x - 1 \in T
    BY <1>3
<1>5. <<x - 1, x>> \in R
    BY <1>3, <1>4
<1> QED BY <1>2, <1>4, <1>5

Nothing == [s \in Offsets |-> <<>>]
WalkStep(b, h, n, W) == IF n = 0 THEN Nothing ELSE Reads(b, h, W[n - 1])
IsWalk(b, h, m, W) == W = [n \in 0..m |-> WalkStep(b, h, n, W)]

LEMMA WalkExists ==
    ASSUME NEW b, NEW h, NEW m \in Nat
    PROVE  \E W : IsWalk(b, h, m, W)
<1> DEFINE S == {i \in Nat : \E W : W = [n \in 0..i |-> WalkStep(b, h, n, W)]}
<1>1. 0 \in S
    <2> DEFINE W == [n \in 0..0 |-> Nothing]
    <2>1. W = [n \in 0..0 |-> WalkStep(b, h, n, W)]
        BY DEF WalkStep
    <2> HIDE DEF W
    <2> QED BY <2>1
<1>2. ASSUME NEW i \in Nat, i \in S PROVE i + 1 \in S
    <2>1. PICK G : G = [n \in 0..i |-> WalkStep(b, h, n, G)]
        BY <1>2
    <2> DEFINE W == [n \in 0..(i + 1) |-> IF n = i + 1 THEN Reads(b, h, G[i]) ELSE G[n]]
    <2>2. ASSUME NEW n \in 0..(i + 1) PROVE W[n] = WalkStep(b, h, n, W)
        <3>1. CASE n = i + 1
            <4>1. n # 0 /\ n - 1 = i /\ W[n - 1] = G[i] /\ W[n] = Reads(b, h, G[i])
                BY <3>1
            <4> HIDE DEF W
            <4> QED BY <4>1 DEF WalkStep
        <3>2. CASE n \in 0..i
            <4>1. W[n] = G[n] /\ (n # 0 => W[n - 1] = G[n - 1])
                BY <3>2
            <4>2. G[n] = WalkStep(b, h, n, G)
                BY <2>1, <3>2
            <4> HIDE DEF W
            <4> QED BY <4>1, <4>2 DEF WalkStep
        <3> QED BY <3>1, <3>2
    <2>3. W = [n \in 0..(i + 1) |-> W[n]]
        OBVIOUS
    <2> HIDE DEF W
    <2>4. W = [n \in 0..(i + 1) |-> WalkStep(b, h, n, W)]
        BY <2>2, <2>3
    <2> QED BY <2>4
<1> HIDE DEF S
<1>3. Nat \subseteq S
    BY <1>1, <1>2, SetInduction
<1> QED BY <1>3 DEF S, IsWalk

LEMMA WalkValue ==
    ASSUME NEW b, NEW h, NEW t, Lines \in Nat
    PROVE  \E W : /\ OpsFrom(b, h, t) = W[Lines][t]
                  /\ W[0] = Nothing
                  /\ \A n \in 1..Lines : W[n] = Reads(b, h, W[n - 1])
<1> DEFINE W == CHOOSE G : IsWalk(b, h, Lines, G)
<1>1. IsWalk(b, h, Lines, W)
    BY WalkExists
<1>2. OpsFrom(b, h, t) = W[Lines][t]
    BY DEF OpsFrom, Lines, IsWalk, WalkStep, Nothing
<1> HIDE DEF W
<1>3. \A n \in 0..Lines : W[n] = WalkStep(b, h, n, W)
    BY <1>1 DEF IsWalk
<1>4. W[0] = Nothing /\ \A n \in 1..Lines : W[n] = Reads(b, h, W[n - 1])
    BY <1>3 DEF WalkStep
<1> QED BY <1>2, <1>4

-----------------------------------------------------------------------------
(* What the walk meets.                                                    *)

LEMMA LinesType == Lines \in Nat /\ LogSize = LineSize * Lines
BY PsmLogAssumption DEF Lines

\* No more entries lie in the window than the buffer has lines.
LEMMA WindowBound ==
    ASSUME Types, NEW pos, NEW lens, NEW lt \in Nat, Layout(pos, lens), Fits(pos[lt], pos[Reserved]),
           NEW i \in Nat, NEW j \in Nat, lt <= i, i <= j, j <= Reserved
    PROVE  j - i <= Lines
<1>1. Reserved \in Nat /\ Lines \in Nat /\ LineSize \in Nat \ {0} /\ LogSize = LineSize * Lines
    BY Counts, LinesType, PsmLogAssumption
<1>2. ASSUME NEW k \in i..j
      PROVE  /\ pos[k] \in Pos /\ pos[k].off \in Nat
             /\ pos[k].off = LineSize * (pos[k].off \div LineSize)
             /\ pos[k].off \div LineSize \in 0..(Lines - 1)
    <2>1. pos[k] \in Pos
        BY <1>1 DEF Layout
    <2>2. pos[k].off \in Nat /\ pos[k].off < LogSize /\ pos[k].off % LineSize = 0
        BY <2>1, PosType, PsmLogAssumption DEF Offsets
    <2> DEFINE x == pos[k].off
               y == x \div LineSize
    <2> HIDE DEF x
    <2>3. x \in Nat /\ x < LineSize * Lines /\ x % LineSize = 0
        BY <1>1, <2>2 DEF x
    <2>4. y \in Nat /\ x = LineSize * y
        BY <1>1, <2>3
    <2> HIDE DEF y
    <2>5. y < Lines
        BY <1>1, <2>3, <2>4
    <2>6. y \in 0..(Lines - 1)
        BY <1>1, <2>4, <2>5
    <2> QED BY <2>1, <2>2, <2>4, <2>6 DEF x, y
<1>3. ASSUME NEW k \in i..j, NEW l \in i..j, k < l PROVE pos[k].off # pos[l].off
    <2>1. {lt, k, l, Reserved} \subseteq 0..Reserved /\ lt <= k /\ l <= Reserved /\ lt <= l
        BY <1>1, <1>3
    <2>2. /\ pos[lt] \in Pos /\ pos[k] \in Pos /\ pos[l] \in Pos /\ pos[Reserved] \in Pos
          /\ ~Before(pos[k], pos[lt]) /\ ~Before(pos[l], pos[lt]) /\ ~Before(pos[Reserved], pos[l])
        BY <2>1, Ordered
    <2>3. Before(pos[k], pos[l])
        BY <1>3, <2>1 DEF Layout
    <2>4. Fits(pos[lt], pos[l])
        BY <2>2, FitsBetween
    <2> QED BY <2>2, <2>3, <2>4, FitsDistinct
<1> SUFFICES ASSUME j - i > Lines PROVE FALSE
    BY <1>1
<1> DEFINE f == [k \in i..j |-> pos[k].off \div LineSize]
<1>4. f \in [i..j -> 0..(Lines - 1)]
    BY <1>2
<1>5. /\ IsFiniteSet(i..j) /\ IsFiniteSet(0..(Lines - 1))
      /\ Cardinality(0..(Lines - 1)) < Cardinality(i..j)
    <2> DEFINE m == Lines - 1
    <2>1. i \in Int /\ j \in Int /\ 0 \in Int /\ m \in Int /\ Lines \in Nat /\ j - i > Lines
        BY <1>1
    <2>2. IsFiniteSet(i..j) /\ Cardinality(i..j) = IF i > j THEN 0 ELSE j - i + 1
        BY <2>1, FS_Interval
    <2> HIDE DEF m
    <2>3. IsFiniteSet(0..m) /\ Cardinality(0..m) = IF 0 > m THEN 0 ELSE m - 0 + 1
        BY <2>1, FS_Interval
    <2>4. Cardinality(0..m) < Cardinality(i..j)
        BY <2>1, <2>2, <2>3 DEF m
    <2> QED BY <2>2, <2>3, <2>4 DEF m
<1>6. PICK k \in i..j, l \in i..j : k # l /\ f[k] = f[l]
    <2> HIDE DEF f
    <2> QED BY <1>4, <1>5, FS_PigeonHole
<1>7. pos[k].off = pos[l].off
    BY <1>2, <1>6
<1> QED BY <1>3, <1>6, <1>7

LEMMA PersistentWalk ==
    ASSUME Types, NEW pos, NEW lens, NEW h, NEW p, NEW t, NEW lt, Good(pos, lens, h, p, t, lt)
    PROVE  OpsFrom(nbuf, phead, rtail) = Unexecuted
<1> DEFINE L == Len(log)
           D == Len(dexec)
<1>1. /\ L \in Nat /\ D \in Nat /\ L <= Drained /\ Drained \in Nat /\ L <= Reserved /\ Reserved \in Nat
      /\ Len(bexec) \in Nat
    BY Counts
<1>2. /\ lt \in Nat /\ lt <= D /\ D <= L /\ phead = pos[L].off /\ rtail = pos[D].off
      /\ Layout(pos, lens) /\ Fits(pos[lt], pos[Reserved]) /\ log \in Seq(Ops)
    <2>1. Layout(pos, lens) /\ Pointers(pos, h, p, t, lt) /\ log \in Seq(Ops)
        BY DEF Good, Types
    <2>2. /\ lt \in Nat /\ t \in Nat /\ p \in Nat /\ h \in Nat
          /\ lt <= t /\ t <= p /\ p <= D /\ D <= Len(bexec) /\ Len(bexec) <= h /\ h <= L
          /\ phead = pos[L].off /\ rtail = pos[D].off /\ Fits(pos[lt], pos[Reserved])
        BY <2>1 DEF Pointers
    <2> HIDE DEF L, D
    <2>3. lt <= D /\ D <= L
        BY <1>1, <2>2
    <2> QED BY <2>1, <2>2, <2>3
<1>3. Holds(nbuf, pos, lens, lt, L)
    <2>1. \A k \in (lt + 1)..L : k \in (lt + 1)..Drained
        BY <1>1, <1>2
    <2> QED BY <2>1 DEF Good, Contents, Holds
<1> HIDE DEF L, D
<1>4. ASSUME NEW k \in D..L PROVE Finds(nbuf, pos, L, k) /\ k \in Nat /\ pos[k].off \in Offsets
    <2>1. k \in Nat /\ lt <= k /\ k <= L /\ L <= Len(log)
        BY <1>1, <1>2 DEF L
    <2>2. pos[k].off \in Offsets
        BY <1>2, <2>1, PosType DEF Layout
    <2> QED BY <1>1, <1>2, <1>3, <2>1, <2>2, Meets
<1>5. PICK W : /\ OpsFrom(nbuf, phead, rtail) = W[Lines][rtail]
               /\ W[0] = Nothing
               /\ \A n \in 1..Lines : W[n] = Reads(nbuf, phead, W[n - 1])
    BY LinesType, WalkValue
<1> DEFINE Right(n) == \A k \in D..L : L - k <= n => W[n][pos[k].off] = SubSeq(log, k + 1, L)
           S == {n \in Nat : n <= Lines => Right(n)}
<1>6. 0 \in S
    <2> SUFFICES ASSUME NEW k \in D..L, L - k <= 0 PROVE W[0][pos[k].off] = SubSeq(log, k + 1, L)
        OBVIOUS
    <2>1. W[0][pos[k].off] = <<>>
        BY <1>4, <1>5 DEF Nothing
    <2>2. SubSeq(log, k + 1, L) = <<>>
        BY <1>1, <1>4, SubSeqEmpty
    <2> QED BY <2>1, <2>2
<1>7. ASSUME NEW n \in Nat, n \in S PROVE n + 1 \in S
    <2> SUFFICES ASSUME n + 1 <= Lines, NEW k \in D..L, L - k <= n + 1
                 PROVE  W[n + 1][pos[k].off] = SubSeq(log, k + 1, L)
        OBVIOUS
    <2>1. Right(n)
        BY <1>7, LinesType
    <2>2. W[n + 1] = Reads(nbuf, phead, W[n])
        BY <1>5, LinesType
    <2>3. W[n + 1][pos[k].off] = IF HasEntry(nbuf, phead, pos[k].off)
                                 THEN <<EntryOp(nbuf, pos[k].off)>> \o W[n][NextTail(nbuf, pos[k].off)]
                                 ELSE <<>>
        BY <1>4, <2>2 DEF Reads
    <2>4. CASE k = L
        <3>1. ~HasEntry(nbuf, phead, pos[k].off)
            BY <1>1, <1>2, <1>4, <2>4 DEF Finds
        <3>2. SubSeq(log, k + 1, L) = <<>>
            BY <1>1, <2>4, SubSeqEmpty
        <3> QED BY <2>3, <3>1, <3>2
    <2>5. CASE k < L
        <3>1. /\ HasEntry(nbuf, phead, pos[k].off) /\ EntryOp(nbuf, pos[k].off) = log[k + 1]
              /\ NextTail(nbuf, pos[k].off) = pos[k + 1].off
            BY <1>2, <1>4, <2>5 DEF Finds
        <3>2. k + 1 \in D..L /\ L - (k + 1) <= n /\ k + 1 \in 1..Len(log) /\ L \in (k + 1)..Len(log)
            BY <1>1, <1>4, <2>5 DEF L
        <3>3. W[n][pos[k + 1].off] = SubSeq(log, (k + 1) + 1, L)
            BY <2>1, <3>2
        <3>4. SubSeq(log, k + 1, L) = <<log[k + 1]>> \o SubSeq(log, (k + 1) + 1, L)
            BY <1>2, <3>2, SubSeqRecursiveFirst
        <3> QED BY <2>3, <3>1, <3>3, <3>4
    <2> QED BY <1>1, <1>4, <2>4, <2>5
<1>8. Lines \in S
    <2> HIDE DEF S
    <2>1. Nat \subseteq S
        BY <1>6, <1>7, SetInduction
    <2> QED BY <2>1, LinesType
<1>9. L - D <= Lines
    BY <1>1, <1>2, WindowBound
<1>10. W[Lines][pos[D].off] = SubSeq(log, D + 1, L)
    BY <1>1, <1>2, <1>8, <1>9, LinesType
<1> QED BY <1>2, <1>5, <1>10 DEF Unexecuted, L, D

-----------------------------------------------------------------------------
(* The refinement.                                                         *)

\* The application stops at MaxBatch operations, the one it has reserved space for included.
Batch == Len(pending) + (IF fpc \in {"reserve", "fill"} THEN 1 ELSE 0) <= MaxBatch

LEMMA BatchNext == Types /\ Batch /\ [Next]_vars => Batch'
<1> SUFFICES ASSUME Types, Batch, [Next]_vars PROVE Batch'
    OBVIOUS
<1>1. pending \in Seq(Ops) /\ Len(pending) \in Nat /\ MaxBatch \in Nat /\ nops + 1 = nops + 1
    BY PsmLogAssumption DEF Types
<1>2. CASE BgStep
    BY <1>2 DEF Batch, BgStep, BgConsume, BgSpin, BgIdle, BgCommit, BgPersistTail, BgPublishTail, gvars, vars
<1>3. ASSUME NEW n \in EntryLens, Reserve(n) PROVE Batch'
    BY <1>1, <1>3 DEF Batch, Reserve, gvars
<1>4. CASE ReserveSpin \/ ReserveReturn
    BY <1>1, <1>4 DEF Batch, ReserveSpin, ReserveReturn, gvars
<1>5. ASSUME NEW push \in BOOLEAN, Fill(push) PROVE Batch'
    <2>1. pending' = Append(pending, nops + 1) /\ fpc = "fill" /\ fpc' = "app"
        BY <1>5 DEF Fill
    <2>2. Len(pending') = Len(pending) + 1
        BY <1>1, <2>1
    <2> QED BY <1>1, <2>1, <2>2 DEF Batch
<1>6. ASSUME NEW push_only \in BOOLEAN, CommitFlush(push_only) PROVE Batch'
    BY <1>1, <1>6 DEF Batch, CommitFlush, gvars
<1>7. CASE PersistHead
    <2>1. pending' = <<>> /\ fpc' = "publish_head"
        BY <1>7 DEF PersistHead
    <2> QED BY <1>1, <2>1 DEF Batch
<1>8. CASE PublishHead \/ Replay \/ ReplayDone \/ InitReturn
    BY <1>1, <1>8 DEF Batch, PublishHead, Replay, ReplayDone, InitReturn, gvars
<1>9. ASSUME NEW o \in Offsets, WriteBack(o) PROVE Batch'
    BY <1>9 DEF Batch, WriteBack, gvars
<1>10. CASE Crash
    <2>1. pending' = <<>> /\ fpc' = "replay"
        BY <1>10 DEF Crash
    <2> QED BY <1>1, <2>1 DEF Batch
<1>11. CASE UNCHANGED vars
    BY <1>11 DEF Batch, vars
<1> QED BY <1>2, <1>3, <1>4, <1>5, <1>6, <1>7, <1>8, <1>9, <1>10, <1>11 DEF Next, FgStep

\* Only update_head and the commit of the background process change what is to be executed.
LEMMA OthersLeave ==
    ASSUME [Next]_vars, ~PersistHead, ~BgCommit
    PROVE  UNCHANGED <<log, dexec>>
<1>1. CASE BgStep
    BY <1>1 DEF BgStep, BgConsume, BgSpin, BgIdle, BgPersistTail, BgPublishTail, gvars, nvars, vars
<1>2. CASE FgStep
    BY <1>2 DEF FgStep, ReserveSpin, ReserveReturn, Fill, PublishHead, Replay, ReplayDone, InitReturn,
                gvars, nvars
<1>3. ASSUME NEW n \in EntryLens, Reserve(n) PROVE UNCHANGED <<log, dexec>>
    BY <1>3 DEF Reserve, gvars, nvars
<1>4. ASSUME NEW push_only \in BOOLEAN, CommitFlush(push_only) PROVE UNCHANGED <<log, dexec>>
    BY <1>4 DEF CommitFlush, gvars
<1>5. ASSUME NEW o \in Offsets, WriteBack(o) PROVE UNCHANGED <<log, dexec>>
    BY <1>5 DEF WriteBack, gvars
<1>6. CASE Crash
    BY <1>6 DEF Crash, nvars
<1>7. CASE UNCHANGED vars
    BY <1>7 DEF vars
<1> QED BY <1>1, <1>2, <1>3, <1>4, <1>5, <1>6, <1>7 DEF Next

\* What is left behind a beginning of a sequence.
LEMMA Rest ==
    ASSUME NEW T, NEW s \in Seq(T), NEW m \in 0..Len(s)
    PROVE  /\ SubSeq(s, m + 1, Len(s)) \in Seq(T)
           /\ Len(SubSeq(s, m + 1, Len(s))) = Len(s) - m
           /\ \A k \in 1..(Len(s) - m) : SubSeq(s, m + 1, Len(s))[k] = s[m + k]
<1> DEFINE r == SubSeq(s, m + 1, Len(s))
<1>1. Len(s) \in Nat /\ m \in Nat
    OBVIOUS
<1>2. r = [k \in 1..(Len(s) - m) |-> s[m + k]]
    BY <1>1
<1>3. \A k \in 1..(Len(s) - m) : s[m + k] \in T
    BY <1>1
<1> QED BY <1>1, <1>2, <1>3

\* A commit of the foreground appends its batch.
LEMMA Enqueues ==
    ASSUME Types, Batch, Len(dexec) <= Len(log), PersistHead
    PROVE  UNCHANGED Unexecuted \/
           /\ Len(Unexecuted') \in (Len(Unexecuted) + 1)..(Len(Unexecuted) + MaxBatch)
           /\ SubSeq(Unexecuted', 1, Len(Unexecuted)) = Unexecuted
<1> DEFINE d == Len(dexec)
           new == log \o pending
<1>1. /\ d \in Nat /\ Len(log) \in Nat /\ Len(pending) \in Nat /\ log \in Seq(Ops) /\ pending \in Seq(Ops)
      /\ Len(pending) <= MaxBatch /\ MaxBatch \in Nat
    BY PsmLogAssumption DEF Types, Batch, PersistHead
<1>2. log' = new /\ dexec' = dexec
    BY DEF PersistHead
<1>3. /\ new \in Seq(Ops) /\ Len(new) = Len(log) + Len(pending)
      /\ \A k \in 1..Len(log) : new[k] = log[k]
    BY <1>1
<1> DEFINE q == SubSeq(log, d + 1, Len(log))
           r == SubSeq(new, d + 1, Len(new))
<1>4. Unexecuted = q /\ Unexecuted' = r
    BY <1>2 DEF Unexecuted
<1> HIDE DEF d, new
<1>5. d \in 0..Len(log) /\ d \in 0..Len(new)
    BY <1>1, <1>3 DEF d
<1>6. q \in Seq(Ops) /\ Len(q) = Len(log) - d /\ \A k \in 1..(Len(log) - d) : q[k] = log[d + k]
    BY <1>1, <1>5, Rest
<1>7. r \in Seq(Ops) /\ Len(r) = Len(new) - d /\ \A k \in 1..(Len(new) - d) : r[k] = new[d + k]
    BY <1>3, <1>5, Rest
<1> HIDE DEF q, r
<1>8. ASSUME NEW k \in 1..Len(q) PROVE q[k] = r[k]
    <2>1. k \in 1..(Len(log) - d) /\ k \in 1..(Len(new) - d) /\ d + k \in 1..Len(log)
        BY <1>1, <1>3, <1>5, <1>6
    <2> QED BY <1>3, <1>6, <1>7, <2>1
<1>9. CASE Len(pending) = 0
    <2>1. Len(q) = Len(r)
        BY <1>1, <1>3, <1>6, <1>7, <1>9
    <2>2. q = r
        BY <1>6, <1>7, <1>8, <2>1, SeqEqual
    <2> QED BY <1>4, <2>2
<1>10. CASE Len(pending) > 0
    <2>1. Len(r) \in (Len(q) + 1)..(Len(q) + MaxBatch)
        BY <1>1, <1>3, <1>5, <1>6, <1>7, <1>10
    <2>2. Len(q) \in Nat /\ Len(q) <= Len(r)
        BY <1>6, <2>1
    <2>3. /\ SubSeq(r, 1, Len(q)) \in Seq(Ops) /\ Len(SubSeq(r, 1, Len(q))) = Len(q)
          /\ \A k \in 1..Len(q) : SubSeq(r, 1, Len(q))[k] = r[k]
        BY <1>7, <2>2
    <2>4. SubSeq(r, 1, Len(q)) = q
        BY <1>6, <1>8, <2>3, SeqEqual
    <2> QED BY <1>4, <2>1, <2>4
<1> QED BY <1>1, <1>9, <1>10

\* A commit of the background process removes what it has executed since its last one.
LEMMA Dequeues ==
    ASSUME Types, Executed, BgCommit
    PROVE  \E n \in 1..CommitBatch : /\ n <= Len(Unexecuted)
                                     /\ Unexecuted' = SubSeq(Unexecuted, n + 1, Len(Unexecuted))
<1> DEFINE d == Len(dexec)
           e == Len(bexec)
<1>1. /\ d \in Nat /\ e \in Nat /\ Len(log) \in Nat /\ log \in Seq(Ops) /\ e <= Len(log) /\ d <= e
      /\ consumed \in 1..CommitBatch /\ consumed = e - d
    BY PsmLogAssumption DEF Types, Executed, Begins, BgCommit
<1>2. log' = log /\ dexec' = bexec
    BY DEF BgCommit, gvars
<1> DEFINE q == SubSeq(log, d + 1, Len(log))
           r == SubSeq(log, e + 1, Len(log))
           u == SubSeq(q, consumed + 1, Len(q))
<1>3. Unexecuted = q /\ Unexecuted' = r
    BY <1>2 DEF Unexecuted
<1> HIDE DEF d, e
<1>4. q \in Seq(Ops) /\ Len(q) = Len(log) - d /\ \A k \in 1..(Len(log) - d) : q[k] = log[d + k]
    <2>1. d \in 0..Len(log)
        BY <1>1
    <2> QED BY <1>1, <2>1, Rest
<1>5. r \in Seq(Ops) /\ Len(r) = Len(log) - e /\ \A k \in 1..(Len(log) - e) : r[k] = log[e + k]
    <2>1. e \in 0..Len(log)
        BY <1>1
    <2> QED BY <1>1, <2>1, Rest
<1> HIDE DEF q, r
<1>6. consumed \in 0..Len(q)
    BY <1>1, <1>4
<1>7. u \in Seq(Ops) /\ Len(u) = Len(q) - consumed /\ \A k \in 1..(Len(q) - consumed) : u[k] = q[consumed + k]
    BY <1>4, <1>6, Rest
<1> HIDE DEF u
<1>8. Len(u) = Len(r)
    BY <1>1, <1>4, <1>5, <1>7
<1>9. ASSUME NEW k \in 1..Len(u) PROVE u[k] = r[k]
    <2>1. k \in 1..(Len(q) - consumed) /\ consumed + k \in 1..(Len(log) - d) /\ k \in 1..(Len(log) - e)
        BY <1>1, <1>4, <1>5, <1>7, <1>8
    <2>2. d + (consumed + k) = e + k
        BY <1>1, <2>1
    <2> QED BY <1>4, <1>5, <1>7, <2>1, <2>2
<1>10. u = r
    BY <1>5, <1>7, <1>8, <1>9, SeqEqual
<1> QED BY <1>1, <1>3, <1>6, <1>10 DEF u

LEMMA QueueIs == ASSUME Inv PROVE OpsFrom(nbuf, phead, rtail) = Unexecuted /\ Len(dexec) <= Len(log)
<1>1. PICK pos, lens, h, p, t, lt : Good(pos, lens, h, p, t, lt)
    BY DEF Inv
<1>2. OpsFrom(nbuf, phead, rtail) = Unexecuted
    BY <1>1, PersistentWalk DEF Inv
<1>3. Len(dexec) \in Nat /\ Len(bexec) \in Nat /\ Len(log) \in Nat
    BY DEF Inv, Types
<1>4. Len(dexec) <= Len(log)
    BY <1>3 DEF Inv, Executed, Begins
<1> QED BY <1>2, <1>4

\* The operation log in persistent memory implements DurableQueue, for every size of the
\* buffer: psm_commit appends a whole batch by moving the persistent head, the background
\* process's commit removes what it has executed, and no crash, write-back or reuse of a line
\* changes what recovery would read.
THEOREM Refinement == Spec => IsDurableQueue
<1>1. Init => DQ!Init
    <2> SUFFICES ASSUME Init PROVE OpsFrom(nbuf, phead, rtail) = <<>>
        BY DEF DQ!Init
    <2>1. log = <<>> /\ dexec = <<>>
        BY DEF Init
    <2>2. Unexecuted = <<>>
        BY <2>1 DEF Unexecuted
    <2> QED BY <2>2, InitInv, QueueIs
<1>2. Inv' => (OpsFrom(nbuf, phead, rtail) = Unexecuted)'
    <2>1. Inv => OpsFrom(nbuf, phead, rtail) = Unexecuted
        BY QueueIs
    <2> QED BY <2>1, PTL
<1>3. Inv /\ Inv' /\ Batch /\ [Next]_vars => [DQ!Next]_(OpsFrom(nbuf, phead, rtail))
    <2> SUFFICES ASSUME Inv, Inv', Batch, [Next]_vars
                 PROVE  [DQ!Next]_(OpsFrom(nbuf, phead, rtail))
        OBVIOUS
    <2>1. OpsFrom(nbuf, phead, rtail) = Unexecuted /\ Len(dexec) <= Len(log)
        BY QueueIs
    <2>2. OpsFrom(nbuf, phead, rtail)' = Unexecuted'
        BY <1>2
    <2>3. CASE PersistHead
        BY <2>1, <2>2, <2>3, Enqueues DEF DQ!Next, DQ!Enqueue, Inv
    <2>4. CASE BgCommit
        BY <2>1, <2>2, <2>4, Dequeues DEF DQ!Next, DQ!Dequeue, Inv
    <2>5. CASE ~PersistHead /\ ~BgCommit
        <3>1. log' = log /\ dexec' = dexec
            BY <2>5, OthersLeave
        <3>2. Unexecuted' = Unexecuted
            BY <3>1 DEF Unexecuted
        <3> QED BY <2>1, <2>2, <3>2
    <2> QED BY <2>3, <2>4, <2>5
<1>4. Init => Batch
    BY PsmLogAssumption DEF Init, Batch
<1>5. Spec => []Batch
    <2>1. Inv => Types
        BY DEF Inv
    <2> QED BY <1>4, <2>1, BatchNext, InvAlways, PTL DEF Spec
<1> QED BY <1>1, <1>3, <1>5, InvAlways, PTL DEF Spec, IsDurableQueue, DQ!Spec

\* Across psm_commit, update_head, the commit of the background process and any crash, the
\* committed operations are the ones with durable effect followed by the ones that psm_init and
\* _bg_consume would read from the persistent log.
THEOREM CommitsAccountedTheorem == Spec => []CommitsAccounted
<1>1. Inv => CommitsAccounted
    <2> SUFFICES ASSUME Inv PROVE log = dexec \o Unexecuted
        BY QueueIs DEF CommitsAccounted
    <2>1. log \in Seq(Ops) /\ dexec \in Seq(Ops) /\ bexec \in Seq(Ops)
        BY DEF Inv, Types
    <2>2. Len(log) \in Nat /\ Len(dexec) \in Nat /\ Len(bexec) \in Nat /\ Len(dexec) <= Len(log)
        BY <2>1, QueueIs
    <2>3. \A k \in 1..Len(dexec) : dexec[k] = log[k]
        <3> TAKE k \in 1..Len(dexec)
        <3>1. k \in 1..Len(bexec) /\ dexec[k] = bexec[k]
            BY <2>2 DEF Inv, Executed, Begins
        <3> QED BY <3>1 DEF Inv, Executed, Begins
    <2>4. /\ Unexecuted \in Seq(Ops) /\ Len(Unexecuted) = Len(log) - Len(dexec)
          /\ \A k \in 1..(Len(log) - Len(dexec)) : Unexecuted[k] = log[Len(dexec) + k]
        BY <2>1, <2>2, Rest DEF Unexecuted
    <2> DEFINE u == dexec \o Unexecuted
    <2>5. u \in Seq(Ops) /\ Len(u) = Len(log)
        BY <2>1, <2>2, <2>4
    <2>6. ASSUME NEW k \in 1..Len(log) PROVE u[k] = log[k]
        <3>1. CASE k <= Len(dexec)
            BY <2>1, <2>2, <2>3, <2>4, <3>1
        <3>2. CASE k > Len(dexec)
            <4>1. k - Len(dexec) \in 1..(Len(log) - Len(dexec)) /\ Len(dexec) + (k - Len(dexec)) = k
                BY <2>2, <3>2
            <4>2. u[k] = Unexecuted[k - Len(dexec)]
                BY <2>1, <2>2, <2>4, <3>2
            <4> QED BY <2>4, <4>1, <4>2
        <3>3. k <= Len(dexec) \/ k > Len(dexec)
            BY <2>2
        <3> HIDE DEF u
        <3> QED BY <3>1, <3>2, <3>3
    <2> HIDE DEF u
    <2>7. u = log
        BY <2>1, <2>5, <2>6, SeqEqual
    <2> QED BY <2>7 DEF u
<1> QED BY <1>1, InvAlways, PTL

-----------------------------------------------------------------------------
(* There is space in a log that has been consumed.                         *)

\* q is behind p by entries that take at most x bytes, each at most a; at most one of them
\* did not fit at the end of the buffer, and wasted less than a.
Near(p, q, x, a) ==
    \/ q.lap = p.lap /\ p.off <= q.off /\ q.off - p.off <= x
    \/ q.lap = p.lap + 1 /\ q.off <= x /\ LogSize - p.off + q.off < x + a

LEMMA NearStep ==
    ASSUME NEW p \in Pos, NEW q \in Pos, NEW n \in EntryLens, NEW a \in Nat, NEW x \in Nat,
           Size(n) <= a, x + a < LogSize, Near(p, q, x, a)
    PROVE  Near(p, After(q, n), x + a, a)
<1>1. Size(n) \in 1..(LogSize - 1) /\ LogSize \in Nat
    BY PsmLogAssumption, SizeOf
<1>2. /\ p.lap \in Nat /\ p.off \in 0..(LogSize - 1)
      /\ q.lap \in Nat /\ q.off \in 0..(LogSize - 1)
    BY PosType
<1>3. CASE q.off + Size(n) > LogSize
    <2>1. After(q, n) = [lap |-> q.lap + 1, off |-> Size(n)]
        BY <1>1, <1>2, <1>3 DEF After, EntryAt
    <2> QED BY <1>1, <1>2, <1>3, <2>1 DEF Near
<1>4. CASE q.off + Size(n) = LogSize
    <2>1. After(q, n) = [lap |-> q.lap + 1, off |-> 0]
        BY <1>1, <1>2, <1>4 DEF After, EntryAt
    <2> QED BY <1>1, <1>2, <1>4, <2>1 DEF Near
<1>5. CASE q.off + Size(n) < LogSize
    <2>1. After(q, n) = [lap |-> q.lap, off |-> q.off + Size(n)]
        BY <1>1, <1>2, <1>5 DEF After, EntryAt
    <2> QED BY <1>1, <1>2, <1>5, <2>1 DEF Near
<1> QED BY <1>1, <1>2, <1>3, <1>4, <1>5

\* Once local_tail is the place p where the batch begins, its next entry has space.
LEMMA NearHasSpace ==
    ASSUME NEW p \in Pos, NEW q \in Pos, NEW n \in EntryLens, NEW a \in Nat, NEW x \in Nat,
           Size(n) <= a, x + 2 * a <= LogSize, Near(p, q, x, a),
           local_tail = p.off, local_head = q.off
    PROVE  Free >= Needed(Size(n))
<1>1. Size(n) \in 1..(LogSize - 1) /\ LogSize \in Nat \ {0}
    BY PsmLogAssumption, SizeOf
<1>2. /\ p.lap \in Nat /\ p.off \in 0..(LogSize - 1)
      /\ q.lap \in Nat /\ q.off \in 0..(LogSize - 1)
    BY PosType
<1> DEFINE y == p.off + LogSize - q.off - 1
<1>3. y \in 0..(2 * LogSize - 1)
    BY <1>1, <1>2
<1>4. Free = (IF y < LogSize THEN y ELSE y - LogSize)
    <2> HIDE DEF y
    <2>1. y % LogSize = (IF y < LogSize THEN y ELSE y - LogSize)
        BY <1>1, <1>3, ModTwice
    <2> QED BY <2>1 DEF Free, y
<1>5. Needed(Size(n)) = (IF q.off + Size(n) > LogSize THEN Size(n) + (LogSize - q.off) ELSE Size(n))
    BY DEF Needed, Truncated
<1>6. CASE q.lap = p.lap
    BY <1>1, <1>2, <1>4, <1>5, <1>6 DEF Near
<1>7. CASE q.lap = p.lap + 1
    BY <1>1, <1>2, <1>4, <1>5, <1>7 DEF Near
<1> QED BY <1>6, <1>7 DEF Near

\* psm_reserve returns at the latest when the background process has consumed all that
\* was committed, if (MaxBatch + 1) largest entries fit into the log: this is what the assertion on the
\* length in psm_reserve (fg.cc:182) would have to say, and it holds wherever the batch starts.
THEOREM ReserveNeverStuckTheorem == Spec => []ReserveNeverStuck
<1>1. Inv /\ Batch => ReserveNeverStuck
    <2> SUFFICES ASSUME Inv, Batch, BatchFits, fpc = "reserve", local_tail = head PROVE Free >= want
        BY DEF ReserveNeverStuck
    <2>1. PICK pos, lens, h, p, t, lt : Good(pos, lens, h, p, t, lt)
        BY DEF Inv
    <2>2. Types /\ Layout(pos, lens) /\ Pointers(pos, h, p, t, lt) /\ Promise(pos, lens)
        BY <2>1 DEF Inv, Good
    <2>3. PICK L \in Nat : L = Len(log)
        BY <2>2, Counts
    <2>4. PICK c \in Nat : c = Len(pending)
        BY <2>2, Counts
    <2>5. Reserved = L + c /\ c + 1 <= MaxBatch /\ MaxBatch \in Nat
        BY <2>3, <2>4, PsmLogAssumption DEF Reserved, Issued, Batch
    <2>6. local_tail = pos[L].off /\ local_head = pos[L + c].off
        BY <2>2, <2>3, <2>5 DEF Pointers
    <2>7. want = Needed(Size(entry.len)) /\ entry.len \in EntryLens
        BY <2>2 DEF Promise
    <2>8. PICK a \in Nat : (MaxBatch + 1) * a <= LogSize /\ \A n \in EntryLens : Size(n) <= a
        <3> DEFINE a == LogSize \div (MaxBatch + 1)
        <3>1. MaxBatch + 1 \in Nat \ {0} /\ LogSize \in Nat
            BY <2>5, PsmLogAssumption
        <3>2. a \in Nat /\ (MaxBatch + 1) * a <= LogSize
            BY <3>1
        <3>3. ASSUME NEW n \in EntryLens PROVE Size(n) <= a
            <4>1. Size(n) \in Nat /\ (MaxBatch + 1) * Size(n) <= LogSize
                BY SizeOf DEF BatchFits, Size
            <4>2. \A m \in Nat \ {0} : \A v, w \in Nat : m * v <= w => v <= w \div m
                OBVIOUS
            <4> QED BY <3>1, <4>1, <4>2
        <3> HIDE DEF a
        <3> QED BY <3>2, <3>3
    <2>9. a >= 1 /\ LogSize \in Nat
        <3>1. Size(entry.len) >= 1 /\ Size(entry.len) <= a /\ Size(entry.len) \in Nat
            BY <2>7, <2>8, SizeOf
        <3> QED BY <3>1, PsmLogAssumption
    <2>10. ASSUME NEW i \in Nat, i + 1 <= MaxBatch PROVE i * a \in Nat /\ i * a + 2 * a <= LogSize
        <3>1. PICK d \in Nat : MaxBatch = i + 1 + d
            <4>1. MaxBatch - (i + 1) \in Nat /\ MaxBatch = i + 1 + (MaxBatch - (i + 1))
                BY <2>5, <2>10
            <4> QED BY <4>1
        <3>2. PICK u \in Nat : u = i * a
            OBVIOUS
        <3>3. PICK v \in Nat : v = d * a
            OBVIOUS
        <3>4. (MaxBatch + 1) * a = u + v + 2 * a
            BY <3>1, <3>2, <3>3
        <3> QED BY <2>8, <2>9, <3>2, <3>4
    <2> DEFINE S == {i \in Nat : i <= c => Near(pos[L], pos[L + i], i * a, a)}
    <2>11. \A k \in Nat : pos[k] \in Pos
        BY <2>2 DEF Layout
    <2>12. 0 \in S
        <3>1. L + 0 = L /\ 0 * a = 0 /\ pos[L] \in Pos
            BY <2>11
        <3>2. Near(pos[L], pos[L], 0, a)
            BY <3>1, PosType DEF Near
        <3> QED BY <3>1, <3>2
    <2>13. ASSUME NEW i \in Nat, i \in S PROVE i + 1 \in S
        <3> SUFFICES ASSUME i + 1 <= c PROVE Near(pos[L], pos[L + (i + 1)], (i + 1) * a, a)
            OBVIOUS
        <3>1. L + (i + 1) \in 1..Reserved /\ (L + (i + 1)) - 1 = L + i /\ i + 1 <= MaxBatch
            BY <2>5
        <3>2. lens[L + (i + 1)] \in EntryLens /\ pos[L + (i + 1)] = After(pos[L + i], lens[L + (i + 1)])
            BY <2>2, <3>1, PlaceOf
        <3>3. PICK x \in Nat : x = i * a
            OBVIOUS
        <3>4. x + 2 * a <= LogSize
            BY <2>10, <3>1, <3>3
        <3>5. x + a < LogSize
            BY <2>9, <3>4
        <3>6. Near(pos[L], pos[L + i], x, a)
            BY <2>13, <3>3
        <3>7. pos[L] \in Pos /\ pos[L + i] \in Pos
            BY <2>11
        <3>8. Size(lens[L + (i + 1)]) <= a
            BY <2>8, <3>2
        <3>9. Near(pos[L], pos[L + (i + 1)], x + a, a)
            BY <3>2, <3>5, <3>6, <3>7, <3>8, NearStep
        <3>10. (i + 1) * a = x + a
            BY <3>3
        <3> QED BY <3>9, <3>10
    <2> HIDE DEF S
    <2>14. Near(pos[L], pos[L + c], c * a, a)
        <3>1. Nat \subseteq S
            BY <2>12, <2>13, SetInduction
        <3> QED BY <3>1 DEF S
    <2>15. c * a \in Nat /\ c * a + 2 * a <= LogSize
        BY <2>5, <2>10
    <2>16. pos[L] \in Pos /\ pos[L + c] \in Pos
        BY <2>11
    <2>17. Size(entry.len) <= a
        BY <2>7, <2>8
    <2>18. Free >= Needed(Size(entry.len))
        <3> DEFINE x == c * a
        <3>1. x \in Nat /\ x + 2 * a <= LogSize /\ Near(pos[L], pos[L + c], x, a)
            BY <2>14, <2>15
        <3> HIDE DEF x
        <3> QED BY <2>6, <2>7, <2>16, <2>17, <3>1, NearHasSpace
    <2> QED BY <2>7, <2>18
<1>2. Init => Batch
    BY PsmLogAssumption DEF Init, Batch
<1>3. Inv => Types
    BY DEF Inv
<1> QED BY <1>1, <1>2, <1>3, BatchNext, InvAlways, PTL DEF Spec
=============================================================================
