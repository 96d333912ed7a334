------------------------------- MODULE Ranges -------------------------------
(***************************************************************************)
(* ranges<T>: a set of addresses kept as a sorted vector of disjoint       *)
(* ranges.  The undo log keeps the regions mapped since the last commit in *)
(* one (fresh_regions): stores into them are not logged, and undo_log      *)
(* commit flushes all of them.  mem_region_manager keeps the managed       *)
(* addresses in another (rs).                                              *)
(*                                                                         *)
(* The state machine applies the operations in any order, as the mmap and  *)
(* munmap calls and the commits of the application do.  `points' is the    *)
(* set of addresses the calls denote.                                      *)
(*                                                                         *)
(* A definition X_Slip is X with a plausible slip, kept to show that the   *)
(* properties notice it.                                                   *)
(***************************************************************************)
EXTENDS Integers, Sequences, FiniteSets, SequencesExt

CONSTANTS MaxAddr,   \* addresses are 0..MaxAddr
          MaxSize    \* bound of the model: size of one mapped or unmapped range

ASSUME RangesAssumption == MaxAddr \in Nat /\ MaxSize \in Nat

VARIABLES v, points

vars == <<v, points>>

NewRange(start, size) == [start |-> start, size |-> size]

\* The arguments that occur: ranges inside the address space.
Arguments == {r \in [start : 0..MaxAddr, size : 0..MaxSize] : r.start + r.size <= MaxAddr + 1}

Points(r) == r.start..(r.start + r.size - 1)

Covered == UNION {Points(v[i]) : i \in DOMAIN v}

End(r) == r.start + r.size

\* operator<
Less(r, s) == r.start < s.start \/ (r.start = s.start /\ r.size < s.size)

\* includes(T point)
IncludesPoint_Closed(r, p) == r.start <= p /\ p - r.start <= r.size
IncludesPoint(r, p) == r.start <= p /\ p - r.start < r.size

\* includes(const range &other)
Includes_Proper(r, s) == s.size = 0 \/ (r.start <= s.start /\ s.start - r.start + s.size < r.size)
Includes(r, s) == s.size = 0 \/ (r.start <= s.start /\ s.start - r.start + s.size <= r.size)

Intersects(r, s) == IncludesPoint(r, s.start) \/ IncludesPoint(s, r.start)

-----------------------------------------------------------------------------
(* insert, remove, clear and find.                                         *)

\* The vector with r before the first greater range.
InsertSorted(s, r) ==
    LET i == SelectInSeq(s, LAMBDA c : Less(r, c))
    IN  IF i = 0 THEN Append(s, r) ELSE InsertAt(s, i, r)

\* One iteration of the coalescing loop: curr joins the last range kept, or follows it.
Merge_AdjacentApart(kept, curr) ==
    IF kept # <<>> /\ curr.start - Last(kept).start < Last(kept).size
    THEN [kept EXCEPT ![Len(kept)].size = Max({@, End(curr) - Last(kept).start})]
    ELSE Append(kept, curr)
Merge_NoMax(kept, curr) ==
    IF kept # <<>> /\ curr.start - Last(kept).start <= Last(kept).size
    THEN [kept EXCEPT ![Len(kept)].size = End(curr) - Last(kept).start]
    ELSE Append(kept, curr)
Merge(kept, curr) ==
    IF kept # <<>> /\ curr.start - Last(kept).start <= Last(kept).size
    THEN [kept EXCEPT ![Len(kept)].size = Max({@, End(curr) - Last(kept).start})]
    ELSE Append(kept, curr)

insert(s, r) == FoldLeft(Merge, <<>>, InsertSorted(s, r))

\* What remove keeps of one range: the piece before the removed range if that starts in
\* it, and the piece behind if that ends in it.  A range that holds neither end is dropped.
LeftPiece(c, r) ==
    IF IncludesPoint(c, r.start) /\ r.start > c.start
    THEN <<NewRange(c.start, r.start - c.start)>> ELSE <<>>
RightPiece_ByteEarly(c, r) ==
    IF IncludesPoint(c, End(r) - 1) THEN <<NewRange(End(r) - 1, End(c) - End(r) + 1)>> ELSE <<>>
RightPiece(c, r) ==
    IF IncludesPoint(c, End(r) - 1) /\ End(c) > End(r)
    THEN <<NewRange(End(r), End(c) - End(r))>> ELSE <<>>

remove(s, r) ==
    IF r.size = 0 THEN s
    ELSE FoldLeft(LAMBDA kept, c : kept \o LeftPiece(c, r) \o RightPiece(c, r), <<>>, s)

find(s, r) == r.size = 0 \/ \E i \in DOMAIN s : Includes(s[i], r)

Init == v = <<>> /\ points = {}

\* undo_log_record_fresh_region (an mmap of no bytes fails before it is called).
InsertRange(r) ==
    /\ r.size > 0
    /\ v' = insert(v, r) /\ points' = points \cup Points(r)

\* undo_log_remove_fresh_region
RemoveRange(r) == v' = remove(v, r) /\ points' = points \ Points(r)

\* undo_log_clear
ClearRanges == v' = <<>> /\ points' = {}

Next == \/ \E r \in Arguments : InsertRange(r)
        \/ \E r \in Arguments : RemoveRange(r)
        \/ ClearRanges

Spec == Init /\ [][Next]_vars

-----------------------------------------------------------------------------
(* Properties.                                                             *)

\* "Sorted, coalesced" (ranges.h:145): no range is empty and each ends strictly before
\* the next one starts.
SortedCoalesced ==
    /\ \A i \in DOMAIN v : v[i].size > 0 /\ Points(v[i]) \subseteq 0..MaxAddr
    /\ \A i \in 1..(Len(v) - 1) : End(v[i]) < v[i + 1].start

\* No address passes for fresh that is not: a store to memory the last commit knew is
\* never left out of the undo log.
OnlyFresh == Covered \subseteq points

\* find answers for a write as a whole, even where it spans regions mapped one by one.
FindExact == \A r \in Arguments : find(v, r) <=> Points(r) \subseteq Covered

\* The DR_ASSERTs in remove hold for whatever is removed next.
RemoveAssertsHold ==
    \A r \in Arguments : \A i \in DOMAIN v :
        r.size > 0 => \A piece \in {LeftPiece(v[i], r), RightPiece(v[i], r)} :
            piece # <<>> => Includes(v[i], piece[1]) /\ ~Intersects(piece[1], r)

\* insert adds the addresses of its argument and loses none, however it overlaps,
\* touches or encloses ranges that are already there.
InsertExact ==
    [][\A r \in Arguments : InsertRange(r) => Covered' = Covered \cup Points(r)]_vars
=============================================================================
