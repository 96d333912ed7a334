------------------------------ MODULE MemsetNt ------------------------------
(***************************************************************************)
(* memset_movnt_avx, with which undo_log_clear zeroes the undo log: one    *)
(* call, step by step, as the stores it makes.  Non-temporal stores        *)
(* (streams) are persistent by the next pmem_drain; the others stay in the *)
(* cache, and neither this function nor undo_log_clear flushes them.       *)
(*                                                                         *)
(* Addresses are offsets from a cache line boundary.  The value stored is  *)
(* the same everywhere and left out.                                       *)
(*                                                                         *)
(* A definition X_Slip is X with a plausible slip, kept to show that the   *)
(* properties notice it.                                                   *)
(***************************************************************************)
EXTENDS Integers, FiniteSets

CONSTANTS
    Starts,     \* where the memory begins in its first cache line
    Lens        \* how many bytes to set

ASSUME MemsetNtAssumption == Starts \subseteq 0..63 /\ Lens \subseteq Nat

VARIABLES
    arg,        \* the caller's dest and len
    dest, len,  \* what is left
    stores,     \* the stores made, in any order
    pc

vars == <<arg, dest, len, stores, pc>>

Stream(at, size) == [at |-> at, size |-> size, nt |-> TRUE]
Cached(at, size) == [at |-> at, size |-> size, nt |-> FALSE]
BytesOf(s) == s.at..(s.at + s.size - 1)

\* The stores of memset_small_avx for n <= 64 bytes: two of the largest size that fits,
\* which overlap; for n = 0 it would still write a byte.
SmallStores_HalfOfLine(d, n) ==
    LET size == CASE n > 16 -> 16 [] n \in 9..16 -> 8 [] n \in 5..8 -> 4 [] n \in 2..4 -> 2
                  [] OTHER -> 1
    IN  {Cached(d, size)} \cup (IF n > 2 THEN {Cached(d + n - size, size)} ELSE {})
SmallStores(d, n) ==
    LET size == CASE n > 32 -> 32 [] n \in 17..32 -> 16 [] n \in 9..16 -> 8 [] n \in 5..8 -> 4
                  [] n \in 2..4 -> 2 [] OTHER -> 1
    IN  {Cached(d, size)} \cup (IF n > 2 THEN {Cached(d + n - size, size)} ELSE {})

\* memset_movnt8x64b to memset_movnt1x64b: the streams that fill that many lines.
LineStreams(d, lines) == {Stream(d + 32 * i, 32) : i \in 0..(2 * lines - 1)}

\* The undo log is aligned to cache lines; the function also serves a caller whose memory
\* is not, as long as there is some.
Init ==
    /\ arg \in {a \in [dest : Starts, len : Lens] : a.len = 0 => a.dest = 0}
    /\ dest = arg.dest /\ len = arg.len
    /\ stores = {} /\ pc = "head"

\* n bytes are done, by the stores in new.
Advance(n, new) ==
    /\ stores' = stores \cup new
    /\ dest' = dest + n /\ len' = len - n
    /\ UNCHANGED arg

\* Up to the first cache line boundary.
Gap_Unaligned == 0
Gap == LET cnt == dest % 64
       IN  IF cnt = 0 THEN 0 ELSE IF 64 - cnt > len THEN len ELSE 64 - cnt

Lead ==
    /\ pc = "head"
    /\ Advance(Gap, IF dest % 64 = 0 THEN {} ELSE SmallStores(dest, Gap))
    /\ pc' = "lines8"

\* while (len >= 8 * 64)
Lines8 ==
    /\ pc = "lines8"
    /\ IF len >= 8 * 64 THEN Advance(8 * 64, LineStreams(dest, 8)) /\ UNCHANGED pc
                        ELSE pc' = "lines4" /\ UNCHANGED <<arg, dest, len, stores>>

\* if (len >= lines * 64)
Lines_Strict(lines, from, to) ==
    /\ pc = from /\ pc' = to
    /\ IF len > lines * 64 THEN Advance(lines * 64, LineStreams(dest, lines))
                           ELSE UNCHANGED <<arg, dest, len, stores>>
Lines(lines, from, to) ==
    /\ pc = from /\ pc' = to
    /\ IF len >= lines * 64 THEN Advance(lines * 64, LineStreams(dest, lines))
                            ELSE UNCHANGED <<arg, dest, len, stores>>

\* The rest of the last line: one stream if its size is that of a stream, or memset_small_avx.
Rest(d, n) == IF n = 0 THEN {} ELSE IF n \in {4, 8, 16, 32} THEN {Stream(d, n)} ELSE SmallStores(d, n)

Trail ==
    /\ pc = "rest"
    /\ Advance(len, Rest(dest, len))
    /\ pc' = "end"

Next == \/ Lead \/ Lines8
        \/ Lines(4, "lines4", "lines2") \/ Lines(2, "lines2", "lines1") \/ Lines(1, "lines1", "rest")
        \/ Trail

Spec == Init /\ [][Next]_vars

-----------------------------------------------------------------------------
(* Properties.                                                             *)

\* memset: when the call returns, all bytes asked for have been set; and at no time has a
\* byte outside of them been (behind the log's used slots lies whatever an earlier crash left).
SetsExactly ==
    LET asked == arg.dest..(arg.dest + arg.len - 1)
        set == UNION {BytesOf(s) : s \in stores}
    IN  set \subseteq asked /\ (pc = "end" => set = asked)

\* No stream faults: streams of 16 and 32 bytes must be aligned to their size.
StreamsAligned == \A s \in stores : s.nt /\ s.size >= 16 => s.at % s.size = 0

\* What undo_log_clear relies on when it drains without a flush (undo_log.h:126-132): for
\* whole, aligned cache lines, as undo_log_entry's are, no byte stays in the cache.
ClearPersists ==
    arg.dest = 0 /\ arg.len % 64 = 0 => \A s \in stores : s.nt
=============================================================================
