----------------------------- MODULE MCUndoLog -----------------------------
(* Small instances of UndoLog for TLC.                                     *)
EXTENDS UndoLogInvariant

CONSTANTS a, b, f, u

MCBlocks == {a, b, f, u}
MCVal    == 0..4

\* Five operations.  The first writes a and b with one store that spans both, then a
\* again, and maps f.  The second writes b, then b and a with one store, then b.  The
\* third writes f, which is managed by now, and unmaps u; the fourth maps u
\* again.  The last writes u and unmaps it.
MCBlk == <<<<a, b, a>>, <<b, b, a, b>>, <<f, a>>, <<b>>, <<u>>>>
MCCut == <<{0, 2, 3}, {0, 1, 3, 4}, {0, 1, 2}, {0, 1}, {0, 1}>>
MCManaged == [k \in 0..5 |-> CASE k = 0 -> {a, b, u}
                               [] k \in {3, 5} -> {a, b, f}
                               [] OTHER -> {a, b, f, u}]

\* The same, but the first operation also unmaps u.
MCManagedBoth == [k \in 0..5 |-> CASE k = 0 -> {a, b, u}
                                   [] k = 4 -> {a, b, f, u}
                                   [] OTHER -> {a, b, f}]

\* Every write to block x adds the operation's number to it, so that neither executing an
\* operation twice nor leaving out a part of it goes unnoticed.
MCImage(k, m, n) ==
    [x \in MCBlocks |->
        (m[x] + k * Cardinality({i \in 1..n : Blk[k][i] = x})) % 5]
MCFreshImage(k, m, x) == (m[a] + k) % 5
MCInitMem == [x \in MCBlocks |-> IF x \notin Managed[0] THEN 0 ELSE IF x = a THEN 1 ELSE 2]
=============================================================================
