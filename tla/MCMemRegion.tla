---------------------------- MODULE MCMemRegion ----------------------------
(***************************************************************************)
(* MemRegion for TLC: three pages.  If all are one region, a munmap can    *)
(* leave a piece on either side and an mmap can take the pages it freed;   *)
(* if one page is free, an operation can map it and unmap it again.        *)
(***************************************************************************)
EXTENDS MemRegion

MCInitLayouts == {<<Extent(0, 3)>>, <<Extent(0, 2)>>}

\* Two calls in the first operation, one in the second.
MCMaxCalls == <<2, 1>>

\* Nothing is claimed once an operation with a failing call is committed; and after a crash
\* no call fails again.
MCBound == Harmless /\ (crashes = 0 \/ failed = 0)
=============================================================================
