----------------------------- MODULE MCMemsetNt -----------------------------
(***************************************************************************)
(* MemsetNt for TLC: every start in a cache line, every length up to ten   *)
(* lines, and lengths around 16 and 17 lines, where the loop runs twice.   *)
(***************************************************************************)
EXTENDS MemsetNt

MCStarts == 0..63
MCLens == (0..641) \cup (1023..1025) \cup (1087..1089)
=============================================================================
