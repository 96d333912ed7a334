--------------------------- MODULE MCLoggedAddrs ---------------------------
(***************************************************************************)
(* LoggedAddrs for TLC: a table of four slots and six blocks that collide  *)
(* at their first probe, some at their second one too; writes within a     *)
(* block, of two blocks at once, and across a boundary of blocks.          *)
(***************************************************************************)
EXTENDS LoggedAddrs, Bitwise

MCxor(a, b) == a ^^ b

MCWrites ==
    {[addr |-> 32 * b, size |-> 32] : b \in {7, 39, 519}}
    \cup {[addr |-> 32 * b + 16, size |-> 32] : b \in {7, 519}}
    \cup {[addr |-> 32 * 1023 + 8, size |-> 8], [addr |-> 32 * 7, size |-> 64]}
=============================================================================
