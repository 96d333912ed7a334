---------------------------- MODULE LoggedAddrs ----------------------------
(***************************************************************************)
(* Deduplication of undo log entries: the build option                     *)
(* OPTIMIZE_DEDUPLICATE, with or without OPTIMIZE_SKIP_RECORD.  A hash     *)
(* table in volatile memory remembers the blocks that have an entry since  *)
(* the last commit, so that a block is saved once; it is open-addressed,   *)
(* has a bounded number of probes and gives up when it is full.  With      *)
(* SKIP_RECORD, code inserted before each store looks at one slot and      *)
(* skips record_write altogether if the block is there.                    *)
(*                                                                         *)
(* Saving a block twice is harmless (module UndoLog allows it); a store to *)
(* a block that was not saved is not.  Stores into fresh regions, which    *)
(* nobody records, are left out; so is the table that undo_log_init fills  *)
(* from a recovered log, because undo_log_recover clears it before any     *)
(* store.                                                                  *)
(*                                                                         *)
(* A definition X_Slip is X with a plausible slip, kept to show that the   *)
(* properties notice it.                                                   *)
(***************************************************************************)
EXTENDS Integers, Sequences, FiniteSets

CONSTANTS
    BlkSize,        \* UNDO_BLK_SIZE_B
    HashSize,       \* LOGGED_ADDR_HASH_SIZE
    PerturbShift,   \* 5 in the code
    MaxShifts,      \* shifts that bring perturb to zero: 13 in the code, for 64 bits
    Writes,         \* the writes of the application: address and size
    SkipRecord,     \* OPTIMIZE_SKIP_RECORD
    xor(_, _),      \* the instruction
    MaxEntries      \* bound of the model: entries for one block between two commits

Block(a) == a \div BlkSize
BlocksOf(w) == Block(w.addr)..Block(w.addr + w.size - 1)
Blocks == UNION {BlocksOf(w) : w \in Writes}

\* The static_assert on LOGGED_ADDR_HASH_SIZE: no odd number but 1 divides it.
PowerOfTwo(n) == \A d \in 2..n : n % d = 0 => d % 2 = 0

\* The numbers that n shifts bring to zero are the ones below PerturbLimit[n].
PerturbLimit[n \in 0..MaxShifts] ==
    IF n = 0 THEN 1 ELSE 2 ^ PerturbShift * PerturbLimit[n - 1]

ASSUME LoggedAddrsAssumption ==
    /\ {BlkSize, HashSize, PerturbShift} \subseteq Nat \ {0} /\ MaxShifts \in Nat
    /\ \A w \in Writes : w.addr \in Nat /\ w.size \in Nat \ {0}
    /\ PowerOfTwo(HashSize)
    /\ \A b \in Blocks : 0 < b /\ b < PerturbLimit[MaxShifts]
    /\ SkipRecord \in BOOLEAN /\ MaxEntries \in Nat
    /\ 2 ^ PerturbShift \in Nat \ {0}

\* The addresses that undo_insert_fast_path compares.  BlkSize is a power of two, so that
\* two of them differ in their low bits only if they are in the same block.
Compared ==
    {w.addr : w \in Writes} \cup {w.addr + w.size - 1 : w \in Writes}
    \cup {b * BlkSize : b \in Blocks \cup {0}}

ASSUME XorAssumption ==
    \A a, b \in Compared : xor(a, b) \in Nat /\ (xor(a, b) < BlkSize <=> Block(a) = Block(b))

Slots == 0..(HashSize - 1)
Null == 0   \* no block of the application has address 0

VARIABLES
    hash,       \* logged_addrs_hash: slot |-> block
    entries,    \* entries[b]: how many entries in the undo log are for block b
    stored,     \* the blocks stored to since the last commit
    write,      \* the write that undo_log_record works on
    todo,       \* its blocks that are left
    pc

vars == <<hash, entries, stored, write, todo, pc>>

NoWrite == [addr |-> 0, size |-> 0]

Init ==
    /\ hash = [s \in Slots |-> Null] /\ entries = [b \in Blocks |-> 0] /\ stored = {}
    /\ write = NoWrite /\ todo = {} /\ pc = "app"

\* The slots undo_log_insert_logged_addr probes for block b, in order: the multiplication
\* wraps around, and only its remainder matters.
Probes_NoShifts == HashSize
Probes == HashSize + MaxShifts

Probe ==
    [b \in Blocks |->
        LET P[n \in 0..Probes] ==
                IF n = 0 THEN [i |-> b % HashSize, perturb |-> b]
                ELSE LET p == P[n - 1]
                     IN  [i |-> (5 * p.i + p.perturb + 1) % HashSize,
                          perturb |-> p.perturb \div 2 ^ PerturbShift]
        IN  [n \in 1..Probes |-> P[n - 1].i]]

\* The first probe that finds the block or an empty slot; 0 if the table is full.
FirstHit(b) ==
    LET hits == {n \in 1..Probes : hash[Probe[b][n]] \in {Null, b}}
    IN  IF hits = {} THEN 0 ELSE CHOOSE n \in hits : \A m \in hits : n <= m

\* undo_log_insert_logged_addr returns false if the block is there, true otherwise: then it
\* is, if there was space.
IsLogged(b) == FirstHit(b) # 0 /\ hash[Probe[b][FirstHit(b)]] = b

Inserted(b) == IF FirstHit(b) = 0 THEN hash ELSE [hash EXCEPT ![Probe[b][FirstHit(b)]] = b]

\* The code inserted before a store (undo_insert_fast_path): false means the slow path.
\* The first comparison sees whether the write straddles blocks, the second one whether
\* the slot holds its block.
Straddles_Never(w) == FALSE
Straddles(w) == xor(w.addr + w.size - 1, w.addr) > BlkSize - 1

FastPath(w) ==
    /\ SkipRecord /\ w.size <= BlkSize
    /\ ~Straddles(w)
    /\ xor(hash[Block(w.addr) % HashSize] * BlkSize, w.addr) < BlkSize

\* The store is executed.
Done(w) ==
    /\ stored' = stored \cup BlocksOf(w)
    /\ pc' = "app" /\ write' = NoWrite /\ todo' = {}

Skip(w) ==
    /\ pc = "app" /\ w \in Writes /\ FastPath(w)
    /\ Done(w)
    /\ UNCHANGED <<hash, entries>>

\* record_write and undo_log_record.
Record(w) ==
    /\ pc = "app" /\ w \in Writes /\ ~FastPath(w)
    /\ \A b \in BlocksOf(w) : entries[b] < MaxEntries
    /\ pc' = "record" /\ write' = w /\ todo' = BlocksOf(w)
    /\ UNCHANGED <<hash, entries, stored>>

\* One iteration of its loop, from low to high addresses.
RecordBlock ==
    /\ pc = "record" /\ todo # {}
    /\ LET b == CHOOSE x \in todo : \A y \in todo : x <= y
       IN  /\ todo' = todo \ {b}
           /\ hash' = Inserted(b)
           /\ entries' = IF IsLogged(b) THEN entries ELSE [entries EXCEPT ![b] = @ + 1]
    /\ UNCHANGED <<stored, write, pc>>

Store ==
    /\ pc = "record" /\ todo = {}
    /\ Done(write)
    /\ UNCHANGED <<hash, entries>>

\* undo_log_clear after a commit.
Commit ==
    /\ pc = "app"
    /\ hash' = [s \in Slots |-> Null]
    /\ entries' = [b \in Blocks |-> 0] /\ stored' = {}
    /\ UNCHANGED <<write, todo, pc>>

Next == \/ \E w \in Writes : Skip(w) \/ Record(w)
        \/ RecordBlock \/ Store \/ Commit

Spec == Init /\ [][Next]_vars

-----------------------------------------------------------------------------
(* Properties.                                                             *)

\* No store reaches a block without an undo entry of the operation, whichever path it took
\* and however full the table is.
StoredIsSaved == \A b \in stored : entries[b] > 0

\* "Inserts the address if there's space" (undo_log.h:88): as long as the table has an empty
\* slot the probes find it, so that no block is saved twice ("It takes < 13 shifts to get
\* perturb to zero", undo_log.h:104).
SavedOnceWhileSpace ==
    (\E s \in Slots : hash[s] = Null) =>
        \A b \in Blocks : entries[b] <= 1
=============================================================================
