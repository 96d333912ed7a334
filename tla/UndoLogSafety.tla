--------------------------- MODULE UndoLogSafety ---------------------------
(***************************************************************************)
(* Types and crash consistency of the undo log, proved for every choice of *)
(* operations, memory and number of crashes: TypeOK without a condition,   *)
(* and under SafeConditions that Inv is inductive.  What follows from Inv  *)
(* is in UndoLogRefinement.                                                *)
(***************************************************************************)
EXTENDS UndoLogInvariant, TLAPS, WellFoundedInduction

USE ConstantsAssumption DEF Ops, Slots, Memory

-----------------------------------------------------------------------------
(* Arithmetic and the scan of the undo log.                                *)

\* A non-empty set of naturals has a least element.
LEMMA LeastElement ==
    ASSUME NEW T \in SUBSET Nat, T # {}
    PROVE  \E x \in T : \A y \in T : x <= y
<1>1. PICK x \in T : \A y \in T : ~(<<y, x>> \in OpToRel(<, Nat))
    BY NatLessThanWellFounded, WFMin, Zenon
<1>2. ASSUME NEW y \in T PROVE x <= y
    <2>1. <<y, x>> \in Nat \X Nat
        OBVIOUS
    <2>2. ~(y < x)
        BY <1>1, <2>1 DEF OpToRel
    <2>. QED
        BY <2>2
<1>. QED
    BY <1>2

\* undo_log_init's scan stops: at the first null entry or at the end of the log.
LEMMA ScanStops ==
    ASSUME NEW log
    PROVE  /\ ScanLen(log) \in 0..NumEntries
           /\ \A i \in 0..(ScanLen(log) - 1) : ~is_null(log[i])
           /\ ScanLen(log) = NumEntries \/ is_null(log[ScanLen(log)])
<1>. DEFINE T == {n \in 0..NumEntries : n = NumEntries \/ is_null(log[n])}
            Stop(n) == /\ \A i \in 0..(n - 1) : ~is_null(log[i])
                       /\ n = NumEntries \/ is_null(log[n])
<1>1. PICK x \in T : \A y \in T : x <= y
    <2>1. T \in SUBSET Nat /\ NumEntries \in T
        OBVIOUS
    <2>. QED
        BY <2>1, LeastElement, Zenon
<1>2. x \in 0..NumEntries /\ Stop(x)
    BY <1>1
<1>3. ScanLen(log) = CHOOSE n \in 0..NumEntries : Stop(n)
    BY DEF ScanLen
<1>. HIDE DEF Stop
<1>4. ScanLen(log) \in 0..NumEntries /\ Stop(ScanLen(log))
    BY <1>2, <1>3, Zenon
<1>. QED
    BY <1>4 DEF Stop

\* The scan's result is determined by what it sees.
LEMMA ScanIs ==
    ASSUME NEW log, NEW n \in 0..NumEntries,
           \A i \in 0..(n - 1) : ~is_null(log[i]),
           n = NumEntries \/ is_null(log[n])
    PROVE  ScanLen(log) = n
<1>. DEFINE s == ScanLen(log)
<1>1. /\ s \in 0..NumEntries
      /\ \A i \in 0..(s - 1) : ~is_null(log[i])
      /\ s = NumEntries \/ is_null(log[s])
    BY ScanStops
<1>. HIDE DEF s
<1>2. ~(s < n)
    BY <1>1
<1>3. ~(n < s)
    BY <1>1
<1>. QED
    BY <1>1, <1>2, <1>3 DEF s

-----------------------------------------------------------------------------
(* Types.                                                                  *)

\* TypeOK with what it takes to be inductive: the undo log has room for what comes next.
TypeInv ==
    /\ TypeOK
    /\ pc = "exec" => tail < NumOps /\ len <= Len(Blk[tail + 1])
    /\ pc \in CommittingPCs => len + 2 <= NumEntries
    /\ pc \in {"consume", "resume"} => len = 0
    /\ pc # "rollback" => idx = 0

\* What the assumption on the operations says of one of them.
LEMMA OpFacts ==
    ASSUME NEW k \in Ops
    PROVE  /\ Blk[k] \in Seq(Blocks) /\ Len(Blk[k]) \in Nat
           /\ Len(Blk[k]) + 2 <= NumEntries
           /\ 0 \in Cut[k] /\ Len(Blk[k]) \in Cut[k]
           /\ Cut[k] \subseteq 0..Len(Blk[k])
           /\ \A i \in 1..Len(Blk[k]) : Blk[k][i] \in Managed[k - 1] /\ Blk[k][i] \in Blocks
    BY OperationsAssumption

LEMMA NullEntryType == NullEntry \in Entry
    BY DEF NullEntry, Entry

LEMMA TypeInit == Init => TypeInv
<1>. SUFFICES ASSUME Init PROVE TypeInv
    OBVIOUS
<1>1. nlog \in [Slots -> Entry] /\ ulog \in [Slots -> Entry]
    BY NullEntryType DEF Init
<1>2. Managed[0] \subseteq Blocks
    OBVIOUS
<1>3. /\ table \subseteq Blocks /\ regions \subseteq Blocks /\ fresh \subseteq Blocks
      /\ new_table \in (SUBSET Blocks) \cup {NoTable} /\ modified \in BOOLEAN
    BY <1>2 DEF Init
<1>4. /\ nvm \in Memory /\ mem \in Memory /\ base \in Memory
      /\ len \in 0..NumEntries /\ idx \in 0..len /\ written \in 0..NumEntries
      /\ ptail \in 0..NumOps /\ tail \in 0..NumOps /\ crashes \in 0..MaxCrashes
    BY DEF Init
<1>. QED
    BY <1>1, <1>3, <1>4 DEF Init, TypeInv, TypeOK, PCs, CommittingPCs

LEMMA TypeConsume == TypeInv /\ Consume => TypeInv'
<1>. SUFFICES ASSUME TypeInv, Consume PROVE TypeInv'
    OBVIOUS
<1>1. tail + 1 \in Ops /\ len = 0
    BY DEF TypeInv, TypeOK, Consume
<1>2. len <= Len(Blk[tail + 1])
    BY <1>1, OpFacts
<1>. QED
    BY <1>1, <1>2 DEF TypeInv, TypeOK, Consume, pvars, rvars, PCs, CommittingPCs

LEMMA TypeRecordBlock == TypeInv /\ RecordBlock => TypeInv'
<1>. SUFFICES ASSUME TypeInv, RecordBlock PROVE TypeInv'
    OBVIOUS
<1>. DEFINE p == Blk[op][len + 1]
            e == [addr |-> p, blk |-> mem[p], commit_tail |-> 0]
<1>1. op \in Ops /\ len \in 0..(Len(Blk[op]) - 1) /\ len + 2 <= NumEntries
    BY OperationsAssumption DEF TypeInv, TypeOK, RecordBlock, op
<1>2. p \in Blocks
    BY <1>1, OperationsAssumption
<1>3. e \in Entry
    BY <1>2 DEF Entry, TypeInv, TypeOK
<1>4. ulog' = [ulog EXCEPT ![len] = e]
    BY DEF RecordBlock
<1>5. ulog' \in [Slots -> Entry]
    BY <1>3, <1>4 DEF TypeInv, TypeOK
<1>6. len' \in 0..NumEntries /\ len' <= Len(Blk[op]) /\ idx' = idx /\ idx = 0
    <2>1. len \in 0..NumEntries /\ len' = len + 1 /\ idx' = idx /\ idx = 0
        BY DEF TypeInv, TypeOK, RecordBlock
    <2>2. Len(Blk[op]) \in Nat
        BY <1>1, OpFacts
    <2>. QED
        BY <1>1, <2>1, <2>2
<1>7. TypeOK'
    BY <1>5, <1>6 DEF TypeInv, TypeOK, RecordBlock, pvars, rvars
<1>. QED
    BY <1>1, <1>6, <1>7 DEF TypeInv, TypeOK, RecordBlock, CommittingPCs, op

LEMMA TypeStore == TypeInv /\ Store => TypeInv'
<1>. SUFFICES ASSUME TypeInv, Store PROVE TypeInv'
    OBVIOUS
<1>1. op \in Ops /\ len \in Cut[op]
    BY DEF TypeInv, TypeOK, Store, op
<1>2. Image(op, base, len) \in Memory
    BY <1>1, ImageAssumption DEF TypeInv, TypeOK
<1>3. mem' \in Memory
    BY <1>2 DEF TypeInv, TypeOK, Store
<1>4. nlog' \in [Slots -> Entry]
    BY DEF TypeInv, TypeOK, Store, Drained
<1>. QED
    BY <1>3, <1>4 DEF TypeInv, TypeOK, Store, rvars, PCs, CommittingPCs, op

LEMMA TypeMmap == TypeInv /\ Mmap => TypeInv'
<1>. SUFFICES ASSUME TypeInv, Mmap PROVE TypeInv'
    OBVIOUS
<1>1. op \in Ops /\ Fresh(op) \subseteq Blocks
    BY DEF TypeInv, TypeOK, Mmap, op, Fresh
<1>2. mem' \in Memory /\ nvm' \in Memory
    BY DEF TypeInv, TypeOK, Mmap, Zeroed
<1>3. regions' \subseteq Blocks /\ fresh' \subseteq Blocks /\ modified' \in BOOLEAN
    BY <1>1 DEF TypeInv, TypeOK, Mmap
<1>. QED
    BY <1>2, <1>3 DEF TypeInv, TypeOK, Mmap, PCs, CommittingPCs

LEMMA TypeStoreFresh ==
    ASSUME NEW b \in Blocks, TypeInv, StoreFresh(b)
    PROVE  TypeInv'
<1>1. op \in Ops /\ FreshImage(op, base, b) \in Val
    BY ImageAssumption DEF TypeInv, TypeOK, StoreFresh, op
<1>2. mem' \in Memory
    BY <1>1 DEF TypeInv, TypeOK, StoreFresh
<1>. QED
    BY <1>2 DEF TypeInv, TypeOK, StoreFresh, pvars, rvars, PCs, CommittingPCs

LEMMA TypeMunmap == TypeInv /\ Munmap => TypeInv'
<1>. SUFFICES ASSUME TypeInv, Munmap PROVE TypeInv'
    OBVIOUS
<1>1. mem' \in Memory
    BY DEF TypeInv, TypeOK, Munmap, Zeroed
<1>2. regions' \subseteq Blocks /\ fresh' \subseteq Blocks /\ modified' \in BOOLEAN
    BY DEF TypeInv, TypeOK, Munmap
<1>. QED
    BY <1>1, <1>2 DEF TypeInv, TypeOK, Munmap, pvars, PCs, CommittingPCs

LEMMA TypeFinishOp == TypeInv /\ FinishOp => TypeInv'
<1>. SUFFICES ASSUME TypeInv, FinishOp PROVE TypeInv'
    OBVIOUS
<1>1. tail + 1 \in Ops /\ tail' = tail + 1 /\ len = Len(Blk[tail + 1])
    BY DEF TypeInv, TypeOK, FinishOp, OpDone, op
<1>2. len + 2 <= NumEntries
    BY <1>1, OpFacts
<1>. QED
    BY <1>1, <1>2 DEF TypeInv, TypeOK, FinishOp, pvars, rvars, PCs, CommittingPCs

LEMMA TypePersistTable == TypeInv /\ PersistTable => TypeInv'
<1>. SUFFICES ASSUME TypeInv, PersistTable PROVE TypeInv'
    OBVIOUS
<1>1. new_table' \in (SUBSET Blocks) \cup {NoTable}
    BY DEF TypeInv, TypeOK, PersistTable
<1>. QED
    BY <1>1 DEF TypeInv, TypeOK, PersistTable, rvars, PCs, CommittingPCs

LEMMA TypeCommitFlush == TypeInv /\ CommitFlush => TypeInv'
<1>. SUFFICES ASSUME TypeInv, CommitFlush PROVE TypeInv'
    OBVIOUS
<1>1. nvm' \in Memory
    BY DEF TypeInv, TypeOK, CommitFlush
<1>. QED
    BY <1>1 DEF TypeInv, TypeOK, CommitFlush, rvars, PCs, CommittingPCs

LEMMA TypeCommitFault == TypeInv /\ CommitFault => TypeInv'
    BY DEF TypeInv, TypeOK, CommitFault, pvars, rvars, PCs, CommittingPCs

LEMMA TypeCommitRecord == TypeInv /\ CommitRecord => TypeInv'
<1>. SUFFICES ASSUME TypeInv, CommitRecord PROVE TypeInv'
    OBVIOUS
<1>1. len \in Slots /\ len + 2 <= NumEntries /\ tail + 1 \in 0..(NumOps + 1)
    BY DEF TypeInv, TypeOK, CommitRecord, CommittingPCs
<1>2. ulog' = [ulog EXCEPT ![len] = [ulog[len] EXCEPT !.addr = NoAddr, !.commit_tail = tail + 1]]
    BY <1>1 DEF TypeInv, TypeOK, CommitRecord, Entry
<1>3. [ulog[len] EXCEPT !.addr = NoAddr, !.commit_tail = tail + 1] \in Entry
    <2>1. ulog[len] \in Entry
        BY <1>1 DEF TypeInv, TypeOK
    <2>. QED
        BY <1>1, <2>1 DEF Entry
<1>4. ulog' \in [Slots -> Entry]
    BY <1>2, <1>3 DEF TypeInv, TypeOK
<1>5. nlog' \in [Slots -> Entry]
    BY <1>1, <1>4 DEF TypeInv, TypeOK, CommitRecord
<1>6. len' \in 0..NumEntries /\ idx' = 0 /\ pc' = "update_tail"
    <2>1. len' = len + 1 /\ idx' = idx /\ pc' = "update_tail" /\ pc = "commit_record"
        BY DEF CommitRecord
    <2>2. idx = 0
        BY <2>1 DEF TypeInv
    <2>. QED
        BY <1>1, <2>1, <2>2
<1>7. TypeOK'
    BY <1>4, <1>5, <1>6 DEF TypeInv, TypeOK, CommitRecord, rvars, PCs
<1>. QED
    BY <1>6, <1>7 DEF TypeInv, CommittingPCs

LEMMA TypeUpdateTail == TypeInv /\ UpdateTail => TypeInv'
    BY DEF TypeInv, TypeOK, UpdateTail, rvars, PCs, CommittingPCs

LEMMA TypeCommitTable == TypeInv /\ CommitTable => TypeInv'
<1>. SUFFICES ASSUME TypeInv, CommitTable PROVE TypeInv'
    OBVIOUS
<1>1. table' \subseteq Blocks /\ new_table' \in (SUBSET Blocks) \cup {NoTable}
    BY DEF TypeInv, TypeOK, CommitTable, RenamedTable
<1>. QED
    BY <1>1 DEF TypeInv, TypeOK, CommitTable, rvars, PCs, CommittingPCs

LEMMA TypeClear ==
    ASSUME TypeInv, Clear
    PROVE  /\ ulog' \in [Slots -> Entry] /\ nlog' \in [Slots -> Entry]
           /\ len' = 0 /\ fresh' = {}
    BY NullEntryType DEF TypeInv, TypeOK, Clear

LEMMA TypeCleanup == TypeInv /\ Cleanup => TypeInv'
<1>. SUFFICES ASSUME TypeInv, Cleanup PROVE TypeInv'
    OBVIOUS
<1>1. /\ ulog' \in [Slots -> Entry] /\ nlog' \in [Slots -> Entry]
      /\ len' = 0 /\ fresh' = {}
    BY TypeClear DEF Cleanup
<1>2. modified' \in BOOLEAN
    BY DEF Cleanup
<1>. QED
    BY <1>1, <1>2 DEF TypeInv, TypeOK, Cleanup, PCs, CommittingPCs

LEMMA TypeRecoverCommitted == TypeInv /\ RecoverCommitted => TypeInv'
<1>. SUFFICES ASSUME TypeInv, RecoverCommitted PROVE TypeInv'
    OBVIOUS
<1>. DEFINE n == ScanLen(ulog)
<1>1. n \in 0..NumEntries /\ n > 0
    BY ScanStops DEF RecoverCommitted, Committed
<1>2. ulog[n - 1] \in Entry /\ ulog[n - 1].commit_tail > 0
    BY <1>1 DEF TypeInv, TypeOK, RecoverCommitted, Committed
<1>3. tail' \in 0..NumOps
    BY <1>2 DEF RecoverCommitted, RecoveredTail, Entry
<1>4. RenamedTable \subseteq Blocks
    BY DEF RenamedTable, TypeInv, TypeOK
<1>5. mem' \in Memory
    BY DEF TypeInv, TypeOK, RecoverCommitted, Mapped
<1>. QED
    BY <1>1, <1>3, <1>4, <1>5 DEF TypeInv, TypeOK, RecoverCommitted, PCs, CommittingPCs

LEMMA TypeRecoverUncommitted == TypeInv /\ RecoverUncommitted => TypeInv'
<1>. SUFFICES ASSUME TypeInv, RecoverUncommitted PROVE TypeInv'
    OBVIOUS
<1>1. ScanLen(ulog) \in 0..NumEntries
    BY ScanStops
<1>2. mem' \in Memory
    BY DEF TypeInv, TypeOK, RecoverUncommitted, Mapped
<1>. QED
    BY <1>1, <1>2 DEF TypeInv, TypeOK, RecoverUncommitted, PCs, CommittingPCs

LEMMA TypeRollback == TypeInv /\ Rollback => TypeInv'
<1>. SUFFICES ASSUME TypeInv, Rollback PROVE TypeInv'
    OBVIOUS
<1>1. ulog[idx - 1] \in Entry /\ ulog[idx - 1].addr \in Blocks
    BY DEF TypeInv, TypeOK, Rollback, Applicable
<1>2. mem' \in Memory
    BY <1>1 DEF TypeInv, TypeOK, Rollback, Entry
<1>. QED
    BY <1>2 DEF TypeInv, TypeOK, Rollback, pvars, rvars, PCs, CommittingPCs

LEMMA TypeRollbackDrain == TypeInv /\ RollbackDrain => TypeInv'
<1>. SUFFICES ASSUME TypeInv, RollbackDrain PROVE TypeInv'
    OBVIOUS
<1>1. nvm' \in Memory
    BY DEF TypeInv, TypeOK, RollbackDrain
<1>. QED
    BY <1>1 DEF TypeInv, TypeOK, RollbackDrain, rvars, PCs, CommittingPCs

LEMMA TypeRecoverClear == TypeInv /\ RecoverClear => TypeInv'
<1>. SUFFICES ASSUME TypeInv, RecoverClear PROVE TypeInv'
    OBVIOUS
<1>1. /\ ulog' \in [Slots -> Entry] /\ nlog' \in [Slots -> Entry]
      /\ len' = 0 /\ fresh' = {}
    BY TypeClear DEF RecoverClear
<1>. QED
    BY <1>1 DEF TypeInv, TypeOK, RecoverClear, PCs, CommittingPCs

LEMMA TypeResume == TypeInv /\ Resume => TypeInv'
    BY DEF TypeInv, TypeOK, Resume, rvars, PCs, CommittingPCs

LEMMA TypeWriteBack ==
    ASSUME NEW b \in Blocks, TypeInv, WriteBack(b)
    PROVE  TypeInv'
<1>1. nvm' \in Memory
    BY DEF TypeInv, TypeOK, WriteBack
<1>. QED
    BY <1>1 DEF TypeInv, TypeOK, WriteBack, rvars, PCs, CommittingPCs

LEMMA TypeWriteBackSlot ==
    ASSUME NEW i \in Slots, TypeInv, WriteBackSlot(i)
    PROVE  TypeInv'
<1>1. nlog' \in [Slots -> Entry]
    BY DEF TypeInv, TypeOK, WriteBackSlot
<1>. QED
    BY <1>1 DEF TypeInv, TypeOK, WriteBackSlot, rvars, PCs, CommittingPCs

LEMMA TypeCrash == TypeInv /\ Crash => TypeInv'
<1>. SUFFICES ASSUME TypeInv, Crash PROVE TypeInv'
    OBVIOUS
<1>1. PICK slots : nlog' = Torn(nlog, slots)
    BY DEF Crash
<1>2. nlog' \in [Slots -> Entry]
    BY <1>1, NullEntryType DEF Torn, TypeInv, TypeOK
<1>3. mem' \in Memory
    BY DEF Crash
<1>4. modified' \in BOOLEAN
    BY DEF Crash
<1>. QED
    BY <1>2, <1>3, <1>4 DEF TypeInv, TypeOK, Crash, PCs, CommittingPCs

\* Every step of the background process, every eviction and every crash keeps the types:
\* in particular the undo log never overflows and no recovered tail leaves the log.
LEMMA TypeNext == TypeInv /\ [Next]_vars => TypeInv'
<1>. SUFFICES ASSUME TypeInv, [Next]_vars PROVE TypeInv'
    OBVIOUS
<1>1. CASE UNCHANGED vars
    BY <1>1 DEF vars, TypeInv, TypeOK
<1>2. CASE Spin \/ Dead
    BY <1>2 DEF Spin, Dead, vars, TypeInv, TypeOK
<1>3. ASSUME NEW b \in Blocks, StoreFresh(b) PROVE TypeInv'
    BY <1>3, TypeStoreFresh
<1>4. ASSUME NEW b \in Blocks, WriteBack(b) PROVE TypeInv'
    BY <1>4, TypeWriteBack
<1>5. ASSUME NEW i \in Slots, WriteBackSlot(i) PROVE TypeInv'
    BY <1>5, TypeWriteBackSlot
<1>. QED
    BY <1>1, <1>2, <1>3, <1>4, <1>5, TypeConsume, TypeRecordBlock, TypeStore, TypeMmap,
       TypeMunmap, TypeFinishOp, TypePersistTable, TypeCommitFlush, TypeCommitFault, TypeCommitRecord,
       TypeUpdateTail, TypeCommitTable, TypeCleanup, TypeRecoverCommitted,
       TypeRecoverUncommitted, TypeRollback, TypeRollbackDrain, TypeRecoverClear,
       TypeResume, TypeCrash
    DEF Next, Step

\* Type correctness of the background process, with no condition on crashes: whatever a
\* recovery finds, the tail it resumes from is a position of the operation log and the
\* undo log's length stays within the file (undo_log.h, bg.cc).
THEOREM TypeCorrect == Spec => []TypeOK
<1>1. Init => TypeInv
    BY TypeInit
<1>2. TypeInv /\ [Next]_vars => TypeInv'
    BY TypeNext
<1>3. TypeInv => TypeOK
    BY DEF TypeInv
<1>. QED
    BY <1>1, <1>2, <1>3, PTL DEF Spec

-----------------------------------------------------------------------------
(* Undo logs and memories.                                                 *)

\* A block that no entry before the cut c names is as it was.
LEMMA Untouched ==
    ASSUME NEW k \in Ops, NEW m \in Memory, NEW c \in Cut[k], NEW b \in Blocks,
           \A i \in 1..c : Blk[k][i] # b
    PROVE  Image(k, m, c)[b] = m[b]
<1>1. 0 \in Cut[k] /\ 0 <= c /\ c \in Nat
    BY OpFacts
<1>2. \A i \in (0 + 1)..c : Blk[k][i] # b
    OBVIOUS
<1>3. Image(k, m, c)[b] = Image(k, m, 0)[b]
    BY <1>1, <1>2, ImageAssumption
<1>. QED
    BY <1>3, ImageAssumption

\* What is known of a used slot of an uncommitted operation's log.
LEMMA UsedSlot ==
    ASSUME NEW m, NEW k, NEW log, OnlyEntriesOf(m, k, log), NEW j \in Slots, ~is_null(log[j])
    PROVE  /\ k \in Ops /\ j < Len(Blk[k]) /\ j + 1 \in 1..Len(Blk[k])
           /\ log[j].commit_tail = 0 /\ log[j].addr = Blk[k][j + 1]
           /\ log[j].addr \in Managed[k - 1] /\ log[j].addr \in Blocks
           /\ \E c \in Cut[k] : c <= j /\ log[j].blk = Image(k, m, c)[log[j].addr]
<1>1. EntryOf(m, k, j, log[j])
    BY DEF OnlyEntriesOf
<1>2. k \in Ops /\ j < Len(Blk[k])
    BY <1>1 DEF EntryOf
<1>3. Len(Blk[k]) \in Nat /\ \A i \in 1..Len(Blk[k]) : Blk[k][i] \in Managed[k - 1] /\ Blk[k][i] \in Blocks
    BY <1>2, OpFacts
<1>4. j + 1 \in 1..Len(Blk[k])
    BY <1>2, <1>3
<1>. QED
    BY <1>1, <1>2, <1>3, <1>4 DEF EntryOf

\* The oldest entry of a block holds the block as it was before the operation.
LEMMA OldestEntry ==
    ASSUME NEW m \in Memory, NEW k, NEW log, OnlyEntriesOf(m, k, log),
           NEW i \in Slots, Scanned(log, i),
           \A j \in 0..(i - 1) : log[j].addr # log[i].addr
    PROVE  log[i].blk = m[log[i].addr]
<1>1. ~is_null(log[i])
    BY DEF Scanned
<1>2. /\ k \in Ops /\ log[i].addr \in Blocks
      /\ \E c \in Cut[k] : c <= i /\ log[i].blk = Image(k, m, c)[log[i].addr]
    BY <1>1, UsedSlot
<1>3. PICK c \in Cut[k] : c <= i /\ log[i].blk = Image(k, m, c)[log[i].addr]
    BY <1>2
<1>4. c \in Nat
    BY <1>2, OpFacts
<1>5. ASSUME NEW n \in 1..c PROVE Blk[k][n] # log[i].addr
    <2>1. n - 1 \in 0..(i - 1) /\ n - 1 \in Slots /\ n - 1 \in 0..i
        BY <1>3, <1>4
    <2>2. ~is_null(log[n - 1])
        BY <2>1 DEF Scanned
    <2>3. log[n - 1].addr = Blk[k][(n - 1) + 1]
        BY <2>1, <2>2, UsedSlot
    <2>4. (n - 1) + 1 = n
        OBVIOUS
    <2>. QED
        BY <2>1, <2>3, <2>4
<1>. QED
    BY <1>2, <1>3, <1>5, Untouched

\* An uncommitted operation's log has no commit record.
LEMMA NoRecord ==
    ASSUME NEW m, NEW k, NEW log, OnlyEntriesOf(m, k, log)
    PROVE  /\ ~Committed(log, ScanLen(log))
           /\ \A i \in 0..(ScanLen(log) - 1) : log[i].commit_tail = 0
<1>. DEFINE s == ScanLen(log)
<1>1. s \in 0..NumEntries /\ \A i \in 0..(s - 1) : ~is_null(log[i])
    BY ScanStops
<1>. HIDE DEF s
<1>2. ASSUME NEW i \in 0..(s - 1) PROVE log[i].commit_tail = 0
    <2>1. i \in Slots /\ ~is_null(log[i])
        BY <1>1
    <2>. QED
        BY <2>1, UsedSlot
<1>3. ASSUME s > 0 PROVE ~(log[s - 1].commit_tail > 0)
    <2>1. s - 1 \in 0..(s - 1)
        BY <1>1, <1>3
    <2>. QED
        BY <1>2, <2>1
<1>. QED
    BY <1>2, <1>3 DEF s, Committed

\* A scan finds the commit record, and in it the position after the operation.
LEMMA RecordFound ==
    ASSUME NEW k \in Ops, NEW log, CommitRecordOf(k, log)
    PROVE  /\ ScanLen(log) = Len(Blk[k]) + 1
           /\ Committed(log, ScanLen(log)) /\ RecoveredTail(log, ScanLen(log)) = k
<1>. DEFINE n == Len(Blk[k])
<1>1. n \in Nat /\ n + 2 <= NumEntries
    BY OpFacts
<1>. HIDE DEF n
<1>2. /\ \A i \in 0..(n - 1) : ~is_null(log[i])
      /\ log[n].commit_tail = k + 1
      /\ \A i \in Slots : i > n => is_null(log[i])
    BY DEF CommitRecordOf, n
<1>3. ~is_null(log[n])
    BY <1>2 DEF is_null
<1>4. n + 1 \in 0..NumEntries /\ \A i \in 0..((n + 1) - 1) : ~is_null(log[i])
    BY <1>1, <1>2, <1>3
<1>5. is_null(log[n + 1])
    <2>1. n + 1 \in Slots /\ n + 1 > n
        BY <1>1
    <2>. QED
        BY <1>2, <2>1
<1>6. ScanLen(log) = n + 1
    BY <1>4, <1>5, ScanIs
<1>7. (n + 1) - 1 = n /\ n + 1 > 0 /\ (k + 1) - 1 = k /\ k + 1 > 0
    BY <1>1
<1>. QED
    BY <1>2, <1>6, <1>7 DEF n, Committed, RecoveredTail

\* With more slots in use, a log restores what it restored before.
LEMMA RestorableMore ==
    ASSUME NEW n, NEW m, NEW k, NEW t, NEW log, NEW more,
           OnlyEntriesOf(m, k, log), OnlyEntriesOf(m, k, more), Covers(more, log),
           Restorable(n, log, t, m)
    PROVE  Restorable(n, more, t, m)
<1>1. SUFFICES ASSUME NEW b \in t, NEW i \in Slots, Scanned(log, i), log[i].addr = b
              PROVE  Scanned(more, i) /\ more[i].addr = b
    BY DEF Restorable
<1>2. ASSUME NEW j \in 0..i PROVE ~is_null(more[j])
    BY <1>1 DEF Covers, Scanned
<1>3. ~is_null(more[i]) /\ ~is_null(log[i])
    BY <1>1, <1>2 DEF Scanned
<1>4. more[i].addr = Blk[k][i + 1] /\ log[i].addr = Blk[k][i + 1]
    BY <1>3, UsedSlot
<1>. QED
    BY <1>1, <1>2, <1>4 DEF Scanned

\* A block that reached persistent memory after c entries of the operation became
\* persistent can be restored.
LEMMA RestorableStored ==
    ASSUME NEW m \in Memory, NEW k \in Ops, NEW log, OnlyEntriesOf(m, k, log),
           NEW c \in Cut[k], Filled(log, c), NEW b \in Blocks, Image(k, m, c)[b] # m[b]
    PROVE  \E i \in Slots : Scanned(log, i) /\ log[i].addr = b
<1>1. c \in Nat /\ c + 2 <= NumEntries
    BY OpFacts
<1>2. PICK n \in 1..c : Blk[k][n] = b
    BY Untouched
<1>3. n - 1 \in Slots /\ n - 1 \in 0..(c - 1) /\ (n - 1) + 1 = n
    BY <1>1
<1>4. Scanned(log, n - 1)
    BY <1>1, <1>3 DEF Scanned, Filled
<1>5. ~is_null(log[n - 1])
    BY <1>3 DEF Filled
<1>6. log[n - 1].addr = Blk[k][(n - 1) + 1]
    BY <1>3, <1>5, UsedSlot
<1>. QED
    BY <1>2, <1>3, <1>4, <1>6

-----------------------------------------------------------------------------
(* The steps that execute an operation.                                    *)

LEMMA InitInv == Init => Inv
<1>. SUFFICES ASSUME Init PROVE Inv
    OBVIOUS
<1>1. \A i \in Slots : nlog[i] = NullEntry /\ ulog[i] = NullEntry
    BY DEF Init
<1>2. \A i \in Slots : is_null(nlog[i]) /\ is_null(ulog[i])
    BY <1>1 DEF is_null, NullEntry
<1>3. Cur = 1 /\ pc = "consume"
    BY DEF Init, Cur, CommittingPCs
<1>4. Uncommitted
    BY <1>2, <1>3 DEF Init, Uncommitted, OnlyEntriesOf, Covers, ZeroOutside, Restorable
<1>5. Quiet
    BY <1>4 DEF Init, Quiet, Agree
<1>. QED
    BY <1>3, <1>5 DEF Inv, CommittingPCs, CommittedPCs, RollbackPCs

\* Uncommitted speaks of the log, the persistent memory and base only.
LEMMA UncommittedKept ==
    ASSUME Uncommitted, UNCHANGED <<nlog, ulog, table, base, nvm>>, Cur' = Cur
    PROVE  Uncommitted'
    BY DEF Uncommitted

LEMMA InvConsume ==
    ASSUME TypeInv, Inv, Consume
    PROVE  Inv'
<1>1. pc = "consume" /\ pc' = "exec" /\ tail < NumOps
    BY DEF Consume
<1>2. Quiet
    BY <1>1 DEF Inv, QuietPCs
<1>3. base' = base /\ op' = op /\ Cur' = Cur /\ Cur = op
    BY <1>1, <1>2 DEF Quiet, Consume, Cur, op, CommittingPCs
<1>4. Uncommitted'
    BY <1>2, <1>3, UncommittedKept DEF Quiet, Consume, pvars
<1>5. op \in Ops /\ base \in Memory /\ op - 1 = tail
    BY <1>1 DEF TypeInv, TypeOK, op
<1>6. LogFilled(op)'
    <2>1. 0 \in Cut[op] /\ Len(Blk[op]) \in Nat
        BY <1>5, OpFacts
    <2>. QED
        BY <1>2, <1>3, <2>1 DEF Quiet, Consume, LogFilled, Filled
<1>7. regions = Managed[op - 1] /\ table = Managed[op - 1]
    BY <1>2, <1>3, <1>5 DEF Quiet, Uncommitted
<1>8. Image(op, base, 0) = base
    BY <1>5, ImageAssumption
<1>9. Executing'
    <2>1. Agree(mem, Image(op, base, 0), Managed[op - 1] \cap regions)
        BY <1>2, <1>8 DEF Quiet, Agree
    <2>2. ZeroOutside(mem, regions)
        BY <1>2 DEF Quiet, Uncommitted
    <2>3. Unmap(op) \subseteq regions /\ Fresh(op) \cap regions = {} /\ Managed[op - 1] \cap Managed[op] \subseteq regions
        BY <1>7 DEF Unmap, Fresh
    <2>. QED
        BY <1>1, <1>2, <1>3, <1>4, <1>6, <1>7, <2>1, <2>2, <2>3
        DEF Executing, Consume, Quiet, pvars, rvars
<1>. QED
    BY <1>1, <1>9 DEF Inv, QuietPCs, CommittingPCs, CommittedPCs, RollbackPCs

\* While there is work left, nothing has been unmapped.
LEMMA NothingUnmapped ==
    ASSUME TypeInv, Executing, ~OpDone
    PROVE  Managed[op - 1] \subseteq regions
    BY DEF Executing, Unmap

\* In consume_func the current operation is op.
LEMMA ExecFacts ==
    ASSUME TypeInv, Inv, pc = "exec"
    PROVE  /\ Executing /\ Uncommitted /\ Cur = op /\ op \in Ops /\ op - 1 = tail
           /\ table = Managed[op - 1] /\ base \in Memory
<1>1. Executing /\ Uncommitted
    BY DEF Inv, Executing
<1>2. Cur = op /\ op \in Ops /\ op - 1 = tail /\ base \in Memory
    BY <1>1 DEF Executing, Cur, op, CommittingPCs, TypeInv, TypeOK
<1>. QED
    BY <1>1, <1>2 DEF Uncommitted

LEMMA InvRecordBlock ==
    ASSUME TypeInv, Inv, RecordBlock
    PROVE  Inv'
<1>1. pc = "exec" /\ pc' = "exec" /\ len < Len(Blk[op]) /\ len' = len + 1
    BY DEF RecordBlock
<1>2. /\ Executing /\ Uncommitted /\ Cur = op /\ op \in Ops /\ op - 1 = tail
      /\ table = Managed[op - 1] /\ base \in Memory
    BY <1>1, ExecFacts
<1>. DEFINE p == Blk[op][len + 1]
            e == [addr |-> p, blk |-> mem[p], commit_tail |-> 0]
<1>3. ulog' = [ulog EXCEPT ![len] = e]
    BY DEF RecordBlock
<1>4. /\ len \in Slots /\ len + 1 \in 1..Len(Blk[op]) /\ Len(Blk[op]) \in Nat
      /\ ulog \in [Slots -> Entry]
    <2>1. len \in Nat /\ ulog \in [Slots -> Entry]
        BY DEF TypeInv, TypeOK
    <2>2. Len(Blk[op]) \in Nat /\ Len(Blk[op]) + 2 <= NumEntries
        BY <1>2, OpFacts
    <2>. QED
        BY <1>1, <2>1, <2>2
<1>5. p \in Managed[op - 1] /\ p \in Blocks
    BY <1>2, <1>4, OpFacts
<1>6. p \in regions
    BY <1>1, <1>2, <1>5, NothingUnmapped DEF OpDone
<1>7. mem[p] = Image(op, base, written)[p] /\ written \in Cut[op] /\ written <= len
    BY <1>2, <1>5, <1>6 DEF Executing, Agree, LogFilled
<1>. HIDE DEF p
<1>8. EntryOf(base, op, len, e) /\ ~is_null(e)
    BY <1>1, <1>2, <1>5, <1>7 DEF EntryOf, is_null, p
<1>. HIDE DEF e
<1>9. /\ ulog'[len] = e
      /\ \A j \in Slots : j # len => ulog'[j] = ulog[j]
    BY <1>3, <1>4
<1>10. op' = op /\ Cur' = op /\ base' = base /\ nlog' = nlog
    BY <1>1, <1>2 DEF RecordBlock, op, Cur, CommittingPCs, pvars
<1>11. OnlyEntriesOf(base, op, ulog')
    BY <1>2, <1>8, <1>9 DEF OnlyEntriesOf, Uncommitted
<1>12. Covers(ulog', nlog)
    BY <1>2, <1>8, <1>9 DEF Covers, Uncommitted
<1>13. Uncommitted'
    BY <1>2, <1>10, <1>11, <1>12 DEF Uncommitted, RecordBlock, pvars
<1>14. Filled(ulog', len + 1)
    <2>1. ASSUME NEW i \in 0..((len + 1) - 1) PROVE ~is_null(ulog'[i])
        <3>1. CASE i = len
            BY <1>8, <1>9, <3>1
        <3>2. CASE i # len
            <4>1. i \in 0..(len - 1) /\ i \in Slots
                BY <1>4, <3>2
            <4>2. ~is_null(ulog[i])
                BY <1>2, <4>1 DEF Executing, LogFilled, Filled
            <4>. QED
                BY <1>9, <3>2, <4>1, <4>2
        <3>. QED
            BY <3>1, <3>2
    <2>. QED
        BY <2>1 DEF Filled
<1>15. LogFilled(op)'
    <2>1. written \in Nat /\ len \in Nat /\ written <= len + 1 /\ len + 1 <= Len(Blk[op])
        BY <1>1, <1>4, <1>7 DEF TypeInv, TypeOK
    <2>2. Filled(nlog, written)
        BY <1>2 DEF Executing, LogFilled
    <2>3. written' = written
        BY DEF RecordBlock
    <2>. QED
        BY <1>1, <1>7, <1>10, <1>14, <2>1, <2>2, <2>3 DEF LogFilled
<1>16. Unmap(op) \subseteq regions
    BY <1>1, <1>2, NothingUnmapped DEF OpDone, Unmap
<1>17. Executing'
    BY <1>2, <1>10, <1>13, <1>15, <1>16 DEF Executing, RecordBlock, pvars, rvars
<1>. QED
    BY <1>1, <1>17 DEF Inv, QuietPCs, CommittingPCs, CommittedPCs, RollbackPCs

LEMMA InvStore ==
    ASSUME TypeInv, Inv, Store
    PROVE  Inv'
<1>1. /\ pc = "exec" /\ pc' = "exec" /\ len \in Cut[op] /\ len > written
      /\ written' = len /\ nlog' = Drained
    BY DEF Store
<1>2. /\ Executing /\ Uncommitted /\ Cur = op /\ op \in Ops /\ op - 1 = tail
      /\ table = Managed[op - 1] /\ base \in Memory
    BY <1>1, ExecFacts
<1>3. op' = op /\ Cur' = op /\ base' = base /\ ulog' = ulog /\ table' = table /\ len' = len
    BY <1>1, <1>2 DEF Store, op, Cur, CommittingPCs
<1>4. \A i \in Slots : nlog'[i] = IF i < len THEN ulog[i] ELSE nlog[i]
    BY <1>1 DEF Drained
<1>5. Filled(ulog, len) /\ len \in 0..NumEntries /\ written \in Nat
    BY <1>2 DEF Executing, LogFilled, TypeInv, TypeOK
<1>6. OnlyEntriesOf(base, op, nlog')
    BY <1>2, <1>4 DEF OnlyEntriesOf, Uncommitted
<1>7. Covers(ulog, nlog') /\ Covers(nlog', nlog)
    BY <1>2, <1>4, <1>5 DEF Covers, Uncommitted, Filled
<1>8. Restorable(nvm, nlog', table, base)
    BY <1>2, <1>6, <1>7, RestorableMore DEF Uncommitted
<1>9. Uncommitted'
    BY <1>2, <1>3, <1>6, <1>7, <1>8 DEF Uncommitted, Store
<1>10. Filled(nlog', len)
    BY <1>4, <1>5 DEF Filled
<1>11. LogFilled(op)'
    BY <1>1, <1>2, <1>3, <1>5, <1>10 DEF LogFilled, Executing
<1>12. Managed[op - 1] \subseteq regions
    BY <1>1, <1>2, <1>5, NothingUnmapped DEF OpDone
<1>13. mem' = [b \in Blocks |-> IF b \in Fresh(op) THEN mem[b] ELSE Image(op, base, len)[b]]
    BY DEF Store
<1>14. ZeroOutside(mem', regions)
    <2>1. SUFFICES ASSUME NEW b \in Blocks \ regions PROVE mem'[b] = Zero
        BY DEF ZeroOutside
    <2>2. CASE b \in Fresh(op)
        BY <1>2, <1>13, <2>2 DEF Executing, ZeroOutside
    <2>3. CASE b \notin Fresh(op)
        <3>1. b \notin Managed[op - 1]
            BY <1>12, <2>1
        <3>2. \A i \in 1..len : Blk[op][i] # b
            BY <1>2, <3>1, OpFacts, <1>1
        <3>3. Image(op, base, len)[b] = base[b]
            BY <1>1, <1>2, <3>2, Untouched
        <3>4. base[b] = Zero
            BY <1>2, <3>1 DEF Uncommitted, ZeroOutside
        <3>. QED
            BY <1>13, <2>3, <3>3, <3>4
    <2>. QED
        BY <2>2, <2>3
<1>15. Agree(mem', Image(op, base, len), Managed[op - 1] \cap regions)
    BY <1>13 DEF Agree, Fresh, TypeInv, TypeOK
<1>16. Unmap(op) \subseteq regions
    BY <1>12 DEF Unmap
<1>17. Executing'
    BY <1>1, <1>2, <1>3, <1>9, <1>11, <1>14, <1>15, <1>16 DEF Executing, Store, rvars
<1>. QED
    BY <1>1, <1>17 DEF Inv, QuietPCs, CommittingPCs, CommittedPCs, RollbackPCs

LEMMA InvMmap ==
    ASSUME TypeInv, Inv, Mmap
    PROVE  Inv'
<1>1. pc = "exec" /\ pc' = "exec" /\ Fresh(op) # {} /\ Fresh(op) \cap regions = {}
    BY DEF Mmap
<1>2. /\ Executing /\ Uncommitted /\ Cur = op /\ op \in Ops /\ op - 1 = tail
      /\ table = Managed[op - 1] /\ base \in Memory
    BY <1>1, ExecFacts
<1>3. /\ op' = op /\ Cur' = op /\ base' = base /\ ulog' = ulog /\ nlog' = nlog
      /\ table' = table /\ len' = len /\ written' = written
    BY <1>1, <1>2 DEF Mmap, op, Cur, CommittingPCs
<1>4. /\ mem' = [b \in Blocks |-> IF b \in Fresh(op) THEN Zero ELSE mem[b]]
      /\ nvm' = [b \in Blocks |-> IF b \in Fresh(op) THEN Zero ELSE nvm[b]]
    BY DEF Mmap, Zeroed
<1>5. Fresh(op) \subseteq Blocks /\ Managed[op - 1] \subseteq Blocks /\ Fresh(op) \cap Managed[op - 1] = {}
    BY <1>2 DEF Fresh
<1>6. Restorable(nvm', nlog, table, base)
    BY <1>2, <1>4, <1>5 DEF Restorable, Uncommitted
<1>7. Uncommitted'
    BY <1>2, <1>3, <1>6 DEF Uncommitted
<1>8. LogFilled(op)'
    BY <1>2, <1>3 DEF LogFilled, Executing
<1>9. Unmap(op) \subseteq regions
    BY <1>1, <1>2, NothingUnmapped DEF OpDone, Unmap
<1>10. regions' = regions \cup Fresh(op) /\ fresh' = Fresh(op)
    BY <1>1, <1>2 DEF Mmap, Executing
<1>11. ZeroOutside(mem', regions')
    BY <1>2, <1>4, <1>10 DEF ZeroOutside, Executing
<1>12. Agree(mem', Image(op, base, written), Managed[op - 1] \cap regions')
    BY <1>2, <1>4, <1>5, <1>10 DEF Agree, Executing
<1>13. Executing'
    BY <1>2, <1>3, <1>7, <1>8, <1>9, <1>10, <1>11, <1>12 DEF Executing, Mmap
<1>. QED
    BY <1>1, <1>13 DEF Inv, QuietPCs, CommittingPCs, CommittedPCs, RollbackPCs

LEMMA InvStoreFresh ==
    ASSUME TypeInv, Inv, SafeConditions, NEW x \in Blocks, StoreFresh(x)
    PROVE  Inv'
<1>1. pc = "exec" /\ pc' = "exec" /\ x \in fresh
    BY DEF StoreFresh
<1>2. /\ Executing /\ Uncommitted /\ Cur = op /\ op \in Ops /\ op - 1 = tail
      /\ table = Managed[op - 1] /\ base \in Memory
    BY <1>1, ExecFacts
<1>3. /\ op' = op /\ Cur' = Cur /\ base' = base /\ ulog' = ulog /\ nlog' = nlog
      /\ nvm' = nvm /\ table' = table /\ len' = len /\ written' = written
      /\ regions' = regions /\ fresh' = fresh
    BY <1>1, <1>2 DEF StoreFresh, op, Cur, CommittingPCs, pvars, rvars
<1>4. Uncommitted'
    BY <1>2, <1>3, UncommittedKept
<1>5. LogFilled(op)'
    BY <1>2, <1>3 DEF LogFilled, Executing
<1>6. x \in Fresh(op) /\ x \in regions /\ x \notin Managed[op - 1]
    BY <1>1, <1>2 DEF Executing, Fresh
<1>7. Unmap(op) \subseteq regions
    BY <1>2, <1>6 DEF SafeConditions
<1>8. \A b \in Blocks : b # x => mem'[b] = mem[b]
    BY DEF StoreFresh, TypeInv, TypeOK
<1>9. ZeroOutside(mem', regions)
    BY <1>2, <1>6, <1>8 DEF ZeroOutside, Executing
<1>10. Agree(mem', Image(op, base, written), Managed[op - 1] \cap regions)
    BY <1>2, <1>6, <1>8 DEF Agree, Executing, TypeInv, TypeOK
<1>11. Executing'
    BY <1>2, <1>3, <1>4, <1>5, <1>7, <1>9, <1>10 DEF Executing, StoreFresh, pvars, rvars
<1>. QED
    BY <1>1, <1>11 DEF Inv, QuietPCs, CommittingPCs, CommittedPCs, RollbackPCs

LEMMA InvMunmap ==
    ASSUME TypeInv, Inv, SafeConditions, Munmap
    PROVE  Inv'
<1>1. pc = "exec" /\ pc' = "exec" /\ OpDone /\ Unmap(op) \cap regions # {}
    BY DEF Munmap
<1>2. /\ Executing /\ Uncommitted /\ Cur = op /\ op \in Ops /\ op - 1 = tail
      /\ table = Managed[op - 1] /\ base \in Memory
    BY <1>1, ExecFacts
<1>3. /\ op' = op /\ Cur' = Cur /\ base' = base /\ ulog' = ulog /\ nlog' = nlog
      /\ nvm' = nvm /\ table' = table /\ len' = len /\ written' = written
    BY <1>1, <1>2 DEF Munmap, op, Cur, CommittingPCs, pvars
<1>4. Uncommitted'
    BY <1>2, <1>3, UncommittedKept
<1>5. LogFilled(op)'
    BY <1>2, <1>3 DEF LogFilled, Executing
<1>6. Fresh(op) = {}
    BY <1>1, <1>2 DEF SafeConditions
<1>7. OpDone'
    BY <1>1, <1>3, <1>6 DEF OpDone
<1>8. regions' = regions \ Unmap(op) /\ fresh' = {} /\ modified'
    BY DEF Munmap
<1>9. mem' = [b \in Blocks |-> IF b \in Unmap(op) THEN Zero ELSE mem[b]]
    BY DEF Munmap, Zeroed
<1>10. ZeroOutside(mem', regions')
    BY <1>2, <1>8, <1>9 DEF ZeroOutside, Executing
<1>11. Agree(mem', Image(op, base, written), Managed[op - 1] \cap regions')
    BY <1>2, <1>8, <1>9 DEF Agree, Executing, TypeInv, TypeOK
<1>12. /\ Unmap(op) \cap regions' = {}
       /\ regions' \subseteq Managed[op - 1] \cup Fresh(op)
       /\ Managed[op - 1] \cap Managed[op] \subseteq regions'
    BY <1>2, <1>8 DEF Executing, Unmap
<1>13. Executing'
    BY <1>2, <1>3, <1>4, <1>5, <1>6, <1>7, <1>8, <1>10, <1>11, <1>12
    DEF Executing, Munmap, pvars
<1>. QED
    BY <1>1, <1>13 DEF Inv, QuietPCs, CommittingPCs, CommittedPCs, RollbackPCs

LEMMA InvFinishOp ==
    ASSUME TypeInv, Inv, FinishOp
    PROVE  Inv'
<1>1. /\ pc = "exec" /\ pc' = "persist_table" /\ OpDone /\ Unmap(op) \cap regions = {}
      /\ tail' = tail + 1
    BY DEF FinishOp
<1>2. /\ Executing /\ Uncommitted /\ Cur = op /\ op \in Ops /\ op - 1 = tail
      /\ table = Managed[op - 1] /\ base \in Memory
    BY <1>1, ExecFacts
<1>3. /\ tail' = op /\ Cur' = Cur /\ base' = base /\ ulog' = ulog /\ nlog' = nlog
      /\ nvm' = nvm /\ table' = table /\ len' = len /\ written' = written
      /\ regions' = regions /\ fresh' = fresh /\ modified' = modified
      /\ mem' = mem /\ ptail' = ptail /\ new_table' = new_table
    BY <1>1, <1>2 DEF FinishOp, op, Cur, CommittingPCs, pvars, rvars
<1>4. Uncommitted'
    BY <1>2, <1>3, UncommittedKept
<1>5. LogFilled(op) /\ len = Len(Blk[op]) /\ written = len
    BY <1>1, <1>2 DEF Executing, OpDone
<1>6. LogFilled(tail)'
    BY <1>3, <1>5 DEF LogFilled
<1>7. Fresh(op) \subseteq regions
    BY <1>1 DEF OpDone
<1>8. regions = Managed[op] /\ fresh = Fresh(op)
    BY <1>1, <1>2, <1>7 DEF Executing, Unmap, Fresh
<1>9. mem = Exec(op, base)
    <2>1. mem = [b \in Blocks |-> mem[b]]
        BY DEF TypeInv, TypeOK
    <2>2. ASSUME NEW b \in Blocks
          PROVE  mem[b] = IF b \notin Managed[op] THEN Zero
                          ELSE IF b \in Fresh(op) THEN FreshImage(op, base, b)
                          ELSE Image(op, base, Len(Blk[op]))[b]
        <3>1. CASE b \notin Managed[op]
            BY <1>2, <1>8, <3>1 DEF Executing, ZeroOutside
        <3>2. CASE b \in Fresh(op)
            BY <1>1, <1>7, <1>8, <3>2 DEF OpDone
        <3>3. CASE b \in Managed[op] /\ b \notin Fresh(op)
            BY <1>2, <1>5, <1>8, <3>3 DEF Executing, Agree, Fresh
        <3>. QED
            BY <3>1, <3>2, <3>3
    <2>. QED
        BY <2>1, <2>2, Zenon DEF Exec
<1>10. Committing'
    BY <1>1, <1>2, <1>3, <1>4, <1>5, <1>6, <1>8, <1>9 DEF Committing, Executing
<1>. QED
    BY <1>1, <1>10 DEF Inv, QuietPCs, CommittingPCs, CommittedPCs, RollbackPCs

-----------------------------------------------------------------------------
(* The steps that commit an operation.                                     *)

LEMMA CommittingFacts ==
    ASSUME TypeInv, Inv, pc \in CommittingPCs
    PROVE  /\ Committing /\ Uncommitted /\ Cur = tail /\ tail \in Ops
           /\ table = Managed[tail - 1] /\ base \in Memory /\ mem \in Memory
<1>1. Committing /\ Uncommitted
    BY DEF Inv, Committing
<1>2. Cur = tail /\ tail \in Ops /\ base \in Memory /\ mem \in Memory
    BY <1>1 DEF Committing, Cur, TypeInv, TypeOK
<1>. QED
    BY <1>1, <1>2 DEF Uncommitted

LEMMA InvPersistTable ==
    ASSUME TypeInv, Inv, PersistTable
    PROVE  Inv'
<1>1. pc = "persist_table" /\ pc' = "commit"
    BY DEF PersistTable
<1>2. Committing /\ Uncommitted /\ Cur = tail
    BY <1>1, CommittingFacts DEF CommittingPCs
<1>3. /\ tail' = tail /\ Cur' = Cur /\ base' = base /\ ulog' = ulog /\ nlog' = nlog
      /\ nvm' = nvm /\ table' = table /\ len' = len /\ written' = written
      /\ regions' = regions /\ fresh' = fresh /\ modified' = modified
      /\ mem' = mem /\ ptail' = ptail
    BY <1>1, <1>2 DEF PersistTable, Cur, CommittingPCs, rvars
<1>4. Uncommitted'
    BY <1>2, <1>3, UncommittedKept
<1>5. LogFilled(tail)'
    BY <1>2, <1>3 DEF LogFilled, Committing
<1>6. new_table' = IF modified THEN regions ELSE NoTable
    BY <1>1, <1>2 DEF PersistTable, Committing
<1>7. Committing'
    BY <1>1, <1>2, <1>3, <1>4, <1>5, <1>6 DEF Committing
<1>. QED
    BY <1>1, <1>7 DEF Inv, QuietPCs, CommittingPCs, CommittedPCs, RollbackPCs

\* Once everything is logged, a block of the old table that the operation left no entry
\* for has not changed.
LEMMA UnloggedBlock ==
    ASSUME TypeInv, Inv, pc \in CommittingPCs, NEW b \in table,
           \A i \in 0..(len - 1) : ulog[i].addr # b
    PROVE  /\ nvm[b] = base[b]
           /\ b \in regions => mem[b] = base[b]
<1>1. /\ Committing /\ Uncommitted /\ Cur = tail /\ tail \in Ops
      /\ table = Managed[tail - 1] /\ base \in Memory
    BY CommittingFacts
<1>2. /\ Len(Blk[tail]) \in Nat /\ Len(Blk[tail]) \in Cut[tail] /\ len = Len(Blk[tail])
      /\ len \in 0..NumEntries /\ b \in Blocks
    BY <1>1, OpFacts DEF Committing, TypeInv, TypeOK
<1>3. ASSUME NEW i \in 0..(len - 1) PROVE Blk[tail][i + 1] # b
    <2>1. Filled(ulog, len) /\ OnlyEntriesOf(base, tail, ulog)
        BY <1>1 DEF Committing, LogFilled, Uncommitted
    <2>2. i \in Slots /\ ~is_null(ulog[i])
        BY <1>2, <2>1 DEF Filled
    <2>. QED
        BY <2>1, <2>2, UsedSlot
<1>4. ASSUME NEW n \in 1..Len(Blk[tail]) PROVE Blk[tail][n] # b
    <2>1. n - 1 \in 0..(len - 1) /\ (n - 1) + 1 = n
        BY <1>2
    <2>. QED
        BY <1>3, <2>1
<1>5. Image(tail, base, Len(Blk[tail]))[b] = base[b]
    BY <1>1, <1>2, <1>4, Untouched
<1>6. nvm[b] = base[b]
    <2>1. SUFFICES ASSUME NEW i \in Slots, Scanned(nlog, i), nlog[i].addr = b PROVE FALSE
        BY <1>1 DEF Uncommitted, Restorable
    <2>2. ~is_null(nlog[i])
        BY <2>1 DEF Scanned
    <2>3. i + 1 \in 1..Len(Blk[tail]) /\ nlog[i].addr = Blk[tail][i + 1]
        BY <1>1, <2>2, UsedSlot DEF Uncommitted
    <2>. QED
        BY <1>4, <2>1, <2>3
<1>7. ASSUME b \in regions PROVE mem[b] = base[b]
    <2>1. b \in Managed[tail] /\ b \notin Fresh(tail)
        BY <1>1, <1>7 DEF Committing, Fresh
    <2>. QED
        BY <1>1, <1>2, <1>5, <2>1 DEF Committing, Exec
<1>. QED
    BY <1>6, <1>7

LEMMA InvCommitFlush ==
    ASSUME TypeInv, Inv, CommitFlush
    PROVE  Inv'
<1>1. pc = "commit" /\ pc' = "commit_record" /\ pc \in CommittingPCs
    BY DEF CommitFlush, CommittingPCs
<1>2. /\ Committing /\ Uncommitted /\ Cur = tail /\ tail \in Ops
      /\ table = Managed[tail - 1] /\ base \in Memory /\ mem \in Memory
    BY <1>1, CommittingFacts
<1>3. /\ tail' = tail /\ Cur' = Cur /\ base' = base /\ ulog' = ulog /\ nlog' = nlog
      /\ table' = table /\ len' = len /\ written' = written /\ new_table' = new_table
      /\ regions' = regions /\ fresh' = fresh /\ modified' = modified
      /\ mem' = mem /\ ptail' = ptail
    BY <1>1, <1>2 DEF CommitFlush, Cur, CommittingPCs, rvars
<1>4. \A b \in Blocks : nvm'[b] = IF b \in ToFlush THEN mem[b] ELSE nvm[b]
    BY DEF CommitFlush
<1>5. Agree(nvm', mem, regions)
    <2>1. SUFFICES ASSUME NEW b \in regions, b \notin ToFlush PROVE nvm[b] = mem[b]
        BY <1>4 DEF Agree, TypeInv, TypeOK
    <2>2. \A i \in 0..(len - 1) : ulog[i].addr # b
        BY <2>1 DEF ToFlush
    <2>3. b \notin Fresh(tail)
        BY <1>2, <2>1 DEF ToFlush, Committing
    <2>4. b \in table
        BY <1>2, <2>1, <2>3 DEF Committing, Fresh
    <2>. QED
        BY <1>1, <2>1, <2>2, <2>4, UnloggedBlock
<1>6. Restorable(nvm', nlog, table, base)
    <2>1. SUFFICES ASSUME NEW b \in table, nvm'[b] # base[b]
                  PROVE  \E i \in Slots : Scanned(nlog, i) /\ nlog[i].addr = b
        BY DEF Restorable
    <2>2. b \in Blocks
        BY DEF TypeInv, TypeOK
    <2>3. PICK i \in 0..(len - 1) : ulog[i].addr = b
        <3>1. CASE b \in ToFlush
            <4>1. b \notin fresh
                BY <1>2 DEF Committing, Fresh
            <4>. QED
                BY <3>1, <4>1 DEF ToFlush
        <3>2. CASE b \notin ToFlush
            <4>1. nvm[b] # base[b]
                BY <1>4, <2>1, <2>2, <3>2
            <4>. QED
                BY <1>1, <4>1, UnloggedBlock
        <3>. QED
            BY <3>1, <3>2
    <2>4. i \in Slots /\ ~is_null(ulog[i]) /\ ~is_null(nlog[i]) /\ Scanned(nlog, i)
        BY <1>2 DEF Committing, LogFilled, Filled, Scanned, TypeInv, TypeOK
    <2>5. ulog[i].addr = Blk[tail][i + 1] /\ nlog[i].addr = Blk[tail][i + 1]
        BY <1>2, <2>4, UsedSlot DEF Uncommitted
    <2>. QED
        BY <2>3, <2>4, <2>5
<1>7. Uncommitted'
    BY <1>2, <1>3, <1>6 DEF Uncommitted
<1>8. LogFilled(tail)'
    BY <1>2, <1>3 DEF LogFilled, Committing
<1>9. Committing'
    BY <1>1, <1>2, <1>3, <1>5, <1>7, <1>8 DEF Committing
<1>. QED
    BY <1>1, <1>9 DEF Inv, QuietPCs, CommittingPCs, CommittedPCs, RollbackPCs

LEMMA InvCommitFault ==
    ASSUME TypeInv, Inv, CommitFault
    PROVE  Inv'
<1>1. pc = "commit" /\ pc' = "dead" /\ pc \in CommittingPCs
    BY DEF CommitFault, CommittingPCs
<1>2. Committing /\ Uncommitted /\ Cur = tail
    BY <1>1, CommittingFacts
<1>3. /\ tail' = tail /\ Cur' = Cur /\ base' = base /\ ulog' = ulog /\ nlog' = nlog
      /\ nvm' = nvm /\ table' = table /\ len' = len /\ written' = written
      /\ regions' = regions /\ fresh' = fresh /\ modified' = modified
      /\ mem' = mem /\ ptail' = ptail /\ new_table' = new_table
    BY <1>1, <1>2 DEF CommitFault, Cur, CommittingPCs, pvars, rvars
<1>4. Uncommitted'
    BY <1>2, <1>3, UncommittedKept
<1>5. LogFilled(tail)'
    BY <1>2, <1>3 DEF LogFilled, Committing
<1>6. Committing'
    BY <1>1, <1>2, <1>3, <1>4, <1>5 DEF Committing
<1>. QED
    BY <1>1, <1>6 DEF Inv, QuietPCs, CommittingPCs, CommittedPCs, RollbackPCs

LEMMA InvCommitRecord ==
    ASSUME TypeInv, Inv, CommitRecord
    PROVE  Inv'
<1>1. pc = "commit_record" /\ pc' = "update_tail" /\ pc \in CommittingPCs
    BY DEF CommitRecord, CommittingPCs
<1>2. /\ Committing /\ Uncommitted /\ Cur = tail /\ tail \in Ops
      /\ table = Managed[tail - 1] /\ base \in Memory /\ mem \in Memory
    BY <1>1, CommittingFacts
<1>3. /\ tail' = tail /\ base' = mem /\ mem' = mem /\ nvm' = nvm /\ table' = table
      /\ new_table' = new_table /\ regions' = regions /\ modified' = modified
      /\ ptail' = ptail /\ len' = len + 1 /\ fresh' = fresh
    BY DEF CommitRecord, rvars
<1>. DEFINE n == Len(Blk[tail])
            r == [ulog[len] EXCEPT !.addr = NoAddr, !.commit_tail = tail + 1]
<1>4. n \in Nat /\ n + 2 <= NumEntries /\ len = n
    BY <1>2, OpFacts DEF Committing
<1>. HIDE DEF n
<1>5. /\ len \in Slots /\ ulog \in [Slots -> Entry] /\ nlog \in [Slots -> Entry]
      /\ ulog[len] \in Entry
    BY <1>4 DEF TypeInv, TypeOK
<1>6. ulog' = [ulog EXCEPT ![len] = r] /\ nlog' = [nlog EXCEPT ![len] = ulog'[len]]
    BY <1>5 DEF CommitRecord, Entry
<1>7. r.addr = NoAddr /\ r.commit_tail = tail + 1
    BY <1>5 DEF Entry
<1>. HIDE DEF r
<1>8. /\ ulog'[n] = r /\ nlog'[n] = r
      /\ \A i \in Slots : i # n => ulog'[i] = ulog[i] /\ nlog'[i] = nlog[i]
    BY <1>4, <1>5, <1>6
<1>9. ASSUME NEW i \in 0..(n - 1)
      PROVE  /\ ~is_null(ulog[i]) /\ ulog[i].commit_tail = 0
             /\ ~is_null(nlog[i]) /\ nlog[i].commit_tail = 0
    <2>1. i \in Slots /\ ~is_null(ulog[i]) /\ ~is_null(nlog[i])
        BY <1>2, <1>4 DEF Committing, LogFilled, Filled
    <2>. QED
        BY <1>2, <2>1, UsedSlot DEF Uncommitted
<1>10. ASSUME NEW i \in Slots, i > n PROVE is_null(ulog[i]) /\ is_null(nlog[i])
    <2>1. ~(i < n)
        BY <1>4, <1>10
    <2>. QED
        BY <1>2, <2>1, UsedSlot DEF Uncommitted, n
<1>11. CommitRecordOf(tail, ulog') /\ CommitRecordOf(tail, nlog')
    <2>1. \A i \in 0..(n - 1) : i \in Slots /\ i # n
        BY <1>4
    <2>2. \A i \in Slots : i > n => i # n
        BY <1>4
    <2>. QED
        BY <1>7, <1>8, <1>9, <1>10, <2>1, <2>2 DEF CommitRecordOf, n
<1>12. RenamedTable = Managed[tail]
    <2>1. regions # NoTable
        BY DEF NoTable, TypeInv, TypeOK
    <2>. QED
        BY <1>1, <1>2, <2>1 DEF Committing, RenamedTable
<1>13. RenamedTable' = Managed[tail]
    BY <1>3, <1>12 DEF RenamedTable
<1>14. ZeroOutside(mem, Managed[tail])
    BY <1>2 DEF Committing, Exec, ZeroOutside
<1>15. Agree(nvm, mem, Managed[tail])
    BY <1>1, <1>2 DEF Committing
<1>16. CommittedOp(tail)'
    BY <1>2, <1>3, <1>11, <1>13, <1>14, <1>15 DEF CommittedOp, Committing
<1>17. CommittedAt'
    BY <1>1, <1>2, <1>3, <1>4, <1>16 DEF CommittedAt, Committing, n
<1>. QED
    BY <1>1, <1>17 DEF Inv, QuietPCs, CommittingPCs, CommittedPCs, RollbackPCs

LEMMA CommittedFacts ==
    ASSUME TypeInv, Inv, pc \in CommittedPCs
    PROVE  /\ CommittedAt /\ CommittedOp(tail) /\ tail \in Ops
           /\ CommitRecordOf(tail, nlog) /\ CommitRecordOf(tail, ulog)
           /\ RenamedTable = Managed[tail]
    BY DEF Inv, CommittedAt, CommittedOp

LEMMA InvUpdateTail ==
    ASSUME TypeInv, Inv, UpdateTail
    PROVE  Inv'
<1>1. pc = "update_tail" /\ pc' = "commit_table" /\ ptail' = tail
    BY DEF UpdateTail
<1>2. CommittedAt /\ CommittedOp(tail)
    BY <1>1, CommittedFacts DEF CommittedPCs
<1>3. CommittedOp(tail)'
    BY <1>1, <1>2 DEF CommittedOp, UpdateTail, RenamedTable
<1>4. CommittedAt'
    BY <1>1, <1>2, <1>3 DEF CommittedAt, UpdateTail, rvars
<1>. QED
    BY <1>1, <1>4 DEF Inv, QuietPCs, CommittingPCs, CommittedPCs, RollbackPCs

LEMMA InvCommitTable ==
    ASSUME TypeInv, Inv, CommitTable
    PROVE  Inv'
<1>1. pc = "commit_table" /\ pc' = "cleanup"
    BY DEF CommitTable
<1>2. CommittedAt /\ CommittedOp(tail) /\ RenamedTable = Managed[tail]
    BY <1>1, CommittedFacts DEF CommittedPCs
<1>3. new_table' = NoTable /\ table' = Managed[tail]
    <2>1. CASE modified
        BY <1>2, <2>1 DEF CommitTable
    <2>2. CASE ~modified
        BY <1>2, <2>2 DEF CommitTable, CommittedAt, RenamedTable
    <2>. QED
        BY <2>1, <2>2
<1>4. RenamedTable' = Managed[tail]
    BY <1>3 DEF RenamedTable
<1>5. CommittedOp(tail)'
    BY <1>1, <1>2, <1>4 DEF CommittedOp, CommitTable
<1>6. CommittedAt'
    BY <1>1, <1>2, <1>3, <1>5 DEF CommittedAt, CommitTable, rvars
<1>. QED
    BY <1>1, <1>6 DEF Inv, QuietPCs, CommittingPCs, CommittedPCs, RollbackPCs

\* undo_log_clear of a log with a commit record leaves an empty log.
LEMMA ClearCommitted ==
    ASSUME NEW k \in Ops, CommitRecordOf(k, ulog), CommitRecordOf(k, nlog),
           len = Len(Blk[k]) + 1, Clear
    PROVE  /\ \A i \in Slots : is_null(ulog'[i]) /\ is_null(nlog'[i])
           /\ len' = 0 /\ fresh' = {}
<1>1. Len(Blk[k]) \in Nat
    BY OpFacts
<1>2. is_null(NullEntry)
    BY DEF is_null, NullEntry
<1>3. ASSUME NEW i \in Slots PROVE is_null(ulog'[i]) /\ is_null(nlog'[i])
    <2>1. CASE i < len
        BY <1>2, <2>1 DEF Clear
    <2>2. CASE ~(i < len)
        <3>1. i > Len(Blk[k])
            BY <1>1, <2>2
        <3>2. ulog'[i] = ulog[i] /\ nlog'[i] = nlog[i]
            BY <2>2 DEF Clear
        <3>. QED
            BY <3>1, <3>2 DEF CommitRecordOf
    <2>. QED
        BY <2>1, <2>2
<1>. QED
    BY <1>3 DEF Clear

\* A step to an empty log over memory that is persistent.
LEMMA EmptyLogNext ==
    ASSUME \A i \in Slots : is_null(ulog'[i]) /\ is_null(nlog'[i]),
           Cur' \in 1..(NumOps + 1), table' = Managed[Cur' - 1],
           ZeroOutside(base', table'), Agree(nvm', base', table')
    PROVE  Uncommitted'
    BY DEF Uncommitted, OnlyEntriesOf, Covers, Restorable, Agree

LEMMA InvCleanup ==
    ASSUME TypeInv, Inv, Cleanup
    PROVE  Inv'
<1>1. pc = "cleanup" /\ pc' = "consume" /\ Clear /\ ~modified'
    BY DEF Cleanup
<1>2. /\ CommittedAt /\ CommittedOp(tail) /\ tail \in Ops /\ RenamedTable = Managed[tail]
      /\ CommitRecordOf(tail, nlog) /\ CommitRecordOf(tail, ulog)
    BY <1>1, CommittedFacts DEF CommittedPCs
<1>3. /\ \A i \in Slots : is_null(ulog'[i]) /\ is_null(nlog'[i])
      /\ len' = 0 /\ fresh' = {}
    BY <1>1, <1>2, ClearCommitted DEF CommittedAt
<1>4. table = Managed[tail] /\ new_table = NoTable
    BY <1>1, <1>2 DEF CommittedAt, RenamedTable
<1>5. /\ tail' = tail /\ base' = base /\ nvm' = nvm /\ table' = table /\ mem' = mem
      /\ regions' = regions /\ new_table' = new_table /\ ptail' = ptail
    BY DEF Cleanup
<1>6. Cur' = tail + 1 /\ Cur' - 1 = tail /\ Cur' \in 1..(NumOps + 1)
    BY <1>1, <1>2, <1>5 DEF Cur, CommittingPCs
<1>7. ZeroOutside(base', table') /\ Agree(nvm', base', table')
    BY <1>2, <1>4, <1>5 DEF CommittedOp
<1>8. Uncommitted'
    BY <1>3, <1>4, <1>5, <1>6, <1>7, EmptyLogNext
<1>9. Quiet'
    BY <1>1, <1>2, <1>3, <1>4, <1>5, <1>7, <1>8 DEF Quiet, CommittedAt
<1>. QED
    BY <1>1, <1>9 DEF Inv, QuietPCs, CommittingPCs, CommittedPCs, RollbackPCs

-----------------------------------------------------------------------------
(* The steps of recovery.                                                  *)

LEMMA InvRecoverCommitted ==
    ASSUME TypeInv, Inv, RecoverCommitted
    PROVE  Inv'
<1>1. /\ pc = "recover" /\ pc' = "recover_clear" /\ Committed(ulog, ScanLen(ulog))
      /\ len' = ScanLen(ulog) /\ tail' = RecoveredTail(ulog, ScanLen(ulog))
    BY DEF RecoverCommitted
<1>2. Recovering
    BY <1>1 DEF Inv
<1>3. ~Uncommitted
    BY <1>1, NoRecord DEF Uncommitted
<1>4. PICK k \in Ops : CommittedOp(k)
    BY <1>2, <1>3 DEF Recovering
<1>5. ScanLen(ulog) = Len(Blk[k]) + 1 /\ RecoveredTail(ulog, ScanLen(ulog)) = k
    BY <1>4, RecordFound DEF CommittedOp
<1>6. tail' = k /\ len' = Len(Blk[k]) + 1
    BY <1>1, <1>5
<1>7. RenamedTable = Managed[k]
    BY <1>4 DEF CommittedOp
<1>8. /\ table' = Managed[k] /\ new_table' = NoTable /\ regions' = Managed[k]
      /\ mem' = Mapped(Managed[k])
    BY <1>7 DEF RecoverCommitted
<1>9. RenamedTable' = Managed[k]
    BY <1>8 DEF RenamedTable
<1>10. mem' = base
    <2>1. base = [b \in Blocks |-> base[b]]
        BY DEF TypeInv, TypeOK
    <2>2. \A b \in Blocks : (IF b \in Managed[k] THEN nvm[b] ELSE Zero) = base[b]
        BY <1>4 DEF CommittedOp, Agree, ZeroOutside
    <2>. QED
        BY <1>8, <2>1, <2>2 DEF Mapped
<1>11. /\ nlog' = nlog /\ ulog' = ulog /\ base' = base /\ nvm' = nvm /\ ptail' = ptail
       /\ fresh' = fresh /\ modified' = modified
    BY DEF RecoverCommitted
<1>12. CommittedOp(tail)'
    BY <1>4, <1>6, <1>9, <1>11 DEF CommittedOp
<1>13. CommittedAt'
    BY <1>1, <1>2, <1>6, <1>8, <1>10, <1>11, <1>12 DEF CommittedAt, Recovering
<1>. QED
    BY <1>1, <1>13 DEF Inv, QuietPCs, CommittingPCs, CommittedPCs, RollbackPCs

LEMMA InvRecoverUncommitted ==
    ASSUME TypeInv, Inv, RecoverUncommitted
    PROVE  Inv'
<1>1. /\ pc = "recover" /\ pc' = "rollback" /\ ~Committed(ulog, ScanLen(ulog))
      /\ len' = ScanLen(ulog) /\ idx' = ScanLen(ulog)
      /\ new_table' = NoTable /\ regions' = table
    BY DEF RecoverUncommitted
<1>2. Recovering /\ ulog = nlog
    BY <1>1 DEF Inv, Recovering
<1>3. \A k \in Ops : ~CommittedOp(k)
    BY <1>1, RecordFound DEF CommittedOp
<1>4. Uncommitted
    BY <1>2, <1>3 DEF Recovering
<1>5. /\ tail' = tail /\ ptail' = ptail /\ base' = base /\ ulog' = ulog /\ nlog' = nlog
      /\ nvm' = nvm /\ table' = table /\ fresh' = fresh /\ modified' = modified
    BY DEF RecoverUncommitted
<1>6. Cur' = Cur
    BY <1>1, <1>5 DEF Cur, CommittingPCs
<1>7. Uncommitted'
    BY <1>4, <1>5, <1>6, UncommittedKept
<1>. DEFINE s == ScanLen(nlog)
<1>8. /\ s \in 0..NumEntries /\ \A i \in 0..(s - 1) : ~is_null(nlog[i])
      /\ s = NumEntries \/ is_null(nlog[s])
    BY ScanStops
<1>9. len' = s /\ idx' = s
    BY <1>1, <1>2
<1>. HIDE DEF s
<1>10. ASSUME NEW i \in Slots PROVE i < s <=> Scanned(nlog, i)
    BY <1>8 DEF Scanned
<1>11. \A b \in Blocks : mem'[b] = IF b \in table THEN nvm[b] ELSE Zero
    BY DEF RecoverUncommitted, Mapped
<1>12. ZeroOutside(mem', table)
    BY <1>11 DEF ZeroOutside
<1>13. ASSUME NEW b \in table
       PROVE  mem'[b] = base[b] \/ \E i \in 0..(s - 1) : ulog[i].addr = b
    <2>1. b \in Blocks /\ mem'[b] = nvm[b]
        BY <1>11 DEF TypeInv, TypeOK
    <2>2. CASE nvm[b] = base[b]
        BY <2>1, <2>2
    <2>3. ASSUME NEW i \in Slots, Scanned(nlog, i), nlog[i].addr = b
          PROVE  \E j \in 0..(s - 1) : ulog[j].addr = b
        <3>1. i \in 0..(s - 1)
            BY <1>8, <1>10, <2>3
        <3>. QED
            BY <1>2, <2>3, <3>1
    <2>. QED
        BY <1>4, <2>2, <2>3 DEF Uncommitted, Restorable
<1>14. RollingBack'
    BY <1>1, <1>2, <1>5, <1>7, <1>9, <1>10, <1>12, <1>13 DEF RollingBack, Recovering
<1>. QED
    BY <1>1, <1>14 DEF Inv, QuietPCs, CommittingPCs, CommittedPCs, RollbackPCs

LEMMA RollbackFacts ==
    ASSUME TypeInv, Inv, pc \in RollbackPCs
    PROVE  /\ RollingBack /\ Uncommitted /\ Cur = tail + 1 /\ Cur - 1 = tail
           /\ ulog = nlog /\ regions = table /\ table = Managed[tail] /\ table \subseteq Blocks
           /\ base \in Memory /\ mem \in Memory /\ idx \in 0..len /\ len \in 0..NumEntries
<1>1. RollingBack /\ Uncommitted
    BY DEF Inv, RollingBack
<1>2. Cur = tail + 1 /\ Cur - 1 = tail
    BY DEF Cur, CommittingPCs, RollbackPCs, TypeInv, TypeOK
<1>. QED
    BY <1>1, <1>2 DEF RollingBack, Uncommitted, TypeInv, TypeOK

LEMMA InvRollback ==
    ASSUME TypeInv, Inv, Rollback
    PROVE  Inv'
<1>. DEFINE i == idx - 1
            a == ulog[i].addr
<1>1. /\ pc = "rollback" /\ pc' = "rollback" /\ idx > 0 /\ idx' = i
      /\ mem' = [mem EXCEPT ![a] = ulog[i].blk]
    BY DEF Rollback
<1>2. /\ RollingBack /\ Uncommitted /\ Cur = tail + 1 /\ ulog = nlog /\ table \subseteq Blocks
      /\ base \in Memory /\ mem \in Memory /\ idx \in 0..len /\ len \in 0..NumEntries
    BY <1>1, RollbackFacts DEF RollbackPCs
<1>3. /\ tail' = tail /\ ptail' = ptail /\ base' = base /\ ulog' = ulog /\ nlog' = nlog
      /\ nvm' = nvm /\ table' = table /\ fresh' = fresh /\ modified' = modified
      /\ regions' = regions /\ new_table' = new_table /\ len' = len
    BY DEF Rollback, pvars, rvars
<1>4. Cur' = Cur
    BY <1>1, <1>3 DEF Cur
<1>5. Uncommitted'
    BY <1>2, <1>3, <1>4, UncommittedKept
<1>6. i \in Slots /\ i < len /\ i \in Nat /\ \A j \in 0..i : j \in Slots
    BY <1>1, <1>2
<1>7. Scanned(ulog, i)
    BY <1>2, <1>6 DEF RollingBack
<1>8. a \in table
    BY DEF Rollback, Applicable, RollingBack, Inv, RollbackPCs
<1>9. ASSUME NEW b \in table
      PROVE  mem'[b] = base[b] \/ \E j \in 0..(i - 1) : ulog[j].addr = b
    <2>1. CASE b # a
        <3>1. mem'[b] = mem[b]
            BY <1>1, <1>2, <2>1
        <3>2. CASE mem[b] = base[b]
            BY <3>1, <3>2
        <3>3. ASSUME NEW j \in 0..(idx - 1), ulog[j].addr = b
              PROVE  \E n \in 0..(i - 1) : ulog[n].addr = b
            <4>1. j \in 0..(i - 1)
                BY <1>2, <2>1, <3>3
            <4>. QED
                BY <3>3, <4>1
        <3>. QED
            BY <1>2, <3>2, <3>3 DEF RollingBack
    <2>2. CASE b = a /\ \A j \in 0..(i - 1) : ulog[j].addr # a
        <3>1. ulog[i].blk = base[a]
            BY <1>2, <1>6, <1>7, <2>2, OldestEntry DEF Uncommitted
        <3>2. mem'[a] = ulog[i].blk
            BY <1>1, <1>2, <1>8
        <3>. QED
            BY <2>2, <3>1, <3>2
    <2>. QED
        BY <2>1, <2>2
<1>10. ZeroOutside(mem', table)
    BY <1>1, <1>2, <1>8 DEF ZeroOutside, RollingBack
<1>11. RollingBack'
    <2>1. \A n \in Slots : n < len <=> Scanned(nlog, n)
        BY <1>2 DEF RollingBack
    <2>2. pc' # "rollback_clear"
        BY <1>1
    <2>. HIDE DEF i
    <2>. QED
        BY <1>1, <1>2, <1>3, <1>5, <1>9, <1>10, <2>1, <2>2 DEF RollingBack
<1>. QED
    BY <1>1, <1>11 DEF Inv, QuietPCs, CommittingPCs, CommittedPCs, RollbackPCs

LEMMA InvRollbackDrain ==
    ASSUME TypeInv, Inv, RollbackDrain
    PROVE  Inv'
<1>1. pc = "rollback" /\ pc' = "rollback_clear" /\ idx = 0
    BY DEF RollbackDrain
<1>2. /\ RollingBack /\ Uncommitted /\ Cur = tail + 1 /\ ulog = nlog /\ table \subseteq Blocks
      /\ base \in Memory /\ mem \in Memory /\ len \in 0..NumEntries
    BY <1>1, RollbackFacts DEF RollbackPCs
<1>3. /\ tail' = tail /\ ptail' = ptail /\ base' = base /\ ulog' = ulog /\ nlog' = nlog
      /\ table' = table /\ fresh' = fresh /\ modified' = modified /\ mem' = mem
      /\ regions' = regions /\ new_table' = new_table /\ len' = len /\ idx' = idx
    BY DEF RollbackDrain, rvars
<1>4. Cur' = Cur
    BY <1>1, <1>3 DEF Cur, CommittingPCs
<1>5. \A b \in Blocks : nvm'[b] = IF b \in ToFlush THEN mem[b] ELSE nvm[b]
    BY DEF RollbackDrain
<1>6. \A b \in table : mem[b] = base[b]
    BY <1>1, <1>2 DEF RollingBack
<1>7. ASSUME NEW b \in table PROVE nvm'[b] = base[b]
    <2>1. CASE b \in ToFlush
        BY <1>2, <1>5, <1>6, <2>1
    <2>2. CASE b \notin ToFlush
        <3>1. nvm'[b] = nvm[b]
            BY <1>2, <1>5, <2>2
        <3>2. ASSUME NEW i \in Slots, Scanned(nlog, i), nlog[i].addr = b PROVE FALSE
            <4>1. i \in 0..(len - 1)
                BY <1>2, <3>2 DEF RollingBack
            <4>. QED
                BY <1>2, <2>2, <3>2, <4>1 DEF ToFlush
        <3>. QED
            BY <1>2, <3>1, <3>2 DEF Uncommitted, Restorable
    <2>. QED
        BY <2>1, <2>2
<1>8. Agree(nvm', base, table) /\ Restorable(nvm', nlog, table, base)
    BY <1>7 DEF Agree, Restorable
<1>9. Uncommitted'
    BY <1>2, <1>3, <1>4, <1>8 DEF Uncommitted
<1>10. RollingBack'
    BY <1>1, <1>2, <1>3, <1>6, <1>8, <1>9 DEF RollingBack
<1>. QED
    BY <1>1, <1>10 DEF Inv, QuietPCs, CommittingPCs, CommittedPCs, RollbackPCs

LEMMA InvRecoverClear ==
    ASSUME TypeInv, Inv, RecoverClear
    PROVE  Inv'
<1>1. pc' = "resume" /\ Clear /\ len' = 0 /\ fresh' = {}
    BY DEF RecoverClear, Clear
<1>2. /\ tail' = tail /\ ptail' = ptail /\ base' = base /\ nvm' = nvm /\ mem' = mem
      /\ table' = table /\ modified' = modified /\ regions' = regions /\ new_table' = new_table
    BY DEF RecoverClear
<1>3. Cur' = tail + 1 /\ Cur' - 1 = tail /\ Cur' \in 1..(NumOps + 1)
    BY <1>1, <1>2 DEF Cur, CommittingPCs, TypeInv, TypeOK
<1>4. ASSUME pc = "rollback_clear" PROVE Quiet'
    <2>1. /\ RollingBack /\ Uncommitted /\ Cur = tail + 1 /\ ulog = nlog
          /\ table \subseteq Blocks /\ base \in Memory /\ mem \in Memory
        BY <1>4, RollbackFacts DEF RollbackPCs
    <2>2. /\ idx = 0 /\ Agree(nvm, base, table) /\ \A b \in table : mem[b] = base[b]
        BY <1>4, <2>1 DEF RollingBack
    <2>3. mem = base
        BY <2>1, <2>2 DEF RollingBack, Uncommitted, ZeroOutside
    <2>4. /\ \A i \in Slots : is_null(ulog'[i]) \/ ulog'[i] = ulog[i]
          /\ \A i \in Slots : is_null(nlog'[i]) \/ nlog'[i] = nlog[i]
          /\ \A i \in Slots : ulog'[i] = nlog'[i]
        BY <1>1, <2>1 DEF Clear, is_null, NullEntry
    <2>5. /\ OnlyEntriesOf(base, Cur, ulog') /\ OnlyEntriesOf(base, Cur, nlog')
          /\ Covers(ulog', nlog')
        BY <2>1, <2>4 DEF Uncommitted, OnlyEntriesOf, Covers
    <2>6. Restorable(nvm, nlog', table, base)
        BY <2>2 DEF Restorable, Agree
    <2>7. Uncommitted'
        BY <1>2, <1>3, <2>1, <2>5, <2>6 DEF Uncommitted
    <2>. QED
        BY <1>1, <1>2, <2>1, <2>2, <2>3, <2>7 DEF Quiet, RollingBack
<1>5. ASSUME pc = "recover_clear" PROVE Quiet'
    <2>1. /\ CommittedAt /\ CommittedOp(tail) /\ tail \in Ops /\ RenamedTable = Managed[tail]
          /\ CommitRecordOf(tail, nlog) /\ CommitRecordOf(tail, ulog)
        BY <1>5, CommittedFacts DEF CommittedPCs
    <2>2. \A i \in Slots : is_null(ulog'[i]) /\ is_null(nlog'[i])
        BY <1>1, <2>1, ClearCommitted DEF CommittedAt
    <2>3. table = Managed[tail] /\ new_table = NoTable
        BY <1>5, <2>1 DEF CommittedAt, RenamedTable
    <2>4. ZeroOutside(base', table') /\ Agree(nvm', base', table')
        BY <1>2, <2>1, <2>3 DEF CommittedOp
    <2>5. Uncommitted'
        BY <1>2, <1>3, <2>2, <2>3, <2>4, EmptyLogNext
    <2>. QED
        BY <1>1, <1>2, <1>5, <2>1, <2>3, <2>4, <2>5 DEF Quiet, CommittedAt
<1>6. Quiet'
    BY <1>4, <1>5 DEF RecoverClear
<1>. QED
    BY <1>1, <1>6 DEF Inv, QuietPCs, CommittingPCs, CommittedPCs, RollbackPCs

LEMMA InvResume ==
    ASSUME TypeInv, Inv, Resume
    PROVE  Inv'
<1>1. pc = "resume" /\ pc' = "consume" /\ ptail' = tail
    BY DEF Resume
<1>2. Quiet
    BY <1>1 DEF Inv, QuietPCs
<1>3. /\ tail' = tail /\ base' = base /\ nvm' = nvm /\ mem' = mem /\ ulog' = ulog /\ nlog' = nlog
      /\ table' = table /\ modified' = modified /\ regions' = regions /\ new_table' = new_table
      /\ len' = len /\ fresh' = fresh
    BY DEF Resume, rvars
<1>4. Cur' = Cur
    BY <1>1, <1>3 DEF Cur, CommittingPCs
<1>5. Uncommitted'
    BY <1>2, <1>3, <1>4, UncommittedKept DEF Quiet
<1>6. Quiet'
    BY <1>1, <1>2, <1>3, <1>5 DEF Quiet
<1>. QED
    BY <1>1, <1>6 DEF Inv, QuietPCs, CommittingPCs, CommittedPCs, RollbackPCs

-----------------------------------------------------------------------------
(* Cache evictions and crashes.                                            *)

LEMMA InvWriteBack ==
    ASSUME TypeInv, Inv, NEW x \in Blocks, WriteBack(x)
    PROVE  Inv'
<1>1. /\ x \in regions /\ nvm[x] # mem[x] /\ nvm'[x] = mem[x]
      /\ \A b \in Blocks : b # x => nvm'[b] = nvm[b]
    BY DEF WriteBack, TypeInv, TypeOK
<1>2. /\ tail' = tail /\ ptail' = ptail /\ base' = base /\ ulog' = ulog /\ nlog' = nlog
      /\ table' = table /\ fresh' = fresh /\ modified' = modified /\ mem' = mem
      /\ regions' = regions /\ new_table' = new_table /\ len' = len /\ idx' = idx
      /\ written' = written /\ pc' = pc /\ op' = op /\ Cur' = Cur
    BY DEF WriteBack, rvars, op, Cur
<1>3. table \subseteq Blocks /\ regions \subseteq Blocks
    BY DEF TypeInv, TypeOK
\* It is enough that x can be restored if its new content is not base's.
<1>4. ASSUME Uncommitted,
             x \in table => mem[x] = base[x] \/ \E i \in Slots : Scanned(nlog, i) /\ nlog[i].addr = x
      PROVE  Uncommitted'
    <2>1. Restorable(nvm', nlog, table, base)
        BY <1>1, <1>3, <1>4 DEF Restorable, Uncommitted
    <2>. QED
        BY <1>2, <1>4, <2>1 DEF Uncommitted
<1>5. pc \notin QuietPCs
    BY <1>1 DEF Inv, Quiet, Agree
<1>6. ASSUME pc = "exec" PROVE Executing'
    <2>1. /\ Executing /\ Uncommitted /\ Cur = op /\ op \in Ops /\ op - 1 = tail
          /\ table = Managed[op - 1] /\ base \in Memory
        BY <1>6, ExecFacts
    <2>2. x \in table => mem[x] = Image(op, base, written)[x]
        BY <1>1, <2>1 DEF Executing, Agree
    <2>3. x \in table => mem[x] = base[x] \/ \E i \in Slots : Scanned(nlog, i) /\ nlog[i].addr = x
        BY <2>1, <2>2, RestorableStored DEF Executing, LogFilled, Uncommitted
    <2>4. Uncommitted'
        BY <1>4, <2>1, <2>3
    <2>5. LogFilled(op)' /\ (OpDone' <=> OpDone)
        BY <1>2, <2>1 DEF LogFilled, Executing, OpDone
    <2>. QED
        BY <1>2, <2>1, <2>4, <2>5 DEF Executing
<1>7. ASSUME pc \in CommittingPCs PROVE Committing'
    <2>1. /\ Committing /\ Uncommitted /\ Cur = tail /\ tail \in Ops
          /\ table = Managed[tail - 1] /\ base \in Memory /\ mem \in Memory
        BY <1>7, CommittingFacts
    <2>2. x \in table => mem[x] = Image(tail, base, written)[x]
        BY <1>1, <2>1 DEF Committing, Exec, Fresh
    <2>3. x \in table => mem[x] = base[x] \/ \E i \in Slots : Scanned(nlog, i) /\ nlog[i].addr = x
        BY <2>1, <2>2, RestorableStored DEF Committing, LogFilled, Uncommitted
    <2>4. Uncommitted'
        BY <1>4, <2>1, <2>3
    <2>5. LogFilled(tail)'
        BY <1>2, <2>1 DEF LogFilled, Committing
    <2>6. pc = "commit_record" => Agree(nvm', mem, regions)
        BY <1>1, <2>1 DEF Committing, Agree
    <2>. QED
        BY <1>2, <2>1, <2>4, <2>5, <2>6 DEF Committing
<1>8. pc \notin CommittedPCs
    BY <1>1 DEF Inv, CommittedAt, CommittedOp, Agree
<1>9. pc # "recover"
    BY <1>1 DEF Inv, Recovering
<1>10. ASSUME pc \in RollbackPCs PROVE RollingBack'
    <2>1. /\ RollingBack /\ Uncommitted /\ ulog = nlog /\ regions = table
          /\ idx \in 0..len /\ len \in 0..NumEntries
        BY <1>10, RollbackFacts
    <2>2. ASSUME NEW i \in 0..(idx - 1), ulog[i].addr = x
          PROVE  \E j \in Slots : Scanned(nlog, j) /\ nlog[j].addr = x
        <3>1. i \in Slots /\ i < len
            BY <2>1
        <3>. QED
            BY <2>1, <2>2, <3>1 DEF RollingBack
    <2>3. mem[x] = base[x] \/ \E i \in Slots : Scanned(nlog, i) /\ nlog[i].addr = x
        BY <1>1, <2>1, <2>2 DEF RollingBack
    <2>4. Uncommitted'
        BY <1>4, <2>1, <2>3
    <2>5. pc = "rollback_clear" => Agree(nvm', base, table)
        BY <1>1, <2>1 DEF RollingBack, Agree
    <2>. QED
        BY <1>2, <2>1, <2>4, <2>5 DEF RollingBack
<1>. QED
    BY <1>2, <1>5, <1>6, <1>7, <1>8, <1>9, <1>10 DEF Inv

LEMMA InvWriteBackSlot ==
    ASSUME TypeInv, Inv, NEW x \in Slots, WriteBackSlot(x)
    PROVE  Inv'
<1>1. /\ nlog[x] # ulog[x] /\ nlog'[x] = ulog[x]
      /\ \A i \in Slots : i # x => nlog'[i] = nlog[i]
    BY DEF WriteBackSlot, TypeInv, TypeOK
<1>2. /\ tail' = tail /\ ptail' = ptail /\ base' = base /\ ulog' = ulog /\ nvm' = nvm
      /\ table' = table /\ fresh' = fresh /\ modified' = modified /\ mem' = mem
      /\ regions' = regions /\ new_table' = new_table /\ len' = len /\ idx' = idx
      /\ written' = written /\ pc' = pc /\ op' = op /\ Cur' = Cur
    BY DEF WriteBackSlot, rvars, op, Cur
<1>3. ASSUME Uncommitted PROVE Uncommitted' /\ Covers(nlog', nlog)
    <2>1. OnlyEntriesOf(base, Cur, nlog')
        BY <1>1, <1>3 DEF OnlyEntriesOf, Uncommitted
    <2>2. Covers(ulog, nlog') /\ Covers(nlog', nlog)
        BY <1>1, <1>3 DEF Covers, Uncommitted
    <2>3. Restorable(nvm, nlog', table, base)
        BY <1>3, <2>1, <2>2, RestorableMore DEF Uncommitted
    <2>. QED
        BY <1>2, <1>3, <2>1, <2>2, <2>3 DEF Uncommitted
<1>4. ASSUME NEW k \in Ops, Uncommitted, LogFilled(k) PROVE LogFilled(k)'
    <2>1. written \in 0..NumEntries
        BY DEF TypeInv, TypeOK
    <2>2. Filled(nlog', written)
        BY <1>3, <1>4, <2>1 DEF Filled, Covers, LogFilled
    <2>. QED
        BY <1>2, <1>4, <2>2 DEF LogFilled
<1>5. ASSUME pc \in QuietPCs PROVE Quiet'
    BY <1>2, <1>3, <1>5 DEF Inv, Quiet
<1>6. ASSUME pc = "exec" PROVE Executing'
    <2>1. Executing /\ Uncommitted /\ op \in Ops
        BY <1>6, ExecFacts
    <2>2. LogFilled(op)'
        BY <1>2, <1>4, <2>1 DEF Executing
    <2>3. OpDone' <=> OpDone
        BY <1>2 DEF OpDone
    <2>. QED
        BY <1>2, <1>3, <2>1, <2>2, <2>3 DEF Executing
<1>7. ASSUME pc \in CommittingPCs PROVE Committing'
    <2>1. Committing /\ Uncommitted /\ tail \in Ops
        BY <1>7, CommittingFacts
    <2>2. LogFilled(tail)'
        BY <1>2, <1>4, <2>1 DEF Committing
    <2>. QED
        BY <1>2, <1>3, <2>1, <2>2 DEF Committing
<1>8. ASSUME pc \in CommittedPCs PROVE CommittedAt'
    <2>1. CommittedAt /\ CommittedOp(tail) /\ tail \in Ops
        BY <1>8, CommittedFacts
    <2>2. Len(Blk[tail]) \in Nat /\ Len(Blk[tail]) + 2 <= NumEntries
        BY <2>1, OpFacts
    <2>3. CommitRecordOf(tail, nlog')
        <3>1. ASSUME NEW i \in Slots PROVE nlog'[i] = nlog[i] \/ nlog'[i] = ulog[i]
            BY <1>1
        <3>2. CommitRecordOf(tail, nlog) /\ CommitRecordOf(tail, ulog)
            BY <2>1 DEF CommittedOp
        <3>3. ASSUME NEW i \in 0..(Len(Blk[tail]) - 1)
              PROVE  ~is_null(nlog'[i]) /\ nlog'[i].commit_tail = 0
            <4>1. i \in Slots
                BY <2>2
            <4>2. /\ ~is_null(nlog[i]) /\ nlog[i].commit_tail = 0
                  /\ ~is_null(ulog[i]) /\ ulog[i].commit_tail = 0
                BY <3>2 DEF CommitRecordOf
            <4>. QED
                BY <3>1, <4>1, <4>2
        <3>4. nlog'[Len(Blk[tail])].addr = NoAddr /\ nlog'[Len(Blk[tail])].commit_tail = tail + 1
            BY <2>2, <3>1, <3>2 DEF CommitRecordOf
        <3>5. \A i \in Slots : i > Len(Blk[tail]) => is_null(nlog'[i])
            BY <2>2, <3>1, <3>2 DEF CommitRecordOf
        <3>. QED
            BY <3>3, <3>4, <3>5 DEF CommitRecordOf
    <2>4. CommittedOp(tail)'
        BY <1>2, <2>1, <2>3 DEF CommittedOp, RenamedTable
    <2>. QED
        BY <1>2, <2>1, <2>4 DEF CommittedAt
<1>9. pc # "recover" /\ pc \notin RollbackPCs
    BY <1>1 DEF Inv, Recovering, RollingBack
<1>. QED
    BY <1>2, <1>5, <1>6, <1>7, <1>8, <1>9 DEF Inv

LEMMA InvCrash ==
    ASSUME TypeInv, Inv, SafeConditions, Crash
    PROVE  Inv'
<1>1. pc' = "recover" /\ pc # "recover" /\ tail' = ptail /\ regions' = {} /\ fresh' = {} /\ ~modified'
    BY DEF Crash
<1>2. nlog' = nlog
    <2>1. nlog' = Torn(nlog, {})
        BY DEF Crash, SafeConditions
    <2>2. nlog = [i \in Slots |-> nlog[i]]
        BY DEF TypeInv, TypeOK
    <2>. QED
        BY <2>1, <2>2 DEF Torn
<1>3. /\ ulog' = nlog' /\ ptail' = ptail /\ base' = base /\ nvm' = nvm /\ table' = table
      /\ new_table' = new_table
    BY DEF Crash
<1>4. Cur' = ptail + 1
    BY <1>1 DEF Cur, CommittingPCs
<1>5. ASSUME Uncommitted, Cur = ptail + 1 PROVE Uncommitted'
    BY <1>2, <1>3, <1>4, <1>5 DEF Uncommitted, Covers
<1>6. ASSUME NEW k \in Ops, CommittedOp(k) PROVE CommittedOp(k)'
    BY <1>2, <1>3, <1>6 DEF CommittedOp, RenamedTable
<1>7. ASSUME pc \in QuietPCs PROVE Uncommitted'
    <2>1. Quiet /\ Uncommitted
        BY <1>7 DEF Inv, Quiet
    <2>2. Cur = tail + 1
        BY <1>7 DEF Cur, QuietPCs, CommittingPCs
    <2>3. tail = ptail
        BY <1>7, <2>1 DEF Quiet, QuietPCs, Crash, SafeConditions
    <2>. QED
        BY <1>5, <2>1, <2>2, <2>3
<1>8. ASSUME pc = "exec" PROVE Uncommitted'
    <2>1. Executing /\ Uncommitted
        BY <1>8 DEF Inv, Executing
    <2>2. Cur = ptail + 1
        BY <1>8, <2>1 DEF Cur, CommittingPCs, Executing
    <2>. QED
        BY <1>5, <2>1, <2>2
<1>9. ASSUME pc \in CommittingPCs PROVE Uncommitted'
    <2>1. Committing /\ Uncommitted /\ Cur = tail /\ tail \in Ops
        BY <1>9, CommittingFacts
    <2>2. Cur = ptail + 1
        BY <2>1 DEF Committing
    <2>. QED
        BY <1>5, <2>1, <2>2
<1>10. ASSUME pc \in CommittedPCs PROVE \E k \in Ops : CommittedOp(k)'
    BY <1>6, <1>10, CommittedFacts
<1>11. ASSUME pc \in RollbackPCs PROVE Uncommitted'
    <2>1. RollingBack /\ Uncommitted /\ Cur = tail + 1
        BY <1>11, RollbackFacts
    <2>. QED
        BY <1>5, <2>1 DEF RollingBack
<1>12. \/ pc \in QuietPCs \/ pc = "exec" \/ pc \in CommittingPCs \/ pc \in CommittedPCs
       \/ pc \in RollbackPCs
    BY <1>1 DEF TypeInv, TypeOK, PCs, QuietPCs, CommittingPCs, CommittedPCs, RollbackPCs
<1>13. Uncommitted' \/ \E k \in Ops : CommittedOp(k)'
    BY <1>7, <1>8, <1>9, <1>10, <1>11, <1>12
<1>14. Recovering'
    BY <1>1, <1>3, <1>13 DEF Recovering
<1>. QED
    BY <1>1, <1>14 DEF Inv, QuietPCs, CommittingPCs, CommittedPCs, RollbackPCs

-----------------------------------------------------------------------------

\* No step of the background process, no eviction and no crash takes the state out of Inv.
LEMMA InvNext ==
    ASSUME TypeInv, Inv, SafeConditions, [Next]_vars
    PROVE  Inv'
<1>1. CASE UNCHANGED vars \/ Spin \/ Dead
    <2>1. UNCHANGED vars
        BY <1>1 DEF Spin, Dead
    <2>2. Cur' = Cur /\ op' = op /\ pc' = pc
        BY <2>1 DEF vars, Cur, op
    <2>3. (Uncommitted' <=> Uncommitted) /\ \A k \in Ops : CommittedOp(k)' <=> CommittedOp(k)
        BY <2>1, <2>2 DEF vars, Uncommitted, CommittedOp, RenamedTable
    <2>4. (Quiet' <=> Quiet) /\ (Recovering' <=> Recovering) /\ (RollingBack' <=> RollingBack)
        BY <2>1, <2>3 DEF vars, Quiet, Recovering, RollingBack
    <2>5. (Executing' <=> Executing) /\ (Committing' <=> Committing)
        BY <2>1, <2>2, <2>3 DEF vars, Executing, Committing, LogFilled, OpDone
    <2>6. CommittedAt' <=> CommittedAt
        BY <2>1 DEF vars, CommittedAt, CommittedOp, RenamedTable
    <2>. QED
        BY <2>2, <2>4, <2>5, <2>6 DEF Inv
<1>2. ASSUME NEW b \in Blocks, StoreFresh(b) PROVE Inv'
    BY <1>2, InvStoreFresh
<1>3. ASSUME NEW b \in Blocks, WriteBack(b) PROVE Inv'
    BY <1>3, InvWriteBack
<1>4. ASSUME NEW i \in Slots, WriteBackSlot(i) PROVE Inv'
    BY <1>4, InvWriteBackSlot
<1>. QED
    BY <1>1, <1>2, <1>3, <1>4, InvConsume, InvRecordBlock, InvStore, InvMmap, InvMunmap,
       InvFinishOp, InvPersistTable, InvCommitFlush, InvCommitFault, InvCommitRecord,
       InvUpdateTail, InvCommitTable, InvCleanup, InvRecoverCommitted, InvRecoverUncommitted,
       InvRollback, InvRollbackDrain, InvRecoverClear, InvResume, InvCrash
    DEF Next, Step

\* Crash consistency of the undo log (undo_log.h, instrument.cc): under SafeConditions,
\* for any operations and any number of crashes, the log, the region tables and the
\* persistent memory always allow recovery to rebuild the memory of an operation boundary.
THEOREM CrashConsistent == SafeConditions => (Spec => []Inv)
<1>. SUFFICES ASSUME SafeConditions PROVE Spec => []Inv
    OBVIOUS
<1>1. Init => TypeInv /\ Inv
    BY TypeInit, InitInv
<1>2. TypeInv /\ Inv /\ [Next]_vars => (TypeInv /\ Inv)'
    BY TypeNext, InvNext
<1>. QED
    BY <1>1, <1>2, PTL DEF Spec
=============================================================================
