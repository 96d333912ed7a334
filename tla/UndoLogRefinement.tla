------------------------- MODULE UndoLogRefinement -------------------------
(***************************************************************************)
(* What the inductive invariant of UndoLogSafety gives: the memory that a  *)
(* recovery would rebuild is `base', so that the durable state implements  *)
(* DurableStateMachine, and the assertions of the code hold.               *)
(***************************************************************************)
EXTENDS UndoLogSafety

USE ConstantsAssumption DEF Ops, Slots, Memory

-----------------------------------------------------------------------------
(* What recovery would rebuild.                                            *)

\* The scan of the persistent log reaches exactly the slots before ScanLen.
LEMMA ScannedIs ==
    ASSUME NEW log, NEW i \in Slots
    PROVE  Scanned(log, i) <=> i < ScanLen(log)
<1>1. /\ ScanLen(log) \in 0..NumEntries
      /\ \A j \in 0..(ScanLen(log) - 1) : ~is_null(log[j])
      /\ ScanLen(log) = NumEntries \/ is_null(log[ScanLen(log)])
    BY ScanStops
<1>. QED
    BY <1>1 DEF Scanned

\* Without a commit record recovery applies, for every block, its oldest entry.
LEMMA RestoredBlock ==
    ASSUME TypeInv, Uncommitted, NEW b \in table
    PROVE  DurableBlock(b) = base[b]
<1>. DEFINE hits == {i \in 0..(ScanLen(nlog) - 1) : nlog[i].addr = b}
            First(i) == \A j \in hits : i <= j
<1>1. ~DurableCommitted
    BY NoRecord DEF Uncommitted, DurableCommitted
<1>2. ScanLen(nlog) \in 0..NumEntries
    BY ScanStops
<1>3. CASE hits = {}
    <2>1. nvm[b] = base[b]
        <3>1. \A i \in Slots : ~(Scanned(nlog, i) /\ nlog[i].addr = b)
            BY <1>2, <1>3, ScannedIs
        <3>. QED
            BY <3>1 DEF Uncommitted, Restorable
    <2>. QED
        BY <1>3, <2>1 DEF DurableBlock
<1>4. CASE hits # {}
    <2>. DEFINE i == CHOOSE x \in hits : First(x)
    <2>1. \E x \in hits : First(x)
        <3>1. hits \in SUBSET Nat
            BY <1>2
        <3>. QED
            BY <1>4, <3>1, LeastElement, Zenon
    <2>2. i \in hits /\ First(i)
        <3>. HIDE DEF First, hits
        <3>. QED
            BY <2>1, Zenon
    <2>3. DurableBlock(b) = nlog[i].blk
        BY <1>1, <1>4 DEF DurableBlock
    <2>. HIDE DEF i
    <2>4. i \in Slots /\ nlog[i].addr = b /\ Scanned(nlog, i)
        BY <1>2, <2>2, ScannedIs
    <2>5. \A j \in 0..(i - 1) : nlog[j].addr # nlog[i].addr
        BY <1>2, <2>2, <2>4
    <2>6. base \in Memory /\ OnlyEntriesOf(base, Cur, nlog)
        BY DEF TypeInv, TypeOK, Uncommitted
    <2>. QED
        BY <2>3, <2>4, <2>5, <2>6, OldestEntry
<1>. QED
    BY <1>3, <1>4

\* The durable memory of an uncommitted operation is the one it started from.
LEMMA DurableBefore ==
    ASSUME TypeInv, Uncommitted
    PROVE  ~DurableCommitted /\ DurableTable = table /\ DurableMem = base
<1>1. ~DurableCommitted
    BY NoRecord DEF Uncommitted, DurableCommitted
<1>2. DurableTable = table
    BY <1>1 DEF DurableTable
<1>3. ASSUME NEW b \in Blocks
      PROVE  (IF b \in DurableTable THEN DurableBlock(b) ELSE Zero) = base[b]
    BY <1>2, RestoredBlock DEF Uncommitted, ZeroOutside
<1>4. base = [b \in Blocks |-> base[b]]
    BY DEF TypeInv, TypeOK
<1>5. DurableMem = [b \in Blocks |-> base[b]]
    BY <1>3 DEF DurableMem
<1>. QED
    BY <1>1, <1>2, <1>4, <1>5

\* That of a committed one is the one it left.
LEMMA DurableAfter ==
    ASSUME TypeInv, NEW k \in Ops, CommittedOp(k)
    PROVE  /\ DurableCommitted /\ DurableTable = Managed[k] /\ DurableMem = base
           /\ DurableTail = k
<1>1. DurableCommitted /\ RecoveredTail(nlog, ScanLen(nlog)) = k
    BY RecordFound DEF CommittedOp, DurableCommitted
<1>2. DurableTable = Managed[k]
    BY <1>1 DEF DurableTable, CommittedOp
<1>3. ASSUME NEW b \in Blocks
      PROVE  (IF b \in DurableTable THEN DurableBlock(b) ELSE Zero) = base[b]
    BY <1>1, <1>2 DEF DurableBlock, CommittedOp, ZeroOutside, Agree
<1>4. base = [b \in Blocks |-> base[b]]
    BY DEF TypeInv, TypeOK
<1>5. DurableMem = [b \in Blocks |-> base[b]]
    BY <1>3 DEF DurableMem
<1>. QED
    BY <1>1, <1>2, <1>4, <1>5 DEF DurableTail

\* The durable memory is base; the durable tail is the tail, or the one before while an
\* operation is committing, or the one a commit record holds.
DurableValues ==
    /\ DurableMem = base /\ DurableTail \in 0..NumOps
    /\ pc \in CommittingPCs => DurableTail = tail - 1
    /\ pc \notin CommittingPCs \cup {"recover"} => DurableTail = tail
    /\ pc = "recover" => DurableTail = IF Committed(ulog, ScanLen(ulog))
                                       THEN RecoveredTail(ulog, ScanLen(ulog)) ELSE tail

\* They are so at every program point.
LEMMA DurableIs == TypeInv /\ Inv => DurableValues
<1>. SUFFICES ASSUME TypeInv, Inv PROVE DurableValues
    OBVIOUS
<1>. USE DEF DurableValues
<1>1. pc \in PCs /\ tail \in 0..NumOps /\ ptail \in 0..NumOps
    BY DEF TypeInv, TypeOK
<1>2. CASE pc \in QuietPCs
    <2>1. Quiet
        BY <1>2 DEF Inv
    <2>. QED
        BY <1>1, <1>2, <2>1, DurableBefore DEF Quiet, QuietPCs, CommittingPCs, DurableTail
<1>3. CASE pc = "exec"
    BY <1>1, <1>3, DurableBefore DEF Inv, Executing, CommittingPCs, DurableTail
<1>4. CASE pc \in CommittingPCs
    <2>1. Committing
        BY <1>4 DEF Inv
    <2>. QED
        BY <1>1, <1>4, <2>1, DurableBefore DEF Committing, CommittingPCs, DurableTail
<1>5. CASE pc \in CommittedPCs
    <2>1. CommittedOp(tail) /\ tail \in Ops
        BY <1>5, CommittedFacts
    <2>. QED
        BY <1>1, <1>5, <2>1, DurableAfter DEF CommittedPCs, CommittingPCs
<1>6. CASE pc \in RollbackPCs
    <2>1. RollingBack
        BY <1>6 DEF Inv
    <2>. QED
        BY <1>1, <1>6, <2>1, DurableBefore DEF RollingBack, RollbackPCs, CommittingPCs, DurableTail
<1>7. CASE pc = "recover"
    <2>1. Recovering
        BY <1>7 DEF Inv
    <2>2. CASE Uncommitted
        BY <1>1, <1>7, <2>1, <2>2, DurableBefore
        DEF Recovering, CommittingPCs, DurableTail, DurableCommitted
    <2>3. CASE \E k \in Ops : CommittedOp(k)
        <3>1. PICK k \in Ops : CommittedOp(k)
            BY <2>3
        <3>2. Committed(ulog, ScanLen(ulog)) /\ RecoveredTail(ulog, ScanLen(ulog)) = k
            BY <3>1, RecordFound DEF CommittedOp
        <3>. QED
            BY <1>7, <3>1, <3>2, DurableAfter DEF CommittingPCs
    <2>. QED
        BY <2>1, <2>2, <2>3 DEF Recovering
<1>. QED
    BY <1>1, <1>2, <1>3, <1>4, <1>5, <1>6, <1>7
    DEF PCs, QuietPCs, CommittingPCs, CommittedPCs, RollbackPCs

-----------------------------------------------------------------------------
(* Every step of the background process, of the caches and of a crash is a *)
(* step of DurableStateMachine or leaves its state alone.                  *)

\* The only step that moves the durable state is the one that makes a commit record
\* persistent.
LEMMA DurableStep ==
    ASSUME TypeInv, Inv, TypeInv', Inv', SafeConditions, [Next]_vars
    PROVE  \/ DurableMem' = DurableMem /\ DurableTail' = DurableTail
           \/ /\ DurableTail < NumOps /\ DurableTail' = DurableTail + 1
              /\ DurableMem' = Exec(DurableTail + 1, DurableMem)
<1>. DEFINE Same == DurableMem' = DurableMem /\ DurableTail' = DurableTail
<1>1. DurableValues /\ DurableValues'
    <2>1. (TypeInv /\ Inv)' => DurableValues'
        BY DurableIs, PTL
    <2>. QED
        BY <2>1, DurableIs
<1>2. /\ DurableMem = base /\ DurableMem' = base'
      /\ pc \in CommittingPCs => DurableTail = tail - 1
      /\ pc \notin CommittingPCs \cup {"recover"} => DurableTail = tail
      /\ pc' \in CommittingPCs => DurableTail' = tail' - 1
      /\ pc' \notin CommittingPCs \cup {"recover"} => DurableTail' = tail'
    BY <1>1 DEF DurableValues
<1>3. tail \in 0..NumOps /\ tail' \in 0..NumOps
    BY DEF TypeInv, TypeOK
<1>4. CASE CommitRecord
    <2>1. pc = "commit_record" /\ pc' = "update_tail" /\ tail' = tail /\ base' = mem
        BY <1>4 DEF CommitRecord
    <2>2. Committing /\ tail \in Ops
        BY <2>1, CommittingFacts DEF CommittingPCs
    <2>. QED
        BY <1>1, <1>2, <2>1, <2>2 DEF Committing, CommittingPCs
<1>5. ASSUME base' = base, tail' = tail, pc \notin CommittingPCs \cup {"recover"},
             pc' \notin CommittingPCs \cup {"recover"}
      PROVE  Same
    BY <1>1, <1>2, <1>5
<1>6. ASSUME base' = base, tail' = tail, pc \in CommittingPCs, pc' \in CommittingPCs
      PROVE  Same
    BY <1>1, <1>2, <1>6
<1>7. CASE Consume
    <2>1. base' = base
        BY <1>7 DEF Consume, Inv, QuietPCs, Quiet
    <2>. QED
        BY <1>5, <1>7, <2>1 DEF Consume, CommittingPCs
<1>8. CASE FinishOp
    BY <1>1, <1>2, <1>3, <1>8 DEF FinishOp, CommittingPCs
<1>9. CASE PersistTable \/ CommitFlush \/ CommitFault
    BY <1>6, <1>9 DEF PersistTable, CommitFlush, CommitFault, CommittingPCs
<1>10. CASE RecoverCommitted \/ RecoverUncommitted
    BY <1>1, <1>2, <1>10 DEF DurableValues, RecoverCommitted, RecoverUncommitted, CommittingPCs
<1>11. CASE Crash
    <2>1. nlog' = nlog
        <3>1. nlog' = Torn(nlog, {})
            BY <1>11 DEF Crash, SafeConditions
        <3>2. nlog = [i \in Slots |-> nlog[i]]
            BY DEF TypeInv, TypeOK
        <3>. QED
            BY <3>1, <3>2 DEF Torn
    <2>2. pc' = "recover" /\ ptail' = ptail /\ base' = base /\ (pc = "resume" => tail = ptail)
        BY <1>11 DEF Crash, SafeConditions
    <2>. QED
        BY <1>1, <1>2, <2>1, <2>2 DEF DurableTail, DurableCommitted
<1>12. CASE \/ RecordBlock \/ Store \/ Mmap \/ Munmap
            \/ \E b \in Blocks : StoreFresh(b)
    BY <1>5, <1>12 DEF RecordBlock, Store, Mmap, Munmap, StoreFresh, vars, CommittingPCs
<1>13. CASE \/ UpdateTail \/ CommitTable \/ Cleanup \/ Rollback \/ RollbackDrain
            \/ RecoverClear \/ Resume
    BY <1>5, <1>13 DEF UpdateTail, CommitTable, Cleanup, Rollback, RollbackDrain, RecoverClear,
                       Resume, CommittingPCs
<1>14. ASSUME base' = base, tail' = tail, pc' = pc, ulog' = ulog
       PROVE  Same
    <2>1. CASE pc # "recover"
        BY <1>5, <1>6, <1>14, <2>1
    <2>2. CASE pc = "recover"
        BY <1>1, <1>14, <2>2 DEF DurableValues
    <2>. QED
        BY <2>1, <2>2
<1>15. CASE \/ \E b \in Blocks : WriteBack(b)
            \/ \E i \in Slots : WriteBackSlot(i)
            \/ Spin \/ Dead \/ UNCHANGED vars
    BY <1>14, <1>15 DEF WriteBack, WriteBackSlot, Spin, Dead, vars
<1>. QED
    BY <1>4, <1>7, <1>8, <1>9, <1>10, <1>11, <1>12, <1>13, <1>15 DEF Next, Step

\* Persimmon implements a durable state machine (undo_log.h, psm/common.h): under
\* SafeConditions, for any operations, crashes and cache evictions, the state recovery
\* would rebuild goes from the result of one operation to that of the next, each exactly
\* once and atomically.
THEOREM Refinement == SafeConditions => (Spec => Refines)
<1>. SUFFICES ASSUME SafeConditions PROVE Spec => Refines
    OBVIOUS
<1>1. Init => TypeInv /\ Inv
    BY TypeInit, InitInv
<1>2. TypeInv /\ Inv /\ [Next]_vars => (TypeInv /\ Inv)'
    BY TypeNext, InvNext
<1>3. Init => DSM!Init
    <2>1. Init => DurableValues
        BY <1>1, DurableIs
    <2>. QED
        BY <2>1 DEF Init, DSM!Init, DurableValues, CommittingPCs
<1>4. TypeInv /\ Inv /\ TypeInv' /\ Inv' /\ [Next]_vars => [DSM!Next]_DSM!dvars
    <2>. SUFFICES ASSUME TypeInv, Inv, TypeInv', Inv', [Next]_vars
                  PROVE  [DSM!Next]_DSM!dvars
        OBVIOUS
    <2>1. \/ DurableMem' = DurableMem /\ DurableTail' = DurableTail
          \/ /\ DurableTail < NumOps /\ DurableTail' = DurableTail + 1
             /\ DurableMem' = Exec(DurableTail + 1, DurableMem)
        BY DurableStep
    <2>. QED
        BY <2>1 DEF DSM!Next, DSM!Execute, DSM!dvars
<1>. QED
    BY <1>1, <1>2, <1>3, <1>4, PTL DEF Spec, Refines, DSM!Spec

\* No durable effect is lost, repeated or changed afterwards (undo_log.h:309).
THEOREM NothingLost == SafeConditions => (Spec => CommittedStays)
<1>. SUFFICES ASSUME SafeConditions PROVE Spec => CommittedStays
    OBVIOUS
<1>. DEFINE Kept == /\ DurableTail' >= DurableTail
                    /\ DurableTail' = DurableTail => DurableMem' = DurableMem
<1>1. Init => TypeInv /\ Inv
    BY TypeInit, InitInv
<1>2. TypeInv /\ Inv /\ [Next]_vars => (TypeInv /\ Inv)'
    BY TypeNext, InvNext
<1>3. TypeInv /\ Inv /\ TypeInv' /\ Inv' /\ [Next]_vars => [Kept]_<<DurableMem, DurableTail>>
    <2>. SUFFICES ASSUME TypeInv, Inv, TypeInv', Inv', [Next]_vars PROVE Kept
        OBVIOUS
    <2>1. DurableTail \in Nat
        BY DurableIs DEF DurableValues
    <2>. QED
        BY <2>1, DurableStep
<1>. QED
    BY <1>1, <1>2, <1>3, PTL DEF Spec, CommittedStays

-----------------------------------------------------------------------------
(* State properties.                                                       *)

\* The code's assertions follow from the invariant.
LEMMA AssertionsFollow == TypeInv /\ Inv => AssertionsHold
<1>. SUFFICES ASSUME TypeInv, Inv PROVE AssertionsHold
    OBVIOUS
<1>1. ASSUME pc = "recover", NEW i \in 0..(ScanLen(ulog) - 1), ulog[i].commit_tail > 0
      PROVE  ulog[i].addr = NoAddr
    <2>1. CASE Uncommitted
        BY <1>1, <2>1, NoRecord DEF Uncommitted
    <2>2. CASE \E k \in Ops : CommittedOp(k)
        <3>1. PICK k \in Ops : CommittedOp(k)
            BY <2>2
        <3>2. CommitRecordOf(k, ulog) /\ ScanLen(ulog) = Len(Blk[k]) + 1
            BY <3>1, RecordFound DEF CommittedOp
        <3>3. Len(Blk[k]) \in Nat
            BY OpFacts
        <3>4. i \in 0..(Len(Blk[k]) - 1) \/ i = Len(Blk[k])
            BY <3>2, <3>3
        <3>. QED
            BY <1>1, <3>2, <3>4 DEF CommitRecordOf
    <2>. QED
        BY <1>1, <2>1, <2>2 DEF Inv, Recovering
<1>2. ASSUME pc = "rollback", idx > 0 PROVE Applicable(ulog[idx - 1])
    <2>1. /\ RollingBack /\ Uncommitted /\ Cur - 1 = tail /\ ulog = nlog
          /\ regions = table /\ table = Managed[tail]
          /\ idx \in 0..len /\ len \in 0..NumEntries
        BY <1>2, RollbackFacts DEF RollbackPCs
    <2>2. idx - 1 \in Slots /\ idx - 1 < len
        BY <1>2, <2>1
    <2>3. ~is_null(ulog[idx - 1])
        BY <2>1, <2>2 DEF RollingBack, Scanned
    <2>4. ulog[idx - 1].commit_tail = 0 /\ ulog[idx - 1].addr \in Managed[Cur - 1]
        BY <2>1, <2>2, <2>3, UsedSlot DEF Uncommitted
    <2>. QED
        BY <2>1, <2>4 DEF Applicable
<1>3. ASSUME pc = "commit_record" PROVE len + 1 < NumEntries
    <2>1. Committing /\ tail \in Ops
        BY <1>3, CommittingFacts DEF CommittingPCs
    <2>2. Len(Blk[tail]) \in Nat /\ Len(Blk[tail]) + 2 <= NumEntries
        BY <2>1, OpFacts
    <2>. QED
        BY <2>1, <2>2 DEF Committing
<1>4. ASSUME pc = "cleanup" PROVE len > 0 /\ ulog[len - 1].commit_tail > 0
    <2>1. CommittedAt /\ CommitRecordOf(tail, ulog) /\ tail \in Ops
        BY <1>4, CommittedFacts DEF CommittedPCs
    <2>2. Len(Blk[tail]) \in Nat /\ len = Len(Blk[tail]) + 1
        BY <2>1, OpFacts DEF CommittedAt
    <2>3. len - 1 = Len(Blk[tail])
        BY <2>2
    <2>. QED
        BY <2>1, <2>2, <2>3 DEF CommitRecordOf
<1>. QED
    BY <1>1, <1>2, <1>3, <1>4 DEF AssertionsHold

\* Agreement while waiting follows from the invariant.
LEMMA QuiescenceFollows == TypeInv /\ Inv => QuiescentAgrees
<1>. SUFFICES ASSUME TypeInv, Inv, pc = "consume"
              PROVE  mem = DurableMem /\ tail = DurableTail /\ regions = DurableTable
    BY DEF QuiescentAgrees
<1>1. Quiet
    BY DEF Inv, QuietPCs
<1>. QED
    BY <1>1, DurableBefore DEF Quiet, DurableTail

\* In undo mode recovery never aborts and a restart always finds what the process left
\* (undo_log.h, instrument.cc, bg.cc): under SafeConditions no assertion on the undo log
\* fails, a waiting process agrees with what recovery would rebuild, and
\* persist_new_region_table never meets an old new_table.dat.
THEOREM SafeStates == SafeConditions => (Spec => [](AssertionsHold /\ QuiescentAgrees /\ NoStaleNewTable))
<1>. SUFFICES ASSUME SafeConditions
              PROVE  Spec => [](AssertionsHold /\ QuiescentAgrees /\ NoStaleNewTable)
    OBVIOUS
<1>1. Init => TypeInv /\ Inv
    BY TypeInit, InitInv
<1>2. TypeInv /\ Inv /\ [Next]_vars => (TypeInv /\ Inv)'
    BY TypeNext, InvNext
<1>3. TypeInv /\ Inv => NoStaleNewTable
    BY DEF NoStaleNewTable, Inv, CommittingPCs, Committing
<1>. QED
    BY <1>1, <1>2, <1>3, AssertionsFollow, QuiescenceFollows, PTL DEF Spec

\* While _bg_consume polls, memory and regions as the background process sees them are
\* what a recovery would rebuild: nothing is left unflushed by a commit.
THEOREM WaitingAgrees == SafeConditions => (Spec => []QuiescentAgrees)
<1>. SUFFICES ASSUME SafeConditions
              PROVE  Spec => []QuiescentAgrees
    OBVIOUS
<1>1. Spec => [](AssertionsHold /\ QuiescentAgrees /\ NoStaleNewTable)
    BY SafeStates
<1>. QED
    BY <1>1, PTL

\* persist_new_region_table never meets a new_table.dat that a crash has left behind, so that
\* opening it without O_TRUNC does no harm.
THEOREM NewTableFresh == SafeConditions => (Spec => []NoStaleNewTable)
<1>. SUFFICES ASSUME SafeConditions
              PROVE  Spec => []NoStaleNewTable
    OBVIOUS
<1>1. Spec => [](AssertionsHold /\ QuiescentAgrees /\ NoStaleNewTable)
    BY SafeStates
<1>. QED
    BY <1>1, PTL

\* undo_log_commit (undo_log.h:257) faults only in an operation that unmaps memory it has
\* stored to: under SafeConditions the entries it flushes are those of this operation, and
\* its fresh regions are mapped, whatever crashes came before.
THEOREM FaultOnlyIfFatal == SafeConditions => (Spec => []DeadOnlyIfFatal)
<1>. SUFFICES ASSUME SafeConditions PROVE Spec => []DeadOnlyIfFatal
    OBVIOUS
<1>1. Init => TypeInv /\ Inv /\ DeadOnlyIfFatal
    BY TypeInit, InitInv DEF Init, DeadOnlyIfFatal
<1>2. TypeInv /\ Inv /\ [Next]_vars => (TypeInv /\ Inv)'
    BY TypeNext, InvNext
<1>3. ASSUME TypeInv, Inv, CommitFault PROVE Fatal(tail)
    <2>1. Committing /\ Uncommitted /\ Cur = tail /\ tail \in Ops
        BY <1>3, CommittingFacts DEF CommitFault, CommittingPCs
    <2>2. Len(Blk[tail]) \in Nat /\ Len(Blk[tail]) + 2 <= NumEntries /\ len = Len(Blk[tail])
        BY <2>1, OpFacts DEF Committing
    <2>3. fresh \subseteq regions
        BY <2>1 DEF Committing, Fresh
    <2>4. PICK i \in 0..(len - 1) : ulog[i].addr \notin regions
        BY <1>3, <2>3 DEF CommitFault, ToFlush
    <2>5. i \in Slots /\ ~is_null(ulog[i])
        BY <2>1, <2>2 DEF Committing, LogFilled, Filled
    <2>6. i + 1 \in 1..Len(Blk[tail]) /\ ulog[i].addr = Blk[tail][i + 1]
        BY <2>1, <2>2, <2>5, UsedSlot DEF Uncommitted
    <2>7. Blk[tail][i + 1] \in Managed[tail - 1]
        BY <2>1, <2>6, OperationsAssumption
    <2>8. Blk[tail][i + 1] \notin Managed[tail]
        BY <2>1, <2>4, <2>6 DEF Committing
    <2>. QED
        BY <2>6, <2>7, <2>8 DEF Fatal, Unmap
<1>4. ASSUME pc' = "dead", [Next]_vars, ~CommitFault PROVE pc = "dead" /\ tail' = tail
    <2>1. CASE Step
        BY <1>4, <2>1 DEF Step, Consume, Spin, RecordBlock, Store, Mmap, Munmap, FinishOp, StoreFresh,
           PersistTable, CommitFlush, Dead, CommitRecord, UpdateTail, CommitTable, Cleanup,
           RecoverCommitted, RecoverUncommitted, Rollback, RollbackDrain, RecoverClear,
           Resume, vars
    <2>2. CASE ~Step
        BY <1>4, <2>2 DEF Next, WriteBack, WriteBackSlot, Crash, vars
    <2>. QED
        BY <2>1, <2>2
<1>5. TypeInv /\ Inv /\ DeadOnlyIfFatal /\ [Next]_vars => DeadOnlyIfFatal'
    <2>. SUFFICES ASSUME TypeInv, Inv, DeadOnlyIfFatal, [Next]_vars, pc' = "dead"
                  PROVE  Fatal(tail)'
        BY DEF DeadOnlyIfFatal
    <2>1. CASE CommitFault
        <3>1. tail' = tail
            BY <2>1 DEF CommitFault
        <3>. QED
            BY <1>3, <2>1, <3>1 DEF Fatal, Unmap
    <2>2. CASE ~CommitFault
        <3>1. pc = "dead" /\ tail' = tail
            BY <1>4, <2>2
        <3>. QED
            BY <3>1 DEF DeadOnlyIfFatal, Fatal, Unmap
    <2>. QED
        BY <2>1, <2>2
<1>. QED
    BY <1>1, <1>2, <1>5, PTL DEF Spec
=============================================================================
