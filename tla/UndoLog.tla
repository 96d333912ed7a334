------------------------------ MODULE UndoLog ------------------------------
(***************************************************************************)
(* The background process of Persimmon in PSM_MODE_UNDO.  It takes one     *)
(* operation after the other from the operation log and executes it on     *)
(* application memory that lives in persistent-memory files.  Before each  *)
(* store the instrumentation saves the old content of every 32-byte block  *)
(* the store touches in the undo log (undo_log_record).  After the         *)
(* operation the written blocks are flushed, a commit record carrying the  *)
(* new tail is appended, the operation log's tail is persisted, a new      *)
(* region table replaces the old one and the undo log is zeroed.  After a  *)
(* crash undo_log_recover either honours the commit record or rolls the    *)
(* half-executed operation back.                                           *)
(*                                                                         *)
(* Every datum exists twice: as the processor sees it (mem, ulog) and as   *)
(* it is in persistent memory (nvm, nlog).  A cache line may be written    *)
(* back at any moment (WriteBack, WriteBackSlot); a flush followed by      *)
(* pmem_drain forces it.  A crash keeps the persistent half only.          *)
(*                                                                         *)
(* Abstractions.  An operation is known by the undo entries it appends     *)
(* (Blk), the points between two of its stores (Cut) and its effect        *)
(* (Image, FreshImage), which re-execution from the same memory repeats:   *)
(* operations are deterministic.  A position in the operation log is the   *)
(* number of operations before it.  A block stands for the same block of   *)
(* the same region file, a region for the blocks it holds; memory outside  *)
(* every region reads Zero.  The operation log itself, with its producer,  *)
(* is in module PsmLog; the ranges that fresh_regions is, in Ranges.       *)
(*                                                                         *)
(* A definition X_Slip is X with a plausible slip, kept to show that the   *)
(* properties notice it.                                                   *)
(***************************************************************************)
EXTENDS Integers, Sequences, FiniteSets

CONSTANTS
    Blocks,             \* 32-byte blocks of application memory
    Val,                \* contents of a block
    Zero,               \* an all-zero block
    NoAddr,             \* the null address of an unused entry or a commit record
    NumOps,             \* operations in the operation log
    Blk,                \* Blk[k]: the blocks whose undo entries operation k appends, in order
    Cut,                \* Cut[k]: the entry counts at which a call of undo_log_record returns
    Image(_, _, _),     \* Image(k, m, n): memory m after the stores behind operation k's first n entries
    FreshImage(_, _, _),\* FreshImage(k, m, b): what operation k leaves in a block b that it mapped
    Managed,            \* Managed[k]: the blocks of all regions after k operations
    InitMem,            \* memory in the initial checkpoint
    NumEntries,         \* UNDO_NUM_ENTRIES
    ClearTears,         \* may a crash interrupt undo_log_clear between its non-temporal stores?
    CrashInHandoff,     \* may a crash hit after recovery erased a commit record and
                        \* before bg_run has persisted the tail taken from it?
    MaxCrashes          \* bound of the model

Ops    == 1..NumOps
Slots  == 0..(NumEntries - 1)
Memory == [Blocks -> Val]

NoTable == {NoAddr}  \* no set of blocks: there is no new_table.dat

\* Blocks operation k maps (event_post_syscall) and unmaps (event_pre_syscall).
Fresh(k) == Managed[k] \ Managed[k - 1]
Unmap(k) == Managed[k - 1] \ Managed[k]

ASSUME ConstantsAssumption ==
    /\ Zero \in Val
    /\ NoAddr \notin Blocks
    /\ NumOps \in Nat
    /\ NumEntries \in Nat
    /\ MaxCrashes \in Nat
    /\ ClearTears \in BOOLEAN
    /\ CrashInHandoff \in BOOLEAN
    /\ Managed \in [0..NumOps -> SUBSET Blocks]
    /\ InitMem \in Memory
    /\ \A b \in Blocks \ Managed[0] : InitMem[b] = Zero

\* The log never fills (nothing checks that it does not when OPTIMIZED is 1), and
\* entries are made for managed blocks only.
ASSUME OperationsAssumption ==
    /\ Blk \in [Ops -> Seq(Blocks)]
    /\ Cut \in [Ops -> SUBSET Nat]
    /\ \A k \in Ops :
         /\ Len(Blk[k]) + 2 <= NumEntries
         /\ {0, Len(Blk[k])} \subseteq Cut[k]
         /\ Cut[k] \subseteq 0..Len(Blk[k])
         /\ \A i \in 1..Len(Blk[k]) : Blk[k][i] \in Managed[k - 1]

\* Stores touch the blocks that were logged for them, and nothing else.
ASSUME ImageAssumption ==
    \A k \in Ops : \A m \in Memory :
        /\ Image(k, m, 0) = m
        /\ \A b \in Blocks : FreshImage(k, m, b) \in Val
        /\ \A n \in Cut[k] : Image(k, m, n) \in Memory
        /\ \A c, d \in Cut[k] : \A b \in Blocks :
             c <= d /\ (\A i \in (c + 1)..d : Blk[k][i] # b)
                => Image(k, m, d)[b] = Image(k, m, c)[b]

VARIABLES
    \* In persistent memory.
    nvm,        \* the region files
    nlog,       \* the undo log file
    ptail,      \* psm_log.tail
    table,      \* table.dat: the blocks of the committed regions
    new_table,  \* new_table.dat, or NoTable
    \* Lost in a crash.
    mem,        \* application memory as the processor sees it
    ulog,       \* the undo log as the processor sees it
    len,        \* undo_log.len
    tail,       \* the consumer's tail
    regions,    \* mem_region_manager.regions
    fresh,      \* undo_log.fresh_regions
    modified,   \* region_table_modified
    idx,        \* the rollback loop's i
    pc,         \* where the background process is
    \* Bookkeeping of the model.
    base,       \* memory at the start of the current operation or at its commit
    written,    \* how many entries' stores have executed
    crashes

pvars == <<nvm, nlog, ptail, table, new_table>>
rvars == <<regions, fresh, modified>>
vars  == <<nvm, nlog, ptail, table, new_table, mem, ulog, len, tail,
           regions, fresh, modified, idx, pc, base, written, crashes>>

PCs == {"consume", "exec", "persist_table", "commit", "commit_record",
        "update_tail", "commit_table", "cleanup",
        "recover", "rollback", "rollback_clear", "recover_clear", "resume", "dead"}

\* The calls of undo_log_clear.
ClearPCs == {"cleanup", "rollback_clear", "recover_clear"}

Entry == [addr : Blocks \cup {NoAddr}, blk : Val, commit_tail : 0..(NumOps + 1)]

NullEntry == [addr |-> NoAddr, blk |-> Zero, commit_tail |-> 0]

\* undo_log_entry::is_null
is_null(e) == e.addr = NoAddr /\ e.commit_tail = 0

\* undo_log_init(recovered): the entries before the first null one.
ScanLen(log) ==
    CHOOSE n \in 0..NumEntries :
        /\ \A i \in 0..(n - 1) : ~is_null(log[i])
        /\ n = NumEntries \/ is_null(log[n])

\* undo_log_recover: is the last entry a commit record?
Committed(log, n) == n > 0 /\ log[n - 1].commit_tail > 0

\* The tail in a commit record.
RecoveredTail(log, n) == log[n - 1].commit_tail - 1

\* The table recovery maps: commit_new_region_table renames a new table if there
\* is one, clear_new_region_table discards it.
RenamedTable == IF new_table = NoTable THEN table ELSE new_table

op == tail + 1  \* the operation in execution

OpDone == /\ len = Len(Blk[op]) /\ written = len
          /\ \A b \in Fresh(op) : b \in regions /\ mem[b] = FreshImage(op, base, b)

Init ==
    /\ nvm = InitMem /\ mem = InitMem /\ base = InitMem
    /\ nlog = [i \in Slots |-> NullEntry] /\ ulog = nlog
    /\ len = 0 /\ ptail = 0 /\ tail = 0
    /\ table = Managed[0] /\ regions = table /\ new_table = NoTable
    /\ fresh = {} /\ modified = FALSE
    /\ idx = 0 /\ written = 0 /\ crashes = 0
    /\ pc = "consume"

-----------------------------------------------------------------------------
(* Execution of an operation.                                              *)

\* consume() finds an operation at tail and calls consume_func.
Consume ==
    /\ pc = "consume" /\ tail < NumOps
    /\ pc' = "exec" /\ base' = mem /\ written' = 0
    /\ UNCHANGED <<pvars, rvars, mem, ulog, len, tail, idx, crashes>>

\* The loop of _bg_consume while the operation log is empty: the producer (PsmLog) decides
\* when the next operation appears.
Spin == pc = "consume" /\ UNCHANGED vars

\* One iteration of undo_log_record: the old block goes to the next slot.
RecordBlock ==
    /\ pc = "exec" /\ len < Len(Blk[op])
    /\ len \in Cut[op] => len = written
    /\ LET p == Blk[op][len + 1]
       IN  ulog' = [ulog EXCEPT ![len] = [addr |-> p, blk |-> mem[p], commit_tail |-> 0]]
    /\ len' = len + 1
    /\ UNCHANGED <<pvars, rvars, mem, tail, idx, pc, base, written, crashes>>

\* pmem_drain at the end of undo_log_record: the entries so far are persistent.
Drained_NotYet == nlog
Drained == [i \in Slots |-> IF i < len THEN ulog[i] ELSE nlog[i]]

\* undo_log_record returns and the instrumented store executes.
Store ==
    /\ pc = "exec" /\ len \in Cut[op] /\ len > written
    /\ nlog' = Drained
    /\ mem' = [b \in Blocks |-> IF b \in Fresh(op) THEN mem[b] ELSE Image(op, base, len)[b]]
    /\ written' = len
    /\ UNCHANGED <<nvm, ptail, table, new_table, rvars, ulog, len, tail, idx, pc, base, crashes>>

\* Blocks without content: persist_region copies the zeroed pages of a new mapping to its
\* file, and unmapped memory reads Zero in this model.
Zeroed(m, bs) == [b \in Blocks |-> IF b \in bs THEN Zero ELSE m[b]]

Mmap_FlagNotSet ==
    /\ pc = "exec" /\ Fresh(op) # {} /\ Fresh(op) \cap regions = {}
    /\ mem' = Zeroed(mem, Fresh(op)) /\ nvm' = Zeroed(nvm, Fresh(op))
    /\ regions' = regions \cup Fresh(op)
    /\ fresh' = fresh \cup Fresh(op)
    /\ UNCHANGED <<modified, nlog, ptail, table, new_table, ulog, len, tail, idx, pc, base, written, crashes>>

\* event_post_syscall of mmap: replace_region persists zeroed files for the new
\* region, undo_log_record_fresh_region exempts it from logging.
Mmap ==
    /\ pc = "exec" /\ Fresh(op) # {} /\ Fresh(op) \cap regions = {}
    /\ mem' = Zeroed(mem, Fresh(op)) /\ nvm' = Zeroed(nvm, Fresh(op))
    /\ regions' = regions \cup Fresh(op)
    /\ fresh' = fresh \cup Fresh(op)
    /\ modified' = TRUE
    /\ UNCHANGED <<nlog, ptail, table, new_table, ulog, len, tail, idx, pc, base, written, crashes>>

\* A store into a fresh region: undo_log_record returns at once.
StoreFresh(b) ==
    /\ pc = "exec" /\ b \in fresh
    /\ mem[b] # FreshImage(op, base, b)
    /\ mem' = [mem EXCEPT ![b] = FreshImage(op, base, b)]
    /\ UNCHANGED <<pvars, rvars, ulog, len, tail, idx, pc, base, written, crashes>>

\* event_pre_syscall of munmap, after the operation's last store: fresh_regions
\* loses every range (ranges::remove keeps only what is left of the range it
\* cuts), remove_region unmaps and forgets the region.  Its file stays.
Munmap ==
    /\ pc = "exec" /\ Unmap(op) \cap regions # {} /\ OpDone
    /\ fresh' = {}
    /\ regions' = regions \ Unmap(op)
    /\ mem' = Zeroed(mem, Unmap(op))
    /\ modified' = TRUE
    /\ UNCHANGED <<pvars, ulog, len, tail, idx, pc, base, written, crashes>>

\* consume_func returns and consume() advances the local tail.
FinishOp ==
    /\ pc = "exec" /\ OpDone /\ Unmap(op) \cap regions = {}
    /\ tail' = tail + 1
    /\ pc' = "persist_table"
    /\ UNCHANGED <<pvars, rvars, mem, ulog, len, idx, base, written, crashes>>

-----------------------------------------------------------------------------
(* Commit: instrument_commit, update_tail, instrument_cleanup.             *)

PersistTable ==
    /\ pc = "persist_table"
    /\ new_table' = IF modified THEN regions ELSE new_table
    /\ pc' = "commit"
    /\ UNCHANGED <<nvm, nlog, ptail, table, rvars, mem, ulog, len, tail, idx, base, written, crashes>>

\* The blocks undo_log_commit flushes before it drains.
ToFlush_LoggedOnly == {ulog[i].addr : i \in 0..(len - 1)}
ToFlush == {ulog[i].addr : i \in 0..(len - 1)} \cup fresh

CommitFlush ==
    /\ pc = "commit" /\ ToFlush \subseteq regions
    /\ nvm' = [b \in Blocks |-> IF b \in ToFlush THEN mem[b] ELSE nvm[b]]
    /\ pc' = "commit_record"
    /\ UNCHANGED <<nlog, ptail, table, new_table, rvars, mem, ulog, len, tail, idx, base, written, crashes>>

\* undo_log_commit flushes every logged block, also one that the operation has unmapped
\* since: clwb of an unmapped address faults and the background process dies.
CommitFault ==
    /\ pc = "commit" /\ ~(ToFlush \subseteq regions)
    /\ pc' = "dead"
    /\ UNCHANGED <<pvars, rvars, mem, ulog, len, tail, idx, base, written, crashes>>

\* Dead until the next restart, which is a Crash.
Dead == pc = "dead" /\ UNCHANGED vars

CommitRecord ==
    /\ pc = "commit_record"
    /\ ulog' = [ulog EXCEPT ![len].addr = NoAddr, ![len].commit_tail = tail + 1]
    /\ nlog' = [nlog EXCEPT ![len] = ulog'[len]]
    /\ len' = len + 1
    /\ base' = mem
    /\ pc' = "update_tail"
    /\ UNCHANGED <<nvm, ptail, table, new_table, rvars, mem, tail, idx, written, crashes>>

UpdateTail ==
    /\ pc = "update_tail"
    /\ ptail' = tail
    /\ pc' = "commit_table"
    /\ UNCHANGED <<nvm, nlog, table, new_table, rvars, mem, ulog, len, tail, idx, base, written, crashes>>

CommitTable ==
    /\ pc = "commit_table"
    /\ table' = IF modified THEN RenamedTable ELSE table
    /\ new_table' = IF modified THEN NoTable ELSE new_table
    /\ pc' = "cleanup"
    /\ UNCHANGED <<nvm, nlog, ptail, rvars, mem, ulog, len, tail, idx, base, written, crashes>>

Clear_LenKept ==
    /\ ulog' = [i \in Slots |-> IF i < len THEN NullEntry ELSE ulog[i]]
    /\ nlog' = [i \in Slots |-> IF i < len THEN NullEntry ELSE nlog[i]]
    /\ len' = len /\ fresh' = {}

\* undo_log_clear when it runs to its pmem_drain.
Clear ==
    /\ ulog' = [i \in Slots |-> IF i < len THEN NullEntry ELSE ulog[i]]
    /\ nlog' = [i \in Slots |-> IF i < len THEN NullEntry ELSE nlog[i]]
    /\ len' = 0 /\ fresh' = {}

Cleanup ==
    /\ pc = "cleanup"
    /\ Clear
    /\ modified' = FALSE
    /\ pc' = "consume"
    /\ UNCHANGED <<nvm, ptail, table, new_table, mem, tail, regions, idx, base, written, crashes>>

-----------------------------------------------------------------------------
(* Recovery: undo_log_init, undo_log_recover, bg_run.                      *)

\* mem_region_manager::recover: memory once the region files of table t are mapped.
Mapped(t) == [b \in Blocks |-> IF b \in t THEN nvm[b] ELSE Zero]

\* A commit record exists: its tail counts, the new region table is kept.
RecoverCommitted ==
    /\ pc = "recover" /\ Committed(ulog, ScanLen(ulog))
    /\ len' = ScanLen(ulog)
    /\ tail' = RecoveredTail(ulog, ScanLen(ulog))
    /\ table' = RenamedTable /\ new_table' = NoTable
    /\ regions' = RenamedTable
    /\ mem' = Mapped(RenamedTable)
    /\ pc' = "recover_clear"
    /\ UNCHANGED <<nvm, nlog, ptail, ulog, fresh, modified, idx, base, written, crashes>>

RecoverUncommitted_KeepsNewTable ==
    /\ pc = "recover" /\ ~Committed(ulog, ScanLen(ulog))
    /\ len' = ScanLen(ulog) /\ idx' = ScanLen(ulog)
    /\ regions' = table
    /\ mem' = Mapped(table)
    /\ pc' = "rollback"
    /\ UNCHANGED <<new_table, nvm, nlog, ptail, table, ulog, tail, fresh, modified, base, written, crashes>>

RecoverUncommitted_LenKept ==
    /\ pc = "recover" /\ ~Committed(ulog, ScanLen(ulog))
    /\ idx' = ScanLen(ulog)
    /\ new_table' = NoTable
    /\ regions' = table
    /\ mem' = Mapped(table)
    /\ pc' = "rollback"
    /\ UNCHANGED <<len, nvm, nlog, ptail, table, ulog, tail, fresh, modified, base, written, crashes>>

\* None exists: the new region table is discarded, the entries are applied.
RecoverUncommitted ==
    /\ pc = "recover" /\ ~Committed(ulog, ScanLen(ulog))
    /\ len' = ScanLen(ulog) /\ idx' = ScanLen(ulog)
    /\ new_table' = NoTable
    /\ regions' = table
    /\ mem' = Mapped(table)
    /\ pc' = "rollback"
    /\ UNCHANGED <<nvm, nlog, ptail, table, ulog, tail, fresh, modified, base, written, crashes>>

\* The assertions of the rollback loop.
Applicable(e) == e.commit_tail = 0 /\ e.addr \in regions

Rollback_NoDecrement ==
    /\ pc = "rollback" /\ idx > 0 /\ Applicable(ulog[idx - 1])
    /\ mem' = [mem EXCEPT ![ulog[idx - 1].addr] = ulog[idx - 1].blk]
    /\ UNCHANGED <<pvars, rvars, ulog, len, tail, idx, pc, base, written, crashes>>

\* One iteration, from back to front; the flush takes effect by the drain.
Rollback ==
    /\ pc = "rollback" /\ idx > 0 /\ Applicable(ulog[idx - 1])
    /\ mem' = [mem EXCEPT ![ulog[idx - 1].addr] = ulog[idx - 1].blk]
    /\ idx' = idx - 1
    /\ UNCHANGED <<pvars, rvars, ulog, len, tail, pc, base, written, crashes>>

RollbackDrain ==
    /\ pc = "rollback" /\ idx = 0
    /\ nvm' = [b \in Blocks |-> IF b \in ToFlush THEN mem[b] ELSE nvm[b]]
    /\ pc' = "rollback_clear"
    /\ UNCHANGED <<nlog, ptail, table, new_table, rvars, mem, ulog, len, tail, idx, base, written, crashes>>

RecoverClear ==
    /\ pc \in {"rollback_clear", "recover_clear"}
    /\ Clear
    /\ pc' = "resume"
    /\ UNCHANGED <<nvm, ptail, table, new_table, mem, tail, regions, modified, idx, base, written, crashes>>

\* bg_run persists the recovered tail and enters run_consumer.
Resume ==
    /\ pc = "resume"
    /\ ptail' = tail
    /\ pc' = "consume"
    /\ UNCHANGED <<nvm, nlog, table, new_table, rvars, mem, ulog, len, tail, idx, base, written, crashes>>

-----------------------------------------------------------------------------
(* The environment: cache evictions and crashes.                           *)

WriteBack(b) ==
    /\ b \in regions /\ nvm[b] # mem[b]
    /\ nvm' = [nvm EXCEPT ![b] = mem[b]]
    /\ UNCHANGED <<nlog, ptail, table, new_table, rvars, mem, ulog, len, tail, idx, pc, base, written, crashes>>

WriteBackSlot(i) ==
    /\ nlog[i] # ulog[i]
    /\ nlog' = [nlog EXCEPT ![i] = ulog[i]]
    /\ UNCHANGED <<nvm, ptail, table, new_table, rvars, mem, ulog, len, tail, idx, pc, base, written, crashes>>

\* undo_log_clear zeroes the used slots with non-temporal stores that nothing orders
\* before its final drain: a crash may leave any of the slots untouched.  (A slot is one
\* cache line; it is taken to be zeroed as a whole.)
Torn(log, slots) == [i \in Slots |-> IF i \in slots THEN NullEntry ELSE log[i]]

Crash ==
    /\ crashes < MaxCrashes /\ crashes' = crashes + 1
    /\ pc # "recover"
    /\ pc = "resume" /\ tail # ptail => CrashInHandoff
    /\ \E slots \in IF ClearTears /\ pc \in ClearPCs THEN SUBSET (0..(len - 1)) ELSE {{}} :
          nlog' = Torn(nlog, slots)
    /\ ulog' = nlog'
    /\ mem' = [b \in Blocks |-> Zero]
    /\ tail' = ptail                      \* recovered_tail = psm->log->tail
    /\ len' = 0 /\ idx' = 0 /\ written' = 0
    /\ regions' = {} /\ fresh' = {} /\ modified' = FALSE
    /\ pc' = "recover"
    /\ UNCHANGED <<nvm, ptail, table, new_table, base>>

Step == \/ Consume \/ Spin \/ RecordBlock \/ Store \/ Mmap \/ Munmap \/ FinishOp
        \/ \E b \in Blocks : StoreFresh(b)
        \/ PersistTable \/ CommitFlush \/ CommitFault \/ Dead
        \/ CommitRecord \/ UpdateTail \/ CommitTable \/ Cleanup
        \/ RecoverCommitted \/ RecoverUncommitted \/ Rollback \/ RollbackDrain
        \/ RecoverClear \/ Resume

Next == \/ Step
        \/ \E b \in Blocks : WriteBack(b)
        \/ \E i \in Slots : WriteBackSlot(i)
        \/ Crash

Spec == Init /\ [][Next]_vars

\* The background process keeps running while there is no crash.
FairSpec == Spec /\ WF_vars(Step)

-----------------------------------------------------------------------------
(* What a recovery started now would arrive at.                            *)

DurableCommitted == Committed(nlog, ScanLen(nlog))

DurableTable == IF DurableCommitted THEN RenamedTable ELSE table

\* The tail it would take; once recovery runs bg_run it holds it in tail.
DurableTail ==
    IF DurableCommitted THEN RecoveredTail(nlog, ScanLen(nlog))
    ELSE IF pc = "resume" THEN tail ELSE ptail

\* The oldest entry of a block is the one applied last.
DurableBlock(b) ==
    LET hits == {i \in 0..(ScanLen(nlog) - 1) : nlog[i].addr = b}
    IN  IF DurableCommitted \/ hits = {} THEN nvm[b]
        ELSE nlog[CHOOSE i \in hits : \A j \in hits : i <= j].blk

DurableMem == [b \in Blocks |-> IF b \in DurableTable THEN DurableBlock(b) ELSE Zero]

\* Memory after operation k has run to its end on memory m.
Exec(k, m) ==
    [b \in Blocks |-> IF b \notin Managed[k] THEN Zero
                      ELSE IF b \in Fresh(k) THEN FreshImage(k, m, b)
                      ELSE Image(k, m, Len(Blk[k]))[b]]

DSM == INSTANCE DurableStateMachine WITH state <- DurableMem, applied <- DurableTail

-----------------------------------------------------------------------------
(* Properties.                                                             *)

\* Types of the state.
TypeOK ==
    /\ nvm \in Memory /\ mem \in Memory /\ base \in Memory
    /\ nlog \in [Slots -> Entry] /\ ulog \in [Slots -> Entry]
    /\ ptail \in 0..NumOps /\ tail \in 0..NumOps
    /\ table \subseteq Blocks /\ new_table \in (SUBSET Blocks) \cup {NoTable}
    /\ len \in 0..NumEntries /\ idx \in 0..len /\ written \in 0..NumEntries
    /\ regions \subseteq Blocks /\ fresh \subseteq Blocks /\ modified \in BOOLEAN
    /\ pc \in PCs /\ crashes \in 0..MaxCrashes

\* The DR_ASSERTs of undo_log_init, undo_log_commit, undo_log_post_commit_cleanup and
\* undo_log_recover never fail: a recovery never finds a log it cannot apply.
AssertionsHold ==
    /\ pc = "recover" => \A i \in 0..(ScanLen(ulog) - 1) :
                            ulog[i].commit_tail > 0 => ulog[i].addr = NoAddr
    /\ pc = "rollback" /\ idx > 0 => Applicable(ulog[idx - 1])
    /\ pc = "commit_record" => len + 1 < NumEntries
    /\ pc = "cleanup" => len > 0 /\ ulog[len - 1].commit_tail > 0

\* An operation that unmaps memory it has stored to.
Fatal(k) == \E i \in 1..Len(Blk[k]) : Blk[k][i] \in Unmap(k)

\* undo_log_commit (undo_log.h:257) faults in no other operation, whatever an earlier
\* attempt, a recovery or the operations before have left in the undo log and among the
\* fresh regions.
DeadOnlyIfFatal == pc = "dead" => Fatal(tail)

\* persist_new_region_table opens new_table.dat without O_TRUNC, so the file must not
\* exist when it does.
NoStaleNewTable == pc = "persist_table" => new_table = NoTable

\* Whenever the background process waits for the next operation, memory as it sees
\* it, memory as recovery would rebuild it, and the regions of both agree.
QuiescentAgrees ==
    pc = "consume" => /\ mem = DurableMem /\ tail = DurableTail
                      /\ regions = DurableTable

\* The durable state moves from one operation's result to the next one's, however
\* crashes, recoveries and evictions interleave (undo_log.h:301-310).
Refines == DSM!Spec

\* No durable effect is lost and none changes without a new operation: a commit record
\* "should be used as the PSM log tail" (undo_log.h:309) from the moment it persists.
CommittedStays ==
    [][/\ DurableTail' >= DurableTail
       /\ DurableTail' = DurableTail => DurableMem' = DurableMem]_<<DurableMem, DurableTail>>

\* Every operation of the log takes durable effect, in spite of the crashes, up to the
\* first fatal one: that one is rolled back at every attempt, undo_log.h:257.
AllDurable ==
    <>[](\E k \in 0..NumOps :
            /\ DurableTail = k
            /\ \A j \in 1..k : ~Fatal(j)
            /\ k = NumOps \/ Fatal(k + 1))
=============================================================================
