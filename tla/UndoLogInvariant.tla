-------------------------- MODULE UndoLogInvariant --------------------------
(***************************************************************************)
(* The inductive invariant behind the properties of UndoLog, for the code  *)
(* under the conditions in which it is crash-consistent (SafeConditions).  *)
(*                                                                         *)
(* The idea: `base' is the durable memory.  Until the commit record of an  *)
(* operation is persistent, every entry that a scan of the undo log may    *)
(* meet was made by that operation run on base, even if an earlier attempt *)
(* at it left the entry behind, and a block whose persistent content       *)
(* differs from base has such an entry within the scan's reach.            *)
(***************************************************************************)
EXTENDS UndoLog

\* The conditions: undo_log_clear is not interrupted, no crash between the erasure of a
\* commit record by recovery and the update of the tail, and no operation both maps and
\* unmaps memory (ranges::remove forgets fresh regions).
SafeConditions ==
    /\ ~ClearTears
    /\ ~CrashInHandoff
    /\ \A k \in Ops : Fresh(k) = {} \/ Unmap(k) = {}

\* Program points.
QuietPCs      == {"consume", "resume"}
CommittingPCs == {"persist_table", "commit", "commit_record", "dead"}
CommittedPCs  == {"update_tail", "commit_table", "cleanup", "recover_clear"}
RollbackPCs   == {"rollback", "rollback_clear"}

-----------------------------------------------------------------------------
(* Undo logs and memories: what a log holds, and what it can restore.      *)

\* e is what undo_log_record writes into slot j when operation k runs on memory m.
EntryOf(m, k, j, e) ==
    /\ k \in Ops /\ j < Len(Blk[k])
    /\ e.commit_tail = 0
    /\ e.addr = Blk[k][j + 1]
    /\ \E c \in Cut[k] : c <= j /\ e.blk = Image(k, m, c)[e.addr]

OnlyEntriesOf(m, k, log) == \A j \in Slots : is_null(log[j]) \/ EntryOf(m, k, j, log[j])

\* The log ends with the commit record of operation k.
CommitRecordOf(k, log) ==
    LET n == Len(Blk[k])
    IN  /\ \A i \in 0..(n - 1) : ~is_null(log[i]) /\ log[i].commit_tail = 0
        /\ log[n].addr = NoAddr /\ log[n].commit_tail = k + 1
        /\ \A i \in Slots : i > n => is_null(log[i])

\* The scan of undo_log_init reaches slot i.
Scanned(log, i) == \A j \in 0..i : ~is_null(log[j])

\* The first n slots are in use.
Filled(log, n) == \A i \in 0..(n - 1) : ~is_null(log[i])

\* Every slot in use in one log is in use in the other.
Covers(more, less) == \A i \in Slots : is_null(more[i]) => is_null(less[i])

Agree(m1, m2, t) == \A b \in t : m1[b] = m2[b]

ZeroOutside(m, t) == \A b \in Blocks \ t : m[b] = Zero

\* The blocks of table t in which n differs from m can be restored from the log.
Restorable(n, log, t, m) ==
    \A b \in t : n[b] = m[b] \/ \E i \in Slots : Scanned(log, i) /\ log[i].addr = b

-----------------------------------------------------------------------------
(* The two situations of an operation.                                     *)

\* The operation that the entries in the log belong to while it is not committed.
Cur == IF pc \in CommittingPCs THEN tail ELSE tail + 1

\* Holds while the current operation has no persistent commit record.
Uncommitted ==
    /\ Cur \in 1..(NumOps + 1)
    /\ OnlyEntriesOf(base, Cur, nlog) /\ OnlyEntriesOf(base, Cur, ulog)
    /\ Covers(ulog, nlog)
    /\ table = Managed[Cur - 1]
    /\ ZeroOutside(base, table)
    /\ Restorable(nvm, nlog, table, base)

\* Holds from the moment operation k's commit record is persistent until it is cleared.
CommittedOp(k) ==
    /\ k \in Ops
    /\ CommitRecordOf(k, nlog) /\ CommitRecordOf(k, ulog)
    /\ RenamedTable = Managed[k]
    /\ ZeroOutside(base, Managed[k]) /\ Agree(nvm, base, Managed[k])
    /\ ptail \in {k - 1, k}

-----------------------------------------------------------------------------
(* Program point by program point.                                         *)

\* Between two operations.
Quiet ==
    /\ Uncommitted /\ Agree(nvm, base, table) /\ mem = base
    /\ regions = table /\ new_table = NoTable
    /\ len = 0 /\ fresh = {} /\ ~modified
    /\ pc = "consume" => ptail = tail

\* Entries up to len are in the cache, those up to written also persistent.
LogFilled(k) ==
    /\ written \in Cut[k] /\ written <= len /\ len <= Len(Blk[k])
    /\ Filled(ulog, len) /\ Filled(nlog, written)

\* In consume_func.  Either nothing has been unmapped yet or everything.
Executing ==
    /\ Uncommitted /\ LogFilled(op) /\ ptail = tail /\ tail < NumOps
    /\ new_table = NoTable
    /\ regions \subseteq Managed[op - 1] \cup Fresh(op)
    /\ Managed[op - 1] \cap Managed[op] \subseteq regions
    /\ Unmap(op) \subseteq regions \/ (Unmap(op) \cap regions = {} /\ OpDone)
    /\ Fresh(op) \subseteq regions \/ Fresh(op) \cap regions = {}
    /\ fresh = Fresh(op) \cap regions
    /\ ~modified => regions = Managed[op - 1]
    /\ ZeroOutside(mem, regions)
    /\ Agree(mem, Image(op, base, written), Managed[op - 1] \cap regions)

\* From the return of consume_func to the commit record, or to the fault before it.
Committing ==
    /\ Uncommitted /\ LogFilled(tail) /\ ptail = tail - 1 /\ tail \in Ops
    /\ written = len /\ len = Len(Blk[tail])
    /\ regions = Managed[tail] /\ fresh = Fresh(tail)
    /\ mem = Exec(tail, base)
    /\ ~modified => regions = table
    /\ new_table = IF pc # "persist_table" /\ modified THEN regions ELSE NoTable
    /\ pc = "commit_record" => Agree(nvm, mem, regions)

\* From the commit record to its erasure.
CommittedAt ==
    /\ CommittedOp(tail) /\ mem = base /\ regions = Managed[tail]
    /\ len = Len(Blk[tail]) + 1
    /\ ~modified => new_table = NoTable
    /\ pc \in {"cleanup", "recover_clear"} => new_table = NoTable
    /\ pc = "recover_clear" => fresh = {} /\ ~modified
    /\ pc \in {"commit_table", "cleanup"} => ptail = tail

\* After a restart, before undo_log_recover has looked at the log.
Recovering ==
    /\ ulog = nlog /\ tail = ptail /\ fresh = {} /\ ~modified /\ regions = {}
    /\ Uncommitted \/ \E k \in Ops : CommittedOp(k)

\* The rollback loop has still to restore only blocks with an entry before idx.
RollingBack ==
    /\ Uncommitted /\ ulog = nlog /\ tail = ptail /\ fresh = {} /\ ~modified
    /\ regions = table /\ new_table = NoTable
    /\ ZeroOutside(mem, table)
    /\ \A i \in Slots : i < len <=> Scanned(nlog, i)
    /\ \A b \in table : mem[b] = base[b] \/ \E i \in 0..(idx - 1) : ulog[i].addr = b
    /\ pc = "rollback_clear" => idx = 0 /\ Agree(nvm, base, table)

\* The inductive invariant: what recovery relies on at every program point, whatever
\* crashes, evictions and earlier attempts at the operation came before.
Inv ==
    /\ pc \in QuietPCs => Quiet
    /\ pc = "exec" => Executing
    /\ pc \in CommittingPCs => Committing
    /\ pc \in CommittedPCs => CommittedAt
    /\ pc = "recover" => Recovering
    /\ pc \in RollbackPCs => RollingBack
=============================================================================
