------------------------------- MODULE PsmLog -------------------------------
(***************************************************************************)
(* The operation log: a circular buffer in persistent memory, written by   *)
(* the foreground process (psm_reserve, psm_push, psm_commit) and read by  *)
(* the background process (consume, _bg_consume).  The two share the       *)
(* atomics head and tail of `struct psm'; psm_log.head and psm_log.tail    *)
(* are their persistent copies.                                            *)
(*                                                                         *)
(* Entries are contiguous and cache-line aligned.  An entry that does not  *)
(* fit before the end of the buffer starts over at offset 0, and a NUL     *)
(* byte at its old place tells the reader so; the first byte of an entry   *)
(* is not NUL (psm.h).  buf is the buffer as the processors see it, nbuf   *)
(* as it is in persistent memory.  Cached lines may be written back at any *)
(* moment; non-temporal stores and flushed lines are persistent by the     *)
(* next pmem_drain of the foreground.                                      *)
(*                                                                         *)
(* A crash takes both processes down.  What executing an operation means   *)
(* to memory, and how its effect becomes durable, is module UndoLog's      *)
(* business: here dexec is the sequence of operations whose effect is      *)
(* durable and rtail the tail that undo_log_recover finds with it.         *)
(*                                                                         *)
(* A definition X_Slip is X with a plausible slip, kept to show that the   *)
(* properties notice it.                                                   *)
(***************************************************************************)
EXTENDS Integers, Sequences, FiniteSets, SequencesExt

CONSTANTS
    LogSize,     \* PSM_LOG_SIZE_B
    LineSize,    \* CACHE_LINE_SIZE_B
    EntryLens,   \* lengths in bytes the application asks for
    MaxOps,      \* bound of the model: operations the application issues
    MaxBatch,    \* operations the application puts into one psm_commit
    CommitBatch, \* operations the background process puts into one commit: 1 unless the
                 \* library is built with BATCH_COMMIT
    MaxCrashes   \* bound of the model

ASSUME PsmLogAssumption ==
    /\ LineSize \in Nat \ {0}
    /\ LogSize \in Nat \ {0}
    /\ LogSize % LineSize = 0
    /\ EntryLens \subseteq 1..(LogSize - LineSize)
    /\ CommitBatch \in Nat \ {0}
    /\ MaxOps \in Nat /\ MaxBatch \in Nat /\ MaxCrashes \in Nat

Offsets == {o \in 0..(LogSize - 1) : o % LineSize = 0}

align_to_cache_line_size_NotRounded(n) == n
align_to_cache_line_size(n) == ((n + LineSize - 1) \div LineSize) * LineSize

\* One cache line of the buffer: part `part' of operation `op', whose entry is `len' bytes
\* long.  Pad is a line whose first byte is NUL, as in the zeroed buffer.
Line == [op : 0..MaxOps, part : Nat, len : {0} \cup EntryLens]
Pad  == [op |-> 0, part |-> 0, len |-> 0]

VARIABLES
    \* In persistent memory.
    nbuf,        \* psm_log.buf
    phead,       \* psm_log.head
    ptail,       \* psm_log.tail
    rtail,       \* the tail undo_log_recover would find
    dexec,       \* operations with durable effect
    \* Shared by the processes.
    buf,         \* psm_log.buf as the processors see it
    head,        \* psm.head
    tail,        \* psm.tail
    \* The foreground process.
    fpc,         \* where it is
    local_head,  \* producer_state.local_head
    local_tail,  \* producer_state.local_tail
    want,        \* length psm_reserve waits for, padding included
    entry,       \* what the application will write: its offset and length
    inflight,    \* offsets of lines the next drain makes persistent
    all_pushed,  \* every operation since the last commit went through psm_push
    ftail,       \* the tail of the replay loop in psm_init
    fexec,       \* operations in the foreground's state after a recovery
    \* The background process.
    bpc, btail,  \* where it is; its local tail
    consumed,    \* operations since its last commit
    bexec,       \* operations executed on its memory
    \* Bookkeeping of the model.
    nops,        \* operations issued so far
    pending,     \* operations since the last commit
    log,         \* operations committed so far
    crashes

nvars == <<nbuf, phead, ptail, rtail, dexec>>
pvars == <<local_head, local_tail, want, entry, inflight, all_pushed>>
rvars == <<ftail, fexec>>
bvars == <<bpc, btail, consumed, bexec>>
gvars == <<nops, pending, log, crashes>>
vars  == <<nbuf, phead, ptail, rtail, dexec, buf, head, tail, fpc, local_head, local_tail,
           want, entry, inflight, all_pushed, ftail, fexec, bpc, btail, consumed, bexec,
           nops, pending, log, crashes>>

Init ==
    /\ buf = [o \in Offsets |-> Pad] /\ nbuf = buf
    /\ phead = 0 /\ ptail = 0 /\ rtail = 0 /\ head = 0 /\ tail = 0
    /\ fpc = "app" /\ local_head = 0 /\ local_tail = 0
    /\ want = 0 /\ entry = [at |-> 0, len |-> 0]
    /\ inflight = {} /\ all_pushed = TRUE
    /\ ftail = 0 /\ fexec = <<>>
    /\ bpc = "consume" /\ btail = 0 /\ consumed = 0 /\ bexec = <<>> /\ dexec = <<>>
    /\ nops = 0 /\ pending = <<>> /\ log = <<>> /\ crashes = 0

-----------------------------------------------------------------------------
(* psm_reserve and psm_push.                                               *)

\* Does the entry fail to fit behind local_head?
Truncated_LineLate(n) == local_head + n > LogSize + LineSize
Truncated_AtEnd(n) == local_head + n >= LogSize
Truncated(n) == local_head + n > LogSize

\* Length psm_reserve needs, with the space it discards at the end of the buffer.
Needed(n) == IF Truncated(n) THEN n + (LogSize - local_head) ELSE n

\* Free bytes behind local_head as far as the cached tail tells; one byte stays free.
Free_Unchecked == LogSize
Free == (local_tail + LogSize - local_head - 1) % LogSize

Reserve(n) ==
    /\ fpc = "app" /\ nops < MaxOps /\ Len(pending) < MaxBatch
    /\ want' = Needed(align_to_cache_line_size(n))
    /\ entry' = [at |-> IF Truncated(align_to_cache_line_size(n)) THEN 0 ELSE local_head,
                 len |-> n]
    /\ fpc' = "reserve"
    /\ UNCHANGED <<nvars, rvars, bvars, gvars, buf, head, tail,
                   local_head, local_tail, inflight, all_pushed>>

ReserveSpin_CachedTail ==
    /\ fpc = "reserve" /\ Free < want
    /\ local_tail' = local_tail
    /\ UNCHANGED <<nvars, rvars, bvars, gvars, buf, head, tail, fpc,
                   local_head, want, entry, inflight, all_pushed>>

\* The loop that waits for space reads the shared tail.
ReserveSpin ==
    /\ fpc = "reserve" /\ Free < want
    /\ local_tail' = tail
    /\ UNCHANGED <<nvars, rvars, bvars, gvars, buf, head, tail, fpc,
                   local_head, want, entry, inflight, all_pushed>>

\* There is space: mark the discarded end with a NUL byte, flush it, advance local_head.
ReserveReturn ==
    /\ fpc = "reserve" /\ Free >= want
    /\ IF want > align_to_cache_line_size(entry.len)
       THEN /\ buf' = [buf EXCEPT ![local_head] = Pad]
            /\ inflight' = inflight \cup {local_head}
       ELSE UNCHANGED <<buf, inflight>>
    /\ local_head' = (local_head + want) % LogSize
    /\ fpc' = "fill"
    /\ UNCHANGED <<nvars, rvars, bvars, gvars, head, tail,
                   local_tail, want, entry, all_pushed>>

\* Offsets of the lines of an entry.
LinesOf(e) == {o \in Offsets : e.at <= o /\ o < e.at + align_to_cache_line_size(e.len)}

\* The application's bytes reach the reserved lines: through the cache if it fills the
\* space psm_reserve gave it, with non-temporal stores if it called psm_push.
Fill(push) ==
    /\ fpc = "fill"
    /\ buf' = [o \in Offsets |-> IF o \in LinesOf(entry)
                                 THEN [op |-> nops + 1, part |-> (o - entry.at) \div LineSize,
                                       len |-> entry.len]
                                 ELSE buf[o]]
    /\ inflight' = IF push THEN inflight \cup LinesOf(entry) ELSE inflight
    /\ all_pushed' = (all_pushed /\ push)
    /\ nops' = nops + 1 /\ pending' = Append(pending, nops + 1)
    /\ fpc' = "app"
    /\ UNCHANGED <<nvars, rvars, bvars, head, tail, local_head, local_tail, want, entry,
                   log, crashes>>

-----------------------------------------------------------------------------
(* psm_commit.                                                             *)

\* Offsets from head up to local_head, around the end of the buffer.
Uncommitted ==
    {o \in Offsets : (o + LogSize - head) % LogSize < (local_head + LogSize - head) % LogSize}

CommitFlush_HeadFirst(push_only) ==
    /\ fpc = "app" /\ local_head # head
    /\ push_only => all_pushed
    /\ fpc' = "persist_head"
    /\ UNCHANGED <<nvars, pvars, rvars, bvars, gvars, buf, head, tail>>

\* The flush loop (unless push_only) and the drain.
CommitFlush(push_only) ==
    /\ fpc = "app" /\ local_head # head
    /\ push_only => all_pushed
    /\ LET lines == IF push_only THEN inflight ELSE inflight \cup Uncommitted
       IN  nbuf' = [o \in Offsets |-> IF o \in lines THEN buf[o] ELSE nbuf[o]]
    /\ inflight' = {}
    /\ fpc' = "persist_head"
    /\ UNCHANGED <<phead, ptail, rtail, dexec, rvars, bvars, gvars, buf, head, tail,
                   local_head, local_tail, want, entry, all_pushed>>

\* update_head: the batch is in the log once the persistent head has moved ...
PersistHead ==
    /\ fpc = "persist_head"
    /\ phead' = local_head
    /\ log' = log \o pending /\ pending' = <<>> /\ all_pushed' = TRUE
    /\ fpc' = "publish_head"
    /\ UNCHANGED <<nbuf, ptail, rtail, dexec, rvars, bvars, buf, head, tail,
                   local_head, local_tail, want, entry, inflight, nops, crashes>>

\* ... and the background process sees it with this store.
PublishHead ==
    /\ fpc = "publish_head"
    /\ head' = local_head
    /\ fpc' = "app"
    /\ UNCHANGED <<nvars, pvars, rvars, bvars, gvars, buf, tail>>

-----------------------------------------------------------------------------
(* consume.                                                                *)

\* Where the entry at offset t starts: padding is skipped.
EntryStart(b, t) == IF b[t] = Pad THEN 0 ELSE t

\* consume returns -1 when the log is empty, before or after it skipped padding.
HasEntry_StopsAtPad(b, h, t) == t # h /\ b[t] # Pad
HasEntry(b, h, t) == t # h /\ EntryStart(b, t) # h

\* The tail after the entry at t, as consume_func's return value gives it.
NextTail(b, t) ==
    LET s == EntryStart(b, t)
    IN  (s + align_to_cache_line_size(b[s].len)) % LogSize

EntryOp(b, t) == b[EntryStart(b, t)].op

\* With BATCH_COMMIT the size of a batch is fixed, or up to the undo log (should_commit).
BgConsume ==
    /\ bpc = "consume" /\ HasEntry(buf, head, btail)
    /\ bexec' = Append(bexec, EntryOp(buf, btail))
    /\ btail' = NextTail(buf, btail)
    /\ consumed' = consumed + 1
    /\ bpc' \in {"commit"} \cup (IF consumed + 1 < CommitBatch THEN {"consume"} ELSE {})
    /\ UNCHANGED <<nvars, pvars, rvars, gvars, buf, head, tail, fpc>>

BgSpin == bpc = "consume" /\ ~HasEntry(buf, head, btail) /\ consumed = 0 /\ UNCHANGED vars

\* IDLE_SPIN loops without a new entry: commit what there is.
BgIdle_Waits ==
    bpc = "consume" /\ ~HasEntry(buf, head, btail) /\ consumed > 0 /\ UNCHANGED vars
BgIdle ==
    /\ bpc = "consume" /\ ~HasEntry(buf, head, btail) /\ consumed > 0
    /\ bpc' = "commit"
    /\ UNCHANGED <<nvars, pvars, rvars, gvars, buf, head, tail, fpc, btail, consumed, bexec>>

\* instrument_commit: from its commit record on, the operation counts as executed.
BgCommit ==
    /\ bpc = "commit"
    /\ dexec' = bexec /\ rtail' = btail
    /\ bpc' = "persist_tail"
    /\ UNCHANGED <<nbuf, phead, ptail, pvars, rvars, gvars, buf, head, tail, fpc, btail, consumed, bexec>>

\* update_tail: first the persistent tail, then the one psm_reserve reads.
BgPersistTail ==
    /\ bpc = "persist_tail"
    /\ ptail' = btail
    /\ bpc' = "publish_tail"
    /\ UNCHANGED <<nbuf, phead, rtail, dexec, pvars, rvars, gvars, buf, head, tail, fpc, btail, consumed, bexec>>

BgPublishTail ==
    /\ bpc = "publish_tail"
    /\ tail' = btail /\ consumed' = 0
    /\ bpc' = "consume"
    /\ UNCHANGED <<nvars, pvars, rvars, gvars, buf, head, fpc, btail, bexec>>

-----------------------------------------------------------------------------
(* Cache evictions, crashes and recovery.                                  *)

WriteBack(o) ==
    /\ nbuf[o] # buf[o]
    /\ nbuf' = [nbuf EXCEPT ![o] = buf[o]]
    /\ UNCHANGED <<phead, ptail, rtail, dexec, pvars, rvars, bvars, gvars, buf, head, tail, fpc>>

\* Both processes restart: psm_init reads the persistent head and tail, undo_log_recover
\* gives both processes memory in which dexec has been executed, and the tail rtail.
\* bg_run then calls update_tail with it while the foreground replays from it.
RestartTail_Persisted == ptail
RestartTail == rtail

Crash ==
    /\ crashes < MaxCrashes /\ crashes' = crashes + 1
    /\ buf' = nbuf
    /\ head' = phead /\ local_head' = phead
    /\ tail' = ptail /\ local_tail' = ptail
    /\ want' = 0 /\ entry' = [at |-> 0, len |-> 0] /\ inflight' = {} /\ all_pushed' = TRUE
    /\ fpc' = "replay" /\ ftail' = RestartTail /\ fexec' = dexec
    /\ bpc' = "persist_tail" /\ btail' = rtail /\ consumed' = 0 /\ bexec' = dexec
    /\ pending' = <<>>
    /\ UNCHANGED <<nvars, nops, log>>

\* The replay loop of psm_init.
Replay ==
    /\ fpc = "replay" /\ HasEntry(buf, head, ftail)
    /\ fexec' = Append(fexec, EntryOp(buf, ftail))
    /\ ftail' = NextTail(buf, ftail)
    /\ UNCHANGED <<nvars, pvars, bvars, gvars, buf, head, tail, fpc>>

ReplayDone ==
    /\ fpc = "replay" /\ ~HasEntry(buf, head, ftail)
    /\ fpc' = "recovered"
    /\ UNCHANGED <<nvars, pvars, rvars, bvars, gvars, buf, head, tail>>

\* psm_init returns to the application.
InitReturn ==
    /\ fpc = "recovered"
    /\ fpc' = "app" /\ ftail' = 0 /\ fexec' = <<>>
    /\ UNCHANGED <<nvars, pvars, bvars, gvars, buf, head, tail>>

BgStep == BgConsume \/ BgSpin \/ BgIdle \/ BgCommit \/ BgPersistTail \/ BgPublishTail

\* Steps of the library in the foreground; the application decides when to call it.
FgStep == \/ ReserveSpin \/ ReserveReturn \/ Fill(TRUE) \/ Fill(FALSE)
          \/ PersistHead \/ PublishHead \/ Replay \/ ReplayDone \/ InitReturn

Next == \/ BgStep
        \/ FgStep
        \/ \E n \in EntryLens : Reserve(n)
        \/ \E push_only \in BOOLEAN : CommitFlush(push_only)
        \/ \E o \in Offsets : WriteBack(o)
        \/ Crash

Spec == Init /\ [][Next]_vars

\* Both processes keep running while there is no crash.
FairSpec == Spec /\ WF_vars(BgStep) /\ WF_vars(FgStep)

-----------------------------------------------------------------------------
(* Properties.                                                             *)

FgPCs == {"app", "reserve", "fill", "persist_head", "publish_head", "replay", "recovered"}
BgPCs == {"consume", "commit", "persist_tail", "publish_tail"}

\* Types of the state; every position is aligned to a cache line.
TypeOK ==
    /\ buf \in [Offsets -> Line] /\ nbuf \in [Offsets -> Line]
    /\ {head, tail, phead, ptail, rtail, local_head, local_tail, ftail, btail} \subseteq Offsets
    /\ want \in 0..(2 * LogSize) /\ inflight \subseteq Offsets /\ all_pushed \in BOOLEAN
    /\ entry \in [at : Offsets, len : {0} \cup EntryLens]
    /\ fpc \in FgPCs /\ bpc \in BgPCs /\ consumed \in 0..CommitBatch
    /\ nops \in 0..MaxOps /\ crashes \in 0..MaxCrashes
    /\ {pending, log, dexec, bexec, fexec} \subseteq Seq(0..MaxOps)

\* One entry further back: at each offset, the entry there and what next has behind it.
Reads(b, h, next) ==
    [s \in Offsets |-> IF HasEntry(b, h, s) THEN <<EntryOp(b, s)>> \o next[NextTail(b, s)] ELSE <<>>]

\* The operations a reader of buffer b meets on its way from t to h; W[n] has at most n of them.
OpsFrom(b, h, t) ==
    LET W[n \in 0..(LogSize \div LineSize)] ==
            IF n = 0 THEN [s \in Offsets |-> <<>>] ELSE Reads(b, h, W[n - 1])
    IN  W[LogSize \div LineSize][t]

\* The entry at t has arrived as a whole.
Intact(b, t) ==
    LET s == EntryStart(b, t)
    IN  \A o \in LinesOf([at |-> s, len |-> b[s].len]) :
            b[o] = [op |-> b[s].op, part |-> (o - s) \div LineSize, len |-> b[s].len]

\* Each process executes the committed operations in the order in which they were
\* committed, none twice and none left out, across crashes.
ExecutedInOrder == IsPrefix(bexec, log) /\ IsPrefix(dexec, bexec) /\ IsPrefix(fexec, log)

\* What consume hands to consume_func is a whole entry, in either process: the producer
\* never overwrites a line that has not been consumed and never exposes a torn entry.
ConsumedIntact ==
    /\ bpc = "consume" /\ HasEntry(buf, head, btail) => Intact(buf, btail)
    /\ fpc = "replay" /\ HasEntry(buf, head, ftail) => Intact(buf, ftail)

\* The asserts of consume: padding is only met behind head, and no entry crosses the end.
ConsumeAssertsHold ==
    \A t \in (IF bpc = "consume" THEN {btail} ELSE {}) \cup (IF fpc = "replay" THEN {ftail} ELSE {}) :
        t # head =>
            /\ buf[t] = Pad => t > head
            /\ EntryStart(buf, t) + align_to_cache_line_size(buf[EntryStart(buf, t)].len) <= LogSize

\* Once psm_init has returned from a recovery the foreground has executed every committed
\* operation, although the background process moved tail while it replayed.
ReplayComplete == fpc = "recovered" => fexec = log

DQ == INSTANCE DurableQueue WITH queue <- OpsFrom(nbuf, phead, rtail)

\* The operation log in persistent memory, read from the tail recovery would use to the
\* persistent head, is a queue: commits append, durable execution removes, and nothing
\* else (a crash, a write-back, an overwritten line) changes what it holds.
IsDurableQueue == DQ!Spec

\* Every committed operation either has durable effect or is what a recovery would read in
\* the log, and none is both: between the persistent head, the bytes of the entries, the commit
\* record and the persistent tail no crash finds an operation that fell out or counts twice.
CommitsAccounted == log = dexec \o OpsFrom(nbuf, phead, rtail)

\* A batch of the largest entries, and one more for the end of the buffer that it may waste.
BatchFits == \A n \in EntryLens : (MaxBatch + 1) * align_to_cache_line_size(n) <= LogSize

\* psm_reserve does not wait for space that nobody can free: if such a batch fits into the
\* log, there is space at the latest when all that was committed has been consumed,
\* wherever in the buffer the batch starts.
ReserveNeverStuck == BatchFits /\ fpc = "reserve" /\ local_tail = head => Free >= want

\* psm_reserve returns.
ReserveReturns == fpc = "reserve" ~> fpc # "reserve"

\* Every committed operation is durably executed.
CommittedExecuted == \A n \in 1..MaxOps : Len(log) >= n ~> Len(dexec) >= n
=============================================================================
