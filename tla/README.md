# A TLA+ model of Persimmon

Persimmon makes an in-memory state machine (Redis, say) durable. The application
writes every operation to an **operation log** in persistent memory before it executes it.
A second process, the **background process**, executes the same operations on its own copy
of the application's memory, which lives in persistent-memory files; an **undo log** makes
each of these executions atomic with respect to crashes. After a crash the background
memory is brought to an operation boundary, the foreground gets a copy of it, and both
replay the rest of the operation log.

This directory holds a specification of that machinery, model-checked with TLC on small
instances. The safety properties of these runs are proved with TLAPS for all instances; liveness is left
to TLC. All source references
are to `src/` at the modelled commit. Build options matter: the model follows the code as
it is built, with `PSM_MODE_UNDO` and `OPTIMIZED 1` (`undo_log.h`). Two options that are off
in the sources are modelled too: `BATCH_COMMIT` (`bg.cc`) is the constant `CommitBatch` of
`PsmLog`, and `OPTIMIZE_DEDUPLICATE` with `OPTIMIZE_SKIP_RECORD` (`undo_bg.h`) is `LoggedAddrs`.

## 1. Inventory

| Component | State | Operations | Interacts with |
|---|---|---|---|
| Operation log, producer (`fg.cc`, `psm.h`, `internal.h`) | circular buffer `psm_log.buf`, persistent `head`, shared atomics `head`/`tail`, `producer_state.local_head`/`local_tail` | `psm_reserve`, `psm_push`, `psm_commit`, `update_head` | consumer, through the buffer and the two atomics |
| Operation log, consumer (`bg.cc`, `internal.h`) | local tail, persistent `tail` | `consume`, `_bg_consume`, `run_consumer`, `update_tail` | undo log: `instrument_commit` before `update_tail`, `instrument_cleanup` after |
| Undo log (`undo/undo_log.h`) | entry array in a persistent file, `len`, `fresh_regions` | `undo_log_init`, `_record`, `_record_fresh_region`, `_remove_fresh_region`, `_commit`, `_post_commit_cleanup`, `_clear`, `_recover` | called by the instrumentation |
| Instrumentation (`undo/instrument.cc`) | `region_table_modified` | `record_write` before each store, `event_pre_syscall`/`event_post_syscall`, `instrument_commit`, `instrument_cleanup`, recovery in `dr_client_main` | undo log, memory regions, `bg_run` |
| Memory regions (`undo/mem_region/`) | `regions`, region files, `table.dat`, `new_table.dat` | `replace_region`, `remove_region`, `persist_new_region_table`, `commit_new_region_table`, `clear_new_region_table`, `recover` | instrumentation |
| `ranges<T>` (`mem_region/ranges.h`) | sorted vector of disjoint ranges | `insert`, `find`, `remove`, `clear` | undo log (`fresh_regions`), memory regions |
| Start and recovery of the foreground (`fg.cc`, `undo_fg.cc`, `mem_region/fg.cc`) | replay tail, pipe ends | `fork`, reading head and tail, copying the regions, replay loop | background process, through two pipes, the region files and the log |
| Initial checkpoint (`initial_chkpt.cc`) | CRIU image | `take_initial_chkpt`; a restore continues at the recovery point in `psm_init` | CRIU service |
| Deduplication (`undo_log.h`, off by default) | `logged_addrs_hash` | `undo_log_insert_logged_addr`, the code of `undo_insert_fast_path` | `undo_log_record` |
| Non-temporal memset (`undo/memset_nt_avx.cc`) | none | `memset_movnt_avx` | `undo_log_clear` |
| Checkpoint mode, libc wrappers, benchmarks | | | see section 7 |

What is hard here, and hardly reachable by a test:

* **Persistence order.** A dirty cache line may reach persistent memory at any time, or
  only when it is flushed and drained. Correctness rests on a few drains standing at
  the right places.
* **Crashes everywhere**, including during a recovery, and re-execution of an operation
  over the remains that an earlier attempt left in the undo log.
* **Two tables, two tails, one commit record**: the region table, `psm_log.tail` and the
  undo log are updated one after the other and must be read back as one.
* **Concurrency of the two processes** over a circular buffer with padding, with cached
  positions, and with the foreground replaying entries that the background consumes.
* **mmap and munmap inside an operation**, which change what is logged and flushed, split
  regions and give committed data new files before the operation commits.
* **Two processes waiting for each other over pipes**, either of which may die at any step.
* **System calls that fail** where the code goes on.

`PROJECT.json` lists each hazard at its line with the properties that watch it.

What makes each component correct:

* undo log and memory regions: what a recovery started now would rebuild always is the
  memory of an operation boundary, paired with that boundary's tail; recovery never
  meets a log its assertions reject; nothing committed is ever taken back;
* operation log: what is in persistent memory is a queue of whole, committed operations;
  each process executes them in order, none twice, none left out; each committed operation has
  durable effect or is still in that queue; nobody waits for ever;
* memory regions: regions, mappings and files agree, and until the table is replaced the old
  table's files still hold what the last commit left in them;
* start and recovery: when `psm_init` returns, the application has every committed operation
  once; the foreground meets the end of the pipe only if the background process died; no process
  waits for one that waits for it, and the handshake ends for each of them unless the other
  one's `psm_init` has failed and it lives on;
* memset and deduplication: exactly the bytes asked for, none left in the cache; no store to
  a block without an undo entry, and no second entry while the hash table has space;
* ranges: the vector is sorted and coalesced and means the set of addresses inserted.

## 2. Modules

| Module | Models |
|---|---|
| `DurableStateMachine` | abstract: a state machine whose operations take durable effect one by one, atomically |
| `UndoLog` | background process in undo mode: execution, undo logging, commit, region tables, recovery, cache write-back, crash |
| `UndoLogInvariant` | the inductive invariant of `UndoLog` and the conditions under which it holds |
| `UndoLogSafety`, `UndoLogRefinement` | proofs: types and the invariant; its consequences and the refinement |
| `MCUndoLog` | the instances of `UndoLog` for TLC |
| `DurableQueue` | abstract: the queue of committed operations not yet durably executed |
| `PsmLog` | operation log, its producer and consumer, replay of the foreground, crash |
| `PsmLogProofs` | proofs of its invariant and safety properties, and that it implements `DurableQueue` |
| `Ranges` | `ranges<T>` as operators and as a state machine over arbitrary calls |
| `RangesProofs` | proofs of all its properties |
| `MemRegion` | the region manager: regions, files, tables, the directory, mmap and munmap with splitting, failing system calls, crash and recovery; composed with the operators of `Ranges` |
| `MemRegionProofs` | proofs of all its properties |
| `MCMemRegion` | the instances of `MemRegion` for TLC |
| `PsmInit` | first start, death and restart of the two processes and their handshake over pipes |
| `PsmInitProofs` | proofs of its safety properties |
| `MemsetNt`, `MCMemsetNt` | `memset_movnt_avx`, store by store, and its instance |
| `MemsetNtProofs` | proofs of its properties |
| `LoggedAddrs`, `MCLoggedAddrs` | the deduplication hash table and the inserted fast path, and their instance |
| `LoggedAddrsProofs` | proofs of its properties |

A definition named `X_Slip` is `X` with a plausible programming slip; it is used only to show that
a property would notice that slip.

### UndoLog and the code

Every datum exists twice. `mem` and `ulog` are application memory and undo log as the
processor sees them; `nvm` and `nlog` are the same in persistent memory. `WriteBack` and
`WriteBackSlot` copy a block or a slot at any moment; the drains of the code copy those
that were flushed. `Crash` keeps the persistent half (`nvm`, `nlog`, `ptail`, `table`,
`new_table`) and restarts at `pc = "recover"`.

| Action | Code |
|---|---|
| `Consume`, `Spin`, `FinishOp` | `_bg_consume`, `consume` |
| `RecordBlock` | one iteration of the loop in `undo_log_record` |
| `Store` | `pmem_drain` at its end (`Drained`), then the instrumented store |
| `Mmap`, `StoreFresh`, `Munmap` | `event_post_syscall` with `replace_region`; a store that `undo_log_record` skips; `event_pre_syscall` with `remove_region` |
| `PersistTable`, `CommitFlush`, `CommitRecord` | `instrument_commit`: `persist_new_region_table`, then the two halves of `undo_log_commit`, each ending in a drain |
| `CommitFault`, `Dead` | the flush of a logged block that the operation has unmapped: `clwb` faults, and the process is dead until a restart (a `Crash`) |
| `UpdateTail`, `CommitTable`, `Cleanup` | `update_tail`, then `instrument_cleanup`: `commit_new_region_table`, `undo_log_post_commit_cleanup` |
| `RecoverCommitted`, `RecoverUncommitted` | `undo_log_init`, `undo_log_recover` up to the choice it makes, the matching treatment of `new_table.dat`, `mem_region_manager::recover` |
| `Rollback`, `RollbackDrain`, `RecoverClear` | the rest of `undo_log_recover` |
| `Resume` | `bg_run`: persists the recovered tail |

An operation is given by the blocks it logs (`Blk`, in order, repetitions included), the
points between its stores (`Cut`: a store that spans several blocks logs them all before
it executes), its effect after each store (`Image`), its effect on memory it maps
(`FreshImage`) and the blocks managed after it (`Managed`, from which `Fresh` and `Unmap`
follow). Operations are deterministic, as Persimmon requires of its applications. A
position in the operation log is the number of operations before it. `base` is a history
variable, the memory at the last operation boundary.

`munmap` comes after an operation's last store in the model. For an operation that only
unmaps this hides nothing from recovery, because its table takes effect as a whole. For one
that maps as well, a `munmap` between its stores would have the later ones logged (finding 3
makes them lose their exemption), with addresses outside the committed table; that order is
not explored. An operation that maps or unmaps does so with all its regions in one step. A line
of an unmapped file that is written back only later does what a write-back before the `munmap`
does, which `WriteBack` covers: the operation dies at its commit, so nothing depends on the time.

`DurableMem`, `DurableTail` and `DurableTable` say what a recovery started in the present
state would arrive at. They are the refinement mapping to `DurableStateMachine`.

### PsmLog and the code

`buf` and `nbuf` are the buffer as seen by the processors and in persistent memory, one
record per cache line (which operation, which part of its entry, the entry's length).
`inflight` holds the lines that the next drain will make persistent: lines written by the
non-temporal copy of `psm_push` and the flushed padding line. `Reserve`, `ReserveSpin`,
`ReserveReturn` and `Fill` are `psm_reserve` and what follows it (the application's own
stores, or `psm_push`); `CommitFlush`, `PersistHead`, `PublishHead` are `psm_commit` and
`update_head`; `BgConsume`, `BgCommit`, `BgPersistTail`, `BgPublishTail` the consumer.
`Crash` restarts both processes; `Replay`, `ReplayDone`, `InitReturn` are the loop in
`psm_init`, which runs concurrently with the consumer. `dexec` and `rtail` stand for the
undo log: the operations with durable effect and the tail recovery finds with them. That
the two change together is what `UndoLog` establishes (`Refines`), under the conditions
of section 4; `BgCommit` is `UndoLog!CommitRecord`.

### Ranges and the code

The operators `insert`, `remove`, `find`, `Includes`, ... translate `ranges.h`
statement by statement where it matters (the half-open comparisons, the coalescing loop,
the pieces `remove` keeps). The state machine applies them in any order; `points` is the
set of addresses the calls denote.

### MemRegion and the code

`UndoLog` maps and unmaps whole regions and takes a region's memory for its file.
`MemRegion` opens that up. A file has a content in the cache (`cached`) and in persistent
memory (`durable`); the directory exists as the kernel sees it (`dir`) and as it is on disk
(`ddir`); `page_table` says which file each page is mapped from, `regions` what the manager
thinks. `Mmap` is `event_post_syscall` with `replace_region`, `Munmap` is `event_pre_syscall`
with `remove_region`: the vector element replaced by the last one, the pieces right and left
of the hole persisted into new files. The undo log is reduced to what `UndoLog` shows it to
mean, the oldest content of each logged page. `WriteNewTable`, `CommitTable`, `RecoverTable` are
the three treatments of `new_table.dat` up to their fsync (`FsyncDir`). `Crash` keeps any
mixture of written-back pages, and of a directory that was not synced either version, or a
table cut short. The constant `Faults` chooses which system calls may fail: what
`replace_region` does before its region is mapped (`persist`: openat, write, fsync of the directory, mmap), the
fsync of the file (`fsync`), whose error is lost, the close after the mapping (`close`: the pages are mapped from a
file that no region names), and the `munmap` of `remove_region`. A failing `mmap` with `MAP_FIXED` is taken
to leave the old mapping. A later `munmap` of pages without a region is `NOT_MANAGED`, and the kernel unmaps
them (`MunmapUnmanaged`). `failed` remembers the operation in which one did and was not noticed; a recovery that undoes the operation resets it. `Cleanup` forgets
files that no table names, which the code leaves behind for ever (`mem_region.cc:203`).

### PsmInit and the code

`fg` and `bg` are the program counters of the two processes; `btf` and `ftb` the pipes, `ends`
who holds which end. `Fork` returns in the parent while the child goes through `BgChkpt` and
`BgRedirect` (`take_initial_chkpt`), `BgReplace` and `BgTable` (`init_address_space`). `Die` kills one or both
processes. `Restore` is the second return of `criu_dump`, and `FgRestart` continues at the
recovery point: new pipes, a new child, all ends open in both. `BgRecover` to `BgAcked` is `dr_client_main`; `FgClose` to `FgAck` is
`undo_recover_foreground` with `map_recovered_regions`, one region at a time. A read sees the end of
file when the pipe is empty and nobody holds its write end; a write without a reader kills
its process (SIGPIPE).

Every system call may fail. In the background process that is an assertion or an `abort` (`BgError`).
In the foreground `psm_init` returns an error (`FgNoFork`, `FgNoRestart`, `FgCloseFails`,
`FgRecvFails`, `FgRecvTailFails`, `FgAckFails`), and so it does in the child if the thread
cannot be pinned (`BgNoPin`). The process is then `failed`: it is alive, in the hands of the
application, and keeps the ends of the pipes that it has not closed. Two calls differ: an error
of `commit_new_region_table` is ignored (`BgTable`), and a read that returns less than a
whole region counts as an error (`FgRecvFails`). The undo log is again reduced to its result: recovery sets the region
files to the last commit.

### MemsetNt, LoggedAddrs and the code

`MemsetNt` records the stores of one call of `memset_movnt_avx`, non-temporal or cached, with the
real sizes (64, 32, ...). `LoggedAddrs` has the real block size, multiplier and shift, a
table of four slots instead of 16384, and accordingly fewer shifts than 13.

## 3. Runs

| Run | Expect | Shows |
|---|---|---|
| `undo_log` | pass | Five operations with stores that span blocks, repeated writes to a block, mmap, munmap and re-mmap, and in the last one a munmap of memory that it has stored to; four crashes anywhere. All invariants, the refinement to `DurableStateMachine`, and that every operation eventually takes durable effect except the last, which dies at the flush whenever it is tried (observation 6) |
| `undo_log_torn_clear` | violation | finding 1 below |
| `undo_log_handoff` | violation | finding 2 |
| `undo_log_map_unmap` | violation | finding 3 |
| `psm_log` | pass | Producer, consumer (with `BATCH_COMMIT`, up to two operations per commit), replay, write-backs and two crashes over a buffer that wraps: the persistent log is a queue, entries are read whole, in order and once, `consume`'s assertions hold, replay is complete, no committed operation is missing or counted twice; `psm_reserve` never waits for its own batch, it returns, and committed operations are executed, although the background process collects operations before it commits |
| `psm_log_full` | violation | finding 4 |
| `mem_region` | pass | any store, mmap, munmap and split, a failing system call of `replace_region` or `remove_region`, any crash: recovery rebuilds the last commit, its assertions hold, regions and mappings agree until a call fails and again after the recovery |
| `psm_init` | pass | start, deaths, failing system calls, restarts: the application gets each committed operation once, the foreground meets the end of the pipe only if the background process died, no circular wait, the handshake ends; the last two except for a wait for a process whose `psm_init` has failed and that lives on (observation 12) |
| `psm_init_startup` | violation | finding 5 |
| `memset_nt` | pass | the bytes set, alignment of the non-temporal stores, nothing left in the cache when the undo log is cleared |
| `logged_addrs` | pass | no store without an undo entry, no entry twice while the table has space |
| `ranges` | pass | sorted and coalesced, no address passes for fresh that is not, `find` exact, `insert` exact, assertions of `remove` |

Bounds, and why they are enough for the cases that matter:

* `UndoLog`: 5 operations, 4 blocks, 6 log slots, 4 crashes. The first operations log a
  block twice, with another in between and with a spanning store, so that the order of
  rollback matters; entries left behind a gap by a crash are met again by the next
  attempt; one operation maps, one unmaps, one maps again what was unmapped, and one unmaps
  what it has written. Four crashes
  allow a crash in execution, two in the recovery from it, and one in the re-execution.
  Block contents are counters modulo 5 to which an operation adds its number, so executing twice or
  partly shows. The proofs of section 4 remove the bounds.
* `PsmLog`: 6 lines, entries of one or two lines, 4 operations in batches of up to 2, so
  that the buffer wraps with and without padding and gets full; 2 crashes, so that a crash
  hits a recovery; `CommitBatch = 2`, so that the background process holds an entry back while
  the foreground waits for space.
* `Ranges`: 7 addresses and ranges of up to 4: up to four disjoint ranges, and every way
  in which an argument can touch, overlap, enclose or lie within them.
* `MemRegion`: 3 pages, the least with which a munmap can leave pieces on both sides; they are
  mapped from the beginning, or one of them is free, so that an operation can map memory that
  no committed table knows, store into it and unmap it again; two system calls in the first operation (map after unmap, split of a split, unmap of a fresh
  region), one in the second. One crash is enough for crashes in recovery as well:
  `RecoveryRebuilds` is about what a further crash would leave and is checked in each state,
  recovery's included. At most one system call fails per run, none after a crash, and a
  behaviour is followed until the commit of the operation in which it failed (the constraint
  `MCBound`): nothing is claimed of what comes after (observations 7, 8). The theorems have no
  such bounds. `ForgetFresh` is FALSE (an operation does
  not unmap one region while another one is fresh, finding 3, and a munmap of memory that is
  fresh does not fail, observation 7) and `UintRange` is larger than
  any mapping (observation 9).
* `PsmInit`: 3 regions and pipes that hold 2 messages, so that the sender blocks; 3
  operations; 4 deaths, so that each process can die in two recoveries. Failures of system calls are
  not bounded.
* `MemsetNt`: all 64 starts, all lengths up to ten cache lines (each step of the case split
  taken and not taken) and some around 16 and 17 lines, where the loop repeats. A length of
  0 only with an aligned start: with another one the function would write a byte, but its only
  caller passes the start of the log.
* `LoggedAddrs`: 4 slots and 6 blocks, so that the table gets full; blocks that collide at
  the first probe, and writes within and across blocks.

Fairness. `AllDurable` assumes weak fairness of the background process (`Step`): it is one
thread that spins or works and is never blocked by another one. `ReserveReturns` and
`CommittedExecuted` assume weak fairness of each process's library code, and so does
`HandshakeEnds`; nobody has to restart a dead process, and no system call has to fail, so that
an error does not count as a way out of a wait. Nothing is
assumed of write-backs, of crashes, or of when the application calls the library. Crashes
are bounded, so progress is claimed after the last one.

`Spin`, `Wait` and `BgSpin` are the code's polling loops, so deadlock checking stays on in
the runs that are expected to pass, except `memset_nt`, where the function returns.

## 4. What is proved

Each theorem holds for all constants that satisfy the named assumptions of its module: any set
of blocks, any buffer, any number of operations, regions, crashes and deaths.

### Undo log (`UndoLogSafety`, `UndoLogRefinement`)

Assumptions: `ConstantsAssumption`, `OperationsAssumption`, `ImageAssumption` in `UndoLog`.

| Theorem | States |
|---|---|
| `TypeCorrect` | `Spec => []TypeOK`, without further conditions: whatever a recovery finds, its tail is a position in the operation log and the undo log stays within its file |
| `CrashConsistent` | `SafeConditions => (Spec => []Inv)` |
| `Refinement` | `SafeConditions => (Spec => Refines)`: the background process implements `DurableStateMachine` |
| `NothingLost` | `SafeConditions => (Spec => CommittedStays)`: the durable tail never moves back, and durable memory changes only with it |
| `SafeStates` | under `SafeConditions`, `AssertionsHold`, `QuiescentAgrees` and `NoStaleNewTable` always hold |
| `WaitingAgrees`, `NewTableFresh` | the last two of them on their own |
| `FaultOnlyIfFatal` | `SafeConditions => (Spec => []DeadOnlyIfFatal)`: the flush of a commit faults in no operation but one that unmaps memory it has stored to |

`OperationsAssumption` contains what the code takes for granted: an operation's entries,
its commit record and a null entry behind it fit into the undo log. With `OPTIMIZED 1`
nothing checks it. `ImageAssumption` says that stores change only blocks logged for them.

`SafeConditions` excludes what findings 1 to 3 are about, and each of its three conjuncts is
needed: dropping any of them gives one of the three violation runs.

The argument. None of the properties is inductive: whether a crash is harmless depends on
what the undo log holds, including remains of earlier attempts. `Inv` describes it by two
situations.

* `Uncommitted`: no commit record is persistent. Each entry in any slot, in the cache or
  in persistent memory, is one that the *current* operation makes in that very slot when it
  is run on `base` (`EntryOf`), and each block whose persistent content differs from
  `base` has an entry within reach of the scan (`Restorable`). Leftovers from an earlier attempt
  are harmless because they satisfy the same description: execution is deterministic
  and the slot number determines the block. An entry may hold a content from the middle of the
  operation, but the oldest entry of a block holds its content in `base` (`OldestEntry`),
  and rollback goes from back to front.
* `CommittedOp(k)`: the log ends with `k`'s commit record, the table that recovery will use
  is that of `k`, and persistent memory agrees with `base` on it.

`Inv` says which situation each program point is in and relates the volatile state to it.
`UndoLogSafety` shows that each action preserves it, one lemma per action.
`UndoLogRefinement` derives that `DurableMem = base` in both situations
(`DurableBefore`, `DurableAfter`), and that the durable tail changes in one action only,
`CommitRecord`, whose step maps to `DurableStateMachine!Execute`; all other steps, crashes
included, map to stuttering (`DurableStep`).

### Operation log (`PsmLogProofs`)

Assumption: `PsmLogAssumption`. The buffer is a whole number of lines, and no entry is longer than
the buffer less one line, which `psm_reserve` asserts.

| Theorem | States |
|---|---|
| `TypeCorrect` | `Spec => []TypeOK` |
| `ExecutedInOrderTheorem` | both processes execute the committed operations in order, none twice, none left out |
| `ConsumedIntactTheorem` | whatever `consume` hands over, in either process, is a whole entry |
| `ConsumeAssertsHoldTheorem` | the two assertions of `consume` hold |
| `ReplayCompleteTheorem` | when the replay loop ends the foreground has executed the whole log |
| `Refinement` | `Spec => IsDurableQueue`: what recovery would read is a queue |
| `CommitsAccountedTheorem` | the committed operations are those with durable effect followed by those in that queue |
| `ReserveNeverStuckTheorem` | if `BatchFits`, `psm_reserve` has its space at the latest when all that was committed is consumed |

The argument. In a circular buffer offsets do not tell what comes before what, and a stale `tail`
cannot be told from a current one. `Inv` says that there *is* an unrolled layout: for each
operation a lap and an offset behind its entry, such that every pointer of either process is the
offset of some operation's end, in the right order (`Layout`, `Pointers`), and everything from
the tail that the producer knows to the end of what it has reserved fits into one lap (`Fits`). Within that window no two
entries share a line, so a store of the producer changes no entry that somebody may still read;
`Contents` says that the entries are there, in the cache from `psm_push` or the application's stores on
and in persistent memory from the drain on, and `Inflight` that the drain will get them there,
padding marks included. Each step either leaves the layout or extends it by the entry it
reserves, and a crash keeps its first part. For the refinement, the reader's walk (`OpsFrom`, a recursive function) is followed by
induction on the entries left: it yields the operations of `log` that are not in `dexec`, because
its bound, the number of lines, is at least the number of entries in the window
(`WindowBound`). `PersistHead` then appends to this queue, `BgCommit` removes from its front, and
no other step changes it. `CommitsAccounted` follows from the same lemma (`QueueIs`).

`ReserveNeverStuck` is the safety part of `ReserveReturns`: the consumer gets as far as `head` by
itself, so all that could make `psm_reserve` wait for ever are the entries of its own batch.
`Near` bounds the way from `head` to the end of the batch: it is at most the size of the
entries if they stay within the lap. Where they do not, the end of the buffer that is
discarded is smaller than the entry that did not fit there, and that happens once per batch, because the whole
batch is shorter than the buffer. Hence the one entry more in `BatchFits`,
`(MaxBatch + 1) * size <= LogSize`. The bound is the one that finding 4 (a single entry of more than half the buffer)
and observation 10 (a larger batch) transgress.

### Memory regions (`MemRegionProofs`)

Assumptions: `MemRegionAssumption`, and `LayoutsAssumption` (the address space starts with
regions that do not overlap, as the initial checkpoint makes them). For any number of pages,
files, operations, system calls and crashes, whichever call fails:

| Theorem | States |
|---|---|
| `TypeCorrect` | `Spec => []TypeOK`: among the rest, `table.dat` is always there, and at most one `new_table.dat` |
| `RegionsMirrorMappingsTheorem` | unless a call failed, each mapped page is in exactly one region and mapped from its file |
| `RecoveryRebuildsTheorem` | whatever a crash leaves of the directory, recovery rebuilds the memory of the last commit record |
| `RecoveryAssertsHoldTheorem` | recovery finds the files of its table, regions that do not overlap, and no undo entry outside them |
| `IdleSeesBoundaryTheorem` | between operations, and after recovery, the application sees that memory and no page beside it |

The last three have `~ForgetFresh` and `UintRange > NumPages` as premises: without the first, finding 3
and observation 7 refute them, without the second observation 9 does.

The argument. The directory alone does not say what recovery will do, since two versions of it
are around (`dir`, and `ddir` as it was at the last fsync) and the commit record decides between
`table.dat` and `new_table.dat`. `Inv` therefore names the table `t` that a
recovery started now would use: `dir` and `ddir` lead to it (`Directory`), and so does
any mixture of them that a crash may leave (`CrashLeads`). `Current` relates `t` to the region
vector by program point. `Restorable` says that each page of `t` is in the undo log with its
content at the boundary, or the file that `t` names has that content, cached and durable.
This is not inductive alone: a store into a fresh page is not logged, and the page may lie where a page
of `t` was, if the operation has unmapped it before. `Working` adds that a fresh page is never mapped from a file of `t`,
and that a page neither fresh nor logged shows what it showed at the boundary and is durable
unless a call failed. A split copies such pages to new files, which are no files of `t`; so
`replace_region` may be interrupted between any two of them. Which pages are fresh after
`mmap` and `munmap` follows from the lemmas of `RangesProofs`, instantiated with `fresh`.

### Start and recovery of the foreground (`PsmInitProofs`)

Assumption: `PsmInitAssumption`.

| Theorem | States |
|---|---|
| `TypeCorrect` | `Spec => []TypeOK` |
| `RecoveredExactlyTheorem` | when `psm_init` returns, memory has every committed operation once |
| `EofOnlyFromDeadTheorem` | the pipe ends before the last message only if the background process died |
| `NoCircularWaitTheorem` | who is blocked in the handshake is blocked by the other process, which is alive and not blocked itself, or has failed and lives on |

The argument. `Inv` follows the messages: what a pipe holds is the end of what has been sent
(`PipeHolds`), the regions received before it were copied from files that nobody writes
until the foreground has answered (`FilesStill`), so that the tail, which comes last, is the one
these files stand at (`Memory`). `NoCircularWait`, the safety part of `HandshakeEnds`, needs
besides who holds which end of the pipes at each program point (`PipeEnds`): a process that reads no longer has the write end
of its pipe, so that the end can only be the peer's, and a dead one has none.

### Ranges (`RangesProofs`)

Assumption: `RangesAssumption`. All five properties of the run: `SortedCoalescedTheorem`, `OnlyFreshTheorem`,
`FindExactTheorem`, `RemoveAssertsHoldTheorem`, `InsertExactTheorem`.

The argument. `insert` and `remove` are loops, modelled as folds. That a fold exists and
advances by one iteration per element is proved by induction on the number of elements
(`FoldExists`, `FoldIterates`); for each loop an invariant of its iterations says that the
part already built is sorted and coalesced, covers what it should and ends before the rest begins.
`Coalesced` compares all pairs of ranges rather than neighbours, which is what makes `find` exact:
a range covered by two elements of the vector would have to cross the gap between them.

### Non-temporal memset (`MemsetNtProofs`)

Assumption: `MemsetNtAssumption` (a start within the line, any length). `SetsExactlyTheorem`,
`StreamsAlignedTheorem`, `ClearPersistsTheorem`: the three properties of the run for every length, so
also for the real log. The invariant: what lies before `dest` has been set and nothing else (`Written`),
`dest` and `len` move in step (`Extent`), and after the leading bytes `dest` is on a line
boundary or nothing is left (`OnBoundary`).

### Deduplication (`LoggedAddrsProofs`)

Assumptions: `LoggedAddrsAssumption`, and `XorAssumption` on the addresses that the fast path
compares: with a block size that is a power of two, the exclusive or of two addresses is less than it
if and only if they are in the same block. TLC evaluates it for the xor of the library.
`LoggedAddrsAssumption` has the two conditions of the code on its constants: the size of the table is a
power of two (`static_assert`, `undo_log.h:97`), and `MaxShifts` shifts bring every
block address to zero (13 of them, `undo_log.h:104`).

| Theorem | States |
|---|---|
| `StoredIsSavedTheorem` | with both build options, no store is executed on a block without an undo entry |
| `ProbesCover` | the probes of `undo_log_insert_logged_addr` visit every slot, whichever block they start from |
| `SavedOnceWhileSpaceTheorem` | as long as a slot is empty, no block has a second undo entry |

The argument. For the first, a slot names a block only if the block has an entry
(`SlotsSaved`), and so have the blocks that `undo_log_record` has done (`Saving`). It does not
depend on which slots the probes visit.

`ProbesCover` does. After `MaxShifts` probes `perturb` is zero (`PerturbGone`) and the rest follow
`i = (5 i + 1) % HashSize`. After `n` steps from `i` this is at `i + g[n] (4 i + 1)` modulo
`HashSize`, where `g[n] = 1 + 5 + ... + 5^(n-1)`. As `4 i + 1` is odd, two steps at the same slot
need a power of two that divides `g[n]` (`OddCancel`); from `g[2k] = 2 g[k] (2 g[k] + 1)`
it then divides `n` (`GeoDivides`). So the slots of `HashSize` consecutive steps differ
(`CycleInjective`), and there are no more (`CycleCovers`).

For `SavedOnceWhileSpace`, that each entry is in the table is not inductive: it must also be found. `Reachable` adds
that the probes for a block with an entry find it before they meet an empty slot. Slots are
filled and, until the next commit, never emptied, so an insertion keeps this; by `ProbesCover` it finds a
slot as long as there is one.

### Only model-checked

Liveness under fairness (`AllDurable`, `ReserveReturns`, `CommittedExecuted`, `HandshakeEnds`),
which the prover cannot express. The theorems about `ReserveNeverStuck` and `NoCircularWait` give the
part of two of them that is a matter of safety.

## 5. Findings

1. **Clearing the undo log is not atomic** (`undo_log.h:126`, run `undo_log_torn_clear`).
   `undo_log_clear` zeroes all used slots with non-temporal stores, unordered before its
   drain. A crash in between may keep entries of a committed operation and lose its commit record;
   recovery then applies the entries to memory that must keep the operation's effect.
2. **The recovered tail is persisted after its only copy is erased** (`undo_log.h:322`, run
   `undo_log_handoff`). Recovery clears the commit record; `bg_run` persists the tail it
   held later. A crash in between makes the next recovery execute the operation twice.
3. **munmap forgets fresh regions** (`ranges.h:89`, run `undo_log_map_unmap`).
   `ranges::remove` drops each range that does not hold an end of the removed one. Memory
   mapped earlier in the same operation is then neither logged nor flushed at commit.
4. **psm_reserve can wait for ever** (`fg.cc:197`, run `psm_log_full`). An entry that does
   not fit behind `local_head` needs its length plus the discarded rest of the buffer, which
   can exceed what is ever free, although the assertion admits the length. Up to half the
   buffer a length is safe (`ReserveNeverStuckTheorem` with `MaxBatch = 1`).
5. **Operations committed before the initial checkpoint are not recoverable** (`fg.cc:119`,
   run `psm_init_startup`): `psm_init` returns while the child still takes it, and
   writes the region table after it.

Further observations. These have no run of their own; the constants of the modules are there to
look at them, and the passing runs choose values that leave them out.

6. **Flush of unmapped memory** (`undo_log.h:257`). If an operation writes managed memory and
   unmaps it, the entries stay in the log, and commit executes `clwb` on unmapped addresses.
   `mem_region.cc:204-205` argues that "the application shouldn't access munmap'ed memory
   anyway", but here `undo_log_commit` does. The background process dies, recovery rolls the
   operation back, and the next attempt dies in the same way: neither this operation nor a
   later one ever takes durable effect. `UndoLog` and `MemRegion` have the step
   (`CommitFault`); the last operation of the `undo_log` run takes it. `AllDurable` says that all
   operations before such a one take effect and that it does not, `DeadOnlyIfFatal`
   that no other operation dies of it.
7. **A failing munmap is reported as success** (`mem_region.cc:199`) after the region has left
   the vector: its pages stay mapped and are in no region, and the next table lacks them.
   `RegionsMirrorMappings` therefore has the premise that no call failed. If the region is one
   that the operation has just mapped, the undo log has by then forgotten that it is fresh, and
   logs later stores to it; a crash before the commit leaves entries for pages of no
   committed table, and recovery aborts on them (`ForgetFresh = TRUE`, `RecoveryAssertsHold` fails).
8. **A failing fsync of a region file is not noticed** (`mem_region.cc:127`): the comparison is
   assigned instead of the result. `RecoveryRebuilds` therefore ends at the commit record.
9. **Sizes of fresh regions are truncated to 32 bits** (`undo_log.h:238`; `UintRange = 2`, with
   an initial region of one page). Stores behind the truncated size are logged. Recovery
   aborts on these entries if the pages are in no committed table (`RecoveryAssertsHold` fails);
   if they are, because the operation had unmapped them first, it restores the new region's
   content into the old file (`RecoveryRebuilds` fails). With `ForgetFresh = TRUE` recovery
   aborts in the same way on stores into a region that finding 3 has made the undo log forget.
10. **A batch can wait for itself** (`fg.cc:197`; `MaxBatch = 3` with entries of two lines).
    Reservations since the last `psm_commit` count as used, but nobody consumes them before
    it: `ReserveReturns` fails. The FIXME at `fg.cc:195` names it. `BatchFits` is sufficient
    for it not to happen.
11. **Regions above 2 GiB cannot be recovered** (`mem_region/fg.cc:43-49`): one `read` must return
    the whole region, and it returns less at each attempt, so that `psm_init` always fails. It is
    one of the errors of `FgRecvFails`.
12. **A foreground that fails leaves its pipes open** (`mem_region/fg.cc:32-53`, `undo_fg.cc:13-47`).
    If `psm_init` returns an error and the application does not exit, the background process
    waits for it for ever, as a write end of `ftb` or a read end of `btf` is still held.
    `NoCircularWait` and `HandshakeEnds` except it: without the exception both fail.
13. **A child that cannot be pinned returns from psm_init** (`fg.cc:124-127`): the application then
    exists twice, with one operation log. `PsmInit` follows it to the return (`BgNoPin`) and no further.

`Ranges` has no property that `remove` is exact, because it is not (finding 3); `OnlyFresh` states
the half that safety of logging needs: `remove` never keeps too much.

## 6. Plan

Done so far, in this order: `UndoLog` with its proofs, `PsmLog`, `Ranges`; then
`MemRegion`, `PsmInit`, `MemsetNt`, `LoggedAddrs` and the batched consumer; then the proofs about
`MemsetNt`, `PsmInit`, `PsmLog`, `Ranges`, `MemRegion` and `LoggedAddrs`, until each safety
property of a passing run was a theorem. What is left is
a composition of `PsmLog` and `UndoLog` in which `rtail` and `dexec` of `PsmLog` are
`DurableTail` and the operations executed. The two modules are written for it: `BgCommit`
is `CommitRecord`, and `Refines` is what `PsmLog` assumes.

## 7. Not modelled

* **What CRIU does**: `PsmInit` models when the initial checkpoint is taken and where a restore
  continues, not the dump.
* **Checkpoint mode** (`chkpt/`): periodic CRIU dumps. `fg.cc:112` itself doubts that it
  works, and there is no recovery path for the parent or the log in it, so there is no
  intended behaviour to hold it against.
* **Code generation in DynamoRIO**, the stack filter and `should_replace`: which stores
  are instrumented is an assumption (`ImageAssumption`), not a result.
* **Tearing within a cache line**: a slot of the undo log is cleared as a whole or not at
  all in `UndoLog`. The non-temporal stores have 32 bytes, so half a slot is possible; it adds
  outcomes to finding 1 only.
* **An application that goes on after `psm_init` has failed.** The process is `failed` from then on
  and may only die; what it executes, or a second call of `psm_init`, is not followed.
* **Errors of rename and unlink** (ignored by their callers; only the first rename of all may fail,
  in `PsmInit`), an undo log that overflows (`undo_log.h:221`), a directory used twice without being
  cleared, and a background process that survives its foreground next to a restored pair:
  listed as hazards, outside what the code is meant to handle.
* **`use_sga`**: `psm_init` aborts in the parent.
* **libc wrappers, `substitute.cc` (not built), `dir_iter.h` (unused), benchmarks**: no
  state of the system.

Out of the prover's reach, and so left to TLC: liveness under fairness. Induction over data
is done by hand where a proof needs it: the library's induction theorems cannot be instantiated,
but that a non-empty set of natural numbers has a least element can be cited, and induction over the
elements of a set follows (`SetInduction`). The walk over the operation log, the loops of `ranges<T>` and the
probes of the hash table are treated in this way.
