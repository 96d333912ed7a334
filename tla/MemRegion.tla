----------------------------- MODULE MemRegion -----------------------------
(***************************************************************************)
(* mem_region_manager: application memory as files in persistent memory.   *)
(* Each region is mapped from a file of its own; table.dat lists the       *)
(* regions of the last committed operation.  The regions an operation maps *)
(* and unmaps are written to new_table.dat, which replaces table.dat after *)
(* the commit record.  A munmap of a part of a region gives what is left   *)
(* of it new files, so that the old file stays as the old table needs it.  *)
(*                                                                         *)
(* A file has contents as the processor sees them (cached) and as they are *)
(* in persistent memory (durable); the directory has names as the kernel   *)
(* sees them (dir) and as they are on disk (ddir).  A crash keeps the      *)
(* durable half, or also what was on its way.                              *)
(*                                                                         *)
(* Abstractions.  An application page is the unit of mapping, of stores    *)
(* and of undo logging; a store writes the number of its operation.  The   *)
(* undo log is the function from pages to the oldest content saved (module *)
(* UndoLog shows how slots, drains and rollback come to that), and whether *)
(* a commit record follows.                                                *)
(* A file id is random, and O_EXCL makes a collision a failure: a new file *)
(* gets an id not in use.  Files that no table names are never opened      *)
(* again and never removed; the model forgets them.                        *)
(*                                                                         *)
(* A definition X_Slip is X with a plausible slip, kept to show that the   *)
(* properties notice it.                                                   *)
(***************************************************************************)
EXTENDS Integers, Sequences, FiniteSets, SequencesExt

CONSTANTS
    NumPages,      \* pages of the address space
    InitLayouts,   \* what init_address_space may find: a set of sequences of ranges
    UintRange,     \* 2^32 bytes, in pages: undo_log_*_fresh_region take their size as uint
    Faults,        \* system calls that may fail: a subset of FaultKinds
    ForgetFresh,   \* may an operation unmap one range while another one is fresh, or fail
                   \* to unmap one that is fresh?
    MaxFiles, MaxOps, MaxCrashes,   \* bounds of the model
    MaxCalls       \* bound of the model: MaxCalls[k] is the number of mmap and munmap calls of operation k

Pages == 0..(NumPages - 1)
Initial == MaxOps + 1   \* content of the initial checkpoint
Val == 0..Initial
Unmapped == -1

\* persist: openat, write or the directory's fsync in persist_region, or the mmap of the new file
\* in replace_region, which leaves the pages mapped as they are; fsync: the file's fsync in
\* persist_region; close: close in replace_region; munmap: munmap in remove_region.
FaultKinds == {"persist", "fsync", "close", "munmap"}

ASSUME MemRegionAssumption ==
    /\ NumPages \in Nat \ {0} /\ MaxFiles \in Nat /\ MaxOps \in Nat
    /\ MaxCalls \in [1..MaxOps -> Nat] /\ MaxCrashes \in Nat
    /\ UintRange \in Nat \ {0}
    /\ Faults \subseteq FaultKinds
    /\ ForgetFresh \in BOOLEAN

VARIABLES
    \* In persistent memory.
    durable,    \* durable[id]: the content of region file id
    ddir,       \* the directory: table.dat and new_table.dat, a set of at most one table each
    logged,     \* the undo log: page |-> content saved first
    committed,  \* is there a commit record?
    \* Lost in a crash.
    cached,     \* region files as the processor sees them
    dir,        \* the directory as the kernel sees it
    page_table, \* page |-> id of the file it is mapped from, 0 if it is not mapped
    regions,    \* mem_region_manager.regions
    rs,         \* mem_region_manager.rs, as the set of its pages
    fresh,      \* undo_log.fresh_regions
    modified,   \* region_table_modified
    pc,
    \* Bookkeeping of the model.
    failed,     \* the operation in which a system call failed unnoticed, 0 if none did
    boundary,   \* what the application saw at the last commit record
    ops,        \* operations committed
    calls,      \* system calls of the operation in execution
    crashes

F == INSTANCE Ranges WITH v <- fresh, points <- rs, MaxAddr <- NumPages - 1, MaxSize <- NumPages

pvars == <<durable, ddir, logged, committed>>
mvars == <<page_table, regions, rs, fresh, modified>>
bvars == <<failed, boundary, ops, calls, crashes>>
vars  == <<pvars, cached, dir, mvars, pc, bvars>>

Extent(start, size) == [start |-> start, size |-> size]
PagesOf(r) == r.start..(r.start + r.size - 1)
End(r) == r.start + r.size

\* struct region
Region(range, id) == [start |-> range.start, size |-> range.size, file_id |-> id]

\* The ranges a system call may name.
Arguments == {r \in [start : Pages, size : 1..NumPages] : End(r) <= NumPages}

\* The mappings that init_address_space replaces do not overlap, and each gets a file.
ASSUME LayoutsAssumption ==
    \A ranges \in InitLayouts :
        /\ ranges \in Seq(Arguments) /\ Len(ranges) <= MaxFiles
        /\ \A i, j \in 1..Len(ranges) : i # j => PagesOf(ranges[i]) \cap PagesOf(ranges[j]) = {}

\* region::does_include, for an address and for a region; region::does_overlap_with.
does_include_addr(r, a) == r.start <= a /\ a < End(r)
does_include(r, other) == does_include_addr(r, other.start) /\ does_include_addr(r, End(other) - 1)
does_overlap_with(r, other) == does_include_addr(r, other.start) \/ does_include_addr(other, r.start)

\* The index of the first region that overlaps, or 0.
find_overlap(s, range) == SelectInSeq(s, LAMBDA r : does_overlap_with(r, range))

\* What the application sees.
View == [p \in Pages |-> IF page_table[p] = 0 THEN Unmapped ELSE cached[page_table[p]][p]]

-----------------------------------------------------------------------------
(* replace_region and remove_region.                                       *)

\* persist_region: the content it copies to the file.
Content_Blank(range) == [p \in PagesOf(range) |-> 0]
Content(range) == [p \in PagesOf(range) |-> IF page_table[p] = 0 THEN 0 ELSE View[p]]

\* The operation in execution meets a failing system call and goes on (bound of the model:
\* one such call).
Fails(kind) == kind \in Faults /\ failed = 0 /\ failed' = ops + 1

\* The calls of replace_region for a number of ranges: the first n get a file and are mapped from
\* it, the first known of them get a region.  When a call fails the rest is not done; an fsync
\* that fails goes unnoticed (its result is compared before it is assigned) and leaves the
\* files in lost without their content.
Persisted(n, known, number, lost) ==
    \/ n = number /\ known = n /\ lost = {} /\ UNCHANGED failed
    \/ n = number /\ known = n /\ lost # {} /\ Fails("fsync")
    \/ n < number /\ known = n /\ lost = {} /\ Fails("persist")
    \/ n <= number /\ known = n - 1 /\ lost = {} /\ Fails("close")

\* The file id that replace_region takes next.
NextId(used) == Min(1..MaxFiles \ used)

\* The files old and one for each region of new; those in lost have not got their content.
WithFiles(old, new, lost) ==
    LET row(f) == SelectInSeq(new, LAMBDA r : r.file_id = f)
    IN  [f \in DOMAIN old \cup {new[i].file_id : i \in DOMAIN new} |->
            IF row(f) = 0 THEN old[f]
            ELSE IF row(f) \in lost THEN [p \in PagesOf(new[row(f)]) |-> 0]
            ELSE Content(new[row(f)])]

\* replace_region for each of at most two ranges: new files, mapped in place, and regions for
\* the first known of them.
ReplaceRegions(ranges, known, lost, kept, table) ==
    LET one == NextId(DOMAIN cached)
        id == <<one, NextId(DOMAIN cached \cup {one})>>
        new == [i \in 1..Len(ranges) |-> Region(ranges[i], id[i])]
    IN  /\ Cardinality(DOMAIN cached) + 2 <= MaxFiles
        /\ cached' = WithFiles(cached, new, {})
        /\ durable' = WithFiles(durable, new, lost)
        /\ regions' = kept \o SubSeq(new, 1, known)
        /\ rs' = rs \cup UNION {PagesOf(new[i]) : i \in 1..known}
        /\ page_table' = [p \in Pages |->
              LET i == SelectInSeq(new, LAMBDA r : does_include_addr(r, p))
              IN  IF i = 0 THEN table[p] ELSE new[i].file_id]

\* The vector without its i-th element: the last one takes its place.
Without(s, i) == [j \in 1..(Len(s) - 1) |-> IF j = i THEN s[Len(s)] ELSE s[j]]

\* What remove_region must give new files: the piece behind the removed range, then the
\* one before it.
Pieces_LeftOnly(r, range) ==
    IF r.start # range.start THEN <<Extent(r.start, range.start - r.start)>> ELSE <<>>
Pieces(r, range) ==
    (IF End(r) # End(range) THEN <<Extent(End(range), End(r) - End(range))>> ELSE <<>>)
    \o (IF r.start # range.start THEN <<Extent(r.start, range.start - r.start)>> ELSE <<>>)

\* The size as undo_log_record_fresh_region and undo_log_remove_fresh_region get it.
AsUint(range) == Extent(range.start, range.size % UintRange)

\* ranges::remove forgets ranges it should not touch (module Ranges).
RemoveExact(range) ==
    \A p \in Pages : F!find(fresh, Extent(p, 1)) /\ p \notin PagesOf(range)
                        => F!find(F!remove(fresh, range), Extent(p, 1))

-----------------------------------------------------------------------------
(* The application's operation.                                            *)

InitWith(ranges) ==
    /\ cached = [i \in DOMAIN ranges |-> [p \in PagesOf(ranges[i]) |-> Initial]]
    /\ durable = cached
    /\ regions = [i \in DOMAIN ranges |-> Region(ranges[i], i)]
    /\ dir = [table |-> {regions}, new |-> {}] /\ ddir = dir
    /\ page_table = [p \in Pages |-> SelectInSeq(regions, LAMBDA r : does_include_addr(r, p))]
    /\ rs = {p \in Pages : page_table[p] # 0}
    /\ logged = <<>> /\ committed = FALSE
    /\ fresh = <<>> /\ modified = FALSE
    /\ failed = 0 /\ boundary = View /\ ops = 0 /\ calls = 0 /\ crashes = 0
    /\ pc = "idle"

Init == \E ranges \in InitLayouts : InitWith(ranges)

Begin ==
    /\ pc = "idle" /\ ops < MaxOps
    /\ pc' = "exec"
    /\ UNCHANGED <<pvars, cached, dir, mvars, bvars>>

\* _bg_consume polls; an aborted process is gone until somebody restarts it.
Wait == pc \in {"idle", "aborted"} /\ UNCHANGED vars

\* A store, after undo_log_record has saved what it overwrites unless it goes to a fresh
\* region.
Recorded(p) ==
    IF F!find(fresh, Extent(p, 1)) \/ p \in DOMAIN logged THEN logged
    ELSE [q \in DOMAIN logged \cup {p} |-> IF q = p THEN View[p] ELSE logged[q]]

Store(p) ==
    /\ pc = "exec" /\ page_table[p] # 0 /\ View[p] # ops + 1
    /\ logged' = Recorded(p)
    /\ cached' = [cached EXCEPT ![page_table[p]][p] = ops + 1]
    /\ UNCHANGED <<durable, ddir, committed, dir, mvars, pc, bvars>>

\* A system call that the instrumentation intercepts.
Call ==
    /\ pc = "exec" /\ calls < MaxCalls[ops + 1] /\ calls' = calls + 1
    /\ UNCHANGED <<ddir, logged, committed, dir, boundary, ops, crashes>>

\* event_pre_syscall and event_post_syscall of mmap: the kernel picks free pages.
Mmap_NotFresh(range) ==
    /\ Call /\ \A p \in PagesOf(range) : page_table[p] = 0
    /\ find_overlap(regions, range) = 0
    /\ \E lost \in SUBSET {1} :
          Persisted(1, 1, 1, lost) /\ ReplaceRegions(<<range>>, 1, lost, regions, page_table)
    /\ modified' = TRUE
    /\ UNCHANGED <<fresh, pc>>
Mmap(range) ==
    /\ Call /\ \A p \in PagesOf(range) : page_table[p] = 0
    /\ find_overlap(regions, range) = 0
    /\ \E lost \in SUBSET {1} :
          Persisted(1, 1, 1, lost) /\ ReplaceRegions(<<range>>, 1, lost, regions, page_table)
    /\ fresh' = F!insert(fresh, AsUint(range))
    /\ modified' = TRUE
    /\ UNCHANGED pc

\* A DR_ASSERT fails: on the result of replace_region, or on an overlap.
MmapAbort(range) ==
    /\ Call /\ \A p \in PagesOf(range) : page_table[p] = 0
    /\ Faults \cap {"persist", "close"} # {} \/ find_overlap(regions, range) # 0
    /\ pc' = "aborted"
    /\ UNCHANGED <<durable, cached, mvars, failed>>

\* event_pre_syscall of munmap: the fresh regions first, then remove_region.
UnmapFresh(range) ==
    /\ Call
    /\ ForgetFresh \/ RemoveExact(range)
    /\ fresh' = F!remove(fresh, AsUint(range))

\* Managed memory: the pieces before the one whose replace_region fails are done.
Munmap(range) ==
    LET i == find_overlap(regions, range)
        pieces == Pieces(regions[i], range)
    IN  /\ UnmapFresh(range)
        /\ i # 0 /\ does_include(regions[i], range)
        /\ \E n \in 0..Len(pieces) : \E known \in 0..n, lost \in SUBSET (1..n) :
              /\ Persisted(n, known, Len(pieces), lost)
              /\ ReplaceRegions(SubSeq(pieces, 1, n), known, lost, Without(regions, i),
                     [p \in Pages |-> IF p \in PagesOf(range) THEN 0 ELSE page_table[p]])
        /\ modified' = TRUE
        /\ UNCHANGED pc

\* The system call fails: remove_region has dropped the region and reports success.  What
\* was fresh in it is still mapped and no longer fresh.
MunmapFails(range) ==
    LET i == find_overlap(regions, range)
    IN  /\ UnmapFresh(range)
        /\ ForgetFresh \/ \A p \in PagesOf(range) : ~F!find(fresh, Extent(p, 1))
        /\ i # 0 /\ does_include(regions[i], range) /\ Fails("munmap")
        /\ regions' = Without(regions, i)
        /\ modified' = TRUE
        /\ UNCHANGED <<durable, cached, page_table, rs, pc>>

\* NOT_MANAGED: the system call goes through.  Pages that an earlier failure has left mapped
\* without a region are unmapped.
MunmapUnmanaged(range) ==
    /\ UnmapFresh(range)
    /\ find_overlap(regions, range) = 0
    /\ page_table' = [p \in Pages |-> IF p \in PagesOf(range) THEN 0 ELSE page_table[p]]
    /\ UNCHANGED <<durable, cached, regions, rs, modified, pc, failed>>

\* "doesn't support unmap across regions"
MunmapAbort(range) ==
    LET i == find_overlap(regions, range)
    IN  /\ UnmapFresh(range)
        /\ i # 0 /\ ~does_include(regions[i], range)
        /\ pc' = "aborted"
        /\ UNCHANGED <<durable, cached, page_table, regions, rs, modified, failed>>

FinishOp ==
    /\ pc = "exec" /\ calls' = 0
    /\ pc' = IF modified THEN "write_table" ELSE "commit_flush"
    /\ UNCHANGED <<pvars, cached, dir, mvars, failed, boundary, ops, crashes>>

-----------------------------------------------------------------------------
(* Commit: instrument_commit and instrument_cleanup.                       *)

\* Rows written over a file that is not truncated.
Over(rows, old) == rows \o SubSeq(old, Len(rows) + 1, Len(old))

\* persist_new_region_table up to its fsync of the directory.
WriteNewTable ==
    /\ pc = "write_table"
    /\ dir' = [dir EXCEPT !.new = {IF @ = {} THEN regions ELSE Over(regions, CHOOSE t \in @ : TRUE)}]
    /\ pc' = "fsync_table"
    /\ UNCHANGED <<pvars, cached, mvars, bvars>>

FsyncDir(from, to) ==
    /\ pc = from /\ pc' = to
    /\ ddir' = dir
    /\ UNCHANGED <<durable, logged, committed, cached, dir, mvars, bvars>>

\* undo_log_commit flushes what was logged and what is fresh, through the mappings of now.
ToFlush == DOMAIN logged \cup {p \in Pages : F!find(fresh, Extent(p, 1))}

Flushed(pages) ==
    [id \in DOMAIN durable |-> [p \in DOMAIN durable[id] |->
        IF p \in pages /\ page_table[p] = id THEN cached[id][p] ELSE durable[id][p]]]

CommitFlush ==
    /\ pc = "commit_flush" /\ \A p \in ToFlush : page_table[p] # 0
    /\ durable' = Flushed(ToFlush)
    /\ pc' = "commit_record"
    /\ UNCHANGED <<ddir, logged, committed, cached, dir, mvars, bvars>>

\* clwb of an unmapped address.
CommitFault ==
    /\ pc = "commit_flush" /\ \E p \in ToFlush : page_table[p] = 0
    /\ pc' = "aborted"
    /\ UNCHANGED <<pvars, cached, dir, mvars, bvars>>

CommitRecord ==
    /\ pc = "commit_record"
    /\ committed' = TRUE /\ boundary' = View /\ ops' = ops + 1
    /\ pc' = IF modified THEN "rename" ELSE "cleanup"
    /\ UNCHANGED <<durable, ddir, logged, cached, dir, mvars, failed, calls, crashes>>

\* commit_new_region_table up to its fsync of the directory.
Renamed_Always(d) == [table |-> d.new, new |-> {}]
Renamed(d) == IF d.new = {} THEN d ELSE [table |-> d.new, new |-> {}]

CommitTable ==
    /\ pc = "rename"
    /\ dir' = Renamed(dir)
    /\ pc' = "fsync_rename"
    /\ UNCHANGED <<pvars, cached, mvars, bvars>>

\* The files the tables of directory d name.
FilesOf(d) == UNION {{t[i].file_id : i \in DOMAIN t} : t \in d.table \cup d.new}

\* undo_log_clear and the reset of region_table_modified.
Cleanup ==
    /\ pc = "cleanup"
    /\ logged' = <<>> /\ committed' = FALSE
    /\ fresh' = <<>> /\ modified' = FALSE
    /\ LET kept == FilesOf(dir) \cup (Range(page_table) \ {0})
       IN  cached' = Restrict(cached, kept) /\ durable' = Restrict(durable, kept)
    /\ pc' = "idle"
    /\ UNCHANGED <<ddir, dir, page_table, regions, rs, bvars>>

-----------------------------------------------------------------------------
(* Crash and recovery.                                                     *)

\* What of the directory a crash may leave: names that were not yet synced may be there or
\* not, and a new table that was not yet synced may be cut short.
CrashDirs ==
    {ddir, dir} \cup
    IF pc # "fsync_table" THEN {}
    ELSE {[ddir EXCEPT !.new = {SubSeq(regions, 1, n)}] : n \in 0..Len(regions)}

\* A file as the crash leaves it.  Each dirty line may have been written back before, also
\* if its page is not mapped any more.  (An operation writes a page of a file at most
\* once, so that no content but the last two can be there.)
Dirty(id) == {p \in DOMAIN cached[id] : cached[id][p] # durable[id][p]}

Survives(id) ==
    {[p \in DOMAIN cached[id] |-> IF p \in back THEN cached[id][p] ELSE durable[id][p]] :
        back \in SUBSET Dirty(id)}

\* The operation in which a system call failed has not been committed.
Harmless == failed = 0 \/ ops < failed

Crash ==
    /\ crashes < MaxCrashes /\ crashes' = crashes + 1
    /\ pc # "recover" /\ calls' = 0
    /\ failed' = IF Harmless THEN 0 ELSE failed
    /\ dir' \in CrashDirs /\ ddir' = dir'
    /\ durable' \in {d \in [FilesOf(dir') -> UNION {Survives(id) : id \in FilesOf(dir')}] :
                        \A id \in FilesOf(dir') : d[id] \in Survives(id)}
    /\ cached' = durable'
    /\ page_table' = [p \in Pages |-> 0]
    /\ regions' = <<>> /\ rs' = {} /\ fresh' = <<>> /\ modified' = FALSE
    /\ pc' = "recover"
    /\ UNCHANGED <<logged, committed, boundary, ops>>

\* undo_log_recover: commit_new_region_table or clear_new_region_table, up to the fsync.
RecoverTable_AlwaysRename ==
    /\ pc = "recover"
    /\ dir' = Renamed(dir)
    /\ pc' = "recover_fsync"
    /\ UNCHANGED <<pvars, cached, mvars, bvars>>
RecoverTable ==
    /\ pc = "recover"
    /\ dir' = IF committed THEN Renamed(dir) ELSE [dir EXCEPT !.new = {}]
    /\ pc' = "recover_fsync"
    /\ UNCHANGED <<pvars, cached, mvars, bvars>>

\* mem_region_manager::recover maps the table's files row by row; a later row maps over
\* an earlier one.
PageTable(t) == [p \in Pages |->
    LET i == SelectLastInSeq(t, LAMBDA r : does_include_addr(r, p))
    IN  IF i = 0 THEN 0 ELSE t[i].file_id]

RecoverMap ==
    /\ pc = "recover_map"
    /\ \E t \in dir.table :
          /\ regions' = t
          /\ page_table' = PageTable(t)
          /\ rs' = UNION {PagesOf(t[i]) : i \in DOMAIN t}
    /\ pc' = IF committed THEN "recover_clear" ELSE "rollback"
    /\ UNCHANGED <<pvars, cached, dir, fresh, modified, bvars>>

\* The assertion of the rollback loop, and the loop.
Applicable == \A p \in DOMAIN logged : p \in rs

Rollback ==
    /\ pc = "rollback" /\ Applicable
    /\ cached' = [id \in DOMAIN cached |-> [p \in DOMAIN cached[id] |->
          IF p \in DOMAIN logged /\ page_table[p] = id THEN logged[p] ELSE cached[id][p]]]
    /\ pc' = "rollback_drain"
    /\ UNCHANGED <<pvars, dir, mvars, bvars>>

RollbackDrain ==
    /\ pc = "rollback_drain"
    /\ durable' = Flushed(DOMAIN logged)
    /\ pc' = "recover_clear"
    /\ UNCHANGED <<ddir, logged, committed, cached, dir, mvars, bvars>>

RecoverClear ==
    /\ pc = "recover_clear"
    /\ logged' = <<>> /\ committed' = FALSE
    /\ pc' = "idle"
    /\ UNCHANGED <<durable, ddir, cached, dir, mvars, bvars>>

Next ==
    \/ Begin \/ Wait \/ FinishOp
    \/ \E p \in Pages : Store(p)
    \/ \E range \in Arguments :
          Mmap(range) \/ MmapAbort(range) \/ Munmap(range) \/ MunmapFails(range)
          \/ MunmapUnmanaged(range) \/ MunmapAbort(range)
    \/ WriteNewTable \/ FsyncDir("fsync_table", "commit_flush")
    \/ CommitFlush \/ CommitFault \/ CommitRecord
    \/ CommitTable \/ FsyncDir("fsync_rename", "cleanup") \/ Cleanup
    \/ Crash \/ RecoverTable \/ FsyncDir("recover_fsync", "recover_map")
    \/ RecoverMap \/ Rollback \/ RollbackDrain \/ RecoverClear

Spec == Init /\ [][Next]_vars

-----------------------------------------------------------------------------
(* Properties.                                                             *)

\* The table recovery would use with directory d.
TableOf(d) == IF committed THEN Renamed(d).table ELSE d.table

\* What the application may see of page p after recovering with directory d.
Rebuilt(d, p) ==
    LET ids == (UNION {{PageTable(t)[p]} : t \in TableOf(d)}) \ {0}
    IN  IF ids = {} THEN {Unmapped}
        ELSE IF ~committed /\ p \in DOMAIN logged THEN {logged[p]}
        ELSE UNION {{durable[id][p], cached[id][p]} : id \in ids}

\* Types of the state.
TypeOK ==
    /\ DOMAIN cached = DOMAIN durable /\ DOMAIN cached \subseteq 1..MaxFiles
    /\ \A id \in DOMAIN cached : DOMAIN cached[id] = DOMAIN durable[id]
    /\ \A d \in {dir, ddir} : Cardinality(d.table) = 1 /\ Cardinality(d.new) <= 1
    /\ DOMAIN logged \subseteq Pages /\ \A p \in DOMAIN logged : logged[p] \in Val
    /\ page_table \in [Pages -> 0..MaxFiles]
    /\ rs \subseteq Pages /\ {committed, modified} \subseteq BOOLEAN
    /\ boundary \in [Pages -> Val \cup {Unmapped}]
    /\ failed \in 0..MaxOps /\ ops \in 0..MaxOps /\ calls \in Nat /\ crashes \in 0..MaxCrashes

\* At every moment, a crash leaves files and tables from which recovery rebuilds exactly
\* the pages and contents of the last committed operation, however the operation in
\* progress has mapped, unmapped, split and written regions, and whatever system call has
\* failed in it.
RecoveryRebuilds == Harmless => \A d \in CrashDirs, p \in Pages : Rebuilt(d, p) = {boundary[p]}

\* The assertions of recovery: it opens a table whose files exist, whose regions do not overlap,
\* and "Writes to newly allocated regions should have been filtered out" of the undo
\* log (undo_log.h:338); also if the crash interrupted an operation with a failing call.
RecoveryAssertsHold ==
    Harmless =>
        /\ pc = "recover_map" => \E t \in dir.table :
              /\ \A i \in DOMAIN t : t[i].file_id \in DOMAIN durable
              /\ \A i, j \in DOMAIN t : i # j => ~does_overlap_with(t[i], t[j])
        /\ pc = "rollback" => Applicable

\* As long as no system call has failed the regions and the page table agree: every mapped page
\* is in exactly one region, and mapped from that region's file ("First perform the `munmap`,
\* then update our metadata", mem_region.cc:198); a recovery restores that.
RegionsMirrorMappings ==
    failed = 0 /\ pc \in {"idle", "exec", "commit_flush"} =>
        \A p \in Pages :
            LET owners == {i \in DOMAIN regions : does_include_addr(regions[i], p)}
            IN  /\ Cardinality(owners) = IF page_table[p] = 0 THEN 0 ELSE 1
                /\ \A i \in owners : regions[i].file_id = page_table[p]

\* Between operations the application sees what the last one committed: also after any
\* number of crashes and recoveries.
IdleSeesBoundary == Harmless /\ pc = "idle" => View = boundary
=============================================================================
