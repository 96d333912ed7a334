-------------------------- MODULE MemRegionProofs --------------------------
(***************************************************************************)
(* Proofs about MemRegion, for any number of pages, files, operations,     *)
(* system calls and crashes, and any layout of the address space.          *)
(*                                                                         *)
(* The invariant names the table t that a recovery started now would use:  *)
(* whatever a crash leaves of the directory leads to it.  As long as no    *)
(* commit record is there, each page of t is in the undo log with its      *)
(* content at the boundary, or the file that t names has that content,     *)
(* cached and durable.  That stores keep this so rests on three facts      *)
(* about the pages as they are mapped now: a fresh page is not mapped from *)
(* a file of t; a page that is neither fresh nor logged shows what it      *)
(* showed at the boundary; and it is durable, unless a call failed.        *)
(***************************************************************************)
EXTENDS MemRegion, FiniteSetTheorems, SequenceTheorems, TLAPS

RP == INSTANCE RangesProofs WITH v <- fresh, points <- rs, MaxAddr <- NumPages - 1, MaxSize <- NumPages

\* What observations 7 and 9 of the README and finding 3 are about is left out.
Conditions == ~ForgetFresh /\ UintRange > NumPages

IsFresh(p) == F!find(fresh, Extent(p, 1))

RegionType == {r \in [start : Pages, size : 1..NumPages, file_id : 1..MaxFiles] : End(r) <= NumPages}

\* The pages of a table.
Rows(t) == UNION {PagesOf(t[i]) : i \in 1..Len(t)}

\* t is a table of regions that do not overlap, each with its file in f.
Table(t, f) ==
    /\ t \in Seq(RegionType)
    /\ \A i \in 1..Len(t) : t[i].file_id \in DOMAIN f /\ DOMAIN f[t[i].file_id] = PagesOf(t[i])
    /\ \A i, j \in 1..Len(t) : i # j => PagesOf(t[i]) \cap PagesOf(t[j]) = {}

\* With directory d, and a commit record if c, recovery uses table t.
Leads(d, t, c, f) ==
    \E o, n : /\ d = [table |-> {o}, new |-> n] /\ Table(o, f)
              /\ n = {} \/ \E u : n = {u} /\ Table(u, f)
              /\ IF c /\ n # {} THEN n = {t} ELSE o = t

Executing == {"exec", "write_table", "fsync_table", "commit_flush", "commit_record"}
Cleaning == {"rename", "fsync_rename", "cleanup"}
Rolling == {"rollback", "rollback_drain", "recover_clear"}
Recovering == {"recover", "recover_fsync", "recover_map"} \cup Rolling

Files(f) ==
    /\ DOMAIN f \subseteq 1..MaxFiles
    /\ \A id \in DOMAIN f : DOMAIN f[id] \subseteq Pages /\ \A p \in DOMAIN f[id] : f[id][p] \in Val

Types ==
    /\ Files(cached) /\ Files(durable) /\ DOMAIN durable = DOMAIN cached
    /\ \A id \in DOMAIN cached : DOMAIN durable[id] = DOMAIN cached[id]
    /\ DOMAIN logged \subseteq Pages /\ \A p \in DOMAIN logged : logged[p] \in Val
    /\ committed \in BOOLEAN /\ modified \in BOOLEAN /\ rs \subseteq Pages
    /\ boundary \in [Pages -> Val \cup {Unmapped}]
    /\ pc \in Executing \cup Cleaning \cup Recovering \cup {"idle", "aborted"}

Counters ==
    /\ failed \in 0..MaxOps /\ failed <= ops + 1
    /\ ops \in 0..MaxOps /\ calls \in Nat /\ crashes \in 0..MaxCrashes
    /\ pc \in Executing => ops < MaxOps
    /\ Harmless /\ failed # 0 => pc \in Executing \cup {"aborted"}

\* The page table, and the regions the manager knows of.
Mapped ==
    /\ page_table \in [Pages -> 0..MaxFiles]
    /\ \A p \in Pages : page_table[p] # 0 => page_table[p] \in DOMAIN cached /\ p \in DOMAIN cached[page_table[p]]
    /\ Table(regions, cached)
    /\ \A i \in 1..Len(regions) : \A p \in PagesOf(regions[i]) : page_table[p] = regions[i].file_id
    /\ failed = 0 => \A p \in Pages : page_table[p] # 0 => p \in Rows(regions)

\* The directory, in memory and on disk.
Directory(t) ==
    /\ Leads(dir, t, committed, cached) /\ Leads(ddir, t, committed, cached)
    /\ pc \notin {"fsync_table", "fsync_rename", "recover_fsync"} => ddir = dir
    /\ pc \in {"idle", "exec", "write_table", "fsync_rename", "cleanup", "recover_fsync", "recover_map"} \cup Rolling
           => dir.new = {}
    /\ pc \in {"commit_flush", "commit_record"} => dir.new = IF modified THEN {regions} ELSE {}
    /\ pc \in {"fsync_table", "rename"} => dir.new = {regions}
    /\ pc \in {"write_table", "fsync_table"} => modified
    /\ pc \in {"idle"} \cup Recovering => ~modified /\ fresh = <<>>

\* Which table t is.
Current(t) ==
    /\ Table(t, cached)
    /\ pc \in Executing \cup {"idle", "aborted", "rollback", "rollback_drain"} => ~committed
    /\ pc \in Cleaning => committed
    /\ pc \in {"idle"} \cup Cleaning \cup Rolling => t = regions
    /\ pc \in Executing /\ ~modified => t = regions
    /\ pc \in Rolling => rs = Rows(t)
    /\ pc = "idle" => logged = <<>>

\* The files f have on table t what the application saw at the last commit record.
Holds(t, f) == \A i \in 1..Len(t) : \A p \in PagesOf(t[i]) : f[t[i].file_id][p] = boundary[p]

\* What recovery would rebuild.
Restorable(t) ==
    /\ \A p \in Pages : boundary[p] = Unmapped <=> p \notin Rows(t)
    /\ ~committed => DOMAIN logged \subseteq Rows(t)
    /\ committed => Holds(t, cached) /\ Holds(t, durable)
    /\ ~committed => \A i \in 1..Len(t) : \A p \in PagesOf(t[i]) :
           IF p \in DOMAIN logged THEN logged[p] = boundary[p]
           ELSE cached[t[i].file_id][p] = boundary[p] /\ durable[t[i].file_id][p] = boundary[p]
    /\ pc \in {"rollback_drain", "recover_clear"} => Holds(t, cached)
    /\ pc = "recover_clear" => Holds(t, durable)

\* The memory in which the operation executes.
Working(t) ==
    /\ pc \in {"idle"} \cup (Executing \ {"commit_record"}) =>
           /\ RP!Coalesced(fresh)
           /\ \A p \in Pages : IsFresh(p) => \A i \in 1..Len(t) : t[i].file_id # page_table[p]
           /\ \A p \in Pages : page_table[p] # 0 /\ ~IsFresh(p) /\ p \notin DOMAIN logged =>
                  /\ p \in Rows(t) /\ cached[page_table[p]][p] = boundary[p]
                  /\ failed = 0 => durable[page_table[p]][p] = boundary[p]
    /\ pc = "commit_record" /\ failed = 0 =>
           \A p \in Pages : page_table[p] # 0 => durable[page_table[p]][p] = cached[page_table[p]][p]

Inv ==
    /\ Types /\ Counters /\ Mapped
    /\ \E t : Directory(t) /\ Current(t) /\ (Conditions /\ Harmless => Restorable(t) /\ Working(t))

-----------------------------------------------------------------------------
(* Ranges of pages, and the searches in a table.                           *)

LEMMA PagesType == Pages \in SUBSET Nat /\ NumPages \in Nat /\ \A p : p \in Pages <=> p \in Nat /\ p < NumPages
BY MemRegionAssumption DEF Pages

LEMMA ExtentType ==
    ASSUME NEW r \in Arguments
    PROVE  /\ r.start \in Nat /\ r.size \in Nat /\ r.size > 0 /\ End(r) = r.start + r.size /\ End(r) \in Nat
           /\ End(r) <= NumPages /\ r.start \in PagesOf(r) /\ PagesOf(r) \subseteq Pages
           /\ \A p : p \in PagesOf(r) <=> p \in Int /\ r.start <= p /\ p < End(r)
<1>1. r.start \in Nat /\ r.size \in Nat /\ r.size > 0 /\ r.start + r.size <= NumPages
    BY PagesType DEF Arguments, End
<1> QED BY <1>1, PagesType DEF PagesOf, End

LEMMA RegionFacts ==
    ASSUME NEW r \in RegionType
    PROVE  /\ r.start \in Nat /\ r.size \in Nat /\ r.size > 0 /\ End(r) = r.start + r.size /\ End(r) \in Nat
           /\ End(r) <= NumPages /\ r.start \in PagesOf(r) /\ PagesOf(r) \subseteq Pages
           /\ \A p : p \in PagesOf(r) <=> p \in Int /\ r.start <= p /\ p < End(r)
           /\ r.file_id \in 1..MaxFiles
<1>1. /\ r.start \in Nat /\ r.size \in Nat /\ r.size > 0 /\ r.start + r.size <= NumPages
      /\ r.file_id \in 1..MaxFiles
    BY PagesType DEF RegionType, End
<1> QED BY <1>1, PagesType DEF PagesOf, End

LEMMA LeastIn ==
    ASSUME NEW S \in SUBSET Nat, S # {}
    PROVE  Min(S) \in S
<1>1. \E x \in S : \A y \in S : x <= y
    BY MemRegionAssumption, RP!Least
<1> QED BY <1>1 DEF Min

\* The searches, with names.
RowOf(s, p) == SelectInSeq(s, LAMBDA r : does_include_addr(r, p))
FileRow(s, f) == SelectInSeq(s, LAMBDA r : r.file_id = f)

LEMMA RowOfFinds ==
    ASSUME NEW s, Len(s) \in Nat, NEW p
    PROVE  \/ RowOf(s, p) = 0 /\ \A i \in 1..Len(s) : ~does_include_addr(s[i], p)
           \/ RowOf(s, p) \in 1..Len(s) /\ does_include_addr(s[RowOf(s, p)], p)
<1> DEFINE I == {i \in 1..Len(s) : does_include_addr(s[i], p)}
<1>1. RowOf(s, p) = IF I # {} THEN Min(I) ELSE 0
    BY DEF RowOf, SelectInSeq
<1>2. I \in SUBSET Nat
    OBVIOUS
<1>3. I # {} => Min(I) \in I
    <2> HIDE DEF I
    <2> QED BY <1>2, LeastIn
<1> QED BY <1>1, <1>3

LEMMA FileRowFinds ==
    ASSUME NEW s, Len(s) \in Nat, NEW f
    PROVE  \/ FileRow(s, f) = 0 /\ \A i \in 1..Len(s) : s[i].file_id # f
           \/ FileRow(s, f) \in 1..Len(s) /\ s[FileRow(s, f)].file_id = f
<1> DEFINE I == {i \in 1..Len(s) : s[i].file_id = f}
<1>1. FileRow(s, f) = IF I # {} THEN Min(I) ELSE 0
    BY DEF FileRow, SelectInSeq
<1>2. I \in SUBSET Nat
    OBVIOUS
<1>3. I # {} => Min(I) \in I
    <2> HIDE DEF I
    <2> QED BY <1>2, LeastIn
<1> QED BY <1>1, <1>3

LEMMA OverlapFinds ==
    ASSUME NEW s, Len(s) \in Nat, NEW range
    PROVE  \/ find_overlap(s, range) = 0 /\ \A i \in 1..Len(s) : ~does_overlap_with(s[i], range)
           \/ find_overlap(s, range) \in 1..Len(s) /\ does_overlap_with(s[find_overlap(s, range)], range)
<1> DEFINE I == {i \in 1..Len(s) : does_overlap_with(s[i], range)}
<1>1. find_overlap(s, range) = IF I # {} THEN Min(I) ELSE 0
    BY DEF find_overlap, SelectInSeq
<1>2. I \in SUBSET Nat
    OBVIOUS
<1>3. I # {} => Min(I) \in I
    <2> HIDE DEF I
    <2> QED BY <1>2, LeastIn
<1> QED BY <1>1, <1>3

\* Overlapping is having a page in common.
LEMMA OverlapIs ==
    ASSUME NEW r \in RegionType, NEW s \in RegionType \cup Arguments
    PROVE  does_overlap_with(r, s) <=> PagesOf(r) \cap PagesOf(s) # {}
<1>1. /\ r.start \in Nat /\ End(r) \in Nat /\ r.start < End(r)
      /\ \A p : p \in PagesOf(r) <=> p \in Int /\ r.start <= p /\ p < End(r)
    BY RegionFacts
<1>2. /\ s.start \in Nat /\ End(s) \in Nat /\ s.start < End(s)
      /\ \A p : p \in PagesOf(s) <=> p \in Int /\ s.start <= p /\ p < End(s)
    BY RegionFacts, ExtentType
<1>3. does_overlap_with(r, s) => s.start \in PagesOf(r) \cap PagesOf(s) \/ r.start \in PagesOf(r) \cap PagesOf(s)
    BY <1>1, <1>2 DEF does_overlap_with, does_include_addr
<1>4. ASSUME NEW p \in PagesOf(r) \cap PagesOf(s) PROVE does_overlap_with(r, s)
    <2>1. p \in Int /\ r.start <= p /\ p < End(r) /\ s.start <= p /\ p < End(s)
        BY <1>1, <1>2
    <2> QED BY <1>1, <1>2, <2>1 DEF does_overlap_with, does_include_addr
<1> QED BY <1>3, <1>4

-----------------------------------------------------------------------------
(* Tables.                                                                 *)

LEMMA TableFacts ==
    ASSUME NEW t, NEW f, Table(t, f)
    PROVE  /\ Len(t) \in Nat /\ DOMAIN t = 1..Len(t)
           /\ \A i \in 1..Len(t) : t[i] \in RegionType /\ PagesOf(t[i]) # {} /\ PagesOf(t[i]) \subseteq Pages
           /\ Rows(t) \subseteq Pages
<1>1. Len(t) \in Nat /\ DOMAIN t = 1..Len(t) /\ \A i \in 1..Len(t) : t[i] \in RegionType
    BY DEF Table
<1>2. \A i \in 1..Len(t) : PagesOf(t[i]) # {} /\ PagesOf(t[i]) \subseteq Pages
    BY <1>1, RegionFacts
<1> QED BY <1>1, <1>2 DEF Rows

LEMMA RowsMeet == ASSUME NEW t, NEW S, \A i \in 1..Len(t) : PagesOf(t[i]) \cap S = {} PROVE Rows(t) \cap S = {}
BY DEF Rows

\* A table keeps being one while its files keep their extents.
LEMMA TableKeeps ==
    ASSUME NEW t, NEW f, NEW g, Table(t, f),
           \A i \in 1..Len(t) : t[i].file_id \in DOMAIN g /\ DOMAIN g[t[i].file_id] = DOMAIN f[t[i].file_id]
    PROVE  Table(t, g)
BY DEF Table

\* The files of two rows are different.
LEMMA RowsApart ==
    ASSUME NEW t, NEW f, Table(t, f), NEW i \in 1..Len(t), NEW j \in 1..Len(t), t[i].file_id = t[j].file_id
    PROVE  i = j
<1>1. PagesOf(t[i]) = PagesOf(t[j]) /\ PagesOf(t[i]) # {}
    BY TableFacts DEF Table
<1> QED BY <1>1 DEF Table

\* Recovery maps each page of the table from the file of its row.
LEMMA PageTableIs ==
    ASSUME NEW t, NEW f, Table(t, f)
    PROVE  /\ PageTable(t) \in [Pages -> 0..MaxFiles]
           /\ \A i \in 1..Len(t) : \A p \in PagesOf(t[i]) : PageTable(t)[p] = t[i].file_id
           /\ \A p \in Pages : p \notin Rows(t) => PageTable(t)[p] = 0
<1>1. Len(t) \in Nat /\ \A i \in 1..Len(t) : t[i] \in RegionType /\ PagesOf(t[i]) \subseteq Pages
    BY TableFacts
<1>2. ASSUME NEW p \in Pages
      PROVE  /\ \A i \in 1..Len(t) : p \in PagesOf(t[i]) => PageTable(t)[p] = t[i].file_id
             /\ p \notin Rows(t) => PageTable(t)[p] = 0
    <2> DEFINE I == {i \in 1..Len(t) : does_include_addr(t[i], p)}
    <2>1. PageTable(t)[p] = LET i == IF I # {} THEN Max(I) ELSE 0 IN IF i = 0 THEN 0 ELSE t[i].file_id
        BY DEF PageTable, SelectLastInSeq
    <2>2. \A i \in 1..Len(t) : i \in I <=> p \in PagesOf(t[i])
        <3> TAKE i \in 1..Len(t)
        <3>1. t[i] \in RegionType /\ p \in Int
            BY <1>1, PagesType
        <3>2. p \in PagesOf(t[i]) <=> t[i].start <= p /\ p < End(t[i])
            BY <3>1, RegionFacts
        <3> QED BY <3>2 DEF does_include_addr
    <2>3. I \subseteq 1..Len(t)
        OBVIOUS
    <2> HIDE DEF I
    <2>4. ASSUME NEW i \in 1..Len(t), p \in PagesOf(t[i]) PROVE PageTable(t)[p] = t[i].file_id
        <3>1. I = {i}
            <4>1. i \in I
                BY <2>2, <2>4
            <4>2. ASSUME NEW j \in I PROVE j = i
                <5>1. j \in 1..Len(t) /\ p \in PagesOf(t[j])
                    BY <2>2, <2>3
                <5> QED BY <2>4, <5>1 DEF Table
            <4> QED BY <4>1, <4>2
        <3>2. Max({i}) = i
            BY DEF Max
        <3> QED BY <2>1, <3>1, <3>2
    <2>5. ASSUME p \notin Rows(t) PROVE PageTable(t)[p] = 0
        <3>1. I = {}
            BY <2>2, <2>3, <2>5 DEF Rows
        <3> QED BY <2>1, <3>1
    <2> QED BY <2>4, <2>5
<1>3. ASSUME NEW p \in Pages PROVE PageTable(t)[p] \in 0..MaxFiles
    <2>1. CASE p \in Rows(t)
        <3>1. PICK i \in 1..Len(t) : p \in PagesOf(t[i])
            BY <2>1 DEF Rows
        <3>2. PageTable(t)[p] = t[i].file_id /\ t[i].file_id \in 1..MaxFiles
            BY <1>1, <1>2, <3>1, RegionFacts
        <3> QED BY <3>2
    <2>2. CASE p \notin Rows(t)
        BY <1>2, <2>2, MemRegionAssumption
    <2> QED BY <2>1, <2>2
<1>4. PageTable(t) = [p \in Pages |-> PageTable(t)[p]]
    BY DEF PageTable
<1> QED BY <1>1, <1>2, <1>3, <1>4

-----------------------------------------------------------------------------
(* New regions.                                                            *)

\* As long as two more files are admitted there is an id for each.
LEMMA IdsLeft ==
    ASSUME NEW S \in SUBSET (1..MaxFiles), Cardinality(S) + 2 <= MaxFiles
    PROVE  LET one == NextId(S)
               two == NextId(S \cup {one})
           IN  one \in 1..MaxFiles \ S /\ two \in 1..MaxFiles \ S /\ one # two
<1> DEFINE one == NextId(S)
           two == NextId(S \cup {one})
<1>1. /\ IsFiniteSet(1..MaxFiles) /\ Cardinality(1..MaxFiles) = MaxFiles /\ IsFiniteSet(S)
      /\ Cardinality(S) \in Nat /\ MaxFiles \in Nat
    <2>1. MaxFiles \in Nat /\ 1 \in Int /\ MaxFiles \in Int
        BY MemRegionAssumption
    <2>2. IsFiniteSet(1..MaxFiles) /\ Cardinality(1..MaxFiles) = IF 1 > MaxFiles THEN 0 ELSE MaxFiles - 1 + 1
        BY <2>1, FS_Interval
    <2>3. IsFiniteSet(S)
        BY <2>2, FS_Subset
    <2> QED BY <2>1, <2>2, <2>3, FS_CardinalityType
<1>2. 1..MaxFiles \ S # {}
    BY <1>1, FS_Subset
<1>3. one \in 1..MaxFiles \ S
    BY <1>2, LeastIn DEF NextId
<1> HIDE DEF one
<1>4. IsFiniteSet(S \cup {one}) /\ Cardinality(S \cup {one}) = Cardinality(S) + 1 /\ S \cup {one} \in SUBSET (1..MaxFiles)
    BY <1>1, <1>3, FS_AddElement
<1>5. 1..MaxFiles \ (S \cup {one}) # {}
    BY <1>1, <1>4, FS_Subset
<1>6. two \in 1..MaxFiles \ (S \cup {one})
    BY <1>5, LeastIn DEF NextId
<1> HIDE DEF two
<1>7. one \in 1..MaxFiles \ S /\ two \in 1..MaxFiles \ S /\ one # two
    BY <1>3, <1>6
<1> QED BY <1>7 DEF one, two

\* What replace_region leaves for the regions new: files of their own, mapped in place; the
\* manager gets to know the first known of them.
Installed(new, known, lost, kept, table) ==
    /\ new \in Seq(RegionType)
    /\ \A i \in 1..Len(new) : new[i].file_id \notin DOMAIN cached
    /\ \A i, j \in 1..Len(new) : i # j => new[i].file_id # new[j].file_id
    /\ DOMAIN cached' = DOMAIN cached \cup {new[i].file_id : i \in 1..Len(new)}
    /\ DOMAIN durable' = DOMAIN cached'
    /\ \A f \in DOMAIN cached : cached'[f] = cached[f] /\ durable'[f] = durable[f]
    /\ \A i \in 1..Len(new) :
           /\ DOMAIN cached'[new[i].file_id] = PagesOf(new[i]) /\ DOMAIN durable'[new[i].file_id] = PagesOf(new[i])
           /\ \A p \in PagesOf(new[i]) :
                  /\ cached'[new[i].file_id][p] = Content(new[i])[p]
                  /\ durable'[new[i].file_id][p] = IF i \in lost THEN 0 ELSE Content(new[i])[p]
    /\ known \in 0..Len(new)
    /\ regions' = kept \o SubSeq(new, 1, known)
    /\ rs' = rs \cup Rows(SubSeq(new, 1, known))
    /\ page_table' = [p \in Pages |-> IF RowOf(new, p) = 0 THEN table[p] ELSE new[RowOf(new, p)].file_id]

HasNew(g, old, new, lost) ==
    /\ DOMAIN g = DOMAIN old \cup {new[i].file_id : i \in 1..Len(new)}
    /\ \A f \in DOMAIN old : g[f] = old[f]
    /\ \A i \in 1..Len(new) :
           g[new[i].file_id] = [p \in PagesOf(new[i]) |-> IF i \in lost THEN 0 ELSE Content(new[i])[p]]

LEMMA FilesOfNew ==
    ASSUME NEW old, NEW new \in Seq(RegionType), NEW lost, NEW g, g = WithFiles(old, new, lost),
           \A i \in 1..Len(new) : new[i].file_id \notin DOMAIN old,
           \A i, j \in 1..Len(new) : i # j => new[i].file_id # new[j].file_id
    PROVE  HasNew(g, old, new, lost)
<1> DEFINE D == DOMAIN old \cup {new[i].file_id : i \in 1..Len(new)}
<1>1. Len(new) \in Nat /\ DOMAIN new = 1..Len(new)
    OBVIOUS
<1>2. g = [f \in D |->
            IF FileRow(new, f) = 0 THEN old[f]
            ELSE IF FileRow(new, f) \in lost THEN [p \in PagesOf(new[FileRow(new, f)]) |-> 0]
            ELSE Content(new[FileRow(new, f)])]
    BY <1>1 DEF WithFiles, FileRow
<1>3. ASSUME NEW f \in DOMAIN old PROVE FileRow(new, f) = 0
    BY <1>1, FileRowFinds
<1>4. ASSUME NEW i \in 1..Len(new) PROVE FileRow(new, new[i].file_id) = i /\ i # 0 /\ new[i].file_id \in D
    BY <1>1, FileRowFinds
<1> HIDE DEF D
<1>5. DOMAIN g = D
    BY <1>2
<1>6. ASSUME NEW f \in DOMAIN old PROVE g[f] = old[f]
    <2>1. f \in D
        BY DEF D
    <2> QED BY <1>2, <1>3, <2>1
<1>7. ASSUME NEW i \in 1..Len(new)
      PROVE  g[new[i].file_id] = [p \in PagesOf(new[i]) |-> IF i \in lost THEN 0 ELSE Content(new[i])[p]]
    <2>1. g[new[i].file_id] = IF i \in lost THEN [p \in PagesOf(new[i]) |-> 0] ELSE Content(new[i])
        BY <1>2, <1>4
    <2>2. Content(new[i]) = [p \in PagesOf(new[i]) |-> Content(new[i])[p]]
        BY DEF Content
    <2>3. CASE i \in lost
        BY <2>1, <2>3
    <2>4. CASE i \notin lost
        BY <2>1, <2>2, <2>4
    <2> QED BY <2>3, <2>4
<1>8. DOMAIN g = DOMAIN old \cup {new[i].file_id : i \in 1..Len(new)}
    BY <1>5 DEF D
<1> QED BY <1>6, <1>7, <1>8 DEF HasNew

LEMMA RowsOfPrefix ==
    ASSUME NEW t \in Seq(RegionType), NEW n \in 0..Len(t)
    PROVE  Rows(SubSeq(t, 1, n)) = UNION {PagesOf(t[i]) : i \in 1..n} /\ Rows(SubSeq(t, 1, n)) \subseteq Rows(t)
<1> DEFINE u == SubSeq(t, 1, n)
<1>1. Len(u) = n /\ \A i \in 1..n : u[i] = t[i] /\ i \in 1..Len(t)
    OBVIOUS
<1> HIDE DEF u
<1>2. Rows(u) = UNION {PagesOf(t[i]) : i \in 1..n} /\ Rows(u) \subseteq Rows(t)
    BY <1>1 DEF Rows
<1> QED BY <1>2 DEF u

LEMMA Replaces ==
    ASSUME Types, NEW ranges \in Seq(Arguments), Len(ranges) <= 2, NEW known \in 0..Len(ranges), NEW lost,
           NEW kept, NEW table, ReplaceRegions(ranges, known, lost, kept, table)
    PROVE  \E new : /\ Installed(new, known, lost, kept, table) /\ Len(new) = Len(ranges)
                    /\ \A i \in 1..Len(new) : PagesOf(new[i]) = PagesOf(ranges[i])
<1> DEFINE one == NextId(DOMAIN cached)
           two == NextId(DOMAIN cached \cup {one})
           id == <<one, two>>
           news == [i \in 1..Len(ranges) |-> Region(ranges[i], id[i])]
<1>1. Cardinality(DOMAIN cached) + 2 <= MaxFiles /\ DOMAIN cached \in SUBSET (1..MaxFiles)
    BY DEF ReplaceRegions, Types, Files
<1>2. one \in 1..MaxFiles \ DOMAIN cached /\ two \in 1..MaxFiles \ DOMAIN cached /\ one # two
    BY <1>1, IdsLeft
<1>3. /\ cached' = WithFiles(cached, news, {}) /\ durable' = WithFiles(durable, news, lost)
      /\ regions' = kept \o SubSeq(news, 1, known) /\ rs' = rs \cup UNION {PagesOf(news[i]) : i \in 1..known}
      /\ page_table' = [p \in Pages |->
            IF RowOf(news, p) = 0 THEN table[p] ELSE news[RowOf(news, p)].file_id]
    BY DEF ReplaceRegions, RowOf
<1> HIDE DEF one, two
<1>4. /\ Len(ranges) \in Nat /\ \A i \in 1..Len(ranges) : i = 1 \/ i = 2
      /\ \A i \in 1..Len(ranges) : ranges[i] \in Arguments
    OBVIOUS
<1>5. /\ \A i \in 1..Len(ranges) : id[i] \in 1..MaxFiles \ DOMAIN cached
      /\ \A i, j \in 1..Len(ranges) : i # j => id[i] # id[j]
    BY <1>2, <1>4
<1> HIDE DEF id
<1>6. ASSUME NEW i \in 1..Len(ranges)
      PROVE  news[i] \in RegionType /\ PagesOf(news[i]) = PagesOf(ranges[i]) /\ news[i].file_id = id[i]
    <2>1. news[i] = [start |-> ranges[i].start, size |-> ranges[i].size, file_id |-> id[i]]
        BY DEF Region
    <2>2. ranges[i].start \in Pages /\ ranges[i].size \in 1..NumPages /\ ranges[i].start + ranges[i].size <= NumPages
        BY <1>4 DEF Arguments, End
    <2> HIDE DEF news
    <2>3. news[i] \in [start : Pages, size : 1..NumPages, file_id : 1..MaxFiles] /\ End(news[i]) <= NumPages
        BY <1>5, <2>1, <2>2 DEF End
    <2> QED BY <2>1, <2>3 DEF RegionType, PagesOf
<1>7. news \in Seq(RegionType) /\ Len(news) = Len(ranges) /\ DOMAIN news = 1..Len(news)
    BY <1>4, <1>6
<1> HIDE DEF news
<1>8. /\ \A i \in 1..Len(news) : news[i].file_id \notin DOMAIN cached
      /\ \A i, j \in 1..Len(news) : i # j => news[i].file_id # news[j].file_id
    BY <1>5, <1>6, <1>7
<1>9. DOMAIN durable = DOMAIN cached
    BY DEF Types
<1>10. HasNew(cached', cached, news, {})
    BY <1>3, <1>7, <1>8, FilesOfNew
<1>11. HasNew(durable', durable, news, lost)
    BY <1>3, <1>7, <1>8, <1>9, FilesOfNew
<1>12. Installed(news, known, lost, kept, table)
    <2>1. \A i \in 1..Len(news) :
              /\ DOMAIN cached'[news[i].file_id] = PagesOf(news[i]) /\ DOMAIN durable'[news[i].file_id] = PagesOf(news[i])
              /\ \A p \in PagesOf(news[i]) :
                     /\ cached'[news[i].file_id][p] = Content(news[i])[p]
                     /\ durable'[news[i].file_id][p] = IF i \in lost THEN 0 ELSE Content(news[i])[p]
        <3> TAKE i \in 1..Len(news)
        <3>1. /\ cached'[news[i].file_id] = [p \in PagesOf(news[i]) |-> IF i \in {} THEN 0 ELSE Content(news[i])[p]]
              /\ durable'[news[i].file_id] = [p \in PagesOf(news[i]) |-> IF i \in lost THEN 0 ELSE Content(news[i])[p]]
            BY <1>10, <1>11 DEF HasNew
        <3> QED BY <3>1
    <2>2. /\ DOMAIN cached' = DOMAIN cached \cup {news[i].file_id : i \in 1..Len(news)}
          /\ DOMAIN durable' = DOMAIN cached'
          /\ \A f \in DOMAIN cached : cached'[f] = cached[f] /\ durable'[f] = durable[f]
        BY <1>9, <1>10, <1>11 DEF HasNew
    <2>3. known \in 0..Len(news) /\ rs' = rs \cup Rows(SubSeq(news, 1, known))
        <3>1. known \in 0..Len(news)
            BY <1>7
        <3>2. Rows(SubSeq(news, 1, known)) = UNION {PagesOf(news[i]) : i \in 1..known}
            BY <1>7, <3>1, RowsOfPrefix
        <3> QED BY <1>3, <3>1, <3>2
    <2> QED BY <1>3, <1>7, <1>8, <2>1, <2>2, <2>3 DEF Installed
<1> QED BY <1>6, <1>7, <1>12

-----------------------------------------------------------------------------
(* The fresh regions.                                                      *)

LEMMA SameInsert == ASSUME NEW s, NEW r PROVE RP!insert(s, r) = F!insert(s, r)
BY DEF RP!insert, F!insert, RP!InsertSorted, F!InsertSorted, RP!Merge, F!Merge, RP!Less, F!Less, RP!End, F!End,
       RP!FoldLeft, F!FoldLeft, RP!MapThenFoldSet, F!MapThenFoldSet, RP!Max, F!Max, RP!Min, F!Min,
       RP!Last, F!Last, RP!InsertAt, F!InsertAt, RP!SelectInSeq, F!SelectInSeq

LEMMA SameRemove == ASSUME NEW s, NEW r PROVE RP!remove(s, r) = F!remove(s, r)
BY DEF RP!remove, F!remove, RP!LeftPiece, F!LeftPiece, RP!RightPiece, F!RightPiece, RP!End, F!End,
       RP!IncludesPoint, F!IncludesPoint, RP!NewRange, F!NewRange, RP!FoldLeft, F!FoldLeft,
       RP!MapThenFoldSet, F!MapThenFoldSet, RP!Max, F!Max

LEMMA SameFind == ASSUME NEW s, NEW r PROVE RP!find(s, r) <=> F!find(s, r)
BY DEF RP!find, F!find, RP!Includes, F!Includes

LEMMA FreshIs ==
    ASSUME NEW s, RP!Coalesced(s), NEW p \in Pages
    PROVE  F!find(s, Extent(p, 1)) <=> RP!InSome(s, p)
<1> DEFINE e == Extent(p, 1)
<1>1. e.start \in Nat /\ e.size \in Nat /\ RP!Points(e) = {p}
    <2>1. e.start = p /\ e.size = 1 /\ p \in Nat
        BY PagesType DEF Extent
    <2> HIDE DEF e
    <2> QED BY <2>1 DEF RP!Points
<1> HIDE DEF e
<1>2. RP!find(s, e) <=> \A x \in RP!Points(e) : RP!InSome(s, x)
    BY <1>1, MemRegionAssumption, RP!FindIsExact
<1> QED BY <1>1, <1>2, SameFind DEF e

LEMMA SizeKept ==
    ASSUME UintRange > NumPages, NEW range \in Arguments
    PROVE  /\ AsUint(range) = range /\ range \in RP!Spans /\ range.start \in Nat /\ range.size \in Nat
           /\ RP!Points(range) = PagesOf(range)
<1>1. /\ range.start \in Pages /\ range.size \in 1..NumPages /\ range = [start |-> range.start, size |-> range.size]
      /\ range.start + range.size <= NumPages
    BY DEF Arguments, End
<1>2. range.size % UintRange = range.size
    <2>1. range.size \in Nat /\ range.size < UintRange /\ UintRange \in Nat /\ UintRange > 0
        BY <1>1, MemRegionAssumption, PagesType
    <2> QED BY <2>1
<1>3. NumPages - 1 + 1 = NumPages /\ range.start \in 0..(NumPages - 1) /\ range.start \in Nat /\ range.size \in Nat
    BY <1>1, PagesType DEF Pages
<1> QED BY <1>1, <1>2, <1>3 DEF AsUint, Extent, RP!Spans, RP!End, RP!Points, PagesOf

\* A page is fresh after an mmap if it was before or the mmap maps it.
LEMMA InsertFresh ==
    ASSUME UintRange > NumPages, NEW s, RP!Coalesced(s), NEW range \in Arguments, NEW n, n = F!insert(s, AsUint(range))
    PROVE  /\ RP!Coalesced(n)
           /\ \A p \in Pages : F!find(n, Extent(p, 1)) <=> F!find(s, Extent(p, 1)) \/ p \in PagesOf(range)
<1>1. n = RP!insert(s, range)
    BY SizeKept, SameInsert
<1>2. RP!Coalesced(n) /\ \A x : RP!InSome(n, x) <=> RP!InSome(s, x) \/ x \in RP!Points(range)
    <2>1. range \in RP!Spans
        BY SizeKept
    <2> QED BY <1>1, <2>1, MemRegionAssumption, RP!InsertKeeps
<1> QED BY <1>2, SizeKept, FreshIs

\* A page that is fresh after an munmap was so before and is not unmapped.
LEMMA RemoveFresh ==
    ASSUME UintRange > NumPages, NEW s, RP!Coalesced(s), NEW range \in Arguments, NEW n, n = F!remove(s, AsUint(range))
    PROVE  /\ RP!Coalesced(n)
           /\ \A p \in Pages : F!find(n, Extent(p, 1)) => F!find(s, Extent(p, 1)) /\ p \notin PagesOf(range)
<1>1. n = RP!remove(s, range)
    BY SizeKept, SameRemove
<1>2. RP!Coalesced(n) /\ \A x : RP!InSome(n, x) => RP!InSome(s, x) /\ x \notin RP!Points(range)
    <2>1. range.start \in Nat /\ range.size \in Nat
        BY SizeKept
    <2> QED BY <1>1, <2>1, MemRegionAssumption, RP!RemoveKeeps
<1> QED BY <1>2, SizeKept, FreshIs

LEMMA NothingFresh == RP!Coalesced(<<>>) /\ \A p \in Pages : ~F!find(<<>>, Extent(p, 1))
<1>1. RP!Coalesced(<<>>)
    BY DEF RP!Coalesced
<1>2. ASSUME NEW p \in Pages PROVE ~F!find(<<>>, Extent(p, 1))
    BY DEF F!find, Extent
<1> QED BY <1>1, <1>2

-----------------------------------------------------------------------------
(* The tables that the operations build.                                   *)

\* The rows of two tables, one behind the other.
LEMMA TableJoined ==
    ASSUME NEW s, NEW u, NEW f, Table(s, f), Table(u, f), Rows(s) \cap Rows(u) = {}
    PROVE  /\ Table(s \o u, f) /\ Rows(s \o u) = Rows(s) \cup Rows(u)
           /\ \A k \in 1..Len(s \o u) : \/ \E i \in 1..Len(s) : (s \o u)[k] = s[i]
                                        \/ \E i \in 1..Len(u) : (s \o u)[k] = u[i]
<1> DEFINE w == s \o u
<1>1. /\ Len(s) \in Nat /\ Len(u) \in Nat /\ s \in Seq(RegionType) /\ u \in Seq(RegionType)
    BY DEF Table
<1>2. /\ w \in Seq(RegionType) /\ Len(w) = Len(s) + Len(u)
      /\ \A k \in 1..Len(w) : w[k] = IF k <= Len(s) THEN s[k] ELSE u[k - Len(s)]
    BY <1>1
<1> HIDE DEF w
<1>3. ASSUME NEW k \in 1..Len(w)
      PROVE  \/ k \in 1..Len(s) /\ w[k] = s[k]
             \/ k - Len(s) \in 1..Len(u) /\ w[k] = u[k - Len(s)] /\ k \notin 1..Len(s)
    BY <1>1, <1>2
<1>4. \A k \in 1..Len(w) : w[k].file_id \in DOMAIN f /\ DOMAIN f[w[k].file_id] = PagesOf(w[k])
    BY <1>3 DEF Table
<1>5. ASSUME NEW k \in 1..Len(w), NEW l \in 1..Len(w), k # l PROVE PagesOf(w[k]) \cap PagesOf(w[l]) = {}
    <2>1. k \in 1..Len(s) /\ l \in 1..Len(s) => PagesOf(w[k]) \cap PagesOf(w[l]) = {}
        BY <1>3, <1>5 DEF Table
    <2>2. ASSUME k \notin 1..Len(s), l \notin 1..Len(s) PROVE PagesOf(w[k]) \cap PagesOf(w[l]) = {}
        <3>1. k - Len(s) \in 1..Len(u) /\ w[k] = u[k - Len(s)] /\ l - Len(s) \in 1..Len(u) /\ w[l] = u[l - Len(s)]
            BY <1>3, <2>2
        <3>2. k - Len(s) # l - Len(s)
            BY <1>1, <1>5
        <3> QED BY <3>1, <3>2 DEF Table
    <2>3. k \in 1..Len(s) /\ l \notin 1..Len(s) => PagesOf(w[k]) \cap PagesOf(w[l]) = {}
        <3>1. k \in 1..Len(s) => PagesOf(w[k]) \subseteq Rows(s)
            BY <1>3 DEF Rows
        <3>2. l \notin 1..Len(s) => PagesOf(w[l]) \subseteq Rows(u)
            BY <1>3 DEF Rows
        <3> QED BY <3>1, <3>2
    <2>4. k \notin 1..Len(s) /\ l \in 1..Len(s) => PagesOf(w[k]) \cap PagesOf(w[l]) = {}
        <3>1. l \in 1..Len(s) => PagesOf(w[l]) \subseteq Rows(s)
            BY <1>3 DEF Rows
        <3>2. k \notin 1..Len(s) => PagesOf(w[k]) \subseteq Rows(u)
            BY <1>3 DEF Rows
        <3> QED BY <3>1, <3>2
    <2> QED BY <2>1, <2>2, <2>3, <2>4
<1>6. Rows(w) = Rows(s) \cup Rows(u)
    <2>1. Rows(w) \subseteq Rows(s) \cup Rows(u)
        BY <1>3 DEF Rows
    <2>2. \A i \in 1..Len(s) : i \in 1..Len(w) /\ w[i] = s[i]
        BY <1>1, <1>2
    <2>3. ASSUME NEW i \in 1..Len(u) PROVE Len(s) + i \in 1..Len(w) /\ w[Len(s) + i] = u[i]
        <3>1. Len(s) + i \in 1..Len(w) /\ ~(Len(s) + i <= Len(s)) /\ (Len(s) + i) - Len(s) = i
            BY <1>1, <1>2
        <3> QED BY <1>2, <3>1
    <2>4. Rows(s) \subseteq Rows(w)
        BY <2>2 DEF Rows
    <2>5. Rows(u) \subseteq Rows(w)
        BY <2>3 DEF Rows
    <2> QED BY <2>1, <2>4, <2>5
<1>7. Table(w, f)
    BY <1>2, <1>4, <1>5 DEF Table
<1> QED BY <1>3, <1>6, <1>7 DEF w

\* A table that was cut short.
LEMMA TablePrefix ==
    ASSUME NEW t, NEW f, Table(t, f), NEW n \in 0..Len(t)
    PROVE  Table(SubSeq(t, 1, n), f)
<1> DEFINE u == SubSeq(t, 1, n)
<1>1. t \in Seq(RegionType) /\ Len(t) \in Nat
    BY DEF Table
<1>2. u \in Seq(RegionType) /\ Len(u) = n /\ \A i \in 1..n : u[i] = t[i] /\ i \in 1..Len(t)
    BY <1>1
<1> HIDE DEF u
<1>3. Table(u, f)
    BY <1>2 DEF Table
<1> QED BY <1>3 DEF u

\* The table without one of its rows.
LEMMA TableWithout ==
    ASSUME NEW t, NEW f, Table(t, f), NEW i \in 1..Len(t)
    PROVE  /\ Table(Without(t, i), f)
           /\ Rows(Without(t, i)) = Rows(t) \ PagesOf(t[i])
           /\ \A k \in 1..Len(Without(t, i)) : \E j \in 1..Len(t) : Without(t, i)[k] = t[j]
<1> DEFINE n == Len(t)
           w == Without(t, i)
           from(k) == IF k = i THEN n ELSE k
<1>1. n \in Nat /\ n > 0 /\ t \in Seq(RegionType) /\ \A j \in 1..n : t[j] \in RegionType
    BY DEF Table
<1>2. w = [k \in 1..(n - 1) |-> t[from(k)]] /\ \A k \in 1..(n - 1) : from(k) \in 1..n /\ from(k) # i
    BY <1>1 DEF Without
<1>3. w \in Seq(RegionType) /\ Len(w) = n - 1 /\ \A k \in 1..(n - 1) : w[k] = t[from(k)]
    <2>1. w \in [1..(n - 1) -> RegionType] /\ n - 1 \in Nat
        BY <1>1, <1>2
    <2>2. \A k \in 1..(n - 1) : w[k] = t[from(k)]
        <3> HIDE DEF from
        <3> QED BY <1>2
    <2> HIDE DEF w
    <2>3. w \in Seq(RegionType)
        BY <2>1, SeqDef
    <2>4. Len(w) \in Nat /\ DOMAIN w = 1..Len(w) /\ DOMAIN w = 1..(n - 1)
        BY <2>1, <2>3
    <2> QED BY <2>1, <2>2, <2>3, <2>4
<1>4. \A k, l \in 1..(n - 1) : k # l => from(k) # from(l)
    BY <1>1
<1>5. \A j \in 1..n : j # i => \E k \in 1..(n - 1) : from(k) = j
    <2> SUFFICES ASSUME NEW j \in 1..n, j # i PROVE \E k \in 1..(n - 1) : from(k) = j
        OBVIOUS
    <2>1. CASE j = n
        <3>1. i \in 1..(n - 1) /\ from(i) = j
            BY <1>1, <2>1
        <3> QED BY <3>1
    <2>2. CASE j # n
        <3>1. j \in 1..(n - 1) /\ from(j) = j
            BY <1>1, <2>2
        <3> QED BY <3>1
    <2> QED BY <2>1, <2>2
<1> HIDE DEF w, from
<1>6. Table(w, f)
    <2>1. \A k \in 1..Len(w) : w[k] = t[from(k)] /\ from(k) \in 1..Len(t)
        BY <1>2, <1>3
    <2>2. \A k, l \in 1..Len(w) : k # l => from(k) # from(l)
        BY <1>3, <1>4
    <2>3. \A k \in 1..Len(w) : w[k].file_id \in DOMAIN f /\ DOMAIN f[w[k].file_id] = PagesOf(w[k])
        BY <2>1 DEF Table
    <2>4. ASSUME NEW k \in 1..Len(w), NEW l \in 1..Len(w), k # l PROVE PagesOf(w[k]) \cap PagesOf(w[l]) = {}
        <3>1. PagesOf(t[from(k)]) \cap PagesOf(t[from(l)]) = {}
            BY <2>1, <2>2, <2>4 DEF Table
        <3> QED BY <2>1, <3>1
    <2> QED BY <1>3, <2>3, <2>4 DEF Table
<1>7. Rows(w) = Rows(t) \ PagesOf(t[i])
    <2>1. ASSUME NEW k \in 1..Len(w) PROVE PagesOf(w[k]) \subseteq Rows(t) \ PagesOf(t[i])
        <3>1. w[k] = t[from(k)] /\ from(k) \in 1..Len(t) /\ from(k) # i
            BY <1>2, <1>3
        <3>2. PagesOf(t[from(k)]) \cap PagesOf(t[i]) = {}
            BY <3>1 DEF Table
        <3>3. PagesOf(t[from(k)]) \subseteq Rows(t)
            BY <3>1 DEF Rows
        <3> QED BY <3>1, <3>2, <3>3
    <2>2. ASSUME NEW j \in 1..Len(t), j # i PROVE PagesOf(t[j]) \subseteq Rows(w)
        <3>1. PICK k \in 1..(n - 1) : from(k) = j
            BY <1>5, <2>2
        <3>2. k \in 1..Len(w) /\ w[k] = t[j]
            BY <1>3, <3>1
        <3> QED BY <3>2 DEF Rows
    <2>3. Rows(w) \subseteq Rows(t) \ PagesOf(t[i])
        BY <2>1 DEF Rows
    <2>4. Rows(t) \ PagesOf(t[i]) \subseteq Rows(w)
        BY <2>2 DEF Rows
    <2> QED BY <2>3, <2>4
<1>8. \A k \in 1..Len(w) : \E j \in 1..Len(t) : w[k] = t[j]
    BY <1>2, <1>3
<1> QED BY <1>6, <1>7, <1>8 DEF w

\* What remove_region gives new files is what it does not unmap.
LEMMA PiecesOf ==
    ASSUME NEW r \in RegionType, NEW range \in Arguments, does_include(r, range)
    PROVE  LET pieces == Pieces(r, range)
           IN  /\ pieces \in Seq(Arguments) /\ Len(pieces) <= 2
               /\ \A i \in 1..Len(pieces) : PagesOf(pieces[i]) \subseteq PagesOf(r) \ PagesOf(range)
               /\ \A i, j \in 1..Len(pieces) : i # j => PagesOf(pieces[i]) \cap PagesOf(pieces[j]) = {}
               /\ Rows(pieces) = PagesOf(r) \ PagesOf(range)
               /\ PagesOf(range) \subseteq PagesOf(r)
<1> DEFINE a == Extent(End(range), End(r) - End(range))
           b == Extent(r.start, range.start - r.start)
           behind == End(r) # End(range)
           before == r.start # range.start
           pieces == Pieces(r, range)
<1>1. /\ r.start \in Nat /\ End(r) \in Nat /\ r.start < End(r) /\ End(r) <= NumPages
      /\ \A p : p \in PagesOf(r) <=> p \in Int /\ r.start <= p /\ p < End(r)
    BY RegionFacts
<1>2. /\ range.start \in Nat /\ End(range) \in Nat /\ range.start < End(range)
      /\ \A p : p \in PagesOf(range) <=> p \in Int /\ range.start <= p /\ p < End(range)
    BY ExtentType
<1>3. r.start <= range.start /\ End(range) <= End(r)
    BY <1>1, <1>2 DEF does_include, does_include_addr
<1>4. ASSUME behind
      PROVE  a \in Arguments /\ \A p : p \in PagesOf(a) <=> p \in Int /\ End(range) <= p /\ p < End(r)
    <2>1. a \in Arguments /\ a.start = End(range) /\ End(a) = End(r)
        BY <1>1, <1>2, <1>3, <1>4, PagesType DEF Extent, Arguments, End
    <2> HIDE DEF a
    <2> QED BY <2>1, ExtentType
<1>5. ASSUME before
      PROVE  b \in Arguments /\ \A p : p \in PagesOf(b) <=> p \in Int /\ r.start <= p /\ p < range.start
    <2>1. b \in Arguments /\ b.start = r.start /\ End(b) = range.start
        BY <1>1, <1>2, <1>3, <1>5, PagesType DEF Extent, Arguments, End
    <2> HIDE DEF b
    <2> QED BY <2>1, ExtentType
<1>6. /\ behind /\ before => pieces = <<a>> \o <<b>>
      /\ behind /\ ~before => pieces = <<a>>
      /\ ~behind /\ before => pieces = <<b>>
      /\ ~behind /\ ~before => pieces = <<>>
    <2>1. pieces = (IF behind THEN <<a>> ELSE <<>>) \o (IF before THEN <<b>> ELSE <<>>)
        BY DEF Pieces
    <2> HIDE DEF a, b, behind, before, pieces
    <2>2. <<a>> \o <<>> = <<a>> /\ <<>> \o <<b>> = <<b>> /\ <<>> \o <<>> = <<>>
        <3>1. <<a>> \in Seq({a, b}) /\ <<b>> \in Seq({a, b}) /\ <<>> \in Seq({a, b})
            OBVIOUS
        <3> QED BY <3>1, ConcatEmptySeq
    <2> QED BY <2>1, <2>2
<1>7. PagesOf(range) \subseteq PagesOf(r)
    BY <1>1, <1>2, <1>3
<1>8. ASSUME behind PROVE PagesOf(a) \subseteq PagesOf(r) \ PagesOf(range)
    BY <1>1, <1>2, <1>3, <1>4, <1>8
<1>9. ASSUME before PROVE PagesOf(b) \subseteq PagesOf(r) \ PagesOf(range)
    BY <1>1, <1>2, <1>3, <1>5, <1>9
<1>10. ASSUME behind, before PROVE PagesOf(a) \cap PagesOf(b) = {}
    BY <1>1, <1>2, <1>4, <1>5, <1>10
<1>11. ASSUME NEW p \in PagesOf(r) \ PagesOf(range) PROVE (behind /\ p \in PagesOf(a)) \/ (before /\ p \in PagesOf(b))
    <2>1. p \in Int /\ r.start <= p /\ p < End(r) /\ (p < range.start \/ End(range) <= p)
        BY <1>1, <1>2
    <2>2. CASE p < range.start
        <3>1. before
            BY <1>1, <1>2, <2>1, <2>2
        <3> QED BY <1>5, <2>1, <2>2, <3>1
    <2>3. CASE End(range) <= p
        <3>1. behind
            BY <1>1, <1>2, <2>1, <2>3
        <3> QED BY <1>4, <2>1, <2>3, <3>1
    <2> QED BY <2>1, <2>2, <2>3
<1> HIDE DEF a, b, behind, before, pieces
<1> DEFINE Goal(s) == /\ s \in Seq(Arguments) /\ Len(s) <= 2
                      /\ \A i \in 1..Len(s) : PagesOf(s[i]) \subseteq PagesOf(r) \ PagesOf(range)
                      /\ \A i, j \in 1..Len(s) : i # j => PagesOf(s[i]) \cap PagesOf(s[j]) = {}
                      /\ PagesOf(r) \ PagesOf(range) \subseteq Rows(s)
<1>12. ASSUME behind, before PROVE Goal(pieces)
    <2> DEFINE s == <<a>> \o <<b>>
    <2>1. s \in Seq(Arguments) /\ Len(s) = 2 /\ s[1] = a /\ s[2] = b
        BY <1>4, <1>5, <1>12
    <2> HIDE DEF s
    <2>2. \A i \in 1..Len(s) : (i = 1 \/ i = 2) /\ (s[i] = a \/ s[i] = b)
        BY <2>1
    <2>3. \A i \in 1..Len(s) : PagesOf(s[i]) \subseteq PagesOf(r) \ PagesOf(range)
        BY <2>2, <1>8, <1>9, <1>12
    <2>4. \A i, j \in 1..Len(s) : i # j => PagesOf(s[i]) \cap PagesOf(s[j]) = {}
        BY <2>1, <2>2, <1>10, <1>12
    <2>5. PagesOf(r) \ PagesOf(range) \subseteq Rows(s)
        BY <1>11, <2>1 DEF Rows
    <2>6. Goal(s)
        BY <2>1, <2>3, <2>4, <2>5
    <2>7. s = pieces
        BY <1>6, <1>12 DEF s
    <2> QED BY <2>6, <2>7
<1>13. ASSUME behind, ~before PROVE Goal(pieces)
    <2> DEFINE s == <<a>>
    <2>1. s \in Seq(Arguments) /\ Len(s) = 1 /\ s[1] = a /\ \A i \in 1..1 : i = 1
        BY <1>4, <1>13
    <2> HIDE DEF s
    <2>2. PagesOf(r) \ PagesOf(range) \subseteq Rows(s)
        BY <1>11, <1>13, <2>1 DEF Rows
    <2>3. Goal(s)
        BY <1>8, <1>13, <2>1, <2>2
    <2>4. s = pieces
        BY <1>6, <1>13 DEF s
    <2> QED BY <2>3, <2>4
<1>14. ASSUME ~behind, before PROVE Goal(pieces)
    <2> DEFINE s == <<b>>
    <2>1. s \in Seq(Arguments) /\ Len(s) = 1 /\ s[1] = b /\ \A i \in 1..1 : i = 1
        BY <1>5, <1>14
    <2> HIDE DEF s
    <2>2. PagesOf(r) \ PagesOf(range) \subseteq Rows(s)
        BY <1>11, <1>14, <2>1 DEF Rows
    <2>3. Goal(s)
        BY <1>9, <1>14, <2>1, <2>2
    <2>4. s = pieces
        BY <1>6, <1>14 DEF s
    <2> QED BY <2>3, <2>4
<1>15. ASSUME ~behind, ~before PROVE Goal(pieces)
    <2>1. PagesOf(r) \ PagesOf(range) \subseteq Rows(<<>>)
        BY <1>11, <1>15
    <2>2. Goal(<<>>)
        BY <2>1
    <2>3. <<>> = pieces
        BY <1>6, <1>15
    <2> QED BY <2>2, <2>3
<1>16. Goal(pieces)
    BY <1>12, <1>13, <1>14, <1>15
<1>17. Rows(pieces) \subseteq PagesOf(r) \ PagesOf(range)
    BY <1>16 DEF Rows
<1> QED BY <1>7, <1>16, <1>17 DEF pieces

-----------------------------------------------------------------------------
(* replace_region.                                                         *)

LEMMA ZeroOk == 0 \in Val /\ Unmapped \notin Val /\ Initial \in Val /\ \A n \in 0..MaxOps : n \in Val /\ n + 1 \in Val
BY MemRegionAssumption DEF Val, Unmapped, Initial

LEMMA ContentIs ==
    ASSUME Types, Mapped, NEW r, PagesOf(r) \subseteq Pages, NEW p \in PagesOf(r)
    PROVE  Content(r)[p] \in Val /\ Content(r)[p] = IF page_table[p] = 0 THEN 0 ELSE cached[page_table[p]][p]
<1>1. Content(r)[p] = IF page_table[p] = 0 THEN 0 ELSE cached[page_table[p]][p]
    BY DEF Content, View
<1>2. page_table[p] # 0 => cached[page_table[p]][p] \in Val
    BY DEF Types, Files, Mapped
<1> QED BY <1>1, <1>2, ZeroOk

\* The rows kept are still mapped from their files; the pages of the rest are unmapped or
\* mapped as before.
Keeps(kept, new, table) ==
    /\ Table(kept, cached)
    /\ table \in [Pages -> 0..MaxFiles] /\ \A p \in Pages : table[p] # 0 => table[p] = page_table[p]
    /\ \A i \in 1..Len(kept) : \A p \in PagesOf(kept[i]) : table[p] = kept[i].file_id
    /\ \A i, j \in 1..Len(new) : i # j => PagesOf(new[i]) \cap PagesOf(new[j]) = {}
    /\ Rows(kept) \cap Rows(new) = {}
    /\ failed' = 0 => \A p \in Pages : table[p] # 0 => p \in Rows(kept) \cup Rows(new)

\* Is p mapped from a new file, or as in table?
LEMMA PageMapped ==
    ASSUME NEW new, NEW known, NEW lost, NEW kept, NEW table, Installed(new, known, lost, kept, table),
           Keeps(kept, new, table)
    PROVE  /\ \A i \in 1..Len(new) : \A p \in PagesOf(new[i]) : page_table'[p] = new[i].file_id
           /\ \A p \in Pages : p \notin Rows(new) => page_table'[p] = table[p]
<1>1. Len(new) \in Nat /\ \A i \in 1..Len(new) : new[i] \in RegionType
    BY DEF Installed
<1>2. ASSUME NEW p \in Pages, NEW i \in 1..Len(new) PROVE does_include_addr(new[i], p) <=> p \in PagesOf(new[i])
    <2>1. new[i] \in RegionType /\ p \in Int
        BY <1>1, PagesType
    <2>2. p \in PagesOf(new[i]) <=> new[i].start <= p /\ p < End(new[i])
        BY <2>1, RegionFacts
    <2> QED BY <2>2 DEF does_include_addr
<1>3. ASSUME NEW p \in Pages
      PROVE  page_table'[p] = IF RowOf(new, p) = 0 THEN table[p] ELSE new[RowOf(new, p)].file_id
    BY DEF Installed
<1>4. ASSUME NEW i \in 1..Len(new), NEW p \in PagesOf(new[i]) PROVE page_table'[p] = new[i].file_id
    <2>1. p \in Pages
        BY <1>1, RegionFacts
    <2>2. RowOf(new, p) \in 1..Len(new) /\ does_include_addr(new[RowOf(new, p)], p)
        <3>1. does_include_addr(new[i], p)
            BY <1>2, <2>1
        <3>2. Len(new) \in Nat
            BY <1>1
        <3>3. \/ RowOf(new, p) = 0 /\ \A k \in 1..Len(new) : ~does_include_addr(new[k], p)
              \/ RowOf(new, p) \in 1..Len(new) /\ does_include_addr(new[RowOf(new, p)], p)
            BY <3>2, RowOfFinds
        <3> QED BY <3>1, <3>3
    <2>3. p \in PagesOf(new[RowOf(new, p)])
        BY <1>2, <2>1, <2>2
    <2>4. RowOf(new, p) = i /\ i # 0
        <3>1. \A k, l \in 1..Len(new) : k # l => PagesOf(new[k]) \cap PagesOf(new[l]) = {}
            BY DEF Keeps
        <3>2. ASSUME RowOf(new, p) # i PROVE FALSE
            BY <2>2, <2>3, <3>1, <3>2
        <3>3. i # 0
            OBVIOUS
        <3> QED BY <3>2, <3>3
    <2> QED BY <1>3, <2>1, <2>4
<1>5. ASSUME NEW p \in Pages, p \notin Rows(new) PROVE page_table'[p] = table[p]
    <2>1. RowOf(new, p) = 0
        BY <1>1, <1>2, <1>5, RowOfFinds DEF Rows
    <2> QED BY <1>3, <2>1
<1> QED BY <1>4, <1>5

LEMMA InstalledTypes ==
    ASSUME Types, Mapped, NEW new, NEW known, NEW lost, NEW kept, NEW table,
           Installed(new, known, lost, kept, table), Keeps(kept, new, table),
           failed' = 0 => known = Len(new)
    PROVE  /\ Files(cached') /\ Files(durable') /\ DOMAIN durable' = DOMAIN cached'
           /\ \A id \in DOMAIN cached' : DOMAIN durable'[id] = DOMAIN cached'[id]
           /\ rs' \subseteq Pages
           /\ \A s : Table(s, cached) => Table(s, cached')
           /\ Mapped'
<1>1. /\ new \in Seq(RegionType) /\ Len(new) \in Nat
      /\ \A i \in 1..Len(new) : /\ new[i] \in RegionType /\ PagesOf(new[i]) \subseteq Pages
                                /\ new[i].file_id \in 1..MaxFiles /\ new[i].file_id # 0
    <2>1. new \in Seq(RegionType) /\ Len(new) \in Nat /\ \A i \in 1..Len(new) : new[i] \in RegionType
        BY DEF Installed
    <2> QED BY <2>1, RegionFacts
<1>2. ASSUME NEW f \in DOMAIN cached'
      PROVE  f \in DOMAIN cached \/ \E i \in 1..Len(new) : f = new[i].file_id
    BY DEF Installed
<1>3. ASSUME NEW f \in DOMAIN cached
      PROVE  f \in DOMAIN cached' /\ cached'[f] = cached[f] /\ durable'[f] = durable[f]
    BY DEF Installed
<1>4. ASSUME NEW i \in 1..Len(new)
      PROVE  /\ new[i].file_id \in DOMAIN cached' /\ DOMAIN cached'[new[i].file_id] = PagesOf(new[i])
             /\ DOMAIN durable'[new[i].file_id] = PagesOf(new[i])
             /\ \A p \in PagesOf(new[i]) : cached'[new[i].file_id][p] \in Val /\ durable'[new[i].file_id][p] \in Val
    <2>1. new[i].file_id \in DOMAIN cached' /\ DOMAIN cached'[new[i].file_id] = PagesOf(new[i])
          /\ DOMAIN durable'[new[i].file_id] = PagesOf(new[i])
        BY DEF Installed
    <2>2. ASSUME NEW p \in PagesOf(new[i]) PROVE Content(new[i])[p] \in Val
        BY <1>1, ContentIs
    <2>3. ASSUME NEW p \in PagesOf(new[i])
          PROVE  /\ cached'[new[i].file_id][p] = Content(new[i])[p]
                 /\ durable'[new[i].file_id][p] = IF i \in lost THEN 0 ELSE Content(new[i])[p]
        BY DEF Installed
    <2> QED BY <2>1, <2>2, <2>3, ZeroOk
<1>5. DOMAIN durable' = DOMAIN cached'
    BY DEF Installed
<1>6. /\ Files(cached') /\ Files(durable')
      /\ \A id \in DOMAIN cached' : DOMAIN durable'[id] = DOMAIN cached'[id]
    <2>1. ASSUME NEW f \in DOMAIN cached'
          PROVE  /\ f \in 1..MaxFiles /\ DOMAIN cached'[f] \subseteq Pages /\ DOMAIN durable'[f] = DOMAIN cached'[f]
                 /\ \A p \in DOMAIN cached'[f] : cached'[f][p] \in Val /\ durable'[f][p] \in Val
        <3>1. CASE f \in DOMAIN cached
            BY <1>3, <3>1 DEF Types, Files
        <3>2. CASE \E i \in 1..Len(new) : f = new[i].file_id
            BY <1>1, <1>4, <3>2
        <3> QED BY <1>2, <3>1, <3>2
    <2> QED BY <1>5, <2>1 DEF Files
<1>7. ASSUME NEW s, Table(s, cached) PROVE Table(s, cached')
    <2>1. \A i \in 1..Len(s) : s[i].file_id \in DOMAIN cached' /\ DOMAIN cached'[s[i].file_id] = DOMAIN cached[s[i].file_id]
        BY <1>3, <1>7 DEF Table
    <2> QED BY <1>7, <2>1, TableKeeps
<1> DEFINE head == SubSeq(new, 1, known)
<1>8. /\ Rows(head) \subseteq Rows(new) /\ Rows(new) \subseteq Pages
      /\ Len(head) = known /\ \A i \in 1..Len(head) : i \in 1..Len(new) /\ head[i] = new[i]
    <2>1. known \in 0..Len(new)
        BY DEF Installed
    <2>2. Rows(head) \subseteq Rows(new)
        BY <1>1, <2>1, RowsOfPrefix
    <2>3. Rows(new) \subseteq Pages
        BY <1>1 DEF Rows
    <2> QED BY <1>1, <2>1, <2>2, <2>3
<1>9. rs' \subseteq Pages
    BY <1>8 DEF Installed, Types
<1>10. Table(head, cached')
    <2>1. Table(new, cached')
        BY <1>1, <1>4 DEF Table, Keeps
    <2> QED BY <2>1, TablePrefix DEF Installed
<1>14. regions' = kept \o head /\ (failed' = 0 => Rows(head) = Rows(new))
    <2>1. known = Len(new) => head = new
        BY <1>1
    <2> QED BY <2>1 DEF Installed
<1> HIDE DEF head
<1>11. /\ Table(kept \o head, cached') /\ Rows(kept \o head) = Rows(kept) \cup Rows(head)
       /\ \A k \in 1..Len(kept \o head) : \/ \E i \in 1..Len(kept) : (kept \o head)[k] = kept[i]
                                          \/ \E i \in 1..Len(new) : (kept \o head)[k] = new[i]
    <2>1. Table(kept, cached') /\ Rows(kept) \cap Rows(head) = {}
        BY <1>7, <1>8 DEF Keeps
    <2>2. \A k \in 1..Len(kept \o head) : \/ \E i \in 1..Len(kept) : (kept \o head)[k] = kept[i]
                                          \/ \E i \in 1..Len(head) : (kept \o head)[k] = head[i]
        BY <1>10, <2>1, TableJoined
    <2> QED BY <1>8, <1>10, <2>1, <2>2, TableJoined
<1>12. /\ \A i \in 1..Len(new) : \A p \in PagesOf(new[i]) : page_table'[p] = new[i].file_id
       /\ \A p \in Pages : p \notin Rows(new) => page_table'[p] = table[p]
    BY PageMapped
<1>13. Mapped'
    <2>1. ASSUME NEW p \in Pages
          PROVE  /\ page_table'[p] \in 0..MaxFiles
                 /\ page_table'[p] # 0 => page_table'[p] \in DOMAIN cached' /\ p \in DOMAIN cached'[page_table'[p]]
        <3>1. CASE p \in Rows(new)
            <4>1. PICK i \in 1..Len(new) : p \in PagesOf(new[i])
                BY <3>1 DEF Rows
            <4>2. page_table'[p] = new[i].file_id
                BY <1>12, <4>1
            <4> QED BY <1>1, <1>4, <4>1, <4>2
        <3>2. CASE p \notin Rows(new)
            <4>1. page_table'[p] = table[p] /\ table[p] \in 0..MaxFiles /\ (table[p] # 0 => table[p] = page_table[p])
                BY <1>12, <3>2 DEF Keeps
            <4>2. page_table[p] # 0 => page_table[p] \in DOMAIN cached /\ p \in DOMAIN cached[page_table[p]]
                BY DEF Mapped
            <4> QED BY <1>3, <4>1, <4>2
        <3> QED BY <3>1, <3>2
    <2>2. page_table' \in [Pages -> 0..MaxFiles]
        <3>1. page_table' = [p \in Pages |-> page_table'[p]]
            BY DEF Installed
        <3> QED BY <2>1, <3>1
    <2>3. regions' = kept \o head
        BY <1>14
    <2>4. ASSUME NEW k \in 1..Len(regions'), NEW p \in PagesOf(regions'[k]) PROVE page_table'[p] = regions'[k].file_id
        <3>1. CASE \E i \in 1..Len(kept) : regions'[k] = kept[i]
            <4>1. PICK i \in 1..Len(kept) : regions'[k] = kept[i]
                BY <3>1
            <4>2. p \in Rows(kept) /\ Rows(kept) \subseteq Pages
                BY <2>4, <4>1, TableFacts DEF Rows, Keeps
            <4>3. page_table'[p] = table[p] /\ table[p] = kept[i].file_id
                BY <1>12, <2>4, <4>1, <4>2 DEF Keeps
            <4> QED BY <4>1, <4>3
        <3>2. CASE \E i \in 1..Len(new) : regions'[k] = new[i]
            BY <1>12, <2>4, <3>2
        <3> QED BY <1>11, <2>3, <3>1, <3>2
    <2>5. ASSUME failed' = 0, NEW p \in Pages, page_table'[p] # 0 PROVE p \in Rows(regions')
        <3>1. p \notin Rows(new) => p \in Rows(kept)
            BY <1>12, <2>5 DEF Keeps
        <3> QED BY <1>11, <1>14, <2>5, <3>1
    <2>6. Table(regions', cached')
        BY <1>11, <2>3
    <2>7. Rows(regions)' = Rows(regions')
        BY DEF Rows, PagesOf
    <2> QED BY <2>1, <2>2, <2>4, <2>5, <2>6, <2>7 DEF Mapped, PagesOf, Table
<1> QED BY <1>5, <1>6, <1>7, <1>9, <1>13

-----------------------------------------------------------------------------
(* The parts of the invariant in the next state.                           *)

LEMMA Primes ==
    ASSUME NEW t
    PROVE  /\ Table(regions, cached)' <=> Table(regions', cached')
           /\ Table(t, cached)' <=> Table(t, cached')
           /\ Rows(regions)' = Rows(regions') /\ Rows(t)' = Rows(t)
           /\ Files(cached)' <=> Files(cached')
           /\ Files(durable)' <=> Files(durable')
BY DEF Table, Rows, Files, PagesOf

LEMMA LeadsPrimes ==
    ASSUME NEW t
    PROVE  /\ Leads(dir, t, committed, cached)' <=> Leads(dir', t, committed', cached')
           /\ Leads(ddir, t, committed, cached)' <=> Leads(ddir', t, committed', cached')
BY DEF Leads, Table, PagesOf

\* Steps that leave the memory, the undo log and the files alone.
Quiet == UNCHANGED <<durable, logged, committed, cached, page_table, regions, rs, modified, boundary, ops, failed>>

LEMMA QuietKeeps ==
    ASSUME Types, Mapped, Quiet, NEW t, pc' \in Executing \cup Cleaning \cup Recovering \cup {"idle", "aborted"}
    PROVE  Types' /\ Mapped' /\ (Table(t, cached) => Table(t, cached)')
<1>1. Types'
    BY Primes DEF Quiet, Types
<1>2. Mapped'
    BY Primes DEF Quiet, Mapped, PagesOf
<1>3. Table(t, cached) => Table(t, cached)'
    BY Primes DEF Quiet
<1> QED BY <1>1, <1>2, <1>3

LEMMA QuietRest ==
    ASSUME Quiet, UNCHANGED fresh, NEW t, Harmless' => Restorable(t) /\ Working(t), Harmless',
           pc' \notin {"rollback_drain", "recover_clear", "commit_record"},
           \/ pc' \notin {"idle"} \cup Executing
           \/ pc \in {"idle"} \cup (Executing \ {"commit_record"})
    PROVE  Restorable(t)' /\ Working(t)'
<1>1. Restorable(t)'
    BY Primes DEF Quiet, Restorable, Holds, PagesOf
<1>2. Working(t)'
    <2>1. CASE pc' \notin {"idle"} \cup Executing
        BY <2>1 DEF Working, Executing
    <2>2. CASE pc \in {"idle"} \cup (Executing \ {"commit_record"})
        <3>1. \A p \in Pages : IsFresh(p)' <=> IsFresh(p)
            BY DEF Quiet, IsFresh
        <3> QED BY <2>2, <3>1, Primes DEF Quiet, Working
    <2> QED BY <2>1, <2>2
<1> QED BY <1>1, <1>2

LEMMA InvNext ==
    ASSUME NEW t, Types', Counters', Mapped', Directory(t)', Current(t)',
           Conditions /\ Harmless' => Restorable(t)' /\ Working(t)'
    PROVE  Inv'
BY DEF Inv, Conditions

LEMMA BeginKeeps == ASSUME Inv, Begin PROVE Inv'
<1>1. Types /\ Counters /\ Mapped
    BY DEF Inv
<1>2. PICK t : Directory(t) /\ Current(t) /\ (Conditions /\ Harmless => Restorable(t) /\ Working(t))
    BY DEF Inv
<1>3. Quiet /\ UNCHANGED <<fresh, dir, ddir, calls, crashes>> /\ pc = "idle" /\ pc' = "exec" /\ ops < MaxOps
    BY DEF Begin, Quiet, pvars, mvars, bvars
<1>4. Types' /\ Mapped' /\ (Table(t, cached) => Table(t, cached)')
    BY <1>1, <1>3, QuietKeeps DEF Executing
<1>5. Counters' /\ (Harmless' <=> Harmless)
    BY <1>1, <1>3 DEF Quiet, Counters, Harmless, Executing
<1>6. Directory(t)'
    BY <1>2, <1>3, LeadsPrimes DEF Quiet, Directory, Recovering, Rolling
<1>7. Current(t)'
    BY <1>2, <1>3, <1>4, Primes DEF Quiet, Current, Executing, Cleaning, Rolling
<1>8. Conditions /\ Harmless' => Restorable(t)' /\ Working(t)'
    <2>1. pc' \notin {"rollback_drain", "recover_clear", "commit_record"} /\ pc \in {"idle"} \cup (Executing \ {"commit_record"})
        BY <1>3
    <2> QED BY <1>2, <1>3, <1>5, <2>1, QuietRest
<1> QED BY <1>4, <1>5, <1>6, <1>7, <1>8, InvNext

LEMMA FinishOpKeeps == ASSUME Inv, FinishOp PROVE Inv'
<1>1. Types /\ Counters /\ Mapped
    BY DEF Inv
<1>2. PICK t : Directory(t) /\ Current(t) /\ (Conditions /\ Harmless => Restorable(t) /\ Working(t))
    BY DEF Inv
<1>3. /\ Quiet /\ UNCHANGED <<fresh, dir, ddir, crashes>> /\ calls' = 0 /\ pc = "exec"
      /\ pc' = IF modified THEN "write_table" ELSE "commit_flush"
    BY DEF FinishOp, Quiet, pvars, mvars
<1>4. Types' /\ Mapped' /\ (Table(t, cached) => Table(t, cached)')
    BY <1>1, <1>3, QuietKeeps DEF Executing
<1>5. Counters' /\ (Harmless' <=> Harmless)
    BY <1>1, <1>3 DEF Quiet, Counters, Harmless, Executing
<1>6. Directory(t)'
    BY <1>2, <1>3, LeadsPrimes DEF Quiet, Directory, Recovering, Rolling
<1>7. Current(t)'
    BY <1>2, <1>3, <1>4, Primes DEF Quiet, Current, Executing, Cleaning, Rolling
<1>8. Conditions /\ Harmless' => Restorable(t)' /\ Working(t)'
    <2>1. pc' \notin {"rollback_drain", "recover_clear", "commit_record"} /\ pc \in {"idle"} \cup (Executing \ {"commit_record"})
        BY <1>3 DEF Executing
    <2> QED BY <1>2, <1>3, <1>5, <2>1, QuietRest
<1> QED BY <1>4, <1>5, <1>6, <1>7, <1>8, InvNext

\* The operations on the directory: they leave what recovery would use.
LEMMA LeadsParts ==
    ASSUME NEW d, NEW t, NEW c, NEW f, Leads(d, t, c, f)
    PROVE  /\ \E o : d = [table |-> {o}, new |-> d.new] /\ d.table = {o} /\ Table(o, f)
                     /\ (~c \/ d.new = {} => o = t)
           /\ d.new = {} \/ \E u : d.new = {u} /\ Table(u, f) /\ (c => u = t)
<1>1. PICK o, n : /\ d = [table |-> {o}, new |-> n] /\ Table(o, f)
                  /\ n = {} \/ \E u : n = {u} /\ Table(u, f)
                  /\ IF c /\ n # {} THEN n = {t} ELSE o = t
    BY DEF Leads
<1>2. d.table = {o} /\ d.new = n
    BY <1>1
<1> QED BY <1>1, <1>2

LEMMA OneTable ==
    ASSUME NEW t, NEW c, NEW f, Table(t, f), NEW d, d = [table |-> {t}, new |-> {}]
    PROVE  Leads(d, t, c, f) /\ d.new = {} /\ d.table = {t}
<1> DEFINE o == t
           n == {}
<1>1. /\ d = [table |-> {o}, new |-> n] /\ Table(o, f)
      /\ n = {} \/ \E u : n = {u} /\ Table(u, f)
      /\ IF c /\ n # {} THEN n = {t} ELSE o = t
    OBVIOUS
<1>2. d.new = {} /\ d.table = {t}
    OBVIOUS
<1> HIDE DEF o, n
<1> QED BY <1>1, <1>2 DEF Leads

LEMMA WriteNewTableKeeps == ASSUME Inv, WriteNewTable PROVE Inv'
<1>1. Types /\ Counters /\ Mapped
    BY DEF Inv
<1>2. PICK t : Directory(t) /\ Current(t) /\ (Conditions /\ Harmless => Restorable(t) /\ Working(t))
    BY DEF Inv
<1>3. Quiet /\ UNCHANGED <<fresh, ddir, calls, crashes>> /\ pc = "write_table" /\ pc' = "fsync_table"
    BY DEF WriteNewTable, Quiet, pvars, mvars, bvars
<1>4. Types' /\ Mapped' /\ (Table(t, cached) => Table(t, cached)')
    BY <1>1, <1>3, QuietKeeps DEF Executing
<1>5. Counters' /\ (Harmless' <=> Harmless)
    BY <1>1, <1>3 DEF Quiet, Counters, Harmless, Executing
<1>6. Directory(t)'
    <2>1. ~committed /\ dir.new = {} /\ Leads(dir, t, committed, cached) /\ modified
        BY <1>2, <1>3 DEF Directory, Current, Executing
    <2>2. dir = [table |-> {t}, new |-> {}] /\ Table(t, cached)
        BY <2>1, LeadsParts
    <2>3. dir' = [table |-> {t}, new |-> {regions}]
        <3>1. dir' = [dir EXCEPT !.new = {IF dir.new = {} THEN regions ELSE Over(regions, CHOOSE u \in dir.new : TRUE)}]
            BY DEF WriteNewTable
        <3> QED BY <2>2, <3>1
    <2>4. Leads(dir', t, committed', cached')
        BY <1>1, <1>3, <2>1, <2>2, <2>3 DEF Leads, Quiet, Mapped
    <2> QED BY <1>2, <1>3, <2>1, <2>3, <2>4, LeadsPrimes DEF Quiet, Directory, Recovering, Rolling
<1>7. Current(t)'
    BY <1>2, <1>3, <1>4, Primes DEF Quiet, Current, Executing, Cleaning, Rolling
<1>8. Conditions /\ Harmless' => Restorable(t)' /\ Working(t)'
    <2>1. pc' \notin {"rollback_drain", "recover_clear", "commit_record"} /\ pc \in {"idle"} \cup (Executing \ {"commit_record"})
        BY <1>3 DEF Executing
    <2> QED BY <1>2, <1>3, <1>5, <2>1, QuietRest
<1> QED BY <1>4, <1>5, <1>6, <1>7, <1>8, InvNext

LEMMA FsyncDirKeeps ==
    ASSUME Inv, NEW from, NEW to, FsyncDir(from, to),
           \/ from = "fsync_table" /\ to = "commit_flush"
           \/ from = "fsync_rename" /\ to = "cleanup"
           \/ from = "recover_fsync" /\ to = "recover_map"
    PROVE  Inv'
<1>1. Types /\ Counters /\ Mapped
    BY DEF Inv
<1>2. PICK t : Directory(t) /\ Current(t) /\ (Conditions /\ Harmless => Restorable(t) /\ Working(t))
    BY DEF Inv
<1>3. Quiet /\ UNCHANGED <<fresh, dir, calls, crashes>> /\ pc = from /\ pc' = to /\ ddir' = dir
    BY DEF FsyncDir, Quiet, mvars, bvars
<1>4. Types' /\ Mapped' /\ (Table(t, cached) => Table(t, cached)')
    BY <1>1, <1>3, QuietKeeps DEF Executing, Cleaning, Recovering
<1>5. Counters' /\ (Harmless' <=> Harmless)
    BY <1>1, <1>3 DEF Quiet, Counters, Harmless, Executing
<1>6. Directory(t)'
    BY <1>2, <1>3, LeadsPrimes DEF Quiet, Directory, Recovering, Rolling
<1>7. Current(t)'
    BY <1>2, <1>3, <1>4, Primes DEF Quiet, Current, Executing, Cleaning, Rolling
<1>8. Conditions /\ Harmless' => Restorable(t)' /\ Working(t)'
    <2>1. /\ pc' \notin {"rollback_drain", "recover_clear", "commit_record"}
          /\ pc' \notin {"idle"} \cup Executing \/ pc \in {"idle"} \cup (Executing \ {"commit_record"})
        BY <1>3 DEF Executing
    <2> QED BY <1>2, <1>3, <1>5, <2>1, QuietRest
<1> QED BY <1>4, <1>5, <1>6, <1>7, <1>8, InvNext

LEMMA CommitFaultKeeps == ASSUME Inv, CommitFault PROVE Inv'
<1>1. Types /\ Counters /\ Mapped
    BY DEF Inv
<1>2. PICK t : Directory(t) /\ Current(t) /\ (Conditions /\ Harmless => Restorable(t) /\ Working(t))
    BY DEF Inv
<1>3. Quiet /\ UNCHANGED <<fresh, dir, ddir, calls, crashes>> /\ pc = "commit_flush" /\ pc' = "aborted"
    BY DEF CommitFault, Quiet, pvars, mvars, bvars
<1>4. Types' /\ Mapped' /\ (Table(t, cached) => Table(t, cached)')
    BY <1>1, <1>3, QuietKeeps
<1>5. Counters' /\ (Harmless' <=> Harmless)
    BY <1>1, <1>3 DEF Quiet, Counters, Harmless, Executing
<1>6. Directory(t)'
    BY <1>2, <1>3, LeadsPrimes DEF Quiet, Directory, Recovering, Rolling
<1>7. Current(t)'
    BY <1>2, <1>3, <1>4, Primes DEF Quiet, Current, Executing, Cleaning, Rolling
<1>8. Conditions /\ Harmless' => Restorable(t)' /\ Working(t)'
    <2>1. pc' \notin {"rollback_drain", "recover_clear", "commit_record"} /\ pc' \notin {"idle"} \cup Executing
        BY <1>3 DEF Executing
    <2> QED BY <1>2, <1>3, <1>5, <2>1, QuietRest
<1> QED BY <1>4, <1>5, <1>6, <1>7, <1>8, InvNext

LEMMA CommitTableKeeps == ASSUME Inv, CommitTable PROVE Inv'
<1>1. Types /\ Counters /\ Mapped
    BY DEF Inv
<1>2. PICK t : Directory(t) /\ Current(t) /\ (Conditions /\ Harmless => Restorable(t) /\ Working(t))
    BY DEF Inv
<1>3. Quiet /\ UNCHANGED <<fresh, ddir, calls, crashes>> /\ pc = "rename" /\ pc' = "fsync_rename" /\ dir' = Renamed(dir)
    BY DEF CommitTable, Quiet, pvars, mvars, bvars
<1>4. Types' /\ Mapped' /\ (Table(t, cached) => Table(t, cached)')
    BY <1>1, <1>3, QuietKeeps DEF Cleaning
<1>5. Counters' /\ (Harmless' <=> Harmless)
    BY <1>1, <1>3 DEF Quiet, Counters, Harmless, Executing
<1>6. Directory(t)'
    <2>1. dir.new = {t} /\ Table(t, cached)
        BY <1>2, <1>3 DEF Directory, Current, Cleaning
    <2>2. dir' = [table |-> {t}, new |-> {}]
        BY <1>3, <2>1 DEF Renamed
    <2>3. Leads(dir', t, committed', cached') /\ dir'.new = {}
        <3>1. Table(t, cached')
            BY <1>3, <2>1 DEF Quiet
        <3> QED BY <2>2, <3>1, OneTable
    <2> QED BY <1>2, <1>3, <2>3, LeadsPrimes DEF Quiet, Directory, Recovering, Rolling
<1>7. Current(t)'
    BY <1>2, <1>3, <1>4, Primes DEF Quiet, Current, Executing, Cleaning, Rolling
<1>8. Conditions /\ Harmless' => Restorable(t)' /\ Working(t)'
    <2>1. pc' \notin {"rollback_drain", "recover_clear", "commit_record"} /\ pc' \notin {"idle"} \cup Executing
        BY <1>3 DEF Executing
    <2> QED BY <1>2, <1>3, <1>5, <2>1, QuietRest
<1> QED BY <1>4, <1>5, <1>6, <1>7, <1>8, InvNext

LEMMA RecoverTableKeeps == ASSUME Inv, RecoverTable PROVE Inv'
<1>1. Types /\ Counters /\ Mapped
    BY DEF Inv
<1>2. PICK t : Directory(t) /\ Current(t) /\ (Conditions /\ Harmless => Restorable(t) /\ Working(t))
    BY DEF Inv
<1>3. /\ Quiet /\ UNCHANGED <<fresh, ddir, calls, crashes>> /\ pc = "recover" /\ pc' = "recover_fsync"
      /\ dir' = IF committed THEN Renamed(dir) ELSE [dir EXCEPT !.new = {}]
    BY DEF RecoverTable, Quiet, pvars, mvars, bvars
<1>4. Types' /\ Mapped' /\ (Table(t, cached) => Table(t, cached)')
    BY <1>1, <1>3, QuietKeeps DEF Recovering
<1>5. Counters' /\ (Harmless' <=> Harmless)
    BY <1>1, <1>3 DEF Quiet, Counters, Harmless, Executing
<1>6. Directory(t)'
    <2>1. Leads(dir, t, committed, cached) /\ Table(t, cached)
        BY <1>2 DEF Directory, Current
    <2>2. dir' = [table |-> {t}, new |-> {}]
        <3>1. PICK o : dir = [table |-> {o}, new |-> dir.new] /\ dir.table = {o} /\ (~committed \/ dir.new = {} => o = t)
            BY <2>1, LeadsParts
        <3>2. dir.new = {} \/ \E u : dir.new = {u} /\ (committed => u = t)
            BY <2>1, LeadsParts
        <3>3. CASE committed /\ dir.new # {}
            BY <1>3, <3>2, <3>3 DEF Renamed
        <3>4. CASE committed /\ dir.new = {}
            BY <1>3, <3>1, <3>4 DEF Renamed
        <3>5. CASE ~committed
            BY <1>3, <3>1, <3>5
        <3> QED BY <3>3, <3>4, <3>5
    <2>3. Leads(dir', t, committed', cached') /\ dir'.new = {}
        <3>1. Table(t, cached')
            BY <1>3, <2>1 DEF Quiet
        <3> QED BY <2>2, <3>1, OneTable
    <2> QED BY <1>2, <1>3, <2>3, LeadsPrimes DEF Quiet, Directory, Recovering, Rolling
<1>7. Current(t)'
    BY <1>2, <1>3, <1>4, Primes DEF Quiet, Current, Executing, Cleaning, Rolling
<1>8. Conditions /\ Harmless' => Restorable(t)' /\ Working(t)'
    <2>1. pc' \notin {"rollback_drain", "recover_clear", "commit_record"} /\ pc' \notin {"idle"} \cup Executing
        BY <1>3 DEF Executing
    <2> QED BY <1>2, <1>3, <1>5, <2>1, QuietRest
<1> QED BY <1>4, <1>5, <1>6, <1>7, <1>8, InvNext

LEMMA MmapAbortKeeps == ASSUME Inv, NEW range \in Arguments, MmapAbort(range) PROVE Inv'
<1>1. Types /\ Counters /\ Mapped
    BY DEF Inv
<1>2. PICK t : Directory(t) /\ Current(t) /\ (Conditions /\ Harmless => Restorable(t) /\ Working(t))
    BY DEF Inv
<1>3. Quiet /\ UNCHANGED <<fresh, dir, ddir, crashes>> /\ calls' = calls + 1 /\ pc = "exec" /\ pc' = "aborted"
    BY DEF MmapAbort, Call, Quiet, mvars
<1>4. Types' /\ Mapped' /\ (Table(t, cached) => Table(t, cached)')
    BY <1>1, <1>3, QuietKeeps
<1>5. Counters' /\ (Harmless' <=> Harmless)
    BY <1>1, <1>3 DEF Quiet, Counters, Harmless, Executing
<1>6. Directory(t)'
    BY <1>2, <1>3, LeadsPrimes DEF Quiet, Directory, Recovering, Rolling
<1>7. Current(t)'
    BY <1>2, <1>3, <1>4, Primes DEF Quiet, Current, Executing, Cleaning, Rolling
<1>8. Conditions /\ Harmless' => Restorable(t)' /\ Working(t)'
    <2>1. pc' \notin {"rollback_drain", "recover_clear", "commit_record"} /\ pc' \notin {"idle"} \cup Executing
        BY <1>3 DEF Executing
    <2> QED BY <1>2, <1>3, <1>5, <2>1, QuietRest
<1> QED BY <1>4, <1>5, <1>6, <1>7, <1>8, InvNext

-----------------------------------------------------------------------------
(* The operation.                                                          *)

\* Recovery sees no more than the files that t names.
LEMMA FilesKept ==
    ASSUME NEW t, Table(t, cached), Restorable(t), UNCHANGED <<logged, committed, boundary>>,
           \A f \in DOMAIN cached : cached'[f] = cached[f] /\ durable'[f] = durable[f],
           pc' \notin {"rollback_drain", "recover_clear"}
    PROVE  Restorable(t)'
<1>1. \A i \in 1..Len(t) : cached'[t[i].file_id] = cached[t[i].file_id] /\ durable'[t[i].file_id] = durable[t[i].file_id]
    BY DEF Table
<1> QED BY <1>1, Primes DEF Restorable, Holds, PagesOf

LEMMA FreshPrimes ==
    /\ RP!Coalesced(fresh)' <=> RP!Coalesced(fresh')
    /\ \A p : IsFresh(p)' <=> F!find(fresh', Extent(p, 1))
BY DEF RP!Coalesced, RP!End, RP!Spans, IsFresh, F!find, F!Includes, Extent

LEMMA WorkingNext ==
    ASSUME NEW t, pc' \in Executing \ {"commit_record"}, RP!Coalesced(fresh'),
           \A p \in Pages : IsFresh(p)' => \A i \in 1..Len(t) : t[i].file_id # page_table'[p],
           \A p \in Pages : page_table'[p] # 0 /\ ~IsFresh(p)' /\ p \notin DOMAIN logged' =>
               /\ p \in Rows(t) /\ cached'[page_table'[p]][p] = boundary'[p]
               /\ failed' = 0 => durable'[page_table'[p]][p] = boundary'[p]
    PROVE  Working(t)'
BY Primes, FreshPrimes DEF Working

LEMMA UnmapFreshIs ==
    ASSUME Conditions, RP!Coalesced(fresh), NEW range \in Arguments, UnmapFresh(range)
    PROVE  /\ RP!Coalesced(fresh')
           /\ \A p \in Pages : IsFresh(p)' <=> IsFresh(p) /\ p \notin PagesOf(range)
<1>1. UintRange > NumPages /\ RemoveExact(range) /\ fresh' = F!remove(fresh, AsUint(range))
    BY DEF Conditions, UnmapFresh
<1>2. /\ RP!Coalesced(fresh')
      /\ \A p \in Pages : F!find(fresh', Extent(p, 1)) => F!find(fresh, Extent(p, 1)) /\ p \notin PagesOf(range)
    BY <1>1, RemoveFresh
<1>3. fresh' = F!remove(fresh, range)
    BY <1>1, SizeKept
<1>4. \A p \in Pages : F!find(fresh, Extent(p, 1)) /\ p \notin PagesOf(range) => F!find(fresh', Extent(p, 1))
    BY <1>1, <1>3 DEF RemoveExact
<1> QED BY <1>2, <1>4, FreshPrimes DEF IsFresh

LEMMA MunmapAbortKeeps == ASSUME Inv, NEW range \in Arguments, MunmapAbort(range) PROVE Inv'
<1>1. Types /\ Counters /\ Mapped
    BY DEF Inv
<1>2. PICK t : Directory(t) /\ Current(t) /\ (Conditions /\ Harmless => Restorable(t) /\ Working(t))
    BY DEF Inv
<1>3. Quiet /\ UNCHANGED <<dir, ddir, crashes>> /\ calls' = calls + 1 /\ pc = "exec" /\ pc' = "aborted"
    BY DEF MunmapAbort, UnmapFresh, Call, Quiet
<1>4. Types' /\ Mapped' /\ (Table(t, cached) => Table(t, cached)')
    BY <1>1, <1>3, QuietKeeps
<1>5. Counters' /\ (Harmless' <=> Harmless)
    BY <1>1, <1>3 DEF Quiet, Counters, Harmless, Executing
<1>6. Directory(t)'
    BY <1>2, <1>3, LeadsPrimes DEF Quiet, Directory, Recovering, Rolling
<1>7. Current(t)'
    BY <1>2, <1>3, <1>4, Primes DEF Quiet, Current, Executing, Cleaning, Rolling
<1>8. Conditions /\ Harmless' => Restorable(t)' /\ Working(t)'
    <2>1. Table(t, cached)
        BY <1>2 DEF Current
    <2>2. Restorable(t) => Restorable(t)'
        BY <1>3, <2>1, FilesKept DEF Quiet
    <2>3. Working(t)'
        BY <1>3 DEF Working, Executing
    <2> QED BY <1>2, <1>5, <2>2, <2>3
<1> QED BY <1>4, <1>5, <1>6, <1>7, <1>8, InvNext

LEMMA MunmapUnmanagedKeeps == ASSUME Inv, NEW range \in Arguments, MunmapUnmanaged(range) PROVE Inv'
<1>1. Types /\ Counters /\ Mapped
    BY DEF Inv
<1>2. PICK t : Directory(t) /\ Current(t) /\ (Conditions /\ Harmless => Restorable(t) /\ Working(t))
    BY DEF Inv
<1>3. /\ UNCHANGED <<durable, logged, committed, cached, regions, rs, modified, boundary, ops, failed>>
      /\ UNCHANGED <<dir, ddir, crashes>> /\ calls' = calls + 1 /\ pc = "exec" /\ pc' = "exec"
      /\ find_overlap(regions, range) = 0
      /\ page_table' = [p \in Pages |-> IF p \in PagesOf(range) THEN 0 ELSE page_table[p]]
      /\ UnmapFresh(range)
    BY DEF MunmapUnmanaged, UnmapFresh, Call
<1>a. \A p \in Pages : page_table'[p] = IF p \in PagesOf(range) THEN 0 ELSE page_table[p]
    BY <1>3
<1>4. Types' /\ (Table(t, cached) => Table(t, cached)')
    BY <1>1, <1>3, Primes DEF Types, Executing
<1>b. Table(regions, cached) /\ \A i \in 1..Len(regions) : PagesOf(regions[i]) \cap PagesOf(range) = {}
    <2>1. Table(regions, cached) /\ Len(regions) \in Nat /\ \A i \in 1..Len(regions) : regions[i] \in RegionType
        BY <1>1, TableFacts DEF Mapped
    <2>2. \A i \in 1..Len(regions) : ~does_overlap_with(regions[i], range)
        BY <1>3, <2>1, OverlapFinds
    <2> QED BY <2>1, <2>2, OverlapIs
<1>c. Mapped'
    <2>1. page_table' \in [Pages -> 0..MaxFiles]
        <3>1. \A p \in Pages : page_table[p] \in 0..MaxFiles /\ 0 \in 0..MaxFiles
            BY <1>1, MemRegionAssumption DEF Mapped
        <3> QED BY <1>3, <3>1
    <2>2. \A p \in Pages : page_table'[p] # 0 => page_table'[p] = page_table[p]
        BY <1>a
    <2>3. ASSUME NEW i \in 1..Len(regions), NEW p \in PagesOf(regions[i])
          PROVE  page_table'[p] = regions[i].file_id
        <3>1. p \in Pages /\ p \notin PagesOf(range)
            BY <1>b, TableFacts
        <3> QED BY <1>1, <1>a, <3>1 DEF Mapped
    <2> QED BY <1>1, <1>3, <1>b, <2>1, <2>2, <2>3, Primes DEF Mapped, PagesOf
<1>5. Counters' /\ (Harmless' <=> Harmless)
    BY <1>1, <1>3 DEF Counters, Harmless, Executing
<1>6. Directory(t)'
    BY <1>2, <1>3, LeadsPrimes DEF Directory, Recovering, Rolling
<1>7. Current(t)'
    BY <1>2, <1>3, <1>4, Primes DEF Current, Executing, Cleaning, Rolling
<1>8. ASSUME Conditions, Harmless' PROVE Restorable(t)' /\ Working(t)'
    <2>1. Table(t, cached) /\ Restorable(t) /\ Working(t)
        BY <1>2, <1>5, <1>8 DEF Current
    <2>2. Restorable(t)'
        BY <1>3, <2>1, FilesKept
    <2>3. /\ RP!Coalesced(fresh)
          /\ \A p \in Pages : IsFresh(p) => \A i \in 1..Len(t) : t[i].file_id # page_table[p]
          /\ \A p \in Pages : page_table[p] # 0 /\ ~IsFresh(p) /\ p \notin DOMAIN logged =>
                 /\ p \in Rows(t) /\ cached[page_table[p]][p] = boundary[p]
                 /\ failed = 0 => durable[page_table[p]][p] = boundary[p]
        BY <1>3, <2>1 DEF Working, Executing
    <2>4. RP!Coalesced(fresh') /\ \A p \in Pages : IsFresh(p)' <=> IsFresh(p) /\ p \notin PagesOf(range)
        BY <1>3, <1>8, <2>3, UnmapFreshIs
    <2>5. pc' \in Executing \ {"commit_record"}
        BY <1>3 DEF Executing
    <2>6. \A p \in Pages : IsFresh(p)' => \A i \in 1..Len(t) : t[i].file_id # page_table'[p]
        BY <1>a, <2>3, <2>4
    <2>7. ASSUME NEW p \in Pages, page_table'[p] # 0, ~IsFresh(p)', p \notin DOMAIN logged'
          PROVE  /\ p \in Rows(t) /\ cached'[page_table'[p]][p] = boundary'[p]
                 /\ failed' = 0 => durable'[page_table'[p]][p] = boundary'[p]
        <3>1. p \notin PagesOf(range) /\ page_table'[p] = page_table[p]
            BY <1>a, <2>7
        <3>2. ~IsFresh(p) /\ p \notin DOMAIN logged
            BY <1>3, <2>4, <2>7, <3>1
        <3> QED BY <1>3, <2>3, <2>7, <3>1, <3>2
    <2>8. Working(t)'
        BY <2>4, <2>5, <2>6, <2>7, WorkingNext
    <2> QED BY <2>2, <2>8
<1> QED BY <1>4, <1>5, <1>6, <1>7, <1>8, <1>c, InvNext

LEMMA MunmapFailsKeeps == ASSUME Inv, NEW range \in Arguments, MunmapFails(range) PROVE Inv'
<1> DEFINE i == find_overlap(regions, range)
<1>1. Types /\ Counters /\ Mapped
    BY DEF Inv
<1>2. PICK t : Directory(t) /\ Current(t) /\ (Conditions /\ Harmless => Restorable(t) /\ Working(t))
    BY DEF Inv
<1>3. /\ UNCHANGED <<durable, cached, page_table, rs, pc, logged, committed, boundary, ops, dir, ddir, crashes>>
      /\ calls' = calls + 1 /\ pc = "exec" /\ modified' = TRUE
      /\ i # 0 /\ regions' = Without(regions, i) /\ failed = 0 /\ failed' = ops + 1
      /\ ForgetFresh \/ \A p \in PagesOf(range) : ~IsFresh(p)
      /\ UnmapFresh(range)
    BY DEF MunmapFails, UnmapFresh, Call, Fails, IsFresh
<1>4. Table(regions, cached) /\ Len(regions) \in Nat
    BY <1>1, TableFacts DEF Mapped
<1>5. i \in 1..Len(regions)
    BY <1>3, <1>4, OverlapFinds
<1> HIDE DEF i
<1>6. /\ Table(Without(regions, i), cached)
      /\ \A k \in 1..Len(Without(regions, i)) : \E j \in 1..Len(regions) : Without(regions, i)[k] = regions[j]
    BY <1>4, <1>5, TableWithout
<1>7. Types'
    BY <1>1, <1>3, Primes DEF Types, Executing
<1>8. Mapped'
    <2>1. \A k \in 1..Len(regions') : \A p \in PagesOf(regions'[k]) : page_table[p] = regions'[k].file_id
        <3> TAKE k \in 1..Len(regions')
        <3>1. PICK j \in 1..Len(regions) : regions'[k] = regions[j]
            BY <1>3, <1>6
        <3>2. \A p \in PagesOf(regions[j]) : page_table[p] = regions[j].file_id
            BY <1>1 DEF Mapped
        <3> QED BY <3>1, <3>2
    <2>2. failed' # 0
        BY <1>1, <1>3 DEF Counters
    <2> QED BY <1>1, <1>3, <1>6, <2>1, <2>2, Primes DEF Mapped, PagesOf
<1>9. Counters' /\ Harmless
    <2>1. ops \in 0..MaxOps /\ ops < MaxOps /\ MaxOps \in Nat /\ calls \in Nat /\ crashes \in 0..MaxCrashes
        BY <1>1, <1>3, MemRegionAssumption DEF Counters, Executing
    <2>2. failed' \in 0..MaxOps /\ failed' <= ops' + 1 /\ ops' \in 0..MaxOps /\ ops' < MaxOps /\ calls' \in Nat
        BY <1>3, <2>1
    <2>3. pc' \in Executing
        BY <1>3 DEF Executing
    <2> QED BY <1>3, <2>1, <2>2, <2>3 DEF Counters, Harmless
<1>10. Directory(t)'
    BY <1>2, <1>3, LeadsPrimes DEF Directory, Recovering, Rolling
<1>11. Current(t)'
    BY <1>2, <1>3, Primes DEF Current, Executing, Cleaning, Rolling
<1>12. ASSUME Conditions, Harmless' PROVE Restorable(t)' /\ Working(t)'
    <2>1. Table(t, cached) /\ Restorable(t) /\ Working(t)
        BY <1>2, <1>9, <1>12 DEF Current
    <2>2. Restorable(t)'
        BY <1>3, <2>1, FilesKept
    <2>3. /\ RP!Coalesced(fresh)
          /\ \A p \in Pages : IsFresh(p) => \A k \in 1..Len(t) : t[k].file_id # page_table[p]
          /\ \A p \in Pages : page_table[p] # 0 /\ ~IsFresh(p) /\ p \notin DOMAIN logged =>
                 p \in Rows(t) /\ cached[page_table[p]][p] = boundary[p]
        BY <1>3, <2>1 DEF Working, Executing
    <2>4. RP!Coalesced(fresh') /\ \A p \in Pages : IsFresh(p)' <=> IsFresh(p) /\ p \notin PagesOf(range)
        BY <1>3, <1>12, <2>3, UnmapFreshIs
    <2>5. \A p \in Pages : IsFresh(p)' <=> IsFresh(p)
        BY <1>3, <1>12, <2>4 DEF Conditions
    <2>6. pc' \in Executing \ {"commit_record"} /\ failed' # 0
        BY <1>1, <1>3 DEF Executing, Counters
    <2>7. \A p \in Pages : IsFresh(p)' => \A k \in 1..Len(t) : t[k].file_id # page_table'[p]
        BY <1>3, <2>3, <2>5
    <2>8. \A p \in Pages : page_table'[p] # 0 /\ ~IsFresh(p)' /\ p \notin DOMAIN logged' =>
               p \in Rows(t) /\ cached'[page_table'[p]][p] = boundary'[p]
        BY <1>3, <2>3, <2>5
    <2>9. Working(t)'
        BY <2>4, <2>6, <2>7, <2>8, WorkingNext
    <2> QED BY <2>2, <2>9
<1> QED BY <1>7, <1>8, <1>9, <1>10, <1>11, <1>12, InvNext

\* A system call that replaces regions.
Replacing(new, known, lost, kept, table) ==
    /\ Installed(new, known, lost, kept, table) /\ Keeps(kept, new, table)
    /\ pc = "exec" /\ pc' = "exec" /\ calls' = calls + 1 /\ modified' = TRUE
    /\ UNCHANGED <<ddir, logged, committed, dir, boundary, ops, crashes>>
    /\ (failed' = failed /\ lost = {}) \/ (failed = 0 /\ failed' = ops + 1)
    /\ failed' = 0 => known = Len(new)

LEMMA ReplacingCounts ==
    ASSUME Counters, NEW new, NEW known, NEW lost, NEW kept, NEW table, Replacing(new, known, lost, kept, table)
    PROVE  Counters' /\ (Harmless' => Harmless) /\ (failed' = 0 => failed = 0 /\ lost = {})
<1>1. /\ ops \in 0..MaxOps /\ ops < MaxOps /\ MaxOps \in Nat /\ calls \in Nat /\ crashes \in 0..MaxCrashes
      /\ failed \in 0..MaxOps /\ failed <= ops + 1
    BY MemRegionAssumption DEF Counters, Executing, Replacing
<1>2. /\ ops' = ops /\ calls' = calls + 1 /\ crashes' = crashes /\ pc' \in Executing
      /\ (failed' = failed /\ lost = {}) \/ (failed = 0 /\ failed' = ops + 1)
    BY DEF Replacing, Executing
<1>3. failed' \in 0..MaxOps /\ failed' <= ops' + 1 /\ ops' \in 0..MaxOps /\ ops' < MaxOps /\ calls' \in Nat
    BY <1>1, <1>2
<1>4. Counters'
    BY <1>1, <1>2, <1>3 DEF Counters
<1>5. (Harmless' => Harmless) /\ (failed' = 0 => failed = 0 /\ lost = {})
    BY <1>1, <1>2 DEF Harmless
<1> QED BY <1>4, <1>5

LEMMA ReplacingKeeps ==
    ASSUME Types, Mapped, NEW t, Directory(t), Current(t), NEW new, NEW known, NEW lost, NEW kept, NEW table,
           Replacing(new, known, lost, kept, table)
    PROVE  Types' /\ Mapped' /\ Directory(t)' /\ Current(t)' /\ (Restorable(t) => Restorable(t)')
<1>1. Installed(new, known, lost, kept, table) /\ Keeps(kept, new, table) /\ (failed' = 0 => known = Len(new))
    BY DEF Replacing
<1>2. /\ Files(cached') /\ Files(durable') /\ DOMAIN durable' = DOMAIN cached'
      /\ \A id \in DOMAIN cached' : DOMAIN durable'[id] = DOMAIN cached'[id]
      /\ rs' \subseteq Pages
      /\ \A s : Table(s, cached) => Table(s, cached')
      /\ Mapped'
    BY <1>1, InstalledTypes
<1>3. Types'
    BY <1>2, Primes DEF Types, Replacing, Executing
<1>4. ~committed /\ dir.new = {} /\ ddir = dir /\ Leads(dir, t, committed, cached)
    BY DEF Directory, Current, Replacing, Executing
<1>5. dir = [table |-> {t}, new |-> {}] /\ Table(t, cached)
    BY <1>4, LeadsParts
<1>6. Table(t, cached')
    BY <1>2, <1>5
<1>7. Leads(dir', t, committed', cached') /\ Leads(ddir', t, committed', cached')
    <2>1. Leads(dir, t, committed, cached')
        BY <1>5, <1>6, OneTable
    <2> QED BY <1>4, <2>1 DEF Replacing
<1>8. Directory(t)'
    BY <1>4, <1>7, LeadsPrimes DEF Directory, Replacing, Recovering, Rolling
<1>9. Current(t)'
    BY <1>4, <1>6, Primes DEF Current, Replacing, Executing, Cleaning, Rolling
<1>10. Restorable(t) => Restorable(t)'
    <2>1. \A f \in DOMAIN cached : cached'[f] = cached[f] /\ durable'[f] = durable[f]
        BY <1>1 DEF Installed
    <2>2. UNCHANGED <<logged, committed, boundary>> /\ pc' \notin {"rollback_drain", "recover_clear"}
        BY DEF Replacing
    <2> QED BY <1>5, <2>1, <2>2, FilesKept
<1> QED BY <1>2, <1>3, <1>8, <1>9, <1>10

LEMMA ReplacingWorks ==
    ASSUME Types, Mapped, NEW t, Table(t, cached), Working(t), NEW new, NEW known, NEW lost, NEW kept, NEW table,
           Replacing(new, known, lost, kept, table), failed' = 0 => failed = 0 /\ lost = {}, RP!Coalesced(fresh'),
           \A p \in Pages : IsFresh(p)' => IsFresh(p) \/ p \in Rows(new),
           \A p \in Pages : page_table'[p] # 0 /\ ~IsFresh(p)' => page_table[p] # 0 /\ ~IsFresh(p)
    PROVE  Working(t)'
<1>1. Installed(new, known, lost, kept, table) /\ Keeps(kept, new, table)
    BY DEF Replacing
<1>2. /\ \A i \in 1..Len(new) : \A p \in PagesOf(new[i]) : page_table'[p] = new[i].file_id
      /\ \A p \in Pages : p \notin Rows(new) => page_table'[p] = table[p]
    BY <1>1, PageMapped
<1>3. /\ \A p \in Pages : IsFresh(p) => \A i \in 1..Len(t) : t[i].file_id # page_table[p]
      /\ \A p \in Pages : page_table[p] # 0 /\ ~IsFresh(p) /\ p \notin DOMAIN logged =>
             /\ p \in Rows(t) /\ cached[page_table[p]][p] = boundary[p]
             /\ failed = 0 => durable[page_table[p]][p] = boundary[p]
    BY DEF Working, Replacing, Executing
<1>4. pc' \in Executing \ {"commit_record"} /\ UNCHANGED <<logged, boundary>>
    BY DEF Replacing, Executing
<1>5. \A i \in 1..Len(t) : t[i].file_id \in DOMAIN cached /\ t[i].file_id # 0
    <2>1. \A i \in 1..Len(t) : t[i] \in RegionType /\ t[i].file_id \in DOMAIN cached
        BY DEF Table
    <2> QED BY <2>1, RegionFacts
<1>6. \A i \in 1..Len(new) : new[i].file_id \notin DOMAIN cached /\ PagesOf(new[i]) \subseteq Pages
    <2>1. \A i \in 1..Len(new) : new[i].file_id \notin DOMAIN cached /\ new[i] \in RegionType
        BY <1>1 DEF Installed
    <2> QED BY <2>1, RegionFacts
<1>7. ASSUME NEW p \in Pages, IsFresh(p)', NEW i \in 1..Len(t) PROVE t[i].file_id # page_table'[p]
    <2>1. CASE p \in Rows(new)
        <3>1. PICK j \in 1..Len(new) : p \in PagesOf(new[j])
            BY <2>1 DEF Rows
        <3>2. page_table'[p] = new[j].file_id
            BY <1>2, <3>1
        <3> QED BY <1>5, <1>6, <3>2
    <2>2. CASE p \notin Rows(new)
        <3>1. page_table'[p] = table[p] /\ (table[p] # 0 => table[p] = page_table[p])
            BY <1>1, <1>2, <2>2 DEF Keeps
        <3>2. t[i].file_id # page_table[p] /\ t[i].file_id # 0
            BY <1>3, <1>5, <1>7, <2>2
        <3> QED BY <3>1, <3>2
    <2> QED BY <2>1, <2>2
<1>8. ASSUME NEW p \in Pages, page_table'[p] # 0, ~IsFresh(p)', p \notin DOMAIN logged'
      PROVE  /\ p \in Rows(t) /\ cached'[page_table'[p]][p] = boundary'[p]
             /\ failed' = 0 => durable'[page_table'[p]][p] = boundary'[p]
    <2>1. page_table[p] # 0 /\ ~IsFresh(p) /\ p \notin DOMAIN logged /\ boundary' = boundary
        BY <1>4, <1>8
    <2>2. /\ p \in Rows(t) /\ cached[page_table[p]][p] = boundary[p]
          /\ failed = 0 => durable[page_table[p]][p] = boundary[p]
        BY <1>3, <2>1
    <2>3. CASE p \in Rows(new)
        <3>1. PICK j \in 1..Len(new) : p \in PagesOf(new[j])
            BY <2>3 DEF Rows
        <3>2. page_table'[p] = new[j].file_id
            BY <1>2, <3>1
        <3>3. Content(new[j])[p] = cached[page_table[p]][p]
            BY <1>6, <2>1, <3>1, ContentIs
        <3>4. /\ cached'[new[j].file_id][p] = Content(new[j])[p]
              /\ durable'[new[j].file_id][p] = IF j \in lost THEN 0 ELSE Content(new[j])[p]
            BY <1>1, <3>1 DEF Installed
        <3> QED BY <2>1, <2>2, <3>2, <3>3, <3>4
    <2>4. CASE p \notin Rows(new)
        <3>1. page_table'[p] = page_table[p]
            BY <1>1, <1>2, <1>8, <2>4 DEF Keeps
        <3>2. page_table[p] \in DOMAIN cached
            BY <2>1 DEF Mapped
        <3>3. cached'[page_table[p]] = cached[page_table[p]] /\ durable'[page_table[p]] = durable[page_table[p]]
            BY <1>1, <3>2 DEF Installed
        <3> QED BY <2>1, <2>2, <3>1, <3>3
    <2> QED BY <2>3, <2>4
<1> QED BY <1>4, <1>7, <1>8, WorkingNext

LEMMA PersistedIs ==
    ASSUME NEW n, NEW known, NEW number, NEW lost, Persisted(n, known, number, lost)
    PROVE  (failed' = failed /\ lost = {} /\ n = number /\ known = n) \/ (failed = 0 /\ failed' = ops + 1)
BY DEF Persisted, Fails

LEMMA MmapKeeps == ASSUME Inv, NEW range \in Arguments, Mmap(range) PROVE Inv'
<1>1. Types /\ Counters /\ Mapped
    BY DEF Inv
<1>2. PICK t : Directory(t) /\ Current(t) /\ (Conditions /\ Harmless => Restorable(t) /\ Working(t))
    BY DEF Inv
<1>3. /\ UNCHANGED <<logged, committed, boundary, ops, dir, ddir, crashes>>
      /\ calls' = calls + 1 /\ pc = "exec" /\ pc' = "exec" /\ modified' = TRUE
      /\ find_overlap(regions, range) = 0 /\ \A p \in PagesOf(range) : page_table[p] = 0
      /\ fresh' = F!insert(fresh, AsUint(range))
    BY DEF Mmap, Call
<1>4. PICK lost : Persisted(1, 1, 1, lost) /\ ReplaceRegions(<<range>>, 1, lost, regions, page_table)
    BY DEF Mmap
<1>5. (failed' = failed /\ lost = {}) \/ (failed = 0 /\ failed' = ops + 1)
    BY <1>4, PersistedIs
<1>6. PICK new : Installed(new, 1, lost, regions, page_table) /\ Len(new) = 1 /\ PagesOf(new[1]) = PagesOf(range)
    <2> DEFINE ranges == <<range>>
    <2>1. ranges \in Seq(Arguments) /\ Len(ranges) = 1 /\ ranges[1] = range /\ Len(ranges) <= 2
        OBVIOUS
    <2> HIDE DEF ranges
    <2>2. ReplaceRegions(ranges, 1, lost, regions, page_table)
        BY <1>4 DEF ranges
    <2>3. \E new : /\ Installed(new, 1, lost, regions, page_table) /\ Len(new) = Len(ranges)
                   /\ \A i \in 1..Len(new) : PagesOf(new[i]) = PagesOf(ranges[i])
        <3>1. Types /\ ranges \in Seq(Arguments) /\ Len(ranges) <= 2 /\ 1 \in 0..Len(ranges)
            BY <1>1, <2>1
        <3> QED BY <2>2, <3>1, Replaces
    <2> QED BY <2>1, <2>3
<1>7. Rows(new) = PagesOf(range)
    BY <1>6 DEF Rows
<1>8. Table(regions, cached) /\ Len(regions) \in Nat /\ \A i \in 1..Len(regions) : regions[i] \in RegionType
    BY <1>1, TableFacts DEF Mapped
<1>9. Rows(regions) \cap Rows(new) = {}
    <2>1. \A i \in 1..Len(regions) : ~does_overlap_with(regions[i], range)
        BY <1>3, <1>8, OverlapFinds
    <2>2. \A i \in 1..Len(regions) : PagesOf(regions[i]) \cap PagesOf(range) = {}
        BY <1>8, <2>1, OverlapIs
    <2> QED BY <1>7, <2>2, RowsMeet
<1>10. Keeps(regions, new, page_table)
    <2>1. failed' = 0 => failed = 0
        BY <1>1, <1>5
    <2>2. \A i, j \in 1..Len(new) : i = j
        BY <1>6
    <2> QED BY <1>1, <1>8, <1>9, <2>1, <2>2 DEF Keeps, Mapped
<1>11. Replacing(new, 1, lost, regions, page_table)
    BY <1>3, <1>5, <1>6, <1>10 DEF Replacing
<1>12. Types' /\ Mapped' /\ Directory(t)' /\ Current(t)' /\ (Restorable(t) => Restorable(t)')
    BY <1>1, <1>2, <1>11, ReplacingKeeps
<1>13. Counters' /\ (Harmless' => Harmless) /\ (failed' = 0 => failed = 0 /\ lost = {})
    BY <1>1, <1>11, ReplacingCounts
<1>14. ASSUME Conditions, Harmless' PROVE Restorable(t)' /\ Working(t)'
    <2>1. Table(t, cached) /\ Restorable(t) /\ Working(t) /\ UintRange > NumPages
        BY <1>2, <1>13, <1>14 DEF Current, Conditions
    <2>2. RP!Coalesced(fresh)
        BY <1>3, <2>1 DEF Working, Executing
    <2>3. RP!Coalesced(fresh') /\ \A p \in Pages : IsFresh(p)' <=> IsFresh(p) \/ p \in PagesOf(range)
        <3>1. /\ RP!Coalesced(fresh')
              /\ \A p \in Pages : F!find(fresh', Extent(p, 1)) <=> F!find(fresh, Extent(p, 1)) \/ p \in PagesOf(range)
            BY <1>3, <2>1, <2>2, InsertFresh
        <3> QED BY <3>1, FreshPrimes DEF IsFresh
    <2>4. ASSUME NEW p \in Pages, page_table'[p] # 0, ~IsFresh(p)' PROVE page_table[p] # 0 /\ ~IsFresh(p)
        <3>1. p \notin Rows(new) /\ ~IsFresh(p)
            BY <1>7, <2>3, <2>4
        <3>2. page_table'[p] = page_table[p]
            BY <1>6, <1>10, <3>1, PageMapped
        <3> QED BY <2>4, <3>1, <3>2
    <2>5. \A p \in Pages : IsFresh(p)' => IsFresh(p) \/ p \in Rows(new)
        BY <1>7, <2>3
    <2>6. Working(t)'
        BY <1>1, <1>11, <1>13, <2>1, <2>3, <2>4, <2>5, ReplacingWorks
    <2> QED BY <1>12, <2>1, <2>6
<1> QED BY <1>12, <1>13, <1>14, InvNext

LEMMA MunmapKeeps == ASSUME Inv, NEW range \in Arguments, Munmap(range) PROVE Inv'
<1> DEFINE i == find_overlap(regions, range)
           r == regions[i]
           pieces == Pieces(r, range)
           kept == Without(regions, i)
           table == [p \in Pages |-> IF p \in PagesOf(range) THEN 0 ELSE page_table[p]]
<1>1. Types /\ Counters /\ Mapped
    BY DEF Inv
<1>2. PICK t : Directory(t) /\ Current(t) /\ (Conditions /\ Harmless => Restorable(t) /\ Working(t))
    BY DEF Inv
<1>3. /\ UNCHANGED <<logged, committed, boundary, ops, dir, ddir, crashes>>
      /\ calls' = calls + 1 /\ pc = "exec" /\ pc' = "exec" /\ modified' = TRUE
      /\ i # 0 /\ does_include(r, range)
      /\ UnmapFresh(range)
    BY DEF Munmap, UnmapFresh, Call
<1>3a. PICK n \in 0..Len(pieces) :
          \E known \in 0..n : \E lost :
              Persisted(n, known, Len(pieces), lost) /\ ReplaceRegions(SubSeq(pieces, 1, n), known, lost, kept, table)
    BY DEF Munmap
<1>3b. PICK known \in 0..n : \E lost :
          Persisted(n, known, Len(pieces), lost) /\ ReplaceRegions(SubSeq(pieces, 1, n), known, lost, kept, table)
    BY <1>3a
<1>4. PICK lost :
          Persisted(n, known, Len(pieces), lost) /\ ReplaceRegions(SubSeq(pieces, 1, n), known, lost, kept, table)
    BY <1>3b
<1>5. Table(regions, cached) /\ Len(regions) \in Nat /\ \A k \in 1..Len(regions) : regions[k] \in RegionType
    BY <1>1, TableFacts DEF Mapped
<1>6. i \in 1..Len(regions)
    BY <1>3, <1>5, OverlapFinds
<1> HIDE DEF i
<1>7. r \in RegionType /\ \A p \in PagesOf(r) : page_table[p] = r.file_id
    BY <1>1, <1>5, <1>6 DEF Mapped
<1>8. /\ Table(kept, cached) /\ Rows(kept) = Rows(regions) \ PagesOf(r)
      /\ \A k \in 1..Len(kept) : \E j \in 1..Len(regions) : kept[k] = regions[j]
    BY <1>5, <1>6, TableWithout
<1> HIDE DEF r, kept
<1>9. /\ pieces \in Seq(Arguments) /\ Len(pieces) <= 2
      /\ \A k \in 1..Len(pieces) : PagesOf(pieces[k]) \subseteq PagesOf(r) \ PagesOf(range)
      /\ \A k, l \in 1..Len(pieces) : k # l => PagesOf(pieces[k]) \cap PagesOf(pieces[l]) = {}
      /\ Rows(pieces) = PagesOf(r) \ PagesOf(range)
      /\ PagesOf(range) \subseteq PagesOf(r)
    BY <1>3, <1>7, PiecesOf
<1> HIDE DEF pieces, table
<1>10. Len(pieces) \in Nat /\ n \in Nat /\ n <= Len(pieces) /\ n \in Int
    BY <1>4, <1>9
<1>11. (failed' = failed /\ lost = {} /\ n = Len(pieces) /\ known = n) \/ (failed = 0 /\ failed' = ops + 1)
    BY <1>4, PersistedIs
<1>12. PICK new : /\ Installed(new, known, lost, kept, table) /\ Len(new) = n
                  /\ \A k \in 1..n : PagesOf(new[k]) = PagesOf(pieces[k])
    <2> DEFINE ranges == SubSeq(pieces, 1, n)
    <2>1. ranges \in Seq(Arguments) /\ Len(ranges) = n /\ \A k \in 1..n : ranges[k] = pieces[k]
        BY <1>9, <1>10
    <2> HIDE DEF ranges
    <2>2. ReplaceRegions(ranges, known, lost, kept, table) /\ Len(ranges) <= 2 /\ known \in 0..Len(ranges)
        BY <1>4, <1>9, <1>10, <2>1 DEF ranges
    <2>3. \E new : /\ Installed(new, known, lost, kept, table) /\ Len(new) = Len(ranges)
                   /\ \A k \in 1..Len(new) : PagesOf(new[k]) = PagesOf(ranges[k])
        BY <1>1, <2>1, <2>2, Replaces
    <2> QED BY <2>1, <2>3
<1>13. \A k \in 1..n : k \in 1..Len(pieces)
    BY <1>10
<1>14. Rows(new) \subseteq PagesOf(r) \ PagesOf(range) /\ (n = Len(pieces) => Rows(new) = PagesOf(r) \ PagesOf(range))
    <2>1. Rows(new) \subseteq PagesOf(r) \ PagesOf(range)
        BY <1>9, <1>12, <1>13 DEF Rows
    <2>2. n = Len(pieces) => Rows(pieces) \subseteq Rows(new)
        BY <1>12 DEF Rows
    <2> QED BY <1>9, <2>1, <2>2
<1>15. ASSUME NEW p \in Pages PROVE table[p] = IF p \in PagesOf(range) THEN 0 ELSE page_table[p]
    BY DEF table
<1>16. Keeps(kept, new, table)
    <2>1. table \in [Pages -> 0..MaxFiles]
        <3>1. \A p \in Pages : page_table[p] \in 0..MaxFiles /\ 0 \in 0..MaxFiles
            BY <1>1, MemRegionAssumption DEF Mapped
        <3> QED BY <3>1 DEF table
    <2>2. \A p \in Pages : table[p] # 0 => table[p] = page_table[p]
        BY <1>15
    <2>3. ASSUME NEW k \in 1..Len(kept), NEW p \in PagesOf(kept[k]) PROVE table[p] = kept[k].file_id
        <3>1. PICK j \in 1..Len(regions) : kept[k] = regions[j]
            BY <1>8
        <3>2. page_table[p] = kept[k].file_id
            BY <1>1, <2>3, <3>1 DEF Mapped
        <3>3. p \in Rows(kept) /\ p \in Pages
            BY <1>8, TableFacts DEF Rows
        <3>4. p \notin PagesOf(range)
            BY <1>8, <1>9, <3>3
        <3> QED BY <1>15, <3>2, <3>3, <3>4
    <2>4. \A k, l \in 1..Len(new) : k # l => PagesOf(new[k]) \cap PagesOf(new[l]) = {}
        BY <1>9, <1>12, <1>13
    <2>5. Rows(kept) \cap Rows(new) = {}
        BY <1>8, <1>14
    <2>6. ASSUME failed' = 0, NEW p \in Pages, table[p] # 0 PROVE p \in Rows(kept) \cup Rows(new)
        <3>1. failed = 0 /\ n = Len(pieces)
            BY <1>1, <1>11, <2>6 DEF Counters
        <3>2. page_table[p] # 0 /\ p \notin PagesOf(range)
            BY <1>15, <2>6
        <3>3. p \in Rows(regions)
            BY <1>1, <3>1, <3>2 DEF Mapped
        <3> QED BY <1>8, <1>14, <3>1, <3>2, <3>3
    <2> QED BY <1>8, <2>1, <2>2, <2>3, <2>4, <2>5, <2>6 DEF Keeps
<1>17. Replacing(new, known, lost, kept, table)
    <2>1. failed' = 0 => known = Len(new)
        BY <1>1, <1>11, <1>12 DEF Counters
    <2> QED BY <1>3, <1>11, <1>12, <1>16, <2>1 DEF Replacing
<1>18. Types' /\ Mapped' /\ Directory(t)' /\ Current(t)' /\ (Restorable(t) => Restorable(t)')
    BY <1>1, <1>2, <1>17, ReplacingKeeps
<1>19. Counters' /\ (Harmless' => Harmless) /\ (failed' = 0 => failed = 0 /\ lost = {})
    BY <1>1, <1>17, ReplacingCounts
<1>20. ASSUME Conditions, Harmless' PROVE Restorable(t)' /\ Working(t)'
    <2>1. Table(t, cached) /\ Restorable(t) /\ Working(t)
        BY <1>2, <1>19, <1>20 DEF Current
    <2>2. RP!Coalesced(fresh)
        BY <1>3, <2>1 DEF Working, Executing
    <2>3. RP!Coalesced(fresh') /\ \A p \in Pages : IsFresh(p)' <=> IsFresh(p) /\ p \notin PagesOf(range)
        BY <1>3, <1>20, <2>2, UnmapFreshIs
    <2>4. ASSUME NEW p \in Pages, page_table'[p] # 0, ~IsFresh(p)' PROVE page_table[p] # 0 /\ ~IsFresh(p)
        <3>1. CASE p \in Rows(new)
            <4>1. p \in PagesOf(r) /\ p \notin PagesOf(range)
                BY <1>14, <3>1
            <4>2. page_table[p] = r.file_id /\ r.file_id # 0
                BY <1>7, <4>1, RegionFacts
            <4> QED BY <2>3, <2>4, <4>1, <4>2
        <3>2. CASE p \notin Rows(new)
            <4>1. page_table'[p] = table[p]
                BY <1>12, <1>16, <3>2, PageMapped
            <4>2. p \notin PagesOf(range) /\ page_table[p] # 0
                BY <1>15, <2>4, <4>1
            <4> QED BY <2>3, <2>4, <4>2
        <3> QED BY <3>1, <3>2
    <2>5. \A p \in Pages : IsFresh(p)' => IsFresh(p) \/ p \in Rows(new)
        BY <2>3
    <2>6. Working(t)'
        BY <1>1, <1>17, <1>19, <2>1, <2>3, <2>4, <2>5, ReplacingWorks
    <2> QED BY <1>18, <2>1, <2>6
<1> QED BY <1>18, <1>19, <1>20, InvNext

LEMMA StoreKeeps == ASSUME Inv, NEW q \in Pages, Store(q) PROVE Inv'
<1> DEFINE file == page_table[q]
<1>1. Types /\ Counters /\ Mapped
    BY DEF Inv
<1>2. PICK t : Directory(t) /\ Current(t) /\ (Conditions /\ Harmless => Restorable(t) /\ Working(t))
    BY DEF Inv
<1>3. /\ UNCHANGED <<durable, ddir, committed, dir, page_table, regions, rs, fresh, modified, pc, failed, boundary, ops,
                     calls, crashes>>
      /\ pc = "exec" /\ file # 0
      /\ logged' = Recorded(q)
      /\ cached' = [cached EXCEPT ![file][q] = ops + 1]
    BY DEF Store, mvars, bvars
<1>4. file \in DOMAIN cached /\ q \in DOMAIN cached[file] /\ cached[file][q] \in Val /\ ops + 1 \in Val
    BY <1>1, <1>3, ZeroOk DEF Types, Files, Counters, Mapped
<1>5. View[q] = cached[file][q]
    BY <1>3 DEF View
<1> HIDE DEF file
<1>6. /\ DOMAIN cached' = DOMAIN cached
      /\ \A f \in DOMAIN cached : DOMAIN cached'[f] = DOMAIN cached[f]
      /\ \A f \in DOMAIN cached : \A p \in DOMAIN cached[f] :
             cached'[f][p] = IF f = file /\ p = q THEN ops + 1 ELSE cached[f][p]
    BY <1>3, <1>4
<1>7. /\ IsFresh(q) \/ q \in DOMAIN logged => logged' = logged
      /\ ~IsFresh(q) /\ q \notin DOMAIN logged =>
             /\ DOMAIN logged' = DOMAIN logged \cup {q} /\ logged'[q] = cached[file][q]
             /\ \A p \in DOMAIN logged : logged'[p] = logged[p]
    BY <1>3, <1>5 DEF Recorded, IsFresh
<1>8. ASSUME NEW s, Table(s, cached) PROVE Table(s, cached')
    <2>1. \A i \in 1..Len(s) : s[i].file_id \in DOMAIN cached' /\ DOMAIN cached'[s[i].file_id] = DOMAIN cached[s[i].file_id]
        BY <1>6, <1>8 DEF Table
    <2> QED BY <1>8, <2>1, TableKeeps
<1>9. Types'
    <2>1. Files(cached')
        BY <1>1, <1>4, <1>6 DEF Types, Files
    <2>2. DOMAIN logged' \subseteq Pages /\ \A p \in DOMAIN logged' : logged'[p] \in Val
        BY <1>1, <1>4, <1>7 DEF Types
    <2> QED BY <1>1, <1>3, <1>6, <2>1, <2>2, Primes DEF Types
<1>10. Counters' /\ (Harmless' <=> Harmless)
    BY <1>1, <1>3 DEF Counters, Harmless
<1>11. Mapped'
    <2>1. Table(regions, cached')
        BY <1>1, <1>8 DEF Mapped
    <2>2. ASSUME NEW p \in Pages, page_table[p] # 0
          PROVE  page_table[p] \in DOMAIN cached' /\ p \in DOMAIN cached'[page_table[p]]
        BY <1>1, <1>6, <2>2 DEF Mapped
    <2> QED BY <1>1, <1>3, <2>1, <2>2, Primes DEF Mapped, PagesOf
<1>12. Table(t, cached) /\ Table(t, cached') /\ ~committed /\ dir.new = {} /\ ddir = dir /\ Leads(dir, t, committed, cached)
    BY <1>2, <1>3, <1>8 DEF Current, Directory, Executing
<1>13. Directory(t)'
    <2>1. dir = [table |-> {t}, new |-> {}]
        BY <1>12, LeadsParts
    <2>2. Leads(dir, t, committed, cached')
        BY <1>12, <2>1, OneTable
    <2> QED BY <1>2, <1>3, <1>12, <2>2, LeadsPrimes DEF Directory
<1>14. Current(t)'
    BY <1>2, <1>3, <1>12, Primes DEF Current
<1>15. ASSUME Conditions, Harmless' PROVE Restorable(t)' /\ Working(t)'
    <2>1. Restorable(t) /\ Working(t)
        BY <1>2, <1>10, <1>15
    <2>2. /\ RP!Coalesced(fresh)
          /\ \A p \in Pages : IsFresh(p) => \A i \in 1..Len(t) : t[i].file_id # page_table[p]
          /\ \A p \in Pages : page_table[p] # 0 /\ ~IsFresh(p) /\ p \notin DOMAIN logged =>
                 /\ p \in Rows(t) /\ cached[page_table[p]][p] = boundary[p]
                 /\ failed = 0 => durable[page_table[p]][p] = boundary[p]
        BY <1>3, <2>1 DEF Working, Executing
    <2>3. ~IsFresh(q) /\ q \notin DOMAIN logged => q \in Rows(t) /\ cached[file][q] = boundary[q]
        BY <1>3, <2>2 DEF file
    <2>4. IsFresh(q) => \A i \in 1..Len(t) : t[i].file_id # file
        BY <2>2 DEF file
    <2>5. DOMAIN logged' \subseteq Rows(t) /\ DOMAIN logged \subseteq DOMAIN logged' /\ (~IsFresh(q) => q \in DOMAIN logged')
        BY <1>7, <1>12, <2>1, <2>3 DEF Restorable
    <2>6. ASSUME NEW i \in 1..Len(t), NEW p \in PagesOf(t[i])
          PROVE  IF p \in DOMAIN logged' THEN logged'[p] = boundary[p]
                 ELSE cached'[t[i].file_id][p] = boundary[p] /\ durable[t[i].file_id][p] = boundary[p]
        <3>1. IF p \in DOMAIN logged THEN logged[p] = boundary[p]
              ELSE cached[t[i].file_id][p] = boundary[p] /\ durable[t[i].file_id][p] = boundary[p]
            BY <1>12, <2>1 DEF Restorable
        <3>2. CASE p \in DOMAIN logged'
            <4>1. CASE p \in DOMAIN logged
                BY <1>7, <3>1, <4>1
            <4>2. CASE p \notin DOMAIN logged
                BY <1>7, <2>3, <3>2, <4>2
            <4> QED BY <3>2, <4>1, <4>2
        <3>3. CASE p \notin DOMAIN logged'
            <4>1. p \notin DOMAIN logged /\ ~(t[i].file_id = file /\ p = q)
                BY <2>4, <2>5, <3>3
            <4>2. t[i].file_id \in DOMAIN cached /\ p \in DOMAIN cached[t[i].file_id]
                BY <1>12 DEF Table
            <4> QED BY <1>6, <3>1, <3>3, <4>1, <4>2
        <3> QED BY <3>2, <3>3
    <2>7. Restorable(t)'
        BY <1>3, <1>12, <2>1, <2>5, <2>6, Primes DEF Restorable, PagesOf
    <2>8. ASSUME NEW p \in Pages, page_table[p] # 0, ~IsFresh(p), p \notin DOMAIN logged'
          PROVE  /\ p \in Rows(t) /\ cached'[page_table[p]][p] = boundary[p]
                 /\ failed = 0 => durable[page_table[p]][p] = boundary[p]
        <3>1. p # q /\ p \notin DOMAIN logged
            BY <2>5, <2>8
        <3>2. page_table[p] \in DOMAIN cached /\ p \in DOMAIN cached[page_table[p]]
            BY <1>1, <2>8 DEF Mapped
        <3>3. cached'[page_table[p]][p] = cached[page_table[p]][p]
            BY <1>6, <3>1, <3>2
        <3> QED BY <2>2, <2>8, <3>1, <3>3
    <2>9. \A p \in Pages : IsFresh(p)' <=> IsFresh(p)
        BY <1>3 DEF IsFresh
    <2>10. pc' \in Executing \ {"commit_record"}
        BY <1>3 DEF Executing
    <2>11. \A p \in Pages : IsFresh(p)' => \A i \in 1..Len(t) : t[i].file_id # page_table'[p]
        BY <1>3, <2>2, <2>9
    <2>12. \A p \in Pages : page_table'[p] # 0 /\ ~IsFresh(p)' /\ p \notin DOMAIN logged' =>
               /\ p \in Rows(t) /\ cached'[page_table'[p]][p] = boundary'[p]
               /\ failed' = 0 => durable'[page_table'[p]][p] = boundary'[p]
        BY <1>3, <2>8, <2>9
    <2>13. RP!Coalesced(fresh')
        BY <1>3, <2>2
    <2>14. Working(t)'
        BY <2>10, <2>11, <2>12, <2>13, WorkingNext
    <2> QED BY <2>7, <2>14
<1> QED BY <1>9, <1>10, <1>11, <1>13, <1>14, <1>15, InvNext

-----------------------------------------------------------------------------
(* Commit.                                                                 *)

\* What a flush writes.
LEMMA FlushedIs ==
    ASSUME NEW pages
    PROVE  /\ DOMAIN Flushed(pages) = DOMAIN durable
           /\ \A f \in DOMAIN durable : DOMAIN Flushed(pages)[f] = DOMAIN durable[f]
           /\ \A f \in DOMAIN durable : \A p \in DOMAIN durable[f] :
                  Flushed(pages)[f][p] = IF p \in pages /\ page_table[p] = f THEN cached[f][p] ELSE durable[f][p]
BY DEF Flushed

LEMMA CommitFlushKeeps == ASSUME Inv, CommitFlush PROVE Inv'
<1>1. Types /\ Counters /\ Mapped
    BY DEF Inv
<1>2. PICK t : Directory(t) /\ Current(t) /\ (Conditions /\ Harmless => Restorable(t) /\ Working(t))
    BY DEF Inv
<1>3. /\ UNCHANGED <<ddir, logged, committed, cached, dir, page_table, regions, rs, fresh, modified, failed, boundary, ops,
                     calls, crashes>>
      /\ pc = "commit_flush" /\ pc' = "commit_record" /\ durable' = Flushed(ToFlush)
    BY DEF CommitFlush, mvars, bvars
<1>4. /\ DOMAIN durable' = DOMAIN durable /\ DOMAIN durable = DOMAIN cached
      /\ \A f \in DOMAIN durable : DOMAIN durable'[f] = DOMAIN durable[f]
      /\ \A f \in DOMAIN durable : \A p \in DOMAIN durable[f] :
             durable'[f][p] = IF p \in ToFlush /\ page_table[p] = f THEN cached[f][p] ELSE durable[f][p]
    BY <1>1, <1>3, FlushedIs DEF Types
<1>5. Types'
    <2>1. Files(durable')
        BY <1>1, <1>4 DEF Types, Files
    <2> QED BY <1>1, <1>3, <1>4, <2>1, Primes DEF Types, Executing
<1>6. Counters' /\ (Harmless' <=> Harmless)
    BY <1>1, <1>3 DEF Counters, Harmless, Executing
<1>7. Mapped'
    BY <1>1, <1>3, Primes DEF Mapped, PagesOf
<1>8. Directory(t)'
    BY <1>2, <1>3, LeadsPrimes DEF Directory, Recovering, Rolling
<1>9. Current(t)'
    BY <1>2, <1>3, Primes DEF Current, Executing, Cleaning, Rolling
<1>10. ASSUME Conditions, Harmless' PROVE Restorable(t)' /\ Working(t)'
    <2>1. Restorable(t) /\ Working(t) /\ Table(t, cached) /\ ~committed
        BY <1>2, <1>3, <1>6, <1>10 DEF Current, Executing
    <2>2. ASSUME NEW i \in 1..Len(t), NEW p \in PagesOf(t[i])
          PROVE  IF p \in DOMAIN logged THEN logged[p] = boundary[p]
                 ELSE cached[t[i].file_id][p] = boundary[p] /\ durable'[t[i].file_id][p] = boundary[p]
        <3>1. IF p \in DOMAIN logged THEN logged[p] = boundary[p]
              ELSE cached[t[i].file_id][p] = boundary[p] /\ durable[t[i].file_id][p] = boundary[p]
            BY <2>1 DEF Restorable
        <3>2. t[i].file_id \in DOMAIN durable /\ p \in DOMAIN durable[t[i].file_id]
            BY <1>1, <2>1 DEF Table, Types
        <3> QED BY <1>4, <3>1, <3>2
    <2>3. Restorable(t)'
        BY <1>3, <2>1, <2>2, Primes DEF Restorable, PagesOf
    <2>4. ASSUME failed = 0, NEW p \in Pages, page_table[p] # 0
          PROVE  durable'[page_table[p]][p] = cached[page_table[p]][p]
        <3>1. page_table[p] \in DOMAIN durable /\ p \in DOMAIN durable[page_table[p]]
            BY <1>1, <2>4 DEF Types, Mapped
        <3>2. durable'[page_table[p]][p] = IF p \in ToFlush THEN cached[page_table[p]][p] ELSE durable[page_table[p]][p]
            BY <1>4, <3>1
        <3>3. p \notin ToFlush => ~IsFresh(p) /\ p \notin DOMAIN logged
            BY DEF ToFlush, IsFresh
        <3>4. p \notin ToFlush => cached[page_table[p]][p] = boundary[p] /\ durable[page_table[p]][p] = boundary[p]
            BY <1>3, <2>1, <2>4, <3>3 DEF Working, Executing
        <3> QED BY <3>2, <3>4
    <2>5. Working(t)'
        BY <1>3, <2>4 DEF Working, Executing
    <2> QED BY <2>3, <2>5
<1> QED BY <1>5, <1>6, <1>7, <1>8, <1>9, <1>10, InvNext

LEMMA ViewIs ==
    ASSUME Types, Mapped
    PROVE  /\ View \in [Pages -> Val \cup {Unmapped}]
           /\ \A p \in Pages : View[p] = IF page_table[p] = 0 THEN Unmapped ELSE cached[page_table[p]][p]
           /\ \A p \in Pages : page_table[p] # 0 => cached[page_table[p]][p] \in Val
<1>1. \A p \in Pages : page_table[p] # 0 => cached[page_table[p]][p] \in Val
    BY DEF Types, Files, Mapped
<1>2. \A p \in Pages : View[p] = IF page_table[p] = 0 THEN Unmapped ELSE cached[page_table[p]][p]
    BY DEF View
<1>3. View = [p \in Pages |-> View[p]]
    BY DEF View
<1> QED BY <1>1, <1>2, <1>3

\* The commit record makes the regions of now the table to recover.
LEMMA CommitRecordKeeps == ASSUME Inv, CommitRecord PROVE Inv'
<1>1. Types /\ Counters /\ Mapped
    BY DEF Inv
<1>2. PICK t : Directory(t) /\ Current(t) /\ (Conditions /\ Harmless => Restorable(t) /\ Working(t))
    BY DEF Inv
<1>3. /\ UNCHANGED <<durable, ddir, logged, cached, dir, page_table, regions, rs, fresh, modified, failed, calls, crashes>>
      /\ pc = "commit_record" /\ pc' = IF modified THEN "rename" ELSE "cleanup"
      /\ committed' = TRUE /\ boundary' = View /\ ops' = ops + 1
    BY DEF CommitRecord, mvars
<1>4. PICK u : u = regions
    OBVIOUS
<1>5. /\ View \in [Pages -> Val \cup {Unmapped}]
      /\ \A p \in Pages : View[p] = IF page_table[p] = 0 THEN Unmapped ELSE cached[page_table[p]][p]
      /\ \A p \in Pages : page_table[p] # 0 => cached[page_table[p]][p] \in Val
    BY <1>1, ViewIs
<1>6. Types'
    BY <1>1, <1>3, <1>5, Primes DEF Types, Cleaning
<1>7. Counters' /\ (Harmless' => Harmless /\ failed = 0)
    <2>1. /\ ops \in 0..MaxOps /\ ops < MaxOps /\ MaxOps \in Nat /\ calls \in Nat /\ crashes \in 0..MaxCrashes
          /\ failed \in 0..MaxOps /\ failed <= ops + 1
        BY <1>1, <1>3, MemRegionAssumption DEF Counters, Executing
    <2>2. /\ ops' = ops + 1 /\ failed' = failed /\ calls' = calls /\ crashes' = crashes /\ pc' \notin Executing
        BY <1>3 DEF Executing
    <2>3. Harmless' => failed = 0
        BY <2>1, <2>2 DEF Harmless
    <2>4. Counters'
        BY <2>1, <2>2, <2>3 DEF Counters
    <2> QED BY <2>3, <2>4 DEF Harmless
<1>8. Mapped'
    BY <1>1, <1>3, Primes DEF Mapped, PagesOf
<1>9. Table(u, cached) /\ Rows(u) \subseteq Pages
    BY <1>1, <1>4, TableFacts DEF Mapped
<1>10. Leads(dir, u, TRUE, cached)
    <2>1. /\ dir.new = IF modified THEN {u} ELSE {}
          /\ ~committed /\ Leads(dir, t, committed, cached) /\ (~modified => t = u)
        BY <1>2, <1>3, <1>4 DEF Directory, Current, Executing
    <2>2. PICK o : dir = [table |-> {o}, new |-> dir.new] /\ Table(o, cached) /\ o = t
        BY <2>1, LeadsParts
    <2>3. PICK n : n = dir.new
        OBVIOUS
    <2>4. n = {u} \/ (n = {} /\ o = u)
        BY <2>1, <2>2, <2>3
    <2>5. /\ dir = [table |-> {o}, new |-> n] /\ Table(o, cached)
          /\ n = {} \/ \E x : n = {x} /\ Table(x, cached)
          /\ IF n # {} THEN n = {u} ELSE o = u
        BY <1>9, <2>2, <2>3, <2>4
    <2> QED BY <2>5 DEF Leads
<1>11. Directory(u)'
    <2>1. ddir = dir /\ (modified => dir.new = {regions}) /\ (~modified => dir.new = {})
        BY <1>2, <1>3 DEF Directory
    <2>2. Leads(dir', u, committed', cached') /\ Leads(ddir', u, committed', cached')
        BY <1>3, <1>10, <2>1
    <2>3. \/ modified /\ pc' = "rename"
          \/ ~modified /\ pc' = "cleanup"
        BY <1>3
    <2> QED BY <1>3, <2>1, <2>2, <2>3, LeadsPrimes DEF Directory, Recovering, Rolling
<1>12. Current(u)'
    BY <1>3, <1>4, <1>9, Primes DEF Current, Executing, Cleaning, Rolling
<1>13. ASSUME Conditions, Harmless' PROVE Restorable(u)' /\ Working(u)'
    <2>1. failed = 0 /\ Working(t)
        BY <1>2, <1>7, <1>13
    <2>2. \A p \in Pages : page_table[p] # 0 => durable[page_table[p]][p] = cached[page_table[p]][p]
        BY <1>3, <2>1 DEF Working
    <2>3. ASSUME NEW i \in 1..Len(u), NEW p \in PagesOf(u[i])
          PROVE  /\ page_table[p] = u[i].file_id /\ page_table[p] # 0 /\ p \in Pages
                 /\ cached[u[i].file_id][p] = View[p] /\ durable[u[i].file_id][p] = View[p]
        <3>1. page_table[p] = u[i].file_id
            BY <1>1, <1>4 DEF Mapped
        <3>2. u[i] \in RegionType
            BY <1>9, TableFacts
        <3>3. p \in Pages /\ u[i].file_id # 0
            BY <3>2, RegionFacts
        <3> QED BY <1>5, <2>2, <3>1, <3>3
    <2>4. \A p \in Pages : View[p] = Unmapped <=> p \notin Rows(u)
        <3> TAKE p \in Pages
        <3>1. View[p] = Unmapped <=> page_table[p] = 0
            BY <1>5, ZeroOk
        <3>2. page_table[p] # 0 => p \in Rows(u)
            BY <1>1, <1>4, <2>1 DEF Mapped
        <3>3. p \in Rows(u) => page_table[p] # 0
            BY <2>3 DEF Rows
        <3> QED BY <3>1, <3>2, <3>3
    <2>5. Restorable(u)'
        BY <1>3, <2>3, <2>4, Primes DEF Restorable, Holds, PagesOf
    <2>6. Working(u)'
        BY <1>3 DEF Working, Executing
    <2> QED BY <2>5, <2>6
<1> QED BY <1>6, <1>7, <1>8, <1>11, <1>12, <1>13, InvNext

LEMMA CleanupKeeps == ASSUME Inv, Cleanup PROVE Inv'
<1> DEFINE kept == FilesOf(dir) \cup (Range(page_table) \ {0})
<1>1. Types /\ Counters /\ Mapped
    BY DEF Inv
<1>2. PICK t : Directory(t) /\ Current(t) /\ (Conditions /\ Harmless => Restorable(t) /\ Working(t))
    BY DEF Inv
<1>3. /\ UNCHANGED <<ddir, dir, page_table, regions, rs, failed, boundary, ops, calls, crashes>>
      /\ pc = "cleanup" /\ pc' = "idle" /\ logged' = <<>> /\ committed' = FALSE /\ fresh' = <<>> /\ modified' = FALSE
      /\ cached' = Restrict(cached, kept) /\ durable' = Restrict(durable, kept)
    BY DEF Cleanup, bvars
<1>4. t = regions /\ committed /\ dir.new = {} /\ ddir = dir /\ Leads(dir, t, committed, cached) /\ Table(t, cached)
    BY <1>2, <1>3 DEF Current, Directory, Cleaning
<1>5. dir = [table |-> {t}, new |-> {}] /\ dir.table = {t}
    <2>1. PICK o : dir = [table |-> {o}, new |-> dir.new] /\ dir.table = {o} /\ (~committed \/ dir.new = {} => o = t)
        <3>1. Leads(dir, t, committed, cached)
            BY <1>4
        <3> QED BY <3>1, LeadsParts
    <2>2. dir.new = {}
        BY <1>4
    <2> QED BY <2>1, <2>2
<1>6. FilesOf(dir) = {t[i].file_id : i \in DOMAIN t} /\ DOMAIN t = 1..Len(t)
    BY <1>4, <1>5, TableFacts DEF FilesOf
<1>7. /\ \A i \in 1..Len(t) : t[i].file_id \in kept /\ t[i].file_id \in DOMAIN cached
      /\ \A p \in Pages : page_table[p] # 0 => page_table[p] \in kept
      /\ kept \subseteq DOMAIN cached
    <2>1. \A i \in 1..Len(t) : t[i].file_id \in DOMAIN cached
        BY <1>4 DEF Table
    <2>2. DOMAIN page_table = Pages /\ \A p \in Pages : page_table[p] # 0 => page_table[p] \in DOMAIN cached
        BY <1>1 DEF Mapped
    <2> QED BY <1>6, <2>1, <2>2 DEF Range
<1> HIDE DEF kept
<1>8. /\ DOMAIN cached' = kept /\ DOMAIN durable' = kept
      /\ \A f \in kept : cached'[f] = cached[f] /\ durable'[f] = durable[f]
    BY <1>3 DEF Restrict
<1>9. Types'
    <2>1. Files(cached') /\ Files(durable') /\ \A f \in kept : DOMAIN durable'[f] = DOMAIN cached'[f]
        BY <1>1, <1>7, <1>8 DEF Types, Files
    <2>2. DOMAIN logged' = {}
        BY <1>3
    <2> QED BY <1>1, <1>3, <1>8, <2>1, <2>2, Primes DEF Types
<1>10. Counters' /\ (Harmless' => Harmless /\ failed = 0)
    BY <1>1, <1>3 DEF Counters, Harmless, Executing
<1>11. Table(t, cached')
    BY <1>4, <1>7, <1>8, TableKeeps
<1>12. Mapped'
    <2>1. ASSUME NEW p \in Pages, page_table[p] # 0
          PROVE  page_table[p] \in DOMAIN cached' /\ p \in DOMAIN cached'[page_table[p]]
        BY <1>1, <1>7, <1>8, <2>1 DEF Mapped
    <2> QED BY <1>1, <1>3, <1>4, <1>11, <2>1, Primes DEF Mapped, PagesOf
<1>13. Directory(t)'
    <2>1. Leads(dir, t, committed', cached')
        BY <1>5, <1>11, OneTable
    <2> QED BY <1>3, <1>4, <2>1, LeadsPrimes DEF Directory
<1>14. Current(t)'
    BY <1>3, <1>4, <1>11, Primes DEF Current, Cleaning, Rolling
<1>15. ASSUME Conditions, Harmless' PROVE Restorable(t)' /\ Working(t)'
    <2>1. failed = 0 /\ Restorable(t)
        BY <1>2, <1>10, <1>15
    <2>2. ASSUME NEW i \in 1..Len(t), NEW p \in PagesOf(t[i])
          PROVE  cached'[t[i].file_id][p] = boundary[p] /\ durable'[t[i].file_id][p] = boundary[p]
        BY <1>4, <1>7, <1>8, <2>1 DEF Restorable, Holds
    <2>3. DOMAIN logged' = {}
        BY <1>3
    <2>4. Restorable(t)'
        BY <1>3, <2>1, <2>2, <2>3, Primes DEF Restorable, PagesOf
    <2>5. ASSUME NEW p \in Pages, page_table[p] # 0
          PROVE  p \in Rows(t) /\ cached'[page_table[p]][p] = boundary[p] /\ durable'[page_table[p]][p] = boundary[p]
        <3>1. p \in Rows(t)
            BY <1>1, <1>4, <2>1, <2>5 DEF Mapped
        <3>2. PICK i \in 1..Len(t) : p \in PagesOf(t[i])
            BY <3>1 DEF Rows
        <3>3. page_table[p] = t[i].file_id
            BY <1>1, <1>4, <3>2 DEF Mapped
        <3> QED BY <2>2, <3>1, <3>2, <3>3
    <2>6. RP!Coalesced(fresh') /\ \A p \in Pages : ~IsFresh(p)'
        BY <1>3, NothingFresh, FreshPrimes
    <2>7. Working(t)'
        BY <1>3, <2>5, <2>6, Primes, FreshPrimes DEF Working
    <2> QED BY <2>4, <2>7
<1> QED BY <1>9, <1>10, <1>12, <1>13, <1>14, <1>15, InvNext

-----------------------------------------------------------------------------
(* Crash and recovery.                                                     *)

\* Whatever a crash leaves of the directory leads to t.
LEMMA CrashLeads ==
    ASSUME Mapped, NEW t, Directory(t), Current(t), NEW d \in CrashDirs
    PROVE  Leads(d, t, committed, cached)
<1>1. Leads(dir, t, committed, cached) /\ Leads(ddir, t, committed, cached)
    BY DEF Directory
<1>2. CASE d \in {ddir, dir}
    BY <1>1, <1>2
<1>3. CASE d \notin {ddir, dir}
    <2>1. pc = "fsync_table" /\ d \in {[ddir EXCEPT !.new = {SubSeq(regions, 1, n)}] : n \in 0..Len(regions)}
        BY <1>3 DEF CrashDirs
    <2>2. PICK n \in 0..Len(regions) : d = [ddir EXCEPT !.new = {SubSeq(regions, 1, n)}]
        BY <2>1
    <2>3. PICK u : u = SubSeq(regions, 1, n)
        OBVIOUS
    <2>4. Table(u, cached)
        BY <2>2, <2>3, TablePrefix DEF Mapped
    <2>5. ~committed
        BY <2>1 DEF Current, Executing
    <2>6. PICK o : ddir = [table |-> {o}, new |-> ddir.new] /\ Table(o, cached) /\ o = t
        BY <1>1, <2>5, LeadsParts
    <2>7. d = [table |-> {o}, new |-> {u}]
        <3>1. PICK m : ddir = [table |-> {o}, new |-> m]
            BY <2>6
        <3> QED BY <2>2, <2>3, <3>1
    <2>8. PICK new : new = {u}
        OBVIOUS
    <2>9. /\ d = [table |-> {o}, new |-> new] /\ Table(o, cached)
          /\ new = {} \/ \E x : new = {x} /\ Table(x, cached)
          /\ IF committed /\ new # {} THEN new = {t} ELSE o = t
        BY <2>4, <2>5, <2>6, <2>7, <2>8
    <2> QED BY <2>9 DEF Leads
<1> QED BY <1>2, <1>3

\* The files that the tables name are there.
LEMMA LeadsFiles ==
    ASSUME NEW d, NEW t, NEW c, NEW f, Leads(d, t, c, f)
    PROVE  FilesOf(d) \subseteq DOMAIN f
<1> SUFFICES ASSUME NEW id \in FilesOf(d) PROVE id \in DOMAIN f
    OBVIOUS
<1>1. PICK o, n : /\ d = [table |-> {o}, new |-> n] /\ Table(o, f)
                  /\ n = {} \/ \E u : n = {u} /\ Table(u, f)
                  /\ IF c /\ n # {} THEN n = {t} ELSE o = t
    BY DEF Leads
<1>2. d.table = {o} /\ d.new = n
    BY <1>1
<1>3. PICK s \in d.table \cup d.new : id \in {s[i].file_id : i \in DOMAIN s}
    BY DEF FilesOf
<1>4. Table(s, f)
    BY <1>1, <1>2, <1>3
<1>5. DOMAIN s = 1..Len(s)
    BY <1>4, TableFacts
<1> QED BY <1>3, <1>4, <1>5 DEF Table

\* Recovery needs the files that the tables name, and no others.
LEMMA LeadsKeeps ==
    ASSUME NEW d, NEW t, NEW c, NEW f, NEW g, Leads(d, t, c, f),
           \A id \in FilesOf(d) : id \in DOMAIN g /\ DOMAIN g[id] = DOMAIN f[id]
    PROVE  Leads(d, t, c, g) /\ Table(t, g) /\ FilesOf(d) \subseteq DOMAIN f
           /\ \A i \in 1..Len(t) : t[i].file_id \in FilesOf(d)
<1>1. PICK o, n : /\ d = [table |-> {o}, new |-> n] /\ Table(o, f)
                  /\ n = {} \/ \E u : n = {u} /\ Table(u, f)
                  /\ IF c /\ n # {} THEN n = {t} ELSE o = t
    BY DEF Leads
<1>2. d.table = {o} /\ d.new = n
    BY <1>1
<1>3. ASSUME NEW s \in {o} \cup n
      PROVE  Table(s, f) /\ Table(s, g) /\ \A i \in 1..Len(s) : s[i].file_id \in FilesOf(d)
    <2>1. Table(s, f)
        BY <1>1
    <2>2. DOMAIN s = 1..Len(s)
        BY <2>1, TableFacts
    <2>3. \A i \in 1..Len(s) : s[i].file_id \in FilesOf(d)
        BY <1>2, <2>2 DEF FilesOf
    <2>4. \A i \in 1..Len(s) : s[i].file_id \in DOMAIN g /\ DOMAIN g[s[i].file_id] = DOMAIN f[s[i].file_id]
        BY <2>3
    <2> QED BY <2>1, <2>3, <2>4, TableKeeps
<1>4. t \in {o} \cup n
    BY <1>1
<1>5. Leads(d, t, c, g)
    <2>1. /\ d = [table |-> {o}, new |-> n] /\ Table(o, g)
          /\ n = {} \/ \E u : n = {u} /\ Table(u, g)
          /\ IF c /\ n # {} THEN n = {t} ELSE o = t
        BY <1>1, <1>3
    <2> QED BY <2>1 DEF Leads
<1>6. FilesOf(d) \subseteq DOMAIN f
    BY LeadsFiles
<1> QED BY <1>3, <1>4, <1>5, <1>6

LEMMA CrashKeeps == ASSUME Inv, Crash PROVE Inv'
<1>1. Types /\ Counters /\ Mapped
    BY DEF Inv
<1>2. PICK t : Directory(t) /\ Current(t) /\ (Conditions /\ Harmless => Restorable(t) /\ Working(t))
    BY DEF Inv
<1>3. /\ UNCHANGED <<logged, committed, boundary, ops>>
      /\ crashes < MaxCrashes /\ crashes' = crashes + 1 /\ calls' = 0
      /\ failed' = IF Harmless THEN 0 ELSE failed
      /\ dir' \in CrashDirs /\ ddir' = dir' /\ cached' = durable'
      /\ page_table' = [p \in Pages |-> 0] /\ regions' = <<>> /\ rs' = {} /\ fresh' = <<>> /\ modified' = FALSE
      /\ pc' = "recover"
    BY DEF Crash
<1>4. PICK d : d = dir'
    OBVIOUS
<1>5. DOMAIN durable' = FilesOf(d) /\ \A id \in FilesOf(d) : durable'[id] \in Survives(id)
    BY <1>4 DEF Crash
<1>6. Leads(d, t, committed, cached)
    BY <1>1, <1>2, <1>3, <1>4, CrashLeads
<1>7. ASSUME NEW id \in FilesOf(d)
      PROVE  /\ id \in DOMAIN durable' /\ DOMAIN durable'[id] = DOMAIN cached[id]
             /\ \A p \in DOMAIN cached[id] : durable'[id][p] \in Val /\ durable'[id][p] \in {cached[id][p], durable[id][p]}
    <2>1. PICK c : c = durable'[id]
        OBVIOUS
    <2>2. PICK back : c = [p \in DOMAIN cached[id] |-> IF p \in back THEN cached[id][p] ELSE durable[id][p]]
        BY <1>5, <2>1 DEF Survives
    <2>3. DOMAIN c = DOMAIN cached[id] /\ \A p \in DOMAIN cached[id] : c[p] \in {cached[id][p], durable[id][p]}
        BY <2>2
    <2>4. id \in DOMAIN cached
        BY <1>6, LeadsFiles
    <2>5. \A p \in DOMAIN cached[id] : cached[id][p] \in Val /\ durable[id][p] \in Val
        BY <1>1, <2>4 DEF Types, Files
    <2> QED BY <1>5, <2>1, <2>3, <2>5
<1>8. /\ Leads(d, t, committed, durable') /\ Table(t, durable') /\ FilesOf(d) \subseteq DOMAIN cached
      /\ \A i \in 1..Len(t) : t[i].file_id \in FilesOf(d)
    <2>1. PICK g : g = durable'
        OBVIOUS
    <2>2. \A id \in FilesOf(d) : id \in DOMAIN g /\ DOMAIN g[id] = DOMAIN cached[id]
        BY <1>7, <2>1
    <2>3. /\ Leads(d, t, committed, g) /\ Table(t, g) /\ FilesOf(d) \subseteq DOMAIN cached
          /\ \A i \in 1..Len(t) : t[i].file_id \in FilesOf(d)
        BY <1>6, <2>2, LeadsKeeps
    <2> QED BY <2>1, <2>3
<1>9. Types'
    <2>1. Files(durable')
        BY <1>1, <1>5, <1>7, <1>8 DEF Types, Files
    <2> QED BY <1>1, <1>3, <2>1, Primes DEF Types, Recovering
<1>10. Counters' /\ (Harmless' => Harmless)
    BY <1>1, <1>3, MemRegionAssumption DEF Counters, Harmless, Executing
<1>11. Mapped'
    <2>1. regions' = <<>> /\ Len(regions') = 0 /\ Table(regions', cached')
        BY <1>3 DEF Table
    <2>2. page_table' \in [Pages -> 0..MaxFiles] /\ \A p \in Pages : page_table'[p] = 0
        BY <1>3, MemRegionAssumption
    <2> QED BY <2>1, <2>2, Primes DEF Mapped
<1>12. Directory(t)'
    <2>1. Leads(dir', t, committed', cached') /\ ddir' = dir'
        BY <1>3, <1>4, <1>8
    <2> QED BY <1>3, <2>1, LeadsPrimes DEF Directory, Recovering, Rolling
<1>13. Current(t)'
    BY <1>3, <1>8, Primes DEF Current, Executing, Cleaning, Rolling
<1>14. ASSUME Conditions, Harmless' PROVE Restorable(t)' /\ Working(t)'
    <2>1. Restorable(t) /\ Table(t, cached)
        BY <1>2, <1>10, <1>14 DEF Current
    <2>2. ASSUME NEW i \in 1..Len(t), NEW p \in PagesOf(t[i])
          PROVE  durable'[t[i].file_id][p] \in {cached[t[i].file_id][p], durable[t[i].file_id][p]}
        BY <1>7, <1>8, <2>1 DEF Table
    <2>3. committed => \A i \in 1..Len(t) : \A p \in PagesOf(t[i]) : durable'[t[i].file_id][p] = boundary[p]
        BY <2>1, <2>2 DEF Restorable, Holds
    <2>4. ~committed => \A i \in 1..Len(t) : \A p \in PagesOf(t[i]) :
              IF p \in DOMAIN logged THEN logged[p] = boundary[p] ELSE durable'[t[i].file_id][p] = boundary[p]
        BY <2>1, <2>2 DEF Restorable
    <2>5. Restorable(t)'
        BY <1>3, <2>1, <2>3, <2>4, Primes DEF Restorable, Holds, PagesOf
    <2>6. Working(t)'
        BY <1>3 DEF Working, Executing
    <2> QED BY <2>5, <2>6
<1> QED BY <1>9, <1>10, <1>11, <1>12, <1>13, <1>14, InvNext

LEMMA RecoverMapKeeps == ASSUME Inv, RecoverMap PROVE Inv'
<1>1. Types /\ Counters /\ Mapped
    BY DEF Inv
<1>2. PICK t : Directory(t) /\ Current(t) /\ (Conditions /\ Harmless => Restorable(t) /\ Working(t))
    BY DEF Inv
<1>3. /\ UNCHANGED <<durable, ddir, logged, committed, cached, dir, fresh, modified, failed, boundary, ops, calls, crashes>>
      /\ pc = "recover_map" /\ pc' = IF committed THEN "recover_clear" ELSE "rollback"
    BY DEF RecoverMap, pvars, bvars
<1>4. Table(t, cached) /\ dir.new = {} /\ Leads(dir, t, committed, cached) /\ ddir = dir /\ ~modified /\ fresh = <<>>
    BY <1>2, <1>3 DEF Current, Directory, Recovering
<1>5. dir.table = {t} /\ dir = [table |-> {t}, new |-> {}]
    <2>1. PICK o : dir = [table |-> {o}, new |-> dir.new] /\ dir.table = {o} /\ o = t
        BY <1>4, LeadsParts
    <2> QED BY <1>4, <2>1
<1>6. DOMAIN t = 1..Len(t) /\ Rows(t) \subseteq Pages
    BY <1>4, TableFacts
<1>7. regions' = t /\ page_table' = PageTable(t) /\ rs' = Rows(t)
    BY <1>5, <1>6 DEF RecoverMap, Rows
<1>8. /\ PageTable(t) \in [Pages -> 0..MaxFiles]
      /\ \A i \in 1..Len(t) : \A p \in PagesOf(t[i]) : PageTable(t)[p] = t[i].file_id
      /\ \A p \in Pages : p \notin Rows(t) => PageTable(t)[p] = 0
    BY <1>4, PageTableIs
<1>9. Types'
    BY <1>1, <1>3, <1>6, <1>7, Primes DEF Types, Recovering, Rolling
<1>10. Counters' /\ (Harmless' <=> Harmless)
    BY <1>1, <1>3 DEF Counters, Harmless, Executing
<1>11. Mapped'
    <2>1. ASSUME NEW p \in Pages, PageTable(t)[p] # 0
          PROVE  p \in Rows(t) /\ PageTable(t)[p] \in DOMAIN cached /\ p \in DOMAIN cached[PageTable(t)[p]]
        <3>1. p \in Rows(t)
            BY <1>8, <2>1
        <3>2. PICK i \in 1..Len(t) : p \in PagesOf(t[i])
            BY <3>1 DEF Rows
        <3>3. PageTable(t)[p] = t[i].file_id
            BY <1>8, <3>2
        <3> QED BY <1>4, <3>1, <3>2, <3>3 DEF Table
    <2> QED BY <1>3, <1>4, <1>7, <1>8, <2>1, Primes DEF Mapped, PagesOf
<1>12. Directory(t)'
    BY <1>3, <1>4, <1>5, LeadsPrimes DEF Directory, Recovering, Rolling
<1>13. Current(t)'
    BY <1>3, <1>4, <1>7, Primes DEF Current, Executing, Cleaning, Rolling
<1>14. ASSUME Conditions, Harmless' PROVE Restorable(t)' /\ Working(t)'
    <2>1. Restorable(t)
        BY <1>2, <1>10, <1>14
    <2>2. Restorable(t)'
        BY <1>3, <2>1, Primes DEF Restorable, Holds, PagesOf
    <2>3. Working(t)'
        BY <1>3 DEF Working, Executing
    <2> QED BY <2>2, <2>3
<1> QED BY <1>9, <1>10, <1>11, <1>12, <1>13, <1>14, InvNext

LEMMA RollbackKeeps == ASSUME Inv, Rollback PROVE Inv'
<1>1. Types /\ Counters /\ Mapped
    BY DEF Inv
<1>2. PICK t : Directory(t) /\ Current(t) /\ (Conditions /\ Harmless => Restorable(t) /\ Working(t))
    BY DEF Inv
<1>3. /\ UNCHANGED <<durable, ddir, logged, committed, dir, page_table, regions, rs, fresh, modified, failed, boundary, ops,
                     calls, crashes>>
      /\ pc = "rollback" /\ pc' = "rollback_drain"
      /\ cached' = [id \in DOMAIN cached |-> [p \in DOMAIN cached[id] |->
            IF p \in DOMAIN logged /\ page_table[p] = id THEN logged[p] ELSE cached[id][p]]]
    BY DEF Rollback, pvars, mvars, bvars
<1>4. /\ DOMAIN cached' = DOMAIN cached
      /\ \A f \in DOMAIN cached : DOMAIN cached'[f] = DOMAIN cached[f]
      /\ \A f \in DOMAIN cached : \A p \in DOMAIN cached[f] :
             cached'[f][p] = IF p \in DOMAIN logged /\ page_table[p] = f THEN logged[p] ELSE cached[f][p]
    BY <1>3
<1>5. ASSUME NEW s, Table(s, cached) PROVE Table(s, cached')
    <2>1. \A i \in 1..Len(s) : s[i].file_id \in DOMAIN cached' /\ DOMAIN cached'[s[i].file_id] = DOMAIN cached[s[i].file_id]
        BY <1>4, <1>5 DEF Table
    <2> QED BY <1>5, <2>1, TableKeeps
<1>6. Types'
    <2>1. Files(cached')
        BY <1>1, <1>4 DEF Types, Files
    <2> QED BY <1>1, <1>3, <1>4, <2>1, Primes DEF Types, Recovering, Rolling
<1>7. Counters' /\ (Harmless' <=> Harmless)
    BY <1>1, <1>3 DEF Counters, Harmless, Executing
<1>8. Mapped'
    <2>1. Table(regions, cached')
        BY <1>1, <1>5 DEF Mapped
    <2>2. ASSUME NEW p \in Pages, page_table[p] # 0
          PROVE  page_table[p] \in DOMAIN cached' /\ p \in DOMAIN cached'[page_table[p]]
        BY <1>1, <1>4, <2>2 DEF Mapped
    <2> QED BY <1>1, <1>3, <2>1, <2>2, Primes DEF Mapped, PagesOf
<1>9. /\ Table(t, cached) /\ Table(t, cached') /\ t = regions /\ rs = Rows(t) /\ ~committed
      /\ dir.new = {} /\ ddir = dir /\ Leads(dir, t, committed, cached) /\ ~modified /\ fresh = <<>>
    BY <1>2, <1>3, <1>5 DEF Current, Directory, Recovering, Rolling
<1>10. Directory(t)'
    <2>1. dir = [table |-> {t}, new |-> {}]
        BY <1>9, LeadsParts
    <2>2. Leads(dir, t, committed, cached')
        BY <1>9, <2>1, OneTable
    <2> QED BY <1>3, <1>9, <2>2, LeadsPrimes DEF Directory, Recovering, Rolling
<1>11. Current(t)'
    BY <1>3, <1>9, Primes DEF Current, Executing, Cleaning, Rolling
<1>12. ASSUME Conditions, Harmless' PROVE Restorable(t)' /\ Working(t)'
    <2>1. Restorable(t)
        BY <1>2, <1>7, <1>12
    <2>2. ASSUME NEW i \in 1..Len(t), NEW p \in PagesOf(t[i])
          PROVE  /\ cached'[t[i].file_id][p] = boundary[p]
                 /\ IF p \in DOMAIN logged THEN logged[p] = boundary[p] ELSE durable[t[i].file_id][p] = boundary[p]
        <3>1. IF p \in DOMAIN logged THEN logged[p] = boundary[p]
              ELSE cached[t[i].file_id][p] = boundary[p] /\ durable[t[i].file_id][p] = boundary[p]
            BY <1>9, <2>1 DEF Restorable
        <3>2. t[i].file_id \in DOMAIN cached /\ p \in DOMAIN cached[t[i].file_id]
            BY <1>9 DEF Table
        <3>3. page_table[p] = t[i].file_id
            BY <1>1, <1>9 DEF Mapped
        <3> QED BY <1>4, <3>1, <3>2, <3>3
    <2>3. Restorable(t)'
        <3>1. \A i \in 1..Len(t) : \A p \in PagesOf(t[i]) :
                  IF p \in DOMAIN logged THEN logged[p] = boundary[p]
                  ELSE cached'[t[i].file_id][p] = boundary[p] /\ durable[t[i].file_id][p] = boundary[p]
            BY <2>2
        <3>2. Holds(t, cached)'
            BY <1>3, <2>2 DEF Holds, PagesOf
        <3>3. /\ \A p \in Pages : boundary[p] = Unmapped <=> p \notin Rows(t)
              /\ DOMAIN logged \subseteq Rows(t)
            BY <1>9, <2>1 DEF Restorable
        <3>4. UNCHANGED <<durable, logged, committed, boundary>> /\ pc' = "rollback_drain"
            BY <1>3
        <3> QED BY <1>9, <3>1, <3>2, <3>3, <3>4, Primes DEF Restorable, PagesOf
    <2>4. Working(t)'
        BY <1>3 DEF Working, Executing
    <2> QED BY <2>3, <2>4
<1> QED BY <1>6, <1>7, <1>8, <1>10, <1>11, <1>12, InvNext

LEMMA RollbackDrainKeeps == ASSUME Inv, RollbackDrain PROVE Inv'
<1>1. Types /\ Counters /\ Mapped
    BY DEF Inv
<1>2. PICK t : Directory(t) /\ Current(t) /\ (Conditions /\ Harmless => Restorable(t) /\ Working(t))
    BY DEF Inv
<1>3. /\ UNCHANGED <<ddir, logged, committed, cached, dir, page_table, regions, rs, fresh, modified, failed, boundary, ops,
                     calls, crashes>>
      /\ pc = "rollback_drain" /\ pc' = "recover_clear" /\ durable' = Flushed(DOMAIN logged)
    BY DEF RollbackDrain, mvars, bvars
<1>4. /\ DOMAIN durable' = DOMAIN durable /\ DOMAIN durable = DOMAIN cached
      /\ \A f \in DOMAIN durable : DOMAIN durable'[f] = DOMAIN durable[f]
      /\ \A f \in DOMAIN durable : \A p \in DOMAIN durable[f] :
             durable'[f][p] = IF p \in DOMAIN logged /\ page_table[p] = f THEN cached[f][p] ELSE durable[f][p]
    BY <1>1, <1>3, FlushedIs DEF Types
<1>5. Types'
    <2>1. Files(durable')
        BY <1>1, <1>4 DEF Types, Files
    <2> QED BY <1>1, <1>3, <1>4, <2>1, Primes DEF Types, Recovering, Rolling
<1>6. Counters' /\ (Harmless' <=> Harmless)
    BY <1>1, <1>3 DEF Counters, Harmless, Executing
<1>7. Mapped'
    BY <1>1, <1>3, Primes DEF Mapped, PagesOf
<1>8. Directory(t)'
    BY <1>2, <1>3, LeadsPrimes DEF Directory, Recovering, Rolling
<1>9. Current(t)'
    BY <1>2, <1>3, Primes DEF Current, Executing, Cleaning, Rolling
<1>10. ASSUME Conditions, Harmless' PROVE Restorable(t)' /\ Working(t)'
    <2>1. Restorable(t) /\ Table(t, cached) /\ ~committed /\ t = regions
        BY <1>2, <1>3, <1>6, <1>10 DEF Current, Rolling
    <2>2. ASSUME NEW i \in 1..Len(t), NEW p \in PagesOf(t[i])
          PROVE  /\ cached[t[i].file_id][p] = boundary[p] /\ durable'[t[i].file_id][p] = boundary[p]
                 /\ p \in DOMAIN logged => logged[p] = boundary[p]
        <3>1. IF p \in DOMAIN logged THEN logged[p] = boundary[p] ELSE durable[t[i].file_id][p] = boundary[p]
            BY <2>1 DEF Restorable
        <3>2. cached[t[i].file_id][p] = boundary[p]
            BY <1>3, <2>1 DEF Restorable, Holds
        <3>3. t[i].file_id \in DOMAIN durable /\ p \in DOMAIN durable[t[i].file_id]
            BY <1>1, <2>1 DEF Table, Types
        <3>4. page_table[p] = t[i].file_id
            BY <1>1, <2>1 DEF Mapped
        <3> QED BY <1>4, <3>1, <3>2, <3>3, <3>4
    <2>3. Restorable(t)'
        BY <1>3, <2>1, <2>2, Primes DEF Restorable, Holds, PagesOf
    <2>4. Working(t)'
        BY <1>3 DEF Working, Executing
    <2> QED BY <2>3, <2>4
<1> QED BY <1>5, <1>6, <1>7, <1>8, <1>9, <1>10, InvNext

LEMMA RecoverClearKeeps == ASSUME Inv, RecoverClear PROVE Inv'
<1>1. Types /\ Counters /\ Mapped
    BY DEF Inv
<1>2. PICK t : Directory(t) /\ Current(t) /\ (Conditions /\ Harmless => Restorable(t) /\ Working(t))
    BY DEF Inv
<1>3. /\ UNCHANGED <<durable, ddir, cached, dir, page_table, regions, rs, fresh, modified, failed, boundary, ops, calls, crashes>>
      /\ pc = "recover_clear" /\ pc' = "idle" /\ logged' = <<>> /\ committed' = FALSE
    BY DEF RecoverClear, mvars, bvars
<1>4. DOMAIN logged' = {}
    BY <1>3
<1>5. /\ t = regions /\ dir.new = {} /\ ddir = dir /\ Leads(dir, t, committed, cached) /\ Table(t, cached)
      /\ ~modified /\ fresh = <<>>
    BY <1>2, <1>3 DEF Current, Directory, Recovering, Rolling
<1>6. Types'
    BY <1>1, <1>3, <1>4, Primes DEF Types
<1>7. Counters' /\ (Harmless' => Harmless /\ failed = 0)
    BY <1>1, <1>3 DEF Counters, Harmless, Executing
<1>8. Mapped'
    BY <1>1, <1>3, Primes DEF Mapped, PagesOf
<1>9. Directory(t)'
    <2>1. PICK o : dir = [table |-> {o}, new |-> dir.new] /\ o = t
        BY <1>5, LeadsParts
    <2>2. dir = [table |-> {t}, new |-> {}]
        BY <1>5, <2>1
    <2>3. Leads(dir, t, committed', cached)
        BY <1>5, <2>2, OneTable
    <2> QED BY <1>3, <1>5, <2>3, LeadsPrimes DEF Directory
<1>10. Current(t)'
    BY <1>3, <1>5, Primes DEF Current, Cleaning, Rolling
<1>11. ASSUME Conditions, Harmless' PROVE Restorable(t)' /\ Working(t)'
    <2>1. failed = 0 /\ Restorable(t)
        BY <1>2, <1>7, <1>11
    <2>2. \A i \in 1..Len(t) : \A p \in PagesOf(t[i]) :
              cached[t[i].file_id][p] = boundary[p] /\ durable[t[i].file_id][p] = boundary[p]
        BY <1>3, <2>1 DEF Restorable, Holds
    <2>3. Restorable(t)'
        BY <1>3, <1>4, <2>1, <2>2, Primes DEF Restorable, PagesOf
    <2>4. ASSUME NEW p \in Pages, page_table[p] # 0
          PROVE  p \in Rows(t) /\ cached[page_table[p]][p] = boundary[p] /\ durable[page_table[p]][p] = boundary[p]
        <3>1. p \in Rows(t)
            BY <1>1, <1>5, <2>1, <2>4 DEF Mapped
        <3>2. PICK i \in 1..Len(t) : p \in PagesOf(t[i])
            BY <3>1 DEF Rows
        <3>3. page_table[p] = t[i].file_id
            BY <1>1, <1>5, <3>2 DEF Mapped
        <3> QED BY <2>2, <3>1, <3>2, <3>3
    <2>5. RP!Coalesced(fresh') /\ \A p \in Pages : ~IsFresh(p)'
        BY <1>3, <1>5, NothingFresh, FreshPrimes
    <2>6. Working(t)'
        BY <1>3, <2>4, <2>5, Primes, FreshPrimes DEF Working
    <2> QED BY <2>3, <2>6
<1> QED BY <1>6, <1>7, <1>8, <1>9, <1>10, <1>11, InvNext

LEMMA WaitKeeps == ASSUME Inv, UNCHANGED vars PROVE Inv'
<1>1. Types /\ Counters /\ Mapped
    BY DEF Inv
<1>2. PICK t : Directory(t) /\ Current(t) /\ (Conditions /\ Harmless => Restorable(t) /\ Working(t))
    BY DEF Inv
<1>3. Quiet /\ UNCHANGED <<fresh, dir, ddir, calls, crashes, pc>>
    BY DEF vars, Quiet, pvars, mvars, bvars
<1>4. Types' /\ Mapped'
    BY <1>1, <1>3, QuietKeeps DEF Types
<1>5. Counters' /\ (Harmless' <=> Harmless)
    BY <1>1, <1>3 DEF Quiet, Counters, Harmless
<1>6. Directory(t)'
    BY <1>2, <1>3, LeadsPrimes DEF Quiet, Directory
<1>7. Current(t)'
    BY <1>2, <1>3, Primes DEF Quiet, Current
<1>8. Restorable(t) => Restorable(t)'
    BY <1>3, Primes DEF Quiet, Restorable, Holds, PagesOf
<1>9. Working(t) => Working(t)'
    <2>1. \A p \in Pages : IsFresh(p)' <=> IsFresh(p)
        BY <1>3 DEF IsFresh
    <2> QED BY <1>3, <2>1, Primes, FreshPrimes DEF Quiet, Working
<1>10. Conditions /\ Harmless' => Restorable(t)' /\ Working(t)'
    BY <1>2, <1>5, <1>8, <1>9
<1> QED BY <1>4, <1>5, <1>6, <1>7, <1>10, InvNext

-----------------------------------------------------------------------------
(* The invariant holds initially and always.                               *)

LEMMA SameInterval == ASSUME NEW m \in Nat, NEW n \in Nat, 1..m = 1..n PROVE m = n
<1>1. m > 0 => m \in 1..n
    <2>1. m > 0 => m \in 1..m
        OBVIOUS
    <2> QED BY <2>1
<1>2. n > 0 => n \in 1..m
    <2>1. n > 0 => n \in 1..n
        OBVIOUS
    <2> QED BY <2>1
<1>3. m <= n /\ n <= m
    BY <1>1, <1>2
<1> QED BY <1>3

LEMMA InitKeeps == ASSUME Init PROVE Inv
<1>1. PICK ranges \in InitLayouts : InitWith(ranges)
    BY DEF Init
<1> DEFINE n == Len(ranges)
<1>2. /\ ranges \in Seq(Arguments) /\ n \in Nat /\ n <= MaxFiles /\ DOMAIN ranges = 1..n
      /\ \A i, j \in 1..n : i # j => PagesOf(ranges[i]) \cap PagesOf(ranges[j]) = {}
      /\ \A i \in 1..n : ranges[i] \in Arguments
    <2>1. /\ ranges \in Seq(Arguments) /\ Len(ranges) <= MaxFiles
          /\ \A i, j \in 1..Len(ranges) : i # j => PagesOf(ranges[i]) \cap PagesOf(ranges[j]) = {}
        BY LayoutsAssumption
    <2>2. Len(ranges) \in Nat /\ DOMAIN ranges = 1..Len(ranges)
        BY <2>1
    <2>3. \A i \in 1..Len(ranges) : ranges[i] \in Arguments
        BY <2>1
    <2> QED BY <2>1, <2>2, <2>3
<1> HIDE DEF n
<1>3. /\ cached = [i \in 1..n |-> [p \in PagesOf(ranges[i]) |-> Initial]] /\ durable = cached
      /\ regions = [i \in 1..n |-> Region(ranges[i], i)]
    BY <1>1, <1>2 DEF InitWith
<1>4. /\ dir = [table |-> {regions}, new |-> {}] /\ ddir = dir
      /\ page_table = [p \in Pages |-> RowOf(regions, p)]
      /\ rs = {p \in Pages : page_table[p] # 0}
      /\ logged = <<>> /\ committed = FALSE /\ fresh = <<>> /\ modified = FALSE /\ pc = "idle"
      /\ failed = 0 /\ boundary = View /\ ops = 0 /\ calls = 0 /\ crashes = 0
    BY <1>1 DEF InitWith, RowOf
<1>5. /\ DOMAIN cached = 1..n
      /\ \A i \in 1..n : DOMAIN cached[i] = PagesOf(ranges[i]) /\ \A p \in PagesOf(ranges[i]) : cached[i][p] = Initial
    BY <1>3
<1>6. \A i \in 1..n : /\ regions[i] \in RegionType /\ regions[i].file_id = i
                      /\ PagesOf(regions[i]) = PagesOf(ranges[i])
    <2> TAKE i \in 1..n
    <2>1. regions[i] = [start |-> ranges[i].start, size |-> ranges[i].size, file_id |-> i]
        BY <1>3 DEF Region
    <2>2. /\ ranges[i].start \in Pages /\ ranges[i].size \in 1..NumPages /\ ranges[i].start + ranges[i].size <= NumPages
          /\ i \in 1..MaxFiles
        BY <1>2, MemRegionAssumption DEF Arguments, End
    <2>3. regions[i] \in [start : Pages, size : 1..NumPages, file_id : 1..MaxFiles] /\ End(regions[i]) <= NumPages
        BY <2>1, <2>2 DEF End
    <2> QED BY <2>1, <2>3 DEF RegionType, PagesOf
<1>7. regions \in Seq(RegionType) /\ Len(regions) = n
    <2>1. regions = [i \in 1..n |-> regions[i]]
        BY <1>3
    <2>2. regions \in [1..n -> RegionType]
        BY <1>6, <2>1
    <2>3. regions \in Seq(RegionType)
        BY <1>2, <2>2, SeqDef
    <2>4. Len(regions) \in Nat /\ DOMAIN regions = 1..Len(regions) /\ DOMAIN regions = 1..n
        BY <2>2, <2>3
    <2>5. n \in Nat
        BY <1>2
    <2>6. PICK m \in Nat : m = Len(regions)
        BY <2>4
    <2>7. 1..m = 1..n
        BY <2>4, <2>6
    <2>8. m = n
        BY <2>5, <2>7, SameInterval
    <2> QED BY <2>3, <2>6, <2>8
<1>8. Table(regions, cached)
    BY <1>2, <1>5, <1>6, <1>7 DEF Table
<1>9. ASSUME NEW p \in Pages
      PROVE  /\ page_table[p] = 0 => p \notin Rows(regions)
             /\ page_table[p] # 0 => page_table[p] \in 1..n /\ p \in PagesOf(regions[page_table[p]])
    <2>1. \A i \in 1..n : does_include_addr(regions[i], p) <=> p \in PagesOf(regions[i])
        <3> TAKE i \in 1..n
        <3>1. regions[i] \in RegionType /\ p \in Int
            BY <1>6, PagesType
        <3>2. p \in PagesOf(regions[i]) <=> regions[i].start <= p /\ p < End(regions[i])
            BY <3>1, RegionFacts
        <3> QED BY <3>2 DEF does_include_addr
    <2>2. page_table[p] = RowOf(regions, p)
        BY <1>4
    <2>3. \/ RowOf(regions, p) = 0 /\ \A i \in 1..n : ~does_include_addr(regions[i], p)
          \/ RowOf(regions, p) \in 1..n /\ does_include_addr(regions[RowOf(regions, p)], p)
        BY <1>2, <1>7, RowOfFinds
    <2>4. page_table[p] = 0 => p \notin Rows(regions)
        BY <1>2, <1>7, <2>1, <2>2, <2>3 DEF Rows
    <2> QED BY <2>1, <2>2, <2>3, <2>4
<1>10. ASSUME NEW i \in 1..n, NEW p \in PagesOf(regions[i]) PROVE p \in Pages /\ page_table[p] = i /\ p \in Rows(regions)
    <2>1. p \in Pages /\ p \in Rows(regions)
        BY <1>6, <1>7, RegionFacts DEF Rows
    <2>2. page_table[p] \in 1..n /\ p \in PagesOf(regions[page_table[p]])
        BY <1>9, <2>1
    <2> QED BY <1>7, <1>8, <2>1, <2>2 DEF Table
<1>11. Types
    <2>1. Files(cached)
        <3>1. 1..n \subseteq 1..MaxFiles
            BY <1>2, MemRegionAssumption
        <3>2. \A i \in 1..n : PagesOf(ranges[i]) \subseteq Pages
            BY <1>2, ExtentType
        <3> QED BY <1>5, <3>1, <3>2, ZeroOk DEF Files
    <2>2. View \in [Pages -> Val \cup {Unmapped}]
        <3>1. ASSUME NEW p \in Pages PROVE View[p] \in Val \cup {Unmapped}
            <4>1. View[p] = IF page_table[p] = 0 THEN Unmapped ELSE cached[page_table[p]][p]
                BY DEF View
            <4>2. page_table[p] # 0 => cached[page_table[p]][p] = Initial
                BY <1>5, <1>6, <1>9
            <4> QED BY <4>1, <4>2, ZeroOk
        <3>2. View = [p \in Pages |-> View[p]]
            BY DEF View
        <3> QED BY <3>1, <3>2
    <2>3. DOMAIN logged = {} /\ durable = cached /\ rs \subseteq Pages
        BY <1>3, <1>4
    <2> QED BY <1>4, <2>1, <2>2, <2>3 DEF Types
<1>12. Counters
    BY <1>4, MemRegionAssumption DEF Counters, Executing
<1>13. Mapped
    <2>1. ASSUME NEW p \in Pages
          PROVE  /\ page_table[p] \in 0..MaxFiles
                 /\ page_table[p] # 0 => page_table[p] \in DOMAIN cached /\ p \in DOMAIN cached[page_table[p]]
                 /\ page_table[p] # 0 => p \in Rows(regions)
        BY <1>2, <1>5, <1>6, <1>9, <1>10, MemRegionAssumption
    <2>2. page_table \in [Pages -> 0..MaxFiles]
        BY <1>4, <2>1
    <2>3. \A i \in 1..Len(regions) : \A p \in PagesOf(regions[i]) : page_table[p] = regions[i].file_id
        BY <1>6, <1>7, <1>10
    <2> QED BY <1>8, <2>1, <2>2, <2>3 DEF Mapped
<1>14. Leads(dir, regions, committed, cached) /\ dir.new = {}
    BY <1>4, <1>8, OneTable
<1>15. Directory(regions)
    BY <1>4, <1>14 DEF Directory
<1>16. Current(regions)
    BY <1>4, <1>8 DEF Current, Cleaning, Rolling
<1>17. \A p \in Pages : View[p] = IF page_table[p] = 0 THEN Unmapped ELSE cached[page_table[p]][p]
    BY DEF View
<1>18. Restorable(regions)
    <2>1. ASSUME NEW i \in 1..Len(regions), NEW p \in PagesOf(regions[i])
          PROVE  cached[regions[i].file_id][p] = boundary[p] /\ durable[regions[i].file_id][p] = boundary[p]
        <3>1. i \in 1..n /\ p \in Pages /\ page_table[p] = i /\ i # 0 /\ regions[i].file_id = i
            BY <1>6, <1>7, <1>10
        <3> QED BY <1>3, <1>4, <1>17, <3>1
    <2>2. ASSUME NEW p \in Pages PROVE boundary[p] = Unmapped <=> p \notin Rows(regions)
        <3>1. page_table[p] # 0 => cached[page_table[p]][p] = Initial /\ p \in Rows(regions)
            BY <1>5, <1>6, <1>9, <1>10
        <3> QED BY <1>4, <1>9, <1>17, <3>1, ZeroOk
    <2>3. DOMAIN logged = {}
        BY <1>4
    <2> QED BY <1>4, <2>1, <2>2, <2>3 DEF Restorable
<1>19. Working(regions)
    <2>1. RP!Coalesced(fresh) /\ \A p \in Pages : ~IsFresh(p)
        BY <1>4, NothingFresh DEF IsFresh
    <2>2. ASSUME NEW p \in Pages, page_table[p] # 0
          PROVE  /\ p \in Rows(regions) /\ cached[page_table[p]][p] = boundary[p]
                 /\ durable[page_table[p]][p] = boundary[p]
        <3>1. p \in Rows(regions)
            BY <1>9, <1>10, <2>2
        <3> QED BY <1>3, <1>4, <1>17, <2>2, <3>1
    <2> QED BY <1>4, <2>1, <2>2 DEF Working
<1> QED BY <1>11, <1>12, <1>13, <1>15, <1>16, <1>18, <1>19 DEF Inv

LEMMA NextKeeps == ASSUME Inv, [Next]_vars PROVE Inv'
<1>1. CASE UNCHANGED vars
    BY <1>1, WaitKeeps
<1>2. CASE Begin \/ Wait \/ FinishOp
    BY <1>2, BeginKeeps, WaitKeeps, FinishOpKeeps DEF Wait
<1>3. ASSUME NEW p \in Pages, Store(p) PROVE Inv'
    BY <1>3, StoreKeeps
<1>4. ASSUME NEW range \in Arguments,
             Mmap(range) \/ MmapAbort(range) \/ Munmap(range) \/ MunmapFails(range)
                 \/ MunmapUnmanaged(range) \/ MunmapAbort(range)
      PROVE  Inv'
    BY <1>4, MmapKeeps, MmapAbortKeeps, MunmapKeeps, MunmapFailsKeeps, MunmapUnmanagedKeeps, MunmapAbortKeeps
<1>5. CASE WriteNewTable \/ CommitFlush \/ CommitFault \/ CommitRecord \/ CommitTable \/ Cleanup
    BY <1>5, WriteNewTableKeeps, CommitFlushKeeps, CommitFaultKeeps, CommitRecordKeeps, CommitTableKeeps, CleanupKeeps
<1>6. CASE FsyncDir("fsync_table", "commit_flush")
    BY <1>6, FsyncDirKeeps
<1>7. CASE FsyncDir("fsync_rename", "cleanup")
    BY <1>7, FsyncDirKeeps
<1>8. CASE FsyncDir("recover_fsync", "recover_map")
    BY <1>8, FsyncDirKeeps
<1>9. CASE Crash \/ RecoverTable \/ RecoverMap \/ Rollback \/ RollbackDrain \/ RecoverClear
    BY <1>9, CrashKeeps, RecoverTableKeeps, RecoverMapKeeps, RollbackKeeps, RollbackDrainKeeps, RecoverClearKeeps
<1> QED BY <1>1, <1>2, <1>3, <1>4, <1>5, <1>6, <1>7, <1>8, <1>9 DEF Next

LEMMA InvAlways == Spec => []Inv
<1>1. Init => Inv
    BY InitKeeps
<1>2. Inv /\ [Next]_vars => Inv'
    BY NextKeeps
<1> QED BY <1>1, <1>2, PTL DEF Spec

-----------------------------------------------------------------------------
(* Theorems.                                                               *)

\* Files, page table, directory, undo log and counters have their types, whatever fails.
THEOREM TypeCorrect == Spec => []TypeOK
<1>1. Inv => TypeOK
    <2> SUFFICES ASSUME Inv PROVE TypeOK
        OBVIOUS
    <2>1. Types /\ Counters /\ Mapped
        BY DEF Inv
    <2>2. PICK t : Leads(dir, t, committed, cached) /\ Leads(ddir, t, committed, cached)
        BY DEF Inv, Directory
    <2>3. ASSUME NEW d, Leads(d, t, committed, cached) PROVE Cardinality(d.table) = 1 /\ Cardinality(d.new) <= 1
        <3>1. (\E o : d.table = {o}) /\ (d.new = {} \/ \E u : d.new = {u})
            BY <2>3, LeadsParts
        <3>2. \A x : Cardinality({x}) = 1
            BY FS_Singleton
        <3>3. Cardinality({}) = 0
            BY FS_EmptySet
        <3>4. Cardinality(d.table) = 1
            BY <3>1, <3>2
        <3>5. Cardinality(d.new) = 0 \/ Cardinality(d.new) = 1
            BY <3>1, <3>2, <3>3
        <3> QED BY <3>4, <3>5
    <2>4. \A d \in {dir, ddir} : Cardinality(d.table) = 1 /\ Cardinality(d.new) <= 1
        BY <2>2, <2>3
    <2>5. {committed, modified} \subseteq BOOLEAN
        BY <2>1 DEF Types
    <2> QED BY <2>1, <2>4, <2>5 DEF TypeOK, Types, Files, Counters, Mapped
<1> QED BY <1>1, InvAlways, PTL

\* Unless a system call has failed, every mapped page is in exactly one region and mapped
\* from its file, whatever was mapped, unmapped, split and recovered.
THEOREM RegionsMirrorMappingsTheorem == Spec => []RegionsMirrorMappings
<1>1. Inv => RegionsMirrorMappings
    <2> SUFFICES ASSUME Inv, failed = 0, NEW p \in Pages
                 PROVE  LET owners == {i \in DOMAIN regions : does_include_addr(regions[i], p)}
                        IN  /\ Cardinality(owners) = IF page_table[p] = 0 THEN 0 ELSE 1
                            /\ \A i \in owners : regions[i].file_id = page_table[p]
        BY DEF RegionsMirrorMappings
    <2> DEFINE owners == {i \in DOMAIN regions : does_include_addr(regions[i], p)}
    <2>1. Mapped /\ Table(regions, cached)
        BY DEF Inv, Mapped
    <2>2. DOMAIN regions = 1..Len(regions) /\ \A i \in 1..Len(regions) : regions[i] \in RegionType
        BY <2>1, TableFacts
    <2>3. ASSUME NEW i \in 1..Len(regions)
          PROVE  /\ i \in owners <=> p \in PagesOf(regions[i])
                 /\ p \in PagesOf(regions[i]) => page_table[p] = regions[i].file_id /\ page_table[p] # 0
        <3>1. p \in Int /\ regions[i] \in RegionType
            BY <2>2, PagesType
        <3>2. (p \in PagesOf(regions[i]) <=> regions[i].start <= p /\ p < End(regions[i])) /\ regions[i].file_id # 0
            BY <3>1, RegionFacts
        <3>3. p \in PagesOf(regions[i]) => page_table[p] = regions[i].file_id
            BY <2>1 DEF Mapped
        <3> QED BY <2>2, <3>2, <3>3 DEF does_include_addr
    <2>4. owners \subseteq 1..Len(regions)
        BY <2>2
    <2> HIDE DEF owners
    <2>5. \A i \in owners : regions[i].file_id = page_table[p]
        BY <2>3, <2>4
    <2>6. CASE page_table[p] = 0
        <3>1. owners = {}
            BY <2>3, <2>4, <2>6
        <3>2. Cardinality(owners) = 0
            BY <3>1, FS_EmptySet
        <3> QED BY <2>5, <2>6, <3>2 DEF owners
    <2>7. CASE page_table[p] # 0
        <3>1. p \in Rows(regions)
            BY <2>1, <2>7 DEF Mapped
        <3>2. PICK i \in 1..Len(regions) : p \in PagesOf(regions[i])
            BY <3>1 DEF Rows
        <3>3. ASSUME NEW j \in owners PROVE j = i
            BY <2>1, <2>3, <2>4, <3>2 DEF Table
        <3>4. owners = {i}
            BY <2>3, <3>2, <3>3
        <3>5. Cardinality(owners) = 1
            BY <3>4, FS_Singleton
        <3> QED BY <2>5, <2>7, <3>5 DEF owners
    <2> QED BY <2>6, <2>7
<1> QED BY <1>1, InvAlways, PTL

\* Recovery uses the table t, whatever a crash leaves of the directory.
LEMMA TableRecovered ==
    ASSUME NEW d, NEW t, Leads(d, t, committed, cached)
    PROVE  TableOf(d) = {t}
<1>1. PICK o : d.table = {o} /\ (~committed \/ d.new = {} => o = t)
    <2>1. PICK o : /\ d = [table |-> {o}, new |-> d.new] /\ d.table = {o} /\ Table(o, cached)
                   /\ (~committed \/ d.new = {} => o = t)
        BY LeadsParts
    <2> QED BY <2>1
<1>2. d.new = {} \/ \E u : d.new = {u} /\ (committed => u = t)
    <2>1. d.new = {} \/ \E u : d.new = {u} /\ Table(u, cached) /\ (committed => u = t)
        BY LeadsParts
    <2> QED BY <2>1
<1>3. CASE ~committed
    BY <1>1, <1>3 DEF TableOf
<1>4. CASE committed /\ d.new = {}
    BY <1>1, <1>4 DEF TableOf, Renamed
<1>5. CASE committed /\ d.new # {}
    BY <1>2, <1>5 DEF TableOf, Renamed
<1> QED BY <1>3, <1>4, <1>5

\* For as long as the failing call's operation is not committed, a crash at any moment
\* leaves files, tables and an undo log from which recovery rebuilds exactly the pages and
\* contents of the last commit record.
THEOREM RecoveryRebuildsTheorem ==
    ASSUME ~ForgetFresh, UintRange > NumPages
    PROVE  Spec => []RecoveryRebuilds
<1>1. Inv => RecoveryRebuilds
    <2> SUFFICES ASSUME Inv, Harmless, NEW d \in CrashDirs, NEW p \in Pages PROVE Rebuilt(d, p) = {boundary[p]}
        BY DEF RecoveryRebuilds
    <2>1. Mapped
        BY DEF Inv
    <2>2. PICK t : Directory(t) /\ Current(t) /\ Restorable(t)
        BY DEF Inv, Conditions
    <2>3. TableOf(d) = {t} /\ Table(t, cached)
        BY <2>1, <2>2, CrashLeads, TableRecovered DEF Current
    <2> DEFINE U == UNION {{PageTable(s)[p]} : s \in TableOf(d)}
               ids == U \ {0}
    <2>4. Rebuilt(d, p) = IF ids = {} THEN {Unmapped}
                          ELSE IF ~committed /\ p \in DOMAIN logged THEN {logged[p]}
                          ELSE UNION {{durable[id][p], cached[id][p]} : id \in ids}
        BY DEF Rebuilt
    <2>5. ids = {PageTable(t)[p]} \ {0}
        <3>1. ASSUME NEW x \in U PROVE x = PageTable(t)[p]
            BY <2>3
        <3>2. PageTable(t)[p] \in U
            BY <2>3
        <3> HIDE DEF U
        <3> QED BY <3>1, <3>2
    <2> HIDE DEF U, ids
    <2>6. /\ \A i \in 1..Len(t) : \A q \in PagesOf(t[i]) : PageTable(t)[q] = t[i].file_id
          /\ \A q \in Pages : q \notin Rows(t) => PageTable(t)[q] = 0
        BY <2>3, PageTableIs
    <2>7. CASE p \notin Rows(t)
        <3>1. ids = {} /\ boundary[p] = Unmapped
            BY <2>2, <2>5, <2>6, <2>7 DEF Restorable
        <3> QED BY <2>4, <3>1
    <2>8. CASE p \in Rows(t)
        <3>1. PICK i \in 1..Len(t) : p \in PagesOf(t[i])
            BY <2>8 DEF Rows
        <3>2. t[i] \in RegionType
            BY <2>3, TableFacts
        <3>3. PageTable(t)[p] = t[i].file_id /\ t[i].file_id # 0
            BY <2>6, <3>1, <3>2, RegionFacts
        <3>4. ids = {t[i].file_id}
            BY <2>5, <3>3
        <3>5. CASE ~committed /\ p \in DOMAIN logged
            BY <2>2, <2>4, <3>1, <3>4, <3>5 DEF Restorable
        <3>6. CASE ~(~committed /\ p \in DOMAIN logged)
            <4>1. cached[t[i].file_id][p] = boundary[p] /\ durable[t[i].file_id][p] = boundary[p]
                BY <2>2, <3>1, <3>6 DEF Restorable, Holds
            <4>2. UNION {{durable[id][p], cached[id][p]} : id \in ids} = {boundary[p]}
                BY <3>4, <4>1
            <4> QED BY <2>4, <3>4, <3>6, <4>2
        <3> QED BY <3>5, <3>6
    <2> QED BY <2>7, <2>8
<1> QED BY <1>1, InvAlways, PTL

\* What recovery opens and asserts: a table whose files are there and whose regions do not
\* overlap, and no record of the undo log outside it.
THEOREM RecoveryAssertsHoldTheorem ==
    ASSUME ~ForgetFresh, UintRange > NumPages
    PROVE  Spec => []RecoveryAssertsHold
<1>1. Inv => RecoveryAssertsHold
    <2> SUFFICES ASSUME Inv, Harmless PROVE RecoveryAssertsHold
        BY DEF RecoveryAssertsHold
    <2>1. Types
        BY DEF Inv
    <2>2. PICK t : Directory(t) /\ Current(t) /\ Restorable(t)
        BY DEF Inv, Conditions
    <2>3. Table(t, cached)
        BY <2>2 DEF Current
    <2>4. DOMAIN t = 1..Len(t) /\ \A i \in 1..Len(t) : t[i] \in RegionType
        BY <2>3, TableFacts
    <2>5. pc = "recover_map" => t \in dir.table
        <3>1. pc = "recover_map" => dir.new = {}
            BY <2>2 DEF Directory
        <3>2. PICK o : dir.table = {o} /\ (~committed \/ dir.new = {} => o = t)
            BY <2>2, LeadsParts DEF Directory
        <3> QED BY <3>1, <3>2
    <2>6. \A i \in DOMAIN t : t[i].file_id \in DOMAIN durable
        BY <2>1, <2>3, <2>4 DEF Table, Types
    <2>7. \A i, j \in DOMAIN t : i # j => ~does_overlap_with(t[i], t[j])
        BY <2>3, <2>4, OverlapIs DEF Table
    <2>8. pc = "rollback" => Applicable
        BY <2>2 DEF Restorable, Current, Rolling, Applicable
    <2> QED BY <2>5, <2>6, <2>7, <2>8 DEF RecoveryAssertsHold
<1> QED BY <1>1, InvAlways, PTL

\* Between operations, and after every recovery, the application sees the memory of the
\* last commit record, and no page beside it.
THEOREM IdleSeesBoundaryTheorem ==
    ASSUME ~ForgetFresh, UintRange > NumPages
    PROVE  Spec => []IdleSeesBoundary
<1>1. Inv => IdleSeesBoundary
    <2> SUFFICES ASSUME Inv, Harmless, pc = "idle" PROVE View = boundary
        BY DEF IdleSeesBoundary
    <2>1. Types /\ Mapped
        BY DEF Inv
    <2>2. PICK t : Directory(t) /\ Current(t) /\ Restorable(t) /\ Working(t)
        BY DEF Inv, Conditions
    <2>3. t = regions /\ DOMAIN logged = {} /\ fresh = <<>> /\ Table(t, cached)
        BY <2>2 DEF Current, Directory
    <2>4. \A p \in Pages : ~IsFresh(p)
        BY <2>3, NothingFresh DEF IsFresh
    <2>5. /\ View \in [Pages -> Val \cup {Unmapped}]
          /\ \A p \in Pages : View[p] = IF page_table[p] = 0 THEN Unmapped ELSE cached[page_table[p]][p]
        BY <2>1, ViewIs
    <2>6. ASSUME NEW p \in Pages PROVE View[p] = boundary[p]
        <3>1. CASE page_table[p] = 0
            <4>1. p \notin Rows(t)
                <5> SUFFICES ASSUME NEW i \in 1..Len(t), p \in PagesOf(t[i]) PROVE FALSE
                    BY DEF Rows
                <5>1. t[i] \in RegionType
                    BY <2>3, TableFacts
                <5>2. t[i].file_id # 0
                    BY <5>1, RegionFacts
                <5> QED BY <2>1, <2>3, <3>1, <5>2 DEF Mapped
            <4> QED BY <2>2, <2>5, <3>1, <4>1 DEF Restorable
        <3>2. CASE page_table[p] # 0
            <4>1. cached[page_table[p]][p] = boundary[p]
                BY <2>2, <2>3, <2>4, <3>2 DEF Working
            <4> QED BY <2>5, <3>2, <4>1
        <3> QED BY <3>1, <3>2
    <2>7. boundary \in [Pages -> Val \cup {Unmapped}]
        BY <2>1 DEF Types
    <2> QED BY <2>5, <2>6, <2>7
<1> QED BY <1>1, InvAlways, PTL
=============================================================================
