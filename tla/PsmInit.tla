------------------------------ MODULE PsmInit ------------------------------
(***************************************************************************)
(* The life of the two processes: psm_init forks the background process,   *)
(* which takes the initial checkpoint, moves the application's memory to   *)
(* region files and executes operations; after both are gone, the          *)
(* checkpoint is restored, psm_init runs again from its recovery point and *)
(* forks anew.  The background then rebuilds the region files, sends the   *)
(* regions and the recovered tail through one pipe (btf) and waits for a   *)
(* byte from the other (ftb), while the foreground replaces its memory by  *)
(* the files' contents; then the foreground replays the operations behind  *)
(* the tail while the background executes the same ones.                   *)
(*                                                                         *)
(* Either process may die at any point, and both at once.  A pipe reports  *)
(* end of file when it is empty and nobody holds its write end; a write    *)
(* that nobody can read kills the writer (SIGPIPE).  Every system call may *)
(* fail: the background process aborts then, in the foreground psm_init    *)
(* returns an error and the pipes stay as they are.  What the application  *)
(* does with the error is its own affair; that it exits is a death.        *)
(*                                                                         *)
(* Abstractions.  The content of a region is the number of operations      *)
(* applied to it: each operation writes every region, one after the other. *)
(* A position in the operation log is the number of operations before it.  *)
(* The undo log is reduced to what module UndoLog shows of it: recovery    *)
(* restores the files to the last commit, whose tail it knows.             *)
(*                                                                         *)
(* A definition X_Slip is X with a plausible slip, kept to show that the   *)
(* properties notice it.                                                   *)
(***************************************************************************)
EXTENDS Integers, Sequences, FiniteSets

CONSTANTS
    NumRegions,    \* application memory regions
    PipeCap,       \* messages a pipe holds before a write blocks
    MaxOps,        \* bound of the model: operations the application commits
    MaxDeaths      \* bound of the model: deaths of one process or of both

Regions == 1..NumRegions

ASSUME PsmInitAssumption ==
    /\ NumRegions \in Nat /\ PipeCap \in Nat \ {0} /\ MaxOps \in Nat /\ MaxDeaths \in Nat

VARIABLES
    \* In persistent memory.
    image,      \* is there an initial checkpoint?
    table,      \* is there a region table?
    file,       \* file[r]: operations applied to the region file
    nlog,       \* operations committed to the operation log
    dtail,      \* the tail recovery would take
    \* The processes.
    fg, bg,     \* where each of them is
    fmem,       \* fmem[r]: operations applied to the foreground's region
    ftail,      \* the foreground's tail in recovery
    got,        \* the region the foreground is about to copy
    sent,       \* regions the background has sent
    todo,       \* regions the operation in execution has yet to write
    \* The pipes.
    btf, ftb,   \* what they hold
    ends,       \* ends[pipe]: the processes that hold its read and its write end
    deaths

pvars == <<image, table, file, nlog, dtail>>
fvars == <<fg, fmem, ftail, got>>
bvars == <<bg, sent, todo>>
pipes == <<btf, ftb, ends>>
vars  == <<pvars, fvars, bvars, pipes, deaths>>

Procs == {"fg", "bg"}
NoFile == -1
Sentinel == 0                          \* a region without address and size
RegionMsg(r) == [region |-> r, tail |-> 0]
TailMsg(t)   == [region |-> -1, tail |-> t]

\* Neither process runs yet.
Init ==
    /\ image = FALSE /\ table = FALSE /\ file = [r \in Regions |-> NoFile]
    /\ nlog = 0 /\ dtail = 0
    /\ fg = "init" /\ bg = "dead"
    /\ fmem = [r \in Regions |-> 0] /\ ftail = 0 /\ got = Sentinel
    /\ sent = 0 /\ todo = {}
    /\ btf = <<>> /\ ftb = <<>>
    /\ ends = [btf |-> [r |-> {}, w |-> {}], ftb |-> [r |-> {}, w |-> {}]]
    /\ deaths = 0

\* psm_init, started for the first time: the parent returns at once.
Fork ==
    /\ fg = "init"
    /\ fg' = "run" /\ bg' = "chkpt"
    /\ UNCHANGED <<pvars, fmem, ftail, got, sent, todo, pipes, deaths>>

\* The application executes and commits an operation.
Operate ==
    /\ fg = "run" /\ nlog < MaxOps
    /\ nlog' = nlog + 1
    /\ fmem' = [r \in Regions |-> fmem[r] + 1]
    /\ UNCHANGED <<image, table, file, dtail, fg, ftail, got, bvars, pipes, deaths>>

-----------------------------------------------------------------------------
(* The background process, first start.                                    *)

\* take_initial_chkpt up to criu_dump ...
BgChkpt ==
    /\ bg = "chkpt"
    /\ image' = TRUE
    /\ bg' = "redirect"
    /\ UNCHANGED <<table, file, nlog, dtail, fvars, sent, todo, pipes, deaths>>

\* ... and, in the process that was dumped, to its return.
BgRedirect ==
    /\ bg = "redirect"
    /\ bg' = "replace"
    /\ UNCHANGED <<pvars, fvars, sent, todo, pipes, deaths>>

\* init_address_space: one region after the other, then the table.
BgReplace ==
    /\ bg = "replace"
    /\ \E r \in Regions : /\ \A q \in 1..(r - 1) : file[q] # NoFile
                          /\ file[r] = NoFile
                          /\ file' = [file EXCEPT ![r] = 0]
    /\ UNCHANGED <<image, table, nlog, dtail, fvars, bvars, pipes, deaths>>

\* init_address_space ignores an error of commit_new_region_table, the rename of the table.
BgTable ==
    /\ bg = "replace" /\ \A r \in Regions : file[r] # NoFile
    /\ table' \in BOOLEAN
    /\ bg' = "consume"
    /\ UNCHANGED <<image, file, nlog, dtail, fvars, sent, todo, pipes, deaths>>

-----------------------------------------------------------------------------
(* The background process executes operations.                             *)

BgConsume ==
    /\ bg = "consume" /\ dtail < nlog
    /\ bg' = "exec" /\ todo' = Regions
    /\ UNCHANGED <<pvars, fvars, sent, pipes, deaths>>

BgStore(r) ==
    /\ bg = "exec" /\ r \in todo
    /\ file' = [file EXCEPT ![r] = dtail + 1] /\ todo' = todo \ {r}
    /\ UNCHANGED <<image, table, nlog, dtail, fvars, bg, sent, pipes, deaths>>

BgCommit ==
    /\ bg = "exec" /\ todo = {}
    /\ dtail' = dtail + 1
    /\ bg' = "consume"
    /\ UNCHANGED <<image, table, file, nlog, fvars, sent, todo, pipes, deaths>>

\* _bg_consume polls the head.
BgSpin == bg = "consume" /\ dtail = nlog /\ UNCHANGED vars

-----------------------------------------------------------------------------
(* Death and restart.                                                      *)

\* The ends of the pipes that a process has closed or that died with it.
Closed(e, proc) == [pipe \in {"btf", "ftb"} |-> [r |-> e[pipe].r \ {proc}, w |-> e[pipe].w \ {proc}]]

Alive == {p \in Procs : (IF p = "fg" THEN fg ELSE bg) # "dead"}

\* Some processes die: one of them, or both in a crash of the machine or a kill.
Die(procs) ==
    /\ procs # {} /\ procs \subseteq Alive /\ fg # "init"
    /\ deaths < MaxDeaths /\ deaths' = deaths + 1
    /\ fg' = IF "fg" \in procs THEN "dead" ELSE fg
    /\ bg' = IF "bg" \in procs THEN "dead" ELSE bg
    /\ ends' = [pipe \in {"btf", "ftb"} |->
                   [r |-> ends[pipe].r \ procs, w |-> ends[pipe].w \ procs]]
    /\ UNCHANGED <<pvars, fmem, ftail, got, sent, todo, btf, ftb>>

\* criu_dump returns in the restored process, the foreground to be.
Restore ==
    /\ fg = "dead" /\ bg = "dead" /\ image
    /\ fg' = "restored"
    /\ fmem' = [r \in Regions |-> 0] /\ ftail' = 0 /\ got' = Sentinel
    /\ UNCHANGED <<pvars, bvars, pipes, deaths>>

\* longjmp to the recovery point in psm_init: new pipes, head and tail from the log, a new
\* child.  Both processes hold all ends.
FgRestart ==
    /\ fg = "restored"
    /\ fg' = "close" /\ bg' = "recover"
    /\ sent' = 0 /\ todo' = {}
    /\ btf' = <<>> /\ ftb' = <<>>
    /\ ends' = [btf |-> [r |-> Procs, w |-> Procs], ftb |-> [r |-> Procs, w |-> Procs]]
    /\ UNCHANGED <<pvars, fmem, ftail, got, deaths>>

\* Before the longjmp an error of take_initial_chkpt aborts the process (bg_run), after it
\* psm_init returns an error of pipe or fork.
FgNoRestart ==
    /\ fg = "restored" /\ fg' \in {"dead", "failed"}
    /\ UNCHANGED <<pvars, fmem, ftail, got, bvars, pipes, deaths>>

\* psm_init, started for the first time, returns an error of pmem_map_file, mmap or fork.
FgNoFork ==
    /\ fg = "init" /\ fg' = "failed"
    /\ UNCHANGED <<pvars, fmem, ftail, got, bvars, pipes, deaths>>

\* psm_init returns the error of pin_thread_to_core in the child, which thereby is a second
\* instance of the application.
BgNoPin ==
    /\ bg \in {"chkpt", "recover"} /\ bg' = "failed"
    /\ UNCHANGED <<pvars, fvars, sent, todo, pipes, deaths>>

-----------------------------------------------------------------------------
(* The background process in recovery: dr_client_main.                     *)

BgDies ==
    /\ bg' = "dead" /\ ends' = Closed(ends, "bg")
    /\ UNCHANGED <<pvars, fvars, sent, todo, btf, ftb, deaths>>

\* A system call fails: abort in bg_run, or a DR_ASSERT of dr_client_main and what it calls.
BgError == bg \in {"chkpt", "redirect", "replace", "recover", "send", "wait"} /\ BgDies

\* undo_log_recover, then the background closes the ends it does not use.
BgRecover ==
    /\ bg = "recover" /\ table
    /\ file' = [r \in Regions |-> dtail]
    /\ ends' = [ends EXCEPT !.btf.r = @ \ {"bg"}, !.ftb.w = @ \ {"bg"}]
    /\ bg' = "send"
    /\ UNCHANGED <<image, table, nlog, dtail, fvars, sent, todo, btf, ftb, deaths>>

\* DR_ASSERT_MSG(table_fd >= 0, "open region table file failed")
BgNoTable == bg = "recover" /\ ~table /\ BgDies

\* send_regions, then the tail: the message that comes next.
NextMsg_NoSentinel == IF sent < NumRegions THEN RegionMsg(sent + 1) ELSE TailMsg(dtail)
NextMsg == IF sent < NumRegions THEN RegionMsg(sent + 1)
           ELSE IF sent = NumRegions THEN RegionMsg(Sentinel) ELSE TailMsg(dtail)

BgSend ==
    /\ bg = "send" /\ sent < NumRegions + 2
    /\ ends.btf.r # {} /\ Len(btf) < PipeCap
    /\ btf' = Append(btf, NextMsg) /\ sent' = sent + 1
    /\ UNCHANGED <<pvars, fvars, bg, todo, ftb, ends, deaths>>

BgSigpipe == bg = "send" /\ sent < NumRegions + 2 /\ ends.btf.r = {} /\ BgDies

BgCloseSend_NoWait ==
    /\ bg = "send" /\ sent = NumRegions + 2
    /\ ends' = [ends EXCEPT !.btf.w = @ \ {"bg"}]
    /\ bg' = "consume"
    /\ UNCHANGED <<pvars, fvars, sent, todo, btf, ftb, deaths>>
BgCloseSend_Early ==
    /\ bg = "send" /\ sent = NumRegions + 1
    /\ ends' = [ends EXCEPT !.btf.w = @ \ {"bg"}]
    /\ bg' = "wait"
    /\ UNCHANGED <<pvars, fvars, sent, todo, btf, ftb, deaths>>
BgCloseSend ==
    /\ bg = "send" /\ sent = NumRegions + 2
    /\ ends' = [ends EXCEPT !.btf.w = @ \ {"bg"}]
    /\ bg' = "wait"
    /\ UNCHANGED <<pvars, fvars, sent, todo, btf, ftb, deaths>>

\* The byte from the foreground; then DynamoRIO starts and bg_run persists the tail.
BgAcked ==
    /\ bg = "wait" /\ ftb # <<>>
    /\ ftb' = Tail(ftb) /\ ends' = [ends EXCEPT !.ftb.r = @ \ {"bg"}]
    /\ bg' = "consume"
    /\ UNCHANGED <<pvars, fvars, sent, todo, btf, deaths>>

\* "waiting for foreground failed"
BgNoAck == bg = "wait" /\ ftb = <<>> /\ ends.ftb.w = {} /\ BgDies

-----------------------------------------------------------------------------
(* The foreground in recovery: undo_recover_foreground and the replay.     *)

FgClose_KeepsEnds ==
    /\ fg = "close"
    /\ fg' = "recv"
    /\ UNCHANGED <<pvars, fmem, ftail, got, bvars, pipes, deaths>>
FgClose ==
    /\ fg = "close"
    /\ ends' = [ends EXCEPT !.btf.w = @ \ {"fg"}, !.ftb.r = @ \ {"fg"}]
    /\ fg' = "recv"
    /\ UNCHANGED <<pvars, fmem, ftail, got, bvars, btf, ftb, deaths>>

\* close() fails for the first end or for the second; whether it has released it is open.
FgCloseFails ==
    /\ fg = "close"
    /\ ends' \in {ends, [ends EXCEPT !.btf.w = @ \ {"fg"}],
                  [ends EXCEPT !.btf.w = @ \ {"fg"}, !.ftb.r = @ \ {"fg"}]}
    /\ fg' = "failed"
    /\ UNCHANGED <<pvars, fmem, ftail, got, bvars, btf, ftb, deaths>>

\* map_recovered_regions reads a region, maps blank memory there and opens its file ...
FgRecv ==
    /\ fg = "recv" /\ btf # <<>>
    /\ btf' = Tail(btf) /\ got' = Head(btf).region
    /\ fg' = IF Head(btf).region = Sentinel THEN "recv_tail" ELSE "copy"
    /\ UNCHANGED <<pvars, fmem, ftail, bvars, ftb, ends, deaths>>

\* ... and copies it.
FgCopy ==
    /\ fg = "copy"
    /\ fmem' = [fmem EXCEPT ![got] = file[got]]
    /\ fg' = "recv"
    /\ UNCHANGED <<pvars, ftail, got, bvars, pipes, deaths>>

\* The open() of the directory or its close(), or a read() from the pipe fails; or, with a
\* region received, mmap, openat, read or close do.  A read() that returns less than the region
\* (it always does from 2^31 - 4096 bytes on) is such an error.
FgRecvFails ==
    /\ fg \in {"recv", "copy", "recv_tail"}
    /\ fg' = "failed"
    /\ UNCHANGED <<pvars, fmem, ftail, got, bvars, pipes, deaths>>

FgRecvTail ==
    /\ fg = "recv_tail" /\ btf # <<>>
    /\ btf' = Tail(btf) /\ ftail' = Head(btf).tail
    /\ ends' = [ends EXCEPT !.btf.r = @ \ {"fg"}]
    /\ fg' = "ack"
    /\ UNCHANGED <<pvars, fmem, got, bvars, ftb, deaths>>

\* The close() after it fails.
FgRecvTailFails ==
    /\ fg = "recv_tail" /\ btf # <<>>
    /\ btf' = Tail(btf)
    /\ ends' \in {ends, [ends EXCEPT !.btf.r = @ \ {"fg"}]}
    /\ fg' = "failed"
    /\ UNCHANGED <<pvars, fmem, ftail, got, bvars, ftb, deaths>>

\* End of file where a message should be: EINVAL.
FgEof ==
    /\ fg \in {"recv", "recv_tail"} /\ btf = <<>> /\ ends.btf.w = {}
    /\ fg' = "failed"
    /\ UNCHANGED <<pvars, fmem, ftail, got, bvars, pipes, deaths>>

FgAck ==
    /\ fg = "ack" /\ ends.ftb.r # {}
    /\ ftb' = Append(ftb, 0)
    /\ ends' = [ends EXCEPT !.ftb.w = @ \ {"fg"}]
    /\ fg' = "replay"
    /\ UNCHANGED <<pvars, fmem, ftail, got, bvars, btf, deaths>>

\* The write fails; or the byte is written and the close() fails.
FgAckFails ==
    /\ fg = "ack" /\ ends.ftb.r # {}
    /\ \/ UNCHANGED <<ftb, ends>>
       \/ /\ ftb' = Append(ftb, 0)
          /\ ends' \in {ends, [ends EXCEPT !.ftb.w = @ \ {"fg"}]}
    /\ fg' = "failed"
    /\ UNCHANGED <<pvars, fmem, ftail, got, bvars, btf, deaths>>

FgSigpipe ==
    /\ fg = "ack" /\ ends.ftb.r = {}
    /\ fg' = "dead" /\ ends' = Closed(ends, "fg")
    /\ UNCHANGED <<pvars, fmem, ftail, got, bvars, btf, ftb, deaths>>

\* consume() from the recovered tail to the head.
FgReplay ==
    /\ fg = "replay" /\ ftail < nlog
    /\ fmem' = [r \in Regions |-> fmem[r] + 1] /\ ftail' = ftail + 1
    /\ UNCHANGED <<pvars, fg, got, bvars, pipes, deaths>>

FgReturn ==
    /\ fg = "replay" /\ ftail = nlog
    /\ fg' = "run"
    /\ UNCHANGED <<pvars, fmem, ftail, got, bvars, pipes, deaths>>

-----------------------------------------------------------------------------

(* Who waits for whom.                                                     *)

\* A read() from the pipe or a write() to it blocks.
FgBlocked == fg \in {"recv", "recv_tail"} /\ btf = <<>> /\ ends.btf.w # {}
BgBlocked ==
    \/ bg = "send" /\ sent < NumRegions + 2 /\ ends.btf.r # {} /\ Len(btf) = PipeCap
    \/ bg = "wait" /\ ftb = <<>> /\ ends.ftb.w # {}

\* Without its background process nothing happens until somebody restores the checkpoint; and
\* a process is blocked as long as one whose psm_init has failed lives on with its pipes.
Gone ==
    /\ \/ fg \in {"run", "dead", "failed"} /\ bg \in {"dead", "failed"}
       \/ fg = "failed" /\ BgBlocked
       \/ bg = "failed" /\ FgBlocked
    /\ UNCHANGED vars

FgStep == \/ Fork \/ FgRestart \/ FgClose \/ FgRecv \/ FgCopy \/ FgRecvTail \/ FgEof
          \/ FgAck \/ FgSigpipe \/ FgReplay \/ FgReturn

BgStep == \/ BgChkpt \/ BgRedirect \/ BgReplace \/ BgTable
          \/ BgConsume \/ BgCommit \/ BgSpin \/ \E r \in Regions : BgStore(r)
          \/ BgRecover \/ BgNoTable \/ BgSend \/ BgSigpipe \/ BgCloseSend \/ BgAcked \/ BgNoAck

\* A system call fails.
Fails == \/ FgNoFork \/ FgNoRestart \/ FgCloseFails \/ FgRecvFails \/ FgRecvTailFails \/ FgAckFails
         \/ BgNoPin \/ BgError

Next == \/ FgStep \/ BgStep \/ Fails \/ Operate
        \/ \E procs \in SUBSET Procs : Die(procs)
        \/ Restore \/ Gone

Spec == Init /\ [][Next]_vars

\* Each process keeps running its own code; nobody has to restart anything, and no system call
\* has to fail: a blocked process is not saved by an error.
FairSpec == Spec /\ WF_vars(FgStep) /\ WF_vars(BgStep)

-----------------------------------------------------------------------------
(* Properties.                                                             *)

FgHandshake == {"restored", "close", "recv", "copy", "recv_tail", "ack", "replay"}
BgHandshake == {"recover", "send", "wait"}

\* Types of the state.
TypeOK ==
    /\ {image, table} \subseteq BOOLEAN
    /\ file \in [Regions -> {NoFile} \cup 0..MaxOps] /\ fmem \in [Regions -> 0..MaxOps]
    /\ nlog \in 0..MaxOps /\ dtail \in 0..nlog /\ ftail \in 0..nlog
    /\ fg \in FgHandshake \cup {"init", "run", "failed", "dead"}
    /\ bg \in BgHandshake \cup {"chkpt", "redirect", "replace", "consume", "exec", "failed", "dead"}
    /\ got \in 0..NumRegions /\ sent \in 0..(NumRegions + 2) /\ todo \subseteq Regions
    /\ Len(btf) <= PipeCap /\ Len(ftb) <= 1 /\ deaths \in 0..MaxDeaths

\* When psm_init has returned, every region of the application holds every committed
\* operation exactly once, although the background process executes the operations that
\* the foreground replays ("The waiting is important because otherwise, a race condition
\* can arise", mem_region.h:27).
RecoveredExactly == fg = "run" => \A r \in Regions : fmem[r] = nlog

\* An end of file where the foreground expects a message (EINVAL) comes from a background process
\* that has died: one that lives has sent everything before it closes its end.
EofOnlyFromDead ==
    fg \in {"recv", "recv_tail"} /\ btf = <<>> /\ ends.btf.w = {} => bg = "dead"

\* "durable, crash-consistent" (README.md:4): once both processes are gone, what committed
\* operations need to be recovered is there, a checkpoint to restore and the region table
\* that recovery opens.
CommittedRecoverable == fg = "dead" /\ bg = "dead" /\ nlog > 0 => image /\ table

\* Whoever is blocked in the handshake is blocked by the other process, which is alive, still has
\* its part to do and is not blocked itself, or whose psm_init has returned an error: no process
\* keeps a pipe open for itself, a full pipe has a reader, and a dead process leaves an end
\* of file.
NoCircularWait ==
    /\ FgBlocked => bg = "failed" \/ (bg \in {"recover", "send"} /\ ~BgBlocked)
    /\ BgBlocked => fg = "failed" \/ (fg \in FgHandshake /\ ~FgBlocked)

\* Neither process waits for ever for the other one in the handshake, whoever dies when,
\* unless it is for one whose psm_init has returned an error and that lives on.
HandshakeEnds ==
    /\ fg \in FgHandshake ~> fg \notin FgHandshake \/ bg = "failed"
    /\ bg \in BgHandshake ~> bg \notin BgHandshake \/ fg = "failed"
=============================================================================
