--------------------------- MODULE PsmInitProofs ---------------------------
(***************************************************************************)
(* Proofs about PsmInit, for any number of regions, any pipe capacity and  *)
(* any number of operations and deaths.  The invariant follows the         *)
(* messages: whatever the pipe still holds is the end of what has been     *)
(* sent, the regions received before it have been copied from files that   *)
(* nobody writes until the foreground has answered, and the tail that      *)
(* comes last is the one these files stand at.                             *)
(***************************************************************************)
EXTENDS PsmInit, TLAPS

N == NumRegions

Message == [region : Int, tail : Nat]

\* The k-th message of send_regions and of the tail after it.
Msg(k) == IF k <= N THEN RegionMsg(k) ELSE IF k = N + 1 THEN RegionMsg(Sentinel) ELSE TailMsg(dtail)

\* How many messages the foreground has read.
Received == sent - Len(btf)

Receiving == {"close", "recv", "copy", "recv_tail"}
BeforeAck == Receiving \cup {"ack"}

Types ==
    /\ TypeOK
    /\ btf \in Seq(Message) /\ ftb \in Seq({0})
    /\ ends \in [{"btf", "ftb"} -> [r : SUBSET Procs, w : SUBSET Procs]]

\* What the processes may be doing at the same time.
Phases ==
    /\ fg = "init" => nlog = 0 /\ \A r \in Regions : fmem[r] = 0
    /\ fg \in BeforeAck => bg \in BgHandshake \cup {"dead", "failed"} /\ ftb = <<>>
    /\ fg \in BeforeAck /\ bg = "failed" => "bg" \in ends.btf.w
    /\ bg = "recover" => sent = 0 /\ btf = <<>>
    /\ bg \in {"recover", "send"} => "bg" \in ends.btf.w
    /\ bg = "wait" => sent = N + 2
    /\ bg = "exec" => dtail < nlog

\* Nobody writes the files while the foreground copies them.
FilesStill ==
    fg \in BeforeAck /\ (bg \in {"send", "wait"} \/ sent > 0) => \A r \in Regions : file[r] = dtail

PipeHolds ==
    fg \in Receiving => /\ Len(btf) <= sent
                        /\ \A i \in 1..Len(btf) : btf[i] = Msg(Received + i)

\* What the foreground's memory holds.
Memory ==
    /\ fg = "close" => Received = 0
    /\ fg = "recv" => Received \in 0..N /\ \A r \in 1..Received : fmem[r] = dtail
    /\ fg = "copy" => /\ Received \in 1..N /\ got = Received
                      /\ \A r \in 1..(Received - 1) : fmem[r] = dtail
    /\ fg = "recv_tail" => Received = N + 1 /\ \A r \in Regions : fmem[r] = dtail
    /\ fg = "ack" => ftail = dtail /\ \A r \in Regions : fmem[r] = dtail
    /\ fg = "replay" => \A r \in Regions : fmem[r] = ftail
    /\ fg = "run" => \A r \in Regions : fmem[r] = nlog

Inv == Types /\ Phases /\ FilesStill /\ PipeHolds /\ Memory

-----------------------------------------------------------------------------
(* Each step keeps the invariant.                                          *)

LEMMA ForkKeeps == ASSUME Inv, Fork PROVE Inv'
<1>1. Types'
    BY DEF Inv, Types, TypeOK, Fork, pvars, pipes
<1>2. Phases'
    BY DEF Phases, Fork, BeforeAck, Receiving
<1>3. FilesStill'
    BY DEF FilesStill, Fork, BeforeAck, Receiving
<1>4. PipeHolds'
    BY DEF PipeHolds, Fork, Receiving
<1>5. Memory'
    BY DEF Inv, Phases, Memory, Fork, pvars
<1> QED BY <1>1, <1>2, <1>3, <1>4, <1>5 DEF Inv

LEMMA OperateKeeps == ASSUME Inv, Operate PROVE Inv'
<1>1. Types'
    BY PsmInitAssumption DEF Inv, Types, TypeOK, Memory, Operate, bvars, pipes
<1>2. Phases'
    BY DEF Inv, Types, TypeOK, Phases, Operate, bvars, pipes
<1>3. FilesStill'
    BY DEF FilesStill, Operate, BeforeAck, Receiving
<1>4. PipeHolds'
    BY DEF PipeHolds, Operate, Receiving
<1>5. Memory'
    BY DEF Inv, Memory, Operate
<1> QED BY <1>1, <1>2, <1>3, <1>4, <1>5 DEF Inv

LEMMA BgChkptKeeps == ASSUME Inv, BgChkpt PROVE Inv'
<1>1. Types'
    BY DEF Inv, Types, TypeOK, BgChkpt, fvars, pipes
<1>2. Phases'
    BY DEF Inv, Phases, BgChkpt, fvars, BgHandshake
<1>3. FilesStill'
    BY DEF Inv, FilesStill, BgChkpt, fvars
<1>4. PipeHolds'
    BY DEF Inv, PipeHolds, Received, Msg, BgChkpt, fvars, pipes
<1>5. Memory'
    BY DEF Inv, Memory, Received, BgChkpt, fvars, pipes
<1> QED BY <1>1, <1>2, <1>3, <1>4, <1>5 DEF Inv

LEMMA BgRedirectKeeps == ASSUME Inv, BgRedirect PROVE Inv'
<1>1. Types'
    BY DEF Inv, Types, TypeOK, BgRedirect, pvars, fvars, pipes
<1>2. Phases'
    BY DEF Inv, Phases, BgRedirect, pvars, fvars, pipes, BgHandshake
<1>3. FilesStill'
    BY DEF Inv, FilesStill, BgRedirect, pvars, fvars, pipes
<1>4. PipeHolds'
    BY DEF Inv, PipeHolds, Received, Msg, BgRedirect, pvars, fvars, pipes
<1>5. Memory'
    BY DEF Inv, Memory, Received, BgRedirect, pvars, fvars, pipes
<1> QED BY <1>1, <1>2, <1>3, <1>4, <1>5 DEF Inv

LEMMA BgNoPinKeeps == ASSUME Inv, BgNoPin PROVE Inv'
<1>1. Types'
    BY DEF Inv, Types, TypeOK, BgNoPin, pvars, fvars, pipes
<1>2. Phases'
    BY DEF Inv, Phases, BgNoPin, pvars, fvars, pipes, BgHandshake
<1>3. FilesStill'
    BY DEF Inv, FilesStill, BgNoPin, pvars, fvars, pipes
<1>4. PipeHolds'
    BY DEF Inv, PipeHolds, Received, Msg, BgNoPin, pvars, fvars, pipes
<1>5. Memory'
    BY DEF Inv, Memory, Received, BgNoPin, pvars, fvars, pipes
<1> QED BY <1>1, <1>2, <1>3, <1>4, <1>5 DEF Inv

LEMMA BgErrorKeeps == ASSUME Inv, BgError PROVE Inv'
<1>1. Types'
    BY DEF Inv, Types, TypeOK, BgError, BgDies, Closed, pvars, fvars
<1>2. Phases'
    BY DEF Inv, Phases, BgError, BgDies, pvars, fvars
<1>3. FilesStill'
    BY DEF Inv, FilesStill, BgError, BgDies, pvars, fvars
<1>4. PipeHolds'
    BY DEF Inv, PipeHolds, Received, Msg, BgError, BgDies, pvars, fvars
<1>5. Memory'
    BY DEF Inv, Memory, Received, BgError, BgDies, pvars, fvars
<1> QED BY <1>1, <1>2, <1>3, <1>4, <1>5 DEF Inv

LEMMA BgReplaceKeeps == ASSUME Inv, BgReplace PROVE Inv'
<1>1. Types'
    BY PsmInitAssumption DEF Inv, Types, TypeOK, BgReplace, fvars, bvars, pipes
<1>2. Phases'
    BY DEF Inv, Phases, BgReplace, fvars, bvars, BgHandshake
<1>3. FilesStill'
    BY DEF Inv, Phases, FilesStill, BgReplace, fvars, BgHandshake
<1>4. PipeHolds'
    BY DEF Inv, PipeHolds, Received, Msg, BgReplace, fvars, bvars, pipes
<1>5. Memory'
    BY DEF Inv, Memory, Received, BgReplace, fvars, bvars, pipes
<1> QED BY <1>1, <1>2, <1>3, <1>4, <1>5 DEF Inv

LEMMA BgTableKeeps == ASSUME Inv, BgTable PROVE Inv'
<1>1. Types'
    BY DEF Inv, Types, TypeOK, BgTable, fvars, pipes
<1>2. Phases'
    BY DEF Inv, Phases, BgTable, fvars, BgHandshake
<1>3. FilesStill'
    BY DEF Inv, FilesStill, BgTable, fvars
<1>4. PipeHolds'
    BY DEF Inv, PipeHolds, Received, Msg, BgTable, fvars, pipes
<1>5. Memory'
    BY DEF Inv, Memory, Received, BgTable, fvars, pipes
<1> QED BY <1>1, <1>2, <1>3, <1>4, <1>5 DEF Inv

LEMMA BgConsumeKeeps == ASSUME Inv, BgConsume PROVE Inv'
<1>1. Types'
    BY DEF Inv, Types, TypeOK, BgConsume, pvars, fvars, pipes
<1>2. Phases'
    BY DEF Inv, Phases, BgConsume, pvars, fvars, BgHandshake
<1>3. FilesStill'
    BY DEF Inv, FilesStill, BgConsume, pvars, fvars
<1>4. PipeHolds'
    BY DEF Inv, PipeHolds, Received, Msg, BgConsume, pvars, fvars, pipes
<1>5. Memory'
    BY DEF Inv, Memory, Received, BgConsume, pvars, fvars, pipes
<1> QED BY <1>1, <1>2, <1>3, <1>4, <1>5 DEF Inv

LEMMA BgCommitKeeps == ASSUME Inv, BgCommit PROVE Inv'
<1>1. Types'
    BY DEF Inv, Types, TypeOK, Phases, BgCommit, fvars, pipes
<1>2. Phases'
    BY DEF Inv, Phases, BgCommit, fvars, BgHandshake
<1>3. FilesStill'
    BY DEF Inv, Phases, FilesStill, BgCommit, fvars, BgHandshake
<1>4. PipeHolds'
    BY DEF Inv, Phases, PipeHolds, BgCommit, fvars, BeforeAck, BgHandshake
<1>5. Memory'
    BY DEF Inv, Phases, Memory, BgCommit, fvars, BeforeAck, Receiving, BgHandshake
<1> QED BY <1>1, <1>2, <1>3, <1>4, <1>5 DEF Inv

LEMMA RestoreKeeps == ASSUME Inv, Restore PROVE Inv'
<1>1. Types'
    <2>1. fmem' \in [Regions -> 0..MaxOps]
        BY PsmInitAssumption DEF Restore
    <2>2. UNCHANGED <<pvars, bvars, pipes, deaths>> /\ fg' = "restored" /\ ftail' = 0 /\ got' = 0
        BY DEF Restore, Sentinel
    <2> QED BY PsmInitAssumption, <2>1, <2>2 DEF Inv, Types, TypeOK, pvars, bvars, pipes, FgHandshake
<1>2. Phases'
    BY DEF Inv, Phases, Restore, pvars, bvars, pipes, BeforeAck, Receiving
<1>3. FilesStill'
    BY DEF FilesStill, Restore, BeforeAck, Receiving
<1>4. PipeHolds'
    BY DEF PipeHolds, Restore, Receiving
<1>5. Memory'
    BY DEF Memory, Restore
<1> QED BY <1>1, <1>2, <1>3, <1>4, <1>5 DEF Inv

LEMMA FgRestartKeeps == ASSUME Inv, FgRestart PROVE Inv'
<1>1. Types'
    <2>1. btf' \in Seq(Message) /\ ftb' \in Seq({0}) /\ Len(btf') = 0 /\ Len(ftb') = 0
        BY DEF FgRestart
    <2>2. ends' \in [{"btf", "ftb"} -> [r : SUBSET Procs, w : SUBSET Procs]]
        BY DEF FgRestart
    <2>3. /\ UNCHANGED <<pvars, fmem, ftail, got, deaths>> /\ fg' = "close" /\ bg' = "recover"
          /\ sent' = 0 /\ todo' = {}
        BY DEF FgRestart
    <2> QED BY PsmInitAssumption, <2>1, <2>2, <2>3 DEF Inv, Types, TypeOK, pvars, FgHandshake, BgHandshake
<1>2. Phases'
    BY DEF Phases, FgRestart, Procs, BgHandshake
<1>3. FilesStill'
    BY DEF FilesStill, FgRestart
<1>4. PipeHolds'
    BY DEF PipeHolds, FgRestart
<1>5. Memory'
    <2>1. fg' = "close" /\ sent' = 0 /\ Len(btf') = 0
        BY DEF FgRestart
    <2> QED BY <2>1 DEF Memory, Received
<1> QED BY <1>1, <1>2, <1>3, <1>4, <1>5 DEF Inv

LEMMA FgNoRestartKeeps == ASSUME Inv, FgNoRestart PROVE Inv'
<1>1. Types'
    BY DEF Inv, Types, TypeOK, FgNoRestart, pvars, bvars, pipes
<1>2. Phases'
    BY DEF Inv, Phases, FgNoRestart, pvars, bvars, pipes, BeforeAck, Receiving
<1>3. FilesStill'
    BY DEF FilesStill, FgNoRestart, BeforeAck, Receiving
<1>4. PipeHolds'
    BY DEF PipeHolds, FgNoRestart, Receiving
<1>5. Memory'
    BY DEF Memory, FgNoRestart
<1> QED BY <1>1, <1>2, <1>3, <1>4, <1>5 DEF Inv

LEMMA FgNoForkKeeps == ASSUME Inv, FgNoFork PROVE Inv'
<1>1. Types'
    BY DEF Inv, Types, TypeOK, FgNoFork, pvars, bvars, pipes
<1>2. Phases'
    BY DEF Inv, Phases, FgNoFork, pvars, bvars, pipes, BeforeAck, Receiving
<1>3. FilesStill'
    BY DEF FilesStill, FgNoFork, BeforeAck, Receiving
<1>4. PipeHolds'
    BY DEF PipeHolds, FgNoFork, Receiving
<1>5. Memory'
    BY DEF Memory, FgNoFork
<1> QED BY <1>1, <1>2, <1>3, <1>4, <1>5 DEF Inv

LEMMA BgRecoverKeeps == ASSUME Inv, BgRecover PROVE Inv'
<1>1. Types'
    <2>1. ends' \in [{"btf", "ftb"} -> [r : SUBSET Procs, w : SUBSET Procs]]
        BY DEF Inv, Types, BgRecover
    <2>2. file' \in [Regions -> {NoFile} \cup 0..MaxOps]
        <3>1. dtail \in 0..MaxOps
            BY PsmInitAssumption DEF Inv, Types, TypeOK
        <3> QED BY <3>1 DEF BgRecover
    <2>3. UNCHANGED <<image, table, nlog, dtail, fvars, sent, todo, btf, ftb, deaths>> /\ bg' = "send"
        BY DEF BgRecover
    <2> QED BY <2>1, <2>2, <2>3 DEF Inv, Types, TypeOK, fvars, BgHandshake
<1>2. Phases'
    BY DEF Inv, Types, Phases, BgRecover, fvars, BgHandshake
<1>3. FilesStill'
    BY DEF FilesStill, BgRecover
<1>4. PipeHolds'
    BY DEF Inv, PipeHolds, Received, Msg, BgRecover, fvars
<1>5. Memory'
    BY DEF Inv, Memory, Received, BgRecover, fvars
<1> QED BY <1>1, <1>2, <1>3, <1>4, <1>5 DEF Inv

LEMMA BgNoTableKeeps == ASSUME Inv, BgNoTable PROVE Inv'
<1>1. Types'
    BY DEF Inv, Types, TypeOK, BgNoTable, BgDies, Closed, pvars, fvars
<1>2. Phases'
    BY DEF Inv, Phases, BgNoTable, BgDies, pvars, fvars
<1>3. FilesStill'
    BY DEF Inv, FilesStill, BgNoTable, BgDies, pvars, fvars
<1>4. PipeHolds'
    BY DEF Inv, PipeHolds, Received, Msg, BgNoTable, BgDies, pvars, fvars
<1>5. Memory'
    BY DEF Inv, Memory, Received, BgNoTable, BgDies, pvars, fvars
<1> QED BY <1>1, <1>2, <1>3, <1>4, <1>5 DEF Inv

LEMMA BgSendKeeps == ASSUME Inv, BgSend PROVE Inv'
<1>0. /\ UNCHANGED <<pvars, fvars, bg, todo, ftb, ends, deaths>>
      /\ bg = "send" /\ sent \in 0..(N + 1) /\ sent' = sent + 1 /\ btf' = Append(btf, NextMsg)
      /\ btf \in Seq(Message) /\ Len(btf) < PipeCap
    BY PsmInitAssumption DEF BgSend, Inv, Types, TypeOK, N
<1>a. NextMsg \in Message /\ NextMsg = Msg(sent + 1)
    <2>1. N \in Nat /\ dtail \in Nat /\ N = NumRegions
        BY PsmInitAssumption DEF Inv, Types, TypeOK, N
    <2>2. NextMsg = Msg(sent + 1)
        BY <1>0, <2>1 DEF NextMsg, Msg
    <2> QED BY <1>0, <2>1, <2>2 DEF Msg, RegionMsg, TailMsg, Message, Sentinel
<1>b. btf' \in Seq(Message) /\ Len(btf') = Len(btf) + 1 /\ Len(btf) \in Nat
    BY <1>0, <1>a
<1>c. Received' = Received /\ Received \in Int
    BY <1>0, <1>b DEF Received
<1>1. Types'
    <2>1. Len(btf') <= PipeCap
        BY PsmInitAssumption, <1>0, <1>b
    <2>2. sent' \in 0..(N + 2)
        BY PsmInitAssumption, <1>0 DEF N
    <2> QED BY <1>0, <1>b, <2>1, <2>2 DEF Inv, Types, TypeOK, pvars, fvars, N
<1>2. Phases'
    BY DEF Inv, Phases, BgSend, pvars, fvars
<1>3. FilesStill'
    BY DEF Inv, FilesStill, BgSend, pvars, fvars
<1>4. PipeHolds'
    <2>1. SUFFICES ASSUME fg \in Receiving
                   PROVE  Len(btf') <= sent' /\ \A i \in 1..Len(btf') : btf'[i] = Msg(Received + i)
        BY <1>0, <1>c DEF PipeHolds, Msg, pvars, fvars
    <2>2. Len(btf) <= sent /\ \A i \in 1..Len(btf) : btf[i] = Msg(Received + i)
        BY <2>1 DEF Inv, PipeHolds
    <2>3. ASSUME NEW i \in 1..Len(btf') PROVE btf'[i] = Msg(Received + i)
        <3>1. CASE i \in 1..Len(btf)
            BY <1>0, <2>2, <3>1
        <3>2. CASE i = Len(btf) + 1
            <4>1. btf'[i] = NextMsg
                BY <1>0, <3>2
            <4>2. Received + i = sent + 1
                BY <1>0, <3>2 DEF Received
            <4> QED BY <1>a, <4>1, <4>2
        <3> QED BY <1>b, <3>1, <3>2
    <2> QED BY <1>0, <2>2, <2>3
<1>5. Memory'
    BY <1>0, <1>c DEF Inv, Memory, pvars, fvars
<1> QED BY <1>1, <1>2, <1>3, <1>4, <1>5 DEF Inv

LEMMA BgSigpipeKeeps == ASSUME Inv, BgSigpipe PROVE Inv'
<1>1. Types'
    BY DEF Inv, Types, TypeOK, BgSigpipe, BgDies, Closed, pvars, fvars
<1>2. Phases'
    BY DEF Inv, Phases, BgSigpipe, BgDies, pvars, fvars
<1>3. FilesStill'
    BY DEF Inv, FilesStill, BgSigpipe, BgDies, pvars, fvars
<1>4. PipeHolds'
    BY DEF Inv, PipeHolds, Received, Msg, BgSigpipe, BgDies, pvars, fvars
<1>5. Memory'
    BY DEF Inv, Memory, Received, BgSigpipe, BgDies, pvars, fvars
<1> QED BY <1>1, <1>2, <1>3, <1>4, <1>5 DEF Inv

LEMMA BgCloseSendKeeps == ASSUME Inv, BgCloseSend PROVE Inv'
<1>1. Types'
    BY PsmInitAssumption DEF Inv, Types, TypeOK, Phases, Memory, BgCloseSend, pvars, fvars, Regions,
       Procs, NoFile, Message, FgHandshake, BgHandshake
<1>2. Phases'
    <2>1. bg' = "wait" /\ sent' = N + 2
        BY DEF BgCloseSend, N
    <2>2. UNCHANGED <<pvars, fvars, sent, btf, ftb>> /\ bg = "send"
        BY DEF BgCloseSend
    <2> QED BY <2>1, <2>2 DEF Inv, Phases, pvars, fvars, BgHandshake
<1>3. FilesStill'
    BY DEF Inv, FilesStill, BgCloseSend, pvars, fvars
<1>4. PipeHolds'
    BY DEF Inv, PipeHolds, Received, Msg, BgCloseSend, pvars, fvars
<1>5. Memory'
    BY DEF Inv, Memory, Received, BgCloseSend, pvars, fvars
<1> QED BY <1>1, <1>2, <1>3, <1>4, <1>5 DEF Inv

LEMMA BgAckedKeeps == ASSUME Inv, BgAcked PROVE Inv'
<1>1. Types'
    <2>1. ends' \in [{"btf", "ftb"} -> [r : SUBSET Procs, w : SUBSET Procs]]
        BY DEF Inv, Types, BgAcked
    <2>2. ftb' \in Seq({0}) /\ Len(ftb') <= 1
        BY DEF Inv, Types, TypeOK, BgAcked
    <2>3. UNCHANGED <<pvars, fvars, sent, todo, btf, deaths>> /\ bg' = "consume"
        BY DEF BgAcked
    <2> QED BY <2>1, <2>2, <2>3 DEF Inv, Types, TypeOK, pvars, fvars
<1>2. Phases'
    BY DEF Inv, Phases, BgAcked, pvars, fvars
<1>3. FilesStill'
    BY DEF Inv, FilesStill, BgAcked, pvars, fvars
<1>4. PipeHolds'
    BY DEF Inv, PipeHolds, Received, Msg, BgAcked, pvars, fvars
<1>5. Memory'
    BY DEF Inv, Memory, Received, BgAcked, pvars, fvars
<1> QED BY <1>1, <1>2, <1>3, <1>4, <1>5 DEF Inv

LEMMA BgNoAckKeeps == ASSUME Inv, BgNoAck PROVE Inv'
<1>1. Types'
    BY DEF Inv, Types, TypeOK, BgNoAck, BgDies, Closed, pvars, fvars
<1>2. Phases'
    BY DEF Inv, Phases, BgNoAck, BgDies, pvars, fvars
<1>3. FilesStill'
    BY DEF Inv, FilesStill, BgNoAck, BgDies, pvars, fvars
<1>4. PipeHolds'
    BY DEF Inv, PipeHolds, Received, Msg, BgNoAck, BgDies, pvars, fvars
<1>5. Memory'
    BY DEF Inv, Memory, Received, BgNoAck, BgDies, pvars, fvars
<1> QED BY <1>1, <1>2, <1>3, <1>4, <1>5 DEF Inv

LEMMA FgCloseKeeps == ASSUME Inv, FgClose PROVE Inv'
<1>1. Types'
    <2>1. ends' \in [{"btf", "ftb"} -> [r : SUBSET Procs, w : SUBSET Procs]]
        BY DEF Inv, Types, FgClose
    <2>2. TypeOK'
        BY DEF Inv, Types, TypeOK, FgClose, pvars, bvars, FgHandshake
    <2> QED BY <2>1, <2>2 DEF Inv, Types, FgClose
<1>2. Phases'
    BY DEF Inv, Types, Phases, FgClose, bvars, BeforeAck, Receiving, BgHandshake
<1>3. FilesStill'
    BY DEF Inv, FilesStill, FgClose, pvars, bvars, BeforeAck, Receiving
<1>4. PipeHolds'
    BY DEF Inv, PipeHolds, Received, Msg, FgClose, pvars, bvars, Receiving
<1>5. Memory'
    <2>1. fg = "close" /\ fg' = "recv" /\ UNCHANGED <<sent, btf>>
        BY DEF FgClose, bvars
    <2>2. Received' = 0
        BY <2>1 DEF Inv, Memory, Received
    <2> QED BY PsmInitAssumption, <2>1, <2>2 DEF Memory, N
<1> QED BY <1>1, <1>2, <1>3, <1>4, <1>5 DEF Inv

LEMMA FgRecvKeeps == ASSUME Inv, FgRecv PROVE Inv'
<1>0. /\ UNCHANGED <<pvars, fmem, ftail, bvars, ftb, ends, deaths>>
      /\ fg = "recv" /\ btf # <<>> /\ btf' = Tail(btf) /\ got' = Head(btf).region
      /\ fg' = (IF Head(btf).region = Sentinel THEN "recv_tail" ELSE "copy")
    BY DEF FgRecv
<1>a. /\ N \in Nat /\ N = NumRegions /\ sent \in Nat /\ btf \in Seq(Message)
      /\ Received \in 0..N /\ \A r \in 1..Received : fmem[r] = dtail
    BY PsmInitAssumption, <1>0 DEF Inv, Types, TypeOK, Memory, N
<1>b. /\ Len(btf) \in Nat \ {0} /\ Len(btf') = Len(btf) - 1 /\ btf' \in Seq(Message)
      /\ Head(btf) = btf[1]
    BY <1>0, <1>a
<1>c. Received' = Received + 1
    BY <1>0, <1>a DEF Received, bvars
<1>d. Len(btf) <= sent /\ \A i \in 1..Len(btf) : btf[i] = Msg(Received + i)
    BY <1>0 DEF Inv, PipeHolds, Receiving
<1>e. Head(btf) = Msg(Received + 1)
    BY <1>b, <1>d
<1>f. IF Received < N THEN Head(btf).region = Received + 1 ELSE Head(btf).region = 0
    BY <1>a, <1>e DEF Msg, RegionMsg, Sentinel
<1>g. \/ fg' = "copy" /\ Received < N /\ got' = Received + 1
      \/ fg' = "recv_tail" /\ Received = N /\ got' = 0
    BY <1>0, <1>a, <1>f DEF Sentinel
<1>1. Types'
    <2>1. got' \in 0..NumRegions /\ Len(btf') <= PipeCap
        BY PsmInitAssumption, <1>a, <1>b, <1>g DEF Inv, Types, TypeOK
    <2> QED BY <1>0, <1>b, <1>g, <2>1 DEF Inv, Types, TypeOK, pvars, bvars, FgHandshake
<1>2. Phases'
    BY DEF Inv, Phases, FgRecv, bvars, BeforeAck, Receiving, BgHandshake
<1>3. FilesStill'
    BY DEF Inv, FilesStill, FgRecv, pvars, bvars, BeforeAck, Receiving
<1>4. PipeHolds'
    <2>1. ASSUME NEW i \in 1..Len(btf') PROVE btf'[i] = Msg(Received' + i)
        <3>1. i + 1 \in 1..Len(btf) /\ btf'[i] = btf[i + 1]
            BY <1>0, <1>a, <1>b
        <3>2. Received + (i + 1) = Received' + i
            BY <1>a, <1>c
        <3> QED BY <1>d, <3>1, <3>2
    <2>2. Len(btf') <= sent' /\ dtail' = dtail
        BY <1>0, <1>a, <1>d DEF pvars, bvars
    <2> QED BY <2>1, <2>2 DEF PipeHolds, Msg
<1>5. Memory'
    <2>1. fmem' = fmem /\ dtail' = dtail
        BY <1>0 DEF pvars
    <2>2. CASE fg' = "copy"
        <3>1. Received' \in 1..N /\ got' = Received' /\ Received' - 1 = Received
            BY <1>a, <1>c, <1>g, <2>2
        <3> QED BY <1>a, <2>1, <2>2, <3>1 DEF Memory
    <2>3. CASE fg' = "recv_tail"
        <3>1. Received' = N + 1 /\ \A r \in Regions : fmem[r] = dtail
            BY <1>a, <1>c, <1>g, <2>3 DEF Regions
        <3> QED BY <2>1, <2>3, <3>1 DEF Memory
    <2> QED BY <1>g, <2>2, <2>3
<1> QED BY <1>1, <1>2, <1>3, <1>4, <1>5 DEF Inv

LEMMA FgCopyKeeps == ASSUME Inv, FgCopy PROVE Inv'
<1>0. /\ UNCHANGED <<pvars, ftail, got, bvars, pipes, deaths>> /\ fg = "copy"
      /\ fg' = "recv" /\ fmem' = [fmem EXCEPT ![got] = file[got]]
    BY DEF FgCopy
<1>a. /\ Received \in 1..N /\ got = Received /\ got \in Regions
      /\ \A r \in 1..(Received - 1) : fmem[r] = dtail
    BY <1>0 DEF Inv, Memory, N, Regions
<1>b. file[got] = dtail /\ dtail \in 0..MaxOps
    <2>1. sent > 0
        BY <1>a DEF Inv, Types, TypeOK, Received
    <2>2. \A r \in Regions : file[r] = dtail
        BY <1>0, <2>1 DEF Inv, FilesStill, BeforeAck, Receiving
    <2>3. dtail \in 0..MaxOps
        BY PsmInitAssumption DEF Inv, Types, TypeOK
    <2> QED BY <1>a, <2>2, <2>3
<1>c. fmem \in [Regions -> 0..MaxOps] /\ fmem' \in [Regions -> 0..MaxOps]
    <2>1. fmem \in [Regions -> 0..MaxOps]
        BY DEF Inv, Types, TypeOK
    <2> QED BY <1>0, <1>b, <2>1
<1>1. Types'
    BY <1>0, <1>c DEF Inv, Types, TypeOK, pvars, bvars, pipes, FgHandshake
<1>2. Phases'
    BY DEF Inv, Phases, FgCopy, bvars, pipes, BeforeAck, Receiving, BgHandshake
<1>3. FilesStill'
    BY DEF Inv, FilesStill, FgCopy, pvars, bvars, BeforeAck, Receiving
<1>4. PipeHolds'
    BY DEF Inv, PipeHolds, Received, Msg, FgCopy, pvars, bvars, pipes, Receiving
<1>5. Memory'
    <2>1. Received' = Received /\ dtail' = dtail
        BY <1>0 DEF Received, pvars, bvars, pipes
    <2>2. fmem' = [fmem EXCEPT ![got] = dtail] /\ fg' = "recv"
        BY <1>0, <1>b
    <2>3. Received \in 0..N /\ \A r \in 1..Received : r \in Regions /\ fmem'[r] = dtail
        BY PsmInitAssumption, <1>a, <1>c, <2>2 DEF Regions
    <2> QED BY <2>1, <2>2, <2>3 DEF Memory
<1> QED BY <1>1, <1>2, <1>3, <1>4, <1>5 DEF Inv

LEMMA FgRecvTailKeeps == ASSUME Inv, FgRecvTail PROVE Inv'
<1>0. /\ UNCHANGED <<pvars, fmem, got, bvars, ftb, deaths>>
      /\ fg = "recv_tail" /\ fg' = "ack" /\ btf # <<>> /\ btf' = Tail(btf) /\ ftail' = Head(btf).tail
    BY DEF FgRecvTail
<1>a. /\ btf \in Seq(Message) /\ Received = N + 1 /\ N \in Nat
      /\ \A r \in Regions : fmem[r] = dtail
    BY PsmInitAssumption, <1>0 DEF Inv, Types, Memory, N
<1>b. Len(btf) \in Nat \ {0} /\ Len(btf') = Len(btf) - 1 /\ btf' \in Seq(Message) /\ Head(btf) = btf[1]
    BY <1>0, <1>a
<1>c. Head(btf) = Msg(Received + 1)
    BY <1>0 DEF Inv, PipeHolds, Receiving
<1>d. ftail' = dtail
    BY <1>0, <1>a, <1>c DEF Msg, TailMsg
<1>1. Types'
    <2>1. ends' \in [{"btf", "ftb"} -> [r : SUBSET Procs, w : SUBSET Procs]]
        BY DEF Inv, Types, FgRecvTail
    <2>2. ftail' \in 0..nlog' /\ Len(btf') <= PipeCap
        BY PsmInitAssumption, <1>0, <1>d DEF Inv, Types, TypeOK, pvars
    <2> QED BY <1>0, <1>b, <2>1, <2>2 DEF Inv, Types, TypeOK, pvars, bvars, FgHandshake
<1>2. Phases'
    BY DEF Inv, Types, Phases, FgRecvTail, bvars, BeforeAck, Receiving, BgHandshake
<1>3. FilesStill'
    BY DEF Inv, FilesStill, FgRecvTail, pvars, bvars, BeforeAck, Receiving
<1>4. PipeHolds'
    BY DEF PipeHolds, FgRecvTail, Receiving
<1>5. Memory'
    BY <1>0, <1>a, <1>d DEF Memory, pvars
<1> QED BY <1>1, <1>2, <1>3, <1>4, <1>5 DEF Inv

LEMMA FgEofKeeps == ASSUME Inv, FgEof PROVE Inv'
<1>1. Types'
    BY DEF Inv, Types, TypeOK, FgEof, pvars, bvars, pipes
<1>2. Phases'
    BY DEF Inv, Phases, FgEof, bvars, pipes, BeforeAck, Receiving, BgHandshake
<1>3. FilesStill'
    BY DEF FilesStill, FgEof, BeforeAck, Receiving
<1>4. PipeHolds'
    BY DEF PipeHolds, FgEof, Receiving
<1>5. Memory'
    BY DEF Memory, FgEof
<1> QED BY <1>1, <1>2, <1>3, <1>4, <1>5 DEF Inv

LEMMA FgAckKeeps == ASSUME Inv, FgAck PROVE Inv'
<1>1. Types'
    <2>1. ends' \in [{"btf", "ftb"} -> [r : SUBSET Procs, w : SUBSET Procs]]
        BY DEF Inv, Types, FgAck
    <2>2. ftb = <<>> /\ ftb' = Append(ftb, 0)
        BY DEF Inv, Phases, BeforeAck, FgAck
    <2>3. ftb' \in Seq({0}) /\ Len(ftb') = 1
        BY <2>2
    <2>4. UNCHANGED <<pvars, fmem, ftail, got, bvars, btf, deaths>> /\ fg' = "replay"
        BY DEF FgAck
    <2> QED BY <2>1, <2>3, <2>4 DEF Inv, Types, TypeOK, pvars, bvars, FgHandshake
<1>2. Phases'
    BY DEF Inv, Phases, FgAck, bvars, BeforeAck, Receiving, BgHandshake
<1>3. FilesStill'
    BY DEF FilesStill, FgAck, BeforeAck, Receiving
<1>4. PipeHolds'
    BY DEF PipeHolds, FgAck, Receiving
<1>5. Memory'
    BY DEF Inv, Memory, FgAck
<1> QED BY <1>1, <1>2, <1>3, <1>4, <1>5 DEF Inv

LEMMA FgSigpipeKeeps == ASSUME Inv, FgSigpipe PROVE Inv'
<1>1. Types'
    BY PsmInitAssumption DEF Inv, Types, TypeOK, FgSigpipe, Closed, pvars, bvars
<1>2. Phases'
    BY DEF Inv, Phases, FgSigpipe, Closed, bvars, BeforeAck, BgHandshake
<1>3. FilesStill'
    BY DEF FilesStill, FgSigpipe, BeforeAck, Receiving
<1>4. PipeHolds'
    BY DEF PipeHolds, FgSigpipe, Receiving
<1>5. Memory'
    BY DEF Memory, FgSigpipe
<1> QED BY <1>1, <1>2, <1>3, <1>4, <1>5 DEF Inv

LEMMA CloseFailsEnds ==
    ASSUME Types, FgCloseFails
    PROVE  /\ ends' \in [{"btf", "ftb"} -> [r : SUBSET Procs, w : SUBSET Procs]]
           /\ ends'.btf.r = ends.btf.r /\ ends'.ftb.w = ends.ftb.w
           /\ ends'.btf.w \subseteq ends.btf.w /\ ends'.ftb.r \subseteq ends.ftb.r
           /\ "bg" \in ends.btf.w => "bg" \in ends'.btf.w
<1>1. ends \in [{"btf", "ftb"} -> [r : SUBSET Procs, w : SUBSET Procs]]
    BY DEF Types
<1>2. CASE ends' = ends
    BY <1>1, <1>2
<1>3. CASE ends' = [ends EXCEPT !.btf.w = @ \ {"fg"}]
    BY <1>1, <1>3
<1>4. CASE ends' = [ends EXCEPT !.btf.w = @ \ {"fg"}, !.ftb.r = @ \ {"fg"}]
    BY <1>1, <1>4
<1> QED BY <1>2, <1>3, <1>4 DEF FgCloseFails

LEMMA FgCloseFailsKeeps == ASSUME Inv, FgCloseFails PROVE Inv'
<1>0. /\ ends' \in [{"btf", "ftb"} -> [r : SUBSET Procs, w : SUBSET Procs]]
      /\ "bg" \in ends.btf.w => "bg" \in ends'.btf.w
    BY CloseFailsEnds DEF Inv
<1>1. Types'
    <2>2. UNCHANGED <<pvars, fmem, ftail, got, bvars, btf, ftb, deaths>> /\ fg' = "failed"
        BY DEF FgCloseFails
    <2> QED BY <1>0, <2>2 DEF Inv, Types, TypeOK, pvars, bvars
<1>2. Phases'
    BY <1>0 DEF Inv, Phases, FgCloseFails, pvars, bvars, BeforeAck, Receiving
<1>3. FilesStill'
    BY DEF FilesStill, FgCloseFails, BeforeAck, Receiving
<1>4. PipeHolds'
    BY DEF PipeHolds, FgCloseFails, Receiving
<1>5. Memory'
    BY DEF Memory, FgCloseFails
<1> QED BY <1>1, <1>2, <1>3, <1>4, <1>5 DEF Inv

LEMMA FgRecvFailsKeeps == ASSUME Inv, FgRecvFails PROVE Inv'
<1>1. Types'
    BY DEF Inv, Types, TypeOK, FgRecvFails, pvars, bvars, pipes
<1>2. Phases'
    BY DEF Inv, Phases, FgRecvFails, pvars, bvars, pipes, BeforeAck, Receiving
<1>3. FilesStill'
    BY DEF FilesStill, FgRecvFails, BeforeAck, Receiving
<1>4. PipeHolds'
    BY DEF PipeHolds, FgRecvFails, Receiving
<1>5. Memory'
    BY DEF Memory, FgRecvFails
<1> QED BY <1>1, <1>2, <1>3, <1>4, <1>5 DEF Inv

LEMMA FgRecvTailFailsKeeps == ASSUME Inv, FgRecvTailFails PROVE Inv'
<1>0. /\ ends' \in [{"btf", "ftb"} -> [r : SUBSET Procs, w : SUBSET Procs]]
      /\ "bg" \in ends.btf.w => "bg" \in ends'.btf.w
    <2>1. ends \in [{"btf", "ftb"} -> [r : SUBSET Procs, w : SUBSET Procs]]
        BY DEF Inv, Types
    <2> QED BY <2>1 DEF FgRecvTailFails
<1>1. Types'
    <2>3. btf' \in Seq(Message) /\ Len(btf') <= PipeCap
        BY PsmInitAssumption DEF Inv, Types, TypeOK, FgRecvTailFails
    <2>2. UNCHANGED <<pvars, fmem, ftail, got, bvars, ftb, deaths>> /\ fg' = "failed"
        BY DEF FgRecvTailFails
    <2> QED BY <1>0, <2>2, <2>3 DEF Inv, Types, TypeOK, pvars, bvars
<1>2. Phases'
    BY <1>0 DEF Inv, Phases, FgRecvTailFails, pvars, bvars, BeforeAck, Receiving
<1>3. FilesStill'
    BY DEF FilesStill, FgRecvTailFails, BeforeAck, Receiving
<1>4. PipeHolds'
    BY DEF PipeHolds, FgRecvTailFails, Receiving
<1>5. Memory'
    BY DEF Memory, FgRecvTailFails
<1> QED BY <1>1, <1>2, <1>3, <1>4, <1>5 DEF Inv

LEMMA FgAckFailsKeeps == ASSUME Inv, FgAckFails PROVE Inv'
<1>0. /\ ends' \in [{"btf", "ftb"} -> [r : SUBSET Procs, w : SUBSET Procs]]
      /\ "bg" \in ends.btf.w => "bg" \in ends'.btf.w
    <2>1. ends \in [{"btf", "ftb"} -> [r : SUBSET Procs, w : SUBSET Procs]]
        BY DEF Inv, Types
    <2> QED BY <2>1 DEF FgAckFails
<1>1. Types'
    <2>3. ftb' \in Seq({0}) /\ Len(ftb') <= 1
        <3>1. ftb = <<>> /\ (ftb' = ftb \/ ftb' = Append(ftb, 0))
            BY DEF Inv, Phases, BeforeAck, FgAckFails
        <3>2. CASE ftb' = ftb
            BY <3>1, <3>2
        <3>3. CASE ftb' = Append(ftb, 0)
            BY <3>1, <3>3
        <3> QED BY <3>1, <3>2, <3>3
    <2>2. UNCHANGED <<pvars, fmem, ftail, got, bvars, btf, deaths>> /\ fg' = "failed"
        BY DEF FgAckFails
    <2> QED BY <1>0, <2>2, <2>3 DEF Inv, Types, TypeOK, pvars, bvars
<1>2. Phases'
    BY <1>0 DEF Inv, Phases, FgAckFails, pvars, bvars, BeforeAck, Receiving
<1>3. FilesStill'
    BY DEF FilesStill, FgAckFails, BeforeAck, Receiving
<1>4. PipeHolds'
    BY DEF PipeHolds, FgAckFails, Receiving
<1>5. Memory'
    BY DEF Memory, FgAckFails
<1> QED BY <1>1, <1>2, <1>3, <1>4, <1>5 DEF Inv

LEMMA FgReplayKeeps == ASSUME Inv, FgReplay PROVE Inv'
<1>1. Types'
    BY PsmInitAssumption DEF Inv, Types, TypeOK, Memory, FgReplay, pvars, bvars, pipes
<1>2. Phases'
    BY DEF Inv, Phases, FgReplay, pvars, bvars, pipes
<1>3. FilesStill'
    BY DEF FilesStill, FgReplay, BeforeAck, Receiving
<1>4. PipeHolds'
    BY DEF PipeHolds, FgReplay, Receiving
<1>5. Memory'
    BY DEF Inv, Memory, FgReplay
<1> QED BY <1>1, <1>2, <1>3, <1>4, <1>5 DEF Inv

LEMMA FgReturnKeeps == ASSUME Inv, FgReturn PROVE Inv'
<1>1. Types'
    BY PsmInitAssumption DEF Inv, Types, TypeOK, FgReturn, pvars, bvars, pipes
<1>2. Phases'
    BY DEF Inv, Phases, FgReturn, pvars, bvars, pipes, BeforeAck, Receiving
<1>3. FilesStill'
    BY DEF FilesStill, FgReturn, BeforeAck, Receiving
<1>4. PipeHolds'
    BY DEF PipeHolds, FgReturn, Receiving
<1>5. Memory'
    BY DEF Inv, Memory, FgReturn, pvars
<1> QED BY <1>1, <1>2, <1>3, <1>4, <1>5 DEF Inv

LEMMA BgStoreKeeps == ASSUME Inv, NEW q \in Regions, BgStore(q) PROVE Inv'
<1>1. Types'
    BY PsmInitAssumption DEF Inv, Types, TypeOK, Phases, BgStore, fvars, pipes
<1>2. Phases'
    BY DEF Inv, Phases, BgStore, fvars, BgHandshake
<1>3. FilesStill'
    BY DEF Inv, Phases, FilesStill, BgStore, fvars, BgHandshake
<1>4. PipeHolds'
    BY DEF Inv, PipeHolds, Received, Msg, BgStore, fvars, pipes
<1>5. Memory'
    BY DEF Inv, Memory, Received, BgStore, fvars, pipes
<1> QED BY <1>1, <1>2, <1>3, <1>4, <1>5 DEF Inv

LEMMA DieKeeps == ASSUME Inv, NEW procs \in SUBSET Procs, Die(procs) PROVE Inv'
<1>1. Types'
    <2>1. ends' \in [{"btf", "ftb"} -> [r : SUBSET Procs, w : SUBSET Procs]]
        BY DEF Inv, Types, Die
    <2>2. deaths' \in 0..MaxDeaths
        BY PsmInitAssumption DEF Inv, Types, TypeOK, Die
    <2>3. /\ UNCHANGED <<pvars, fmem, ftail, got, sent, todo, btf, ftb>>
          /\ fg' \in {fg, "dead"} /\ bg' \in {bg, "dead"}
        BY DEF Die
    <2> QED BY <2>1, <2>2, <2>3 DEF Inv, Types, TypeOK, pvars
<1>2. Phases'
    BY DEF Inv, Phases, Die, pvars, BeforeAck, Receiving
<1>3. FilesStill'
    BY DEF Inv, FilesStill, Die, pvars, BeforeAck, Receiving
<1>4. PipeHolds'
    BY DEF Inv, PipeHolds, Received, Msg, Die, pvars, Receiving
<1>5. Memory'
    BY DEF Inv, Memory, Received, Die, pvars
<1> QED BY <1>1, <1>2, <1>3, <1>4, <1>5 DEF Inv

LEMMA StutterKeeps == ASSUME Inv, UNCHANGED vars PROVE Inv'
<1>1. Types'
    BY DEF Inv, Types, TypeOK, vars, pvars, fvars, bvars, pipes
<1>2. Phases'
    BY DEF Inv, Phases, vars, pvars, fvars, bvars, pipes
<1>3. FilesStill'
    BY DEF Inv, FilesStill, vars, pvars, fvars, bvars, pipes
<1>4. PipeHolds'
    BY DEF Inv, PipeHolds, Received, Msg, vars, pvars, fvars, bvars, pipes
<1>5. Memory'
    BY DEF Inv, Memory, Received, vars, pvars, fvars, bvars, pipes
<1> QED BY <1>1, <1>2, <1>3, <1>4, <1>5 DEF Inv

LEMMA InitInv == Init => Inv
<1> SUFFICES ASSUME Init PROVE Inv
    OBVIOUS
<1>1. Types
    <2>1. btf \in Seq(Message) /\ ftb \in Seq({0}) /\ Len(btf) = 0 /\ Len(ftb) = 0
        BY DEF Init
    <2>2. ends \in [{"btf", "ftb"} -> [r : SUBSET Procs, w : SUBSET Procs]]
        BY DEF Init
    <2>3. file \in [Regions -> {NoFile} \cup 0..MaxOps] /\ fmem \in [Regions -> 0..MaxOps]
        BY PsmInitAssumption DEF Init
    <2>4. {image, table} \subseteq BOOLEAN
        BY DEF Init
    <2>5. /\ nlog \in 0..MaxOps /\ dtail \in 0..nlog /\ ftail \in 0..nlog /\ got \in 0..NumRegions
          /\ sent \in 0..(NumRegions + 2) /\ todo \subseteq Regions /\ deaths \in 0..MaxDeaths
          /\ fg = "init" /\ bg = "dead"
        BY PsmInitAssumption DEF Init, Sentinel
    <2> QED BY PsmInitAssumption, <2>1, <2>2, <2>3, <2>4, <2>5 DEF Types, TypeOK
<1>2. Phases /\ FilesStill /\ PipeHolds /\ Memory
    BY DEF Init, Phases, FilesStill, PipeHolds, Memory
<1> QED BY <1>1, <1>2 DEF Inv

LEMMA NextKeeps == Inv /\ [Next]_vars => Inv'
<1> SUFFICES ASSUME Inv, [Next]_vars PROVE Inv'
    OBVIOUS
<1>1. CASE FgStep
    BY <1>1, ForkKeeps, FgCloseKeeps, FgRecvKeeps, FgCopyKeeps, FgRecvTailKeeps, FgEofKeeps,
       FgAckKeeps, FgSigpipeKeeps, FgReplayKeeps, FgReturnKeeps, FgRestartKeeps DEF FgStep
<1>2. CASE BgStep
    <2>1. CASE BgSpin
        BY <2>1, StutterKeeps DEF BgSpin
    <2> QED
        BY <1>2, <2>1, BgChkptKeeps, BgReplaceKeeps, BgTableKeeps, BgConsumeKeeps, BgCommitKeeps,
           BgStoreKeeps, BgRecoverKeeps, BgNoTableKeeps, BgSendKeeps, BgSigpipeKeeps, BgCloseSendKeeps,
           BgAckedKeeps, BgNoAckKeeps, BgRedirectKeeps DEF BgStep
<1>3. CASE Operate
    BY <1>3, OperateKeeps
<1>4. CASE \E procs \in SUBSET Procs : Die(procs)
    BY <1>4, DieKeeps
<1>5. CASE Restore
    BY <1>5, RestoreKeeps
<1>6. CASE Gone
    BY <1>6, StutterKeeps DEF Gone
<1>7. CASE UNCHANGED vars
    BY <1>7, StutterKeeps
<1>8. CASE Fails
    BY <1>8, FgNoForkKeeps, FgNoRestartKeeps, FgCloseFailsKeeps, FgRecvFailsKeeps,
       FgRecvTailFailsKeeps, FgAckFailsKeeps, BgNoPinKeeps, BgErrorKeeps DEF Fails
<1> QED BY <1>1, <1>2, <1>3, <1>4, <1>5, <1>6, <1>7, <1>8 DEF Next

LEMMA InvAlways == Spec => []Inv
BY InitInv, NextKeeps, PTL DEF Spec

-----------------------------------------------------------------------------
(* Theorems.                                                               *)

\* The state of both processes, the pipes and the persistent memory keeps its types: no pipe
\* exceeds its capacity, at most one byte answers the background, the foreground never asks
\* for a region that does not exist, and no tail is behind the head.
THEOREM TypeCorrect == Spec => []TypeOK
<1>1. Inv => TypeOK
    BY DEF Inv, Types
<1> QED BY <1>1, InvAlways, PTL

\* When psm_init returns, after any number of deaths at any points, the application's memory
\* holds every committed operation exactly once.
THEOREM RecoveredExactlyTheorem == Spec => []RecoveredExactly
<1>1. Inv => RecoveredExactly
    BY DEF Inv, Memory, RecoveredExactly
<1> QED BY <1>1, InvAlways, PTL

\* The foreground meets an end of file (EINVAL) only when the background process is dead: one
\* that has closed its end has sent all that the foreground reads, and one that has returned an
\* error from psm_init keeps its end open.
THEOREM EofOnlyFromDeadTheorem == Spec => []EofOnlyFromDead
<1>1. ASSUME Inv PROVE EofOnlyFromDead
    <2>1. SUFFICES ASSUME fg \in {"recv", "recv_tail"}, btf = <<>>, ends.btf.w = {}
                   PROVE  bg = "dead"
        BY DEF EofOnlyFromDead
    <2>2. bg \in {"wait", "dead"}
        BY <1>1, <2>1 DEF Inv, Phases, BeforeAck, Receiving, BgHandshake
    <2>3. Received = sent /\ sent \in Nat
        BY <1>1, <2>1 DEF Inv, Types, TypeOK, Received
    <2>4. sent <= N + 1
        BY PsmInitAssumption, <1>1, <2>1, <2>3 DEF Inv, Memory, N
    <2> QED BY PsmInitAssumption, <1>1, <2>2, <2>4 DEF Inv, Phases, N
<1> QED BY <1>1, InvAlways, PTL

-----------------------------------------------------------------------------
(* Who holds which end of a pipe.                                          *)

PipeEnds ==
    /\ fg \notin {"close", "failed"} => "fg" \notin ends.btf.w /\ "fg" \notin ends.ftb.r
    /\ bg \notin {"recover", "failed"} => "bg" \notin ends.btf.r /\ "bg" \notin ends.ftb.w
    /\ bg \notin {"recover", "send", "failed"} => "bg" \notin ends.btf.w
    /\ "fg" \in ends.btf.r => fg \in Receiving \cup {"failed"}
    /\ "fg" \in ends.ftb.w => fg \in BeforeAck \cup {"failed"}
    /\ fg = "init" => bg = "dead"

LEMMA EndsNext == ASSUME Types, PipeEnds, [Next]_vars PROVE PipeEnds'
<1> USE DEF PipeEnds, Receiving, BeforeAck
<1>1. ends \in [{"btf", "ftb"} -> [r : SUBSET Procs, w : SUBSET Procs]]
    BY DEF Types
<1>2. CASE Fork \/ Operate
    <2>1. "fg" \notin ends.btf.r /\ "fg" \notin ends.ftb.w
        BY <1>2 DEF Fork, Operate
    <2> QED BY <1>2, <2>1 DEF Fork, Operate, pipes, bvars
<1>3. CASE BgChkpt \/ BgRedirect \/ BgNoPin \/ BgReplace \/ BgTable \/ BgConsume
           \/ BgCommit \/ BgSpin \/ \E r \in Regions : BgStore(r)
    BY <1>3 DEF BgChkpt, BgRedirect, BgNoPin, BgReplace, BgTable, BgConsume, BgCommit, BgSpin, BgStore,
       pvars, fvars, bvars, pipes, vars
<1>4. CASE BgSend
    BY <1>4 DEF BgSend, fvars
<1>5. CASE FgRecv \/ FgCopy \/ FgEof \/ FgRecvFails \/ FgNoFork
    BY <1>5 DEF FgRecv, FgCopy, FgEof, FgRecvFails, FgNoFork, bvars, pipes
<1>6. CASE FgReplay \/ FgReturn
    <2>1. "fg" \notin ends.btf.r /\ "fg" \notin ends.ftb.w
        BY <1>6 DEF FgReplay, FgReturn
    <2> QED BY <1>6, <2>1 DEF FgReplay, FgReturn, bvars, pipes
<1>7. CASE BgNoTable \/ BgSigpipe \/ BgNoAck \/ BgError
    <2>1. fg' = fg /\ bg' = "dead" /\ ends' = Closed(ends, "bg")
        BY <1>7 DEF BgNoTable, BgSigpipe, BgNoAck, BgError, BgDies, fvars
    <2> QED BY <1>1, <2>1 DEF Closed
<1>8. CASE BgRecover
    BY <1>1, <1>8 DEF BgRecover, fvars
<1>9. CASE BgCloseSend
    BY <1>1, <1>9 DEF BgCloseSend, fvars
<1>10. CASE BgAcked
    BY <1>1, <1>10 DEF BgAcked, fvars
<1>11. CASE FgClose
    BY <1>1, <1>11 DEF FgClose, bvars
<1>18. CASE FgCloseFails
    <2>1. /\ bg' = bg /\ fg' = "failed" /\ fg = "close" /\ ends'.btf.r = ends.btf.r
          /\ ends'.ftb.w = ends.ftb.w /\ ends'.btf.w \subseteq ends.btf.w
          /\ ends'.ftb.r \subseteq ends.ftb.r
        BY <1>18, CloseFailsEnds DEF FgCloseFails, bvars
    <2> QED BY <2>1
<1>12. CASE FgRecvTail \/ FgRecvTailFails
    BY <1>1, <1>12 DEF FgRecvTail, FgRecvTailFails, bvars
<1>13. CASE FgAck \/ FgAckFails
    BY <1>1, <1>13 DEF FgAck, FgAckFails, bvars
<1>14. CASE FgSigpipe
    <2>1. bg' = bg /\ fg' = "dead" /\ ends' = Closed(ends, "fg")
        BY <1>14 DEF FgSigpipe, bvars
    <2> QED BY <1>1, <2>1 DEF Closed
<1>15. ASSUME NEW procs \in SUBSET Procs, Die(procs) PROVE PipeEnds'
    <2>1. /\ fg' = IF "fg" \in procs THEN "dead" ELSE fg
          /\ bg' = IF "bg" \in procs THEN "dead" ELSE bg
          /\ ends'.btf.r = ends.btf.r \ procs /\ ends'.btf.w = ends.btf.w \ procs
          /\ ends'.ftb.r = ends.ftb.r \ procs /\ ends'.ftb.w = ends.ftb.w \ procs
        BY <1>1, <1>15 DEF Die
    <2> QED BY <2>1
<1>16. CASE Restore \/ FgRestart \/ FgNoRestart
    BY <1>16 DEF Restore, FgRestart, FgNoRestart, bvars, pipes
<1>17. CASE Gone \/ UNCHANGED vars
    BY <1>17 DEF Gone, vars, fvars, bvars, pipes
<1> QED BY <1>2, <1>3, <1>4, <1>5, <1>6, <1>7, <1>8, <1>9, <1>10, <1>11, <1>12, <1>13, <1>14, <1>15,
           <1>16, <1>17, <1>18 DEF Next, FgStep, BgStep, Fails

\* The foreground is blocked only by a background process that is about to send, or that has
\* returned from psm_init with an error, ...
LEMMA FgBlockedBy ==
    ASSUME Inv, PipeEnds, FgBlocked
    PROVE  bg = "failed" \/ (bg \in {"recover", "send"} /\ ~BgBlocked)
<1>1. fg \in {"recv", "recv_tail"} /\ btf = <<>> /\ ends.btf.w # {}
    BY DEF FgBlocked
<1>2. ends.btf.w \subseteq {"fg", "bg"}
    BY DEF Inv, Types, Procs
<1>3. "bg" \in ends.btf.w
    BY <1>1, <1>2 DEF PipeEnds
<1>4. bg \in {"recover", "send", "failed"}
    BY <1>3 DEF PipeEnds
<1>5. Len(btf) # PipeCap
    BY <1>1, PsmInitAssumption
<1> QED BY <1>4, <1>5 DEF BgBlocked

\* ... and the background process only by a foreground that is about to read or to answer, or
\* that has returned an error.
LEMMA BgBlockedBy ==
    ASSUME Inv, PipeEnds, BgBlocked
    PROVE  fg = "failed" \/ (fg \in FgHandshake /\ ~FgBlocked)
<1>1. ends.btf.r \subseteq {"fg", "bg"} /\ ends.ftb.w \subseteq {"fg", "bg"}
    BY DEF Inv, Types, Procs
<1>2. SUFFICES ASSUME fg # "failed" PROVE fg \in FgHandshake /\ ~FgBlocked
    OBVIOUS
<1>3. CASE bg = "send"
    <2>1. ends.btf.r # {} /\ Len(btf) = PipeCap
        BY <1>3 DEF BgBlocked
    <2>2. "fg" \in ends.btf.r
        BY <1>1, <1>3, <2>1 DEF PipeEnds
    <2>3. fg \in Receiving
        BY <1>2, <2>2 DEF PipeEnds
    <2>4. btf # <<>>
        BY <2>1, PsmInitAssumption
    <2> QED BY <2>3, <2>4 DEF Receiving, FgHandshake, FgBlocked
<1>4. CASE bg = "wait"
    <2>1. ends.ftb.w # {}
        BY <1>4 DEF BgBlocked
    <2>2. "fg" \in ends.ftb.w
        BY <1>1, <1>4, <2>1 DEF PipeEnds
    <2>3. fg \in BeforeAck
        BY <1>2, <2>2 DEF PipeEnds
    <2>4. ASSUME FgBlocked PROVE FALSE
        <3>1. fg \in {"recv", "recv_tail"} /\ btf = <<>>
            BY <2>4 DEF FgBlocked
        <3>2. Received = sent /\ sent = N + 2
            BY <1>4, <3>1, PsmInitAssumption DEF Inv, Phases, Types, TypeOK, Received, N
        <3> QED BY <3>1, <3>2, PsmInitAssumption DEF Inv, Memory, N
    <2> QED BY <2>3, <2>4 DEF BeforeAck, Receiving, FgHandshake
<1> QED BY <1>3, <1>4 DEF BgBlocked

\* In the handshake of psm_init with dr_client_main no process ever blocks on itself, on a dead
\* one or on one that is blocked: closing the unused ends (undo_fg.h, instrument.cc) and the
\* order of the messages rule it out, whichever system calls fail.  Only a peer that lives on
\* after its psm_init has returned an error can block it.
THEOREM NoCircularWaitTheorem == Spec => []NoCircularWait
<1>1. Init => PipeEnds
    BY DEF Init, PipeEnds
<1>2. Inv => Types
    BY DEF Inv
<1>3. Types /\ PipeEnds /\ [Next]_vars => PipeEnds'
    BY EndsNext
<1>4. Inv /\ PipeEnds => NoCircularWait
    BY FgBlockedBy, BgBlockedBy DEF NoCircularWait
<1> QED BY <1>1, <1>2, <1>3, <1>4, InvAlways, PTL DEF Spec
=============================================================================
