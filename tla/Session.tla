------------------------------ MODULE Session ------------------------------
(***************************************************************************)
(* One run of the program: a sender and the receiver it starts over ssh,   *)
(* composed from modules Sender and Receiver over the shared Connection.   *)
(* Session's properties are about both ends at once: what the printed      *)
(* result says of the receiver's disk, what a crash or an abort may leave  *)
(* there, who may write to the connection, and that the session ends.      *)
(***************************************************************************)
EXTENDS Sender, Receiver

vars == <<connVars, senderVars, receiverVars>>

Init == ConnInit /\ SenderInit /\ ReceiverInit

Ended == ~SenderUp /\ ~ReceiverUp
Finished == Ended /\ UNCHANGED vars

Next ==
    \/ (SenderStep \/ SenderCrash) /\ UNCHANGED receiverVars
    \/ (ReceiverStep \/ ReceiverCrash) /\ UNCHANGED senderVars
    \/ Finished

(* The Go scheduler runs every goroutine that can run, and the pipes and the  *)
(* file system answer.  Crashes are not fair.                                 *)
Fairness ==
    /\ WF_vars(SenderStep /\ UNCHANGED receiverVars)
    /\ WF_vars(ReceiverStep /\ UNCHANGED senderVars)

Spec == Init /\ [][Next]_vars /\ Fairness

TypeOK == ConnTypeOK /\ SenderTypeOK /\ ReceiverTypeOK

-----------------------------------------------------------------------------
GoLimitHolders == {f \in Files : worker[f] \in {"patch", "lock", "send", "unlock", "release"}}
RebuildHolders == {f \in Files : rebuild[f] \notin {"idle", "spawning", "leave", "done"}}
ActiveWorkers  == {f \in Files : worker[f] \notin {"idle", "done"}}
ActiveRebuilds == {f \in Files : rebuild[f] \notin {"idle", "done"}}
Aborted == sPc \in {"shutdown", "sendShutdown", "reap"} /\ report = {}

(* The two goroutine limits hold at every moment: at most SendMax source      *)
(* files are in memory (goLimit) and at most RebuildMax rebuilds are writing  *)
(* (rebuildGoLimit), however the tokens are handed round.                     *)
ConcurrencyBounded ==
    /\ Cardinality(GoLimitHolders) <= SendMax
    /\ Cardinality(RebuildHolders) <= RebuildMax

(* Two goroutines of the sender are inside conn.Send together only when       *)
(* ProcessMsg gave up early and Start's unlocked SHUTDOWN is one of them:     *)
(* the mutex orders the patches, waitGroup orders the END behind them.        *)
SendsOverlapOnlyOnAbort == raced # {} => Main \in raced /\ Aborted

(* A printed result is the truth: it counts every patch that was sent once,   *)
(* as a success or a failure, and the receiver's own tally says the same.     *)
ReportExact ==
    \A r \in report :
        /\ r = syncResult
        /\ r.succNum + Cardinality(r.failed) = Cardinality({f \in Files : worker[f] = "done"})

(* When the result is printed the receiver has nothing left to do: every      *)
(* transferred file that is not listed as failed holds the sender's bytes,    *)
(* and no goroutine of either side is still at work.                          *)
ReportFinal ==
    \A r \in report :
        /\ ActiveWorkers = {} /\ ActiveRebuilds = {} /\ remover # "run"
        /\ \A f \in Files : worker[f] = "done" /\ f \notin r.failed => content[f] = "new"

(* The mtime of the sender is put on a file only when the file holds the      *)
(* bytes that were verified, and stays on no other, whichever writes fail and *)
(* wherever either process ends: otherwise the next session's quick check     *)
(* would skip a broken file.                                                  *)
StampedIsVerified == \A f \in stamped : content[f] = "new"

(* A result without failures means that the receiver's tree is up to date,    *)
(* even where Chtimes failed, but for the files that are in no list of the    *)
(* result: those that Stat could not look up (receiver.go:308) and the        *)
(* sender's symlinks (sender.go:147).                                         *)
SkippedByStat(f) == "stat" \in Faults /\ f \notin fidPathMap
SkippedAsSymlink(f) == "symlink" \in Faults /\ f \in fidPathMap /\ worker[f] = "idle"

CleanReportMirrors ==
    \A r \in report : r.failed = {} =>
        \A f \in Files : content[f] = "new" \/ SkippedByStat(f) \/ SkippedAsSymlink(f)

(* Once the sender prints the result nothing changes on the receiver's disk.  *)
DiskFrozenAfterReport ==
    [][report # {} => UNCHANGED <<content, stamped, syncResult>>]_vars

(* Every session ends, whatever fails, unless the unlocked SHUTDOWN raced     *)
(* with a patch: then the frame may be lost and both processes wait forever.  *)
EndsUnlessRaced == [](raced = {}) => <>Ended

(* What each goroutine waits for: room in the pipe it writes to, a message,   *)
(* a token, the mutex, a counter that comes to zero, the end of the other     *)
(* process.  Whatever is not waiting can run.                                 *)
RoomToReceiver == ReceiverUp => Len(toR) < PipeCap
RoomToSender   == SenderUp => Len(toS) < PipeCap

MainCanMove ==
    \/ sPc \in {"start", "dirInfo", "sendEnd", "sendShutdown"} /\ RoomToReceiver
    \/ sPc = "recv" /\ (toS # <<>> \/ ~ReceiverUp)
    \/ sPc \in {"range", "shutdown"}
    \/ sPc = "acquire" /\ GoLimitFree /\ \E f \in Files : worker[f] = "spawning"
    \/ sPc = "wait" /\ AllPatchesSent
    \/ sPc = "reap" /\ subProcessDone

WorkerCanMove(f) ==
    \/ worker[f] \in {"patch", "unlock", "release", "leave"}
    \/ worker[f] = "lock" /\ MutexFree
    \/ worker[f] = "send" /\ RoomToReceiver

SenderCanMove ==
    /\ SenderUp
    /\ \/ MainCanMove
       \/ ~subProcessDone /\ ~ReceiverUp
       \/ \E f \in Files : WorkerCanMove(f)

LoopCanMove ==
    \/ rPc = "recv" /\ (toR # <<>> \/ ~SenderUp)
    \/ rPc = "check" /\ (unchecked # {} \/ AllSumsMade)
    \/ rPc = "sendSumList" /\ RoomToSender
    \/ rPc = "acquire" /\ RebuildLimitFree /\ \E f \in Files : rebuild[f] = "spawning"
    \/ rPc = "endWait" /\ AllTasksDone /\ RoomToSender

ReceiverCanMove ==
    /\ ReceiverUp
    /\ \/ LoopCanMove
       \/ fidPathMap # fileSumList \/ remover = "run"
       \/ \E f \in Files : rebuild[f] \notin {"idle", "spawning", "done"}

(* The two processes, their goroutines, the pipes between them, the tokens    *)
(* and the mutex never wait for each other in a circle: a session in which    *)
(* nothing can move has ended, or Start waits for a receiver that waits for   *)
(* the SHUTDOWN that was lost in a race.                                      *)
OnlyALostShutdownBlocks ==
    \/ SenderCanMove \/ ReceiverCanMove \/ Ended
    \/ Main \in raced /\ MainAt("reap") /\ LoopAt("recv") /\ toR = <<>>

(* What a session has still to do, as a set from which every step takes       *)
(* something away.  The messages of its conversation:                         *)
Cmds == {toR[i].cmd : i \in 1..Len(toR)}

DirInfoAhead == sPc \in {"start", "dirInfo"} \/ "DIR_INFO" \in Cmds
CheckAhead   == DirInfoAhead \/ rPc = "check"
ReplyAhead   == CheckAhead \/ rPc = "sendSumList"
SumListAhead == ReplyAhead \/ (toS # <<>> /\ Head(toS).cmd = "SUMLIST")
WaitAhead    == SumListAhead \/ sPc \in {"range", "acquire"}
EnterAhead   == WaitAhead \/ sPc = "wait"
LeaveAhead   == EnterAhead \/ sPc = "sendEnd"
EndAhead     == LeaveAhead \/ "END" \in Cmds
BEndAhead    == EndAhead \/ rPc = "endWait"

When(stage, ahead) == IF ahead THEN {stage} ELSE {}

Stages ==
    When("start", sPc = "start") \cup When("init", sPc = "start" \/ "INITPARAM" \in Cmds)
    \cup When("dirInfo", sPc \in {"start", "dirInfo"}) \cup When("check", DirInfoAhead)
    \cup When("endCheck", CheckAhead) \cup When("sumList", ReplyAhead)
    \cup When("range", SumListAhead) \cup When("wait", WaitAhead)
    \cup When("enterEnd", EnterAhead) \cup When("leaveEnd", LeaveAhead)
    \cup When("endWait", EndAhead) \cup When("bEnd", BEndAhead)
    \cup When("shutdown", sPc \notin {"shutdown", "sendShutdown", "reap"})
    \cup When("enterShutdown", sPc \notin {"sendShutdown", "reap"})
    \cup When("leaveShutdown", sPc # "reap")
    \cup When("subProcess", ~subProcessDone)
    \cup When("sender", SenderUp) \cup When("receiver", ReceiverUp)
    \cup When("remove", remover = "idle") \cup When("removed", remover # "done")

(* and the files, each with its way through the goroutines that serve it.     *)
WorkerWay  == <<"idle", "spawning", "patch", "lock", "send", "unlock", "release", "leave", "done">>
RebuildWay == <<"idle", "spawning", "open", "write", "flush", "verify", "chtimes", "count",
                "fail", "release", "leave", "done">>
Way(pcs, way) ==
    {p \in Files \X (1..Len(way)) : \E j \in 1..(p[2] - 1) : pcs[p[1]] = way[j]}

ToCheck == IF DirInfoAhead THEN Files ELSE unchecked
ToSend  == IF SumListAhead THEN Files ELSE todo

Work ==
    ({"stage"} \X Stages)
    \cup ({"check"} \X ToCheck)
    \cup ({"sum"} \X (Files \ fileSumList))
    \cup ({"range"} \X ToSend)
    \cup ({"worker"} \X Way(worker, WorkerWay))
    \cup ({"rebuild"} \X Way(rebuild, RebuildWay))
    \cup ({"remove"} \X toVisit)

(* No step of a session is taken twice: nothing is asked for, checked, sent,  *)
(* rebuilt or removed again, whatever fails, and so a session of N files has  *)
(* a bounded number of steps.                                                 *)
EveryStepUsesUp == [][Cardinality(Work') < Cardinality(Work)]_vars

-----------------------------------------------------------------------------
(* The session implements SyncPromise: a file is open from the moment its     *)
(* entry starts a patch goroutine until its rebuild has recorded an outcome.  *)
Settled ==
    [f \in Files |->
        IF f \in syncResult.failed THEN "failed"
        ELSE IF rebuild[f] \in {"release", "leave", "done"} THEN "ok"
        ELSE IF worker[f] = "idle" THEN "skipped" ELSE "open"]

Promise == INSTANCE SyncPromise WITH settled <- Settled, removed <- syncResult.removed

(* Every step of the two processes is a step of SyncPromise or changes        *)
(* nothing the user can see.                                                  *)
KeepsPromise == Promise!Spec
=============================================================================
