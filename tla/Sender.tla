------------------------------- MODULE Sender -------------------------------
(***************************************************************************)
(* The sending side (sender/sender.go): Start, DoSync and ProcessMsg run   *)
(* by the main goroutine, and one goroutine per requested file that makes  *)
(* its patch and sends it under the mutex.  The actions leave the          *)
(* receiver's variables alone; module Session says so.                     *)
(***************************************************************************)
EXTENDS Connection

CONSTANT SendMax   (* sender.goMaxNum: patch goroutines at a time *)

ASSUME SenderAssumption == SendMax \in Nat \ {0}

VARIABLES
    sPc,        (* where the main goroutine is                                 *)
    todo,       (* entries of fileSumList.List the range loop has not visited  *)
    worker,     (* per file, where its patch goroutine is                      *)
    waitGroup,  (* the counter of waitGroup                                    *)
    goLimit,    (* the tokens in the channel goLimit                           *)
    mutex,      (* the goroutine that holds mutex, as a set                    *)
    subProcessDone,  (* cmd.Run has returned without error                     *)
    report      (* the SyncResult the sender has printed, as a set             *)

senderVars == <<sPc, todo, worker, waitGroup, goLimit, mutex, subProcessDone, report>>

SenderPcs == {"start", "dirInfo", "recv", "range", "acquire", "wait", "sendEnd",
              "shutdown", "sendShutdown", "reap"}
WorkerPcs == {"idle", "spawning", "patch", "lock", "send", "unlock", "release", "leave", "done"}

SenderTypeOK ==
    /\ sPc \in SenderPcs
    /\ todo \in SUBSET Files
    /\ worker \in [Files -> WorkerPcs]
    /\ waitGroup \in 0..Cardinality(Files)
    /\ goLimit \in 0..SendMax
    /\ mutex \in SUBSET Files
    /\ subProcessDone \in BOOLEAN
    /\ report \in SUBSET Results

SenderInit ==
    /\ sPc = "start"
    /\ todo = {} /\ report = {}
    /\ worker = [f \in Files |-> "idle"]
    /\ waitGroup = 0 /\ goLimit = 0 /\ mutex = {}
    /\ subProcessDone = FALSE

MainAt(pc) == SenderUp /\ sPc = pc
MainGoto(pc) == sPc' = pc /\ sender' = sender
Panic == sender' = "crashed" /\ sPc' = sPc

-----------------------------------------------------------------------------
(* Start marshals INITPARAM, which fails for a base path that is not UTF-8,   *)
(* and sends it.  Its error, or its panic when Send fails, ends the process.  *)
SendInitParam ==
    /\ MainAt("start")
    /\ \/ /\ \E delete \in BOOLEAN : WriteToReceiver(InitParamMsg(delete))
          /\ MainGoto("dirInfo")
       \/ /\ "badname" \in Faults \/ ~ReceiverUp
          /\ Panic /\ UNCHANGED toR
    /\ UNCHANGED <<receiver, toS, inSend, raced, todo, worker, waitGroup, goLimit, mutex,
                   subProcessDone, report>>

(* DoSync: walk the tree, send DIR_INFO.  Either may fail; Start drops the    *)
(* error and goes on to SHUTDOWN.                                             *)
SendDirInfo ==
    /\ MainAt("dirInfo")
    /\ \/ WriteToReceiver(PlainMsg("DIR_INFO")) /\ MainGoto("recv")
       \/ /\ "readdir" \in Faults \/ ~ReceiverUp
          /\ MainGoto("shutdown") /\ UNCHANGED toR
    /\ UNCHANGED <<receiver, toS, inSend, raced, todo, worker, waitGroup, goLimit, mutex,
                   subProcessDone, report>>

(* ProcessMsg, conn.Recv: the list of requested files, the result, or EOF.    *)
SenderRecv ==
    /\ MainAt("recv")
    /\ \/ SenderReads("SUMLIST") /\ MainGoto("range")
          /\ todo' = Head(toS).fids /\ UNCHANGED report
       \/ SenderReads("B_END") /\ MainGoto("shutdown")
          /\ report' = report \cup {Head(toS).result} /\ UNCHANGED todo
       \/ SenderAtEOF /\ MainGoto("shutdown") /\ UNCHANGED <<toS, report, todo>>
    /\ UNCHANGED <<receiver, toR, inSend, raced, worker, waitGroup, goLimit, mutex,
                   subProcessDone>>

(* One turn of the range loop.  A file that is gone makes ProcessMsg return   *)
(* at once, whatever the goroutines are doing; a symlink is skipped.          *)
NextSumList ==
    /\ MainAt("range")
    /\ \/ \E f \in todo :
             /\ todo' = todo \ {f}
             /\ \/ /\ MainGoto("acquire") /\ waitGroup' = waitGroup + 1
                   /\ worker' = [worker EXCEPT ![f] = "spawning"]
                \/ /\ "vanish" \in Faults
                   /\ MainGoto("shutdown") /\ UNCHANGED <<waitGroup, worker>>
                \/ /\ "symlink" \in Faults
                   /\ MainGoto("range") /\ UNCHANGED <<waitGroup, worker>>
       \/ todo = {} /\ MainGoto("wait") /\ UNCHANGED <<todo, waitGroup, worker>>
    /\ UNCHANGED <<receiver, toR, toS, inSend, raced, goLimit, mutex, subProcessDone, report>>

GoLimitOffByOne == goLimit <= SendMax
GoLimitFree == goLimit < SendMax

AcquireGoLimit(f) ==
    /\ MainAt("acquire") /\ worker[f] = "spawning"
    /\ GoLimitFree
    /\ goLimit' = goLimit + 1
    /\ worker' = [worker EXCEPT ![f] = "patch"]
    /\ MainGoto("range")
    /\ UNCHANGED <<receiver, toR, toS, inSend, raced, todo, waitGroup, mutex, subProcessDone,
                   report>>

NotWaitingForPatches == TRUE
AllPatchesSent == waitGroup = 0

(* waitGroup.Wait(), then MSG_A_END.                                          *)
EnterEnd ==
    /\ MainAt("wait") /\ AllPatchesSent
    /\ EnterSend(Main) /\ MainGoto("sendEnd")
    /\ UNCHANGED <<receiver, toR, toS, todo, worker, waitGroup, goLimit, mutex,
                   subProcessDone, report>>

LeaveEnd ==
    /\ MainAt("sendEnd")
    /\ LeaveSend(Main, PlainMsg("END")) /\ MainGoto("recv")
    /\ UNCHANGED <<receiver, toS, raced, todo, worker, waitGroup, goLimit, mutex,
                   subProcessDone, report>>

(* Start after DoSync, however DoSync ended: SHUTDOWN, without the mutex.     *)
EnterShutdown ==
    /\ MainAt("shutdown")
    /\ EnterSend(Main) /\ MainGoto("sendShutdown")
    /\ UNCHANGED <<receiver, toR, toS, todo, worker, waitGroup, goLimit, mutex,
                   subProcessDone, report>>

LeaveShutdown ==
    /\ MainAt("sendShutdown")
    /\ \/ LeaveSend(Main, PlainMsg("SHUTDOWN")) /\ MainGoto("reap")
       \/ ~ReceiverUp /\ Panic /\ UNCHANGED <<toR, inSend>>
    /\ UNCHANGED <<receiver, toS, raced, todo, worker, waitGroup, goLimit, mutex,
                   subProcessDone, report>>

(* The goroutine around cmd.Run: a subprocess that failed is a panic; one     *)
(* that ended closes the pipe the sender reads from.                          *)
RunReturns ==
    /\ SenderUp /\ ~subProcessDone /\ ~ReceiverUp
    /\ \/ receiver = "exited" /\ subProcessDone' = TRUE /\ sender' = sender
       \/ receiver = "crashed" /\ sender' = "crashed" /\ UNCHANGED subProcessDone
    /\ toS' = <<>>
    /\ UNCHANGED <<receiver, toR, inSend, raced, sPc, todo, worker, waitGroup, goLimit,
                   mutex, report>>

(* <-subProcessDone, then Start returns and main ends the process.            *)
Reap ==
    /\ MainAt("reap") /\ subProcessDone
    /\ sender' = "done"
    /\ UNCHANGED <<receiver, toR, toS, inSend, raced, senderVars>>

-----------------------------------------------------------------------------
WorkerAt(f, pc) == SenderUp /\ worker[f] = pc
WorkerGoto(f, pc) == worker' = [worker EXCEPT ![f] = pc]

(* MakePatch and Marshal: a file that cannot be read panics the process.      *)
MakePatch(f) ==
    /\ WorkerAt(f, "patch")
    /\ \/ WorkerGoto(f, "lock") /\ sender' = sender
       \/ "unreadable" \in Faults /\ sender' = "crashed" /\ UNCHANGED worker
    /\ UNCHANGED <<receiver, toR, toS, inSend, raced, sPc, todo, waitGroup, goLimit, mutex,
                   subProcessDone, report>>

MutexIgnored == TRUE
MutexFree == mutex = {}

LockAndEnterSend(f) ==
    /\ WorkerAt(f, "lock") /\ MutexFree
    /\ mutex' = mutex \cup {f}
    /\ EnterSend(f) /\ WorkerGoto(f, "send")
    /\ UNCHANGED <<sender, receiver, toR, toS, sPc, todo, waitGroup, goLimit, subProcessDone,
                   report>>

(* A failing Send is only printed.                                            *)
LeavePatchSend(f) ==
    /\ WorkerAt(f, "send")
    /\ LeaveSend(f, PatchListMsg(f)) /\ WorkerGoto(f, "unlock")
    /\ UNCHANGED <<sender, receiver, toS, raced, sPc, todo, waitGroup, goLimit, mutex,
                   subProcessDone, report>>

MutexKept(f) ==
    /\ WorkerAt(f, "unlock") /\ WorkerGoto(f, "release")
    /\ UNCHANGED <<connVars, sPc, todo, waitGroup, goLimit, mutex, subProcessDone, report>>

(* The deferred calls, last one first.                                        *)
Unlock(f) ==
    /\ WorkerAt(f, "unlock")
    /\ mutex' = mutex \ {f} /\ WorkerGoto(f, "release")
    /\ UNCHANGED <<connVars, sPc, todo, waitGroup, goLimit, subProcessDone, report>>

ReleaseGoLimit(f) ==
    /\ WorkerAt(f, "release")
    /\ goLimit' = goLimit - 1 /\ WorkerGoto(f, "leave")
    /\ UNCHANGED <<connVars, sPc, todo, waitGroup, mutex, subProcessDone, report>>

PatchDone(f) ==
    /\ WorkerAt(f, "leave")
    /\ waitGroup' = waitGroup - 1 /\ WorkerGoto(f, "done")
    /\ UNCHANGED <<connVars, sPc, todo, goLimit, mutex, subProcessDone, report>>

(* The process is killed, or the link breaks: what was in the pipe may be     *)
(* lost from some point on.                                                   *)
SenderCrash ==
    /\ "crash" \in Faults /\ SenderUp
    /\ sender' = "crashed"
    /\ \E n \in 0..Len(toR) : toR' = SubSeq(toR, 1, n)
    /\ UNCHANGED <<receiver, toS, inSend, raced, senderVars>>

-----------------------------------------------------------------------------
MainStep ==
    \/ SendInitParam \/ SendDirInfo \/ SenderRecv \/ NextSumList
    \/ \E f \in Files : AcquireGoLimit(f)
    \/ EnterEnd \/ LeaveEnd \/ EnterShutdown \/ LeaveShutdown \/ Reap

WorkerStep(f) ==
    \/ MakePatch(f) \/ LockAndEnterSend(f) \/ LeavePatchSend(f)
    \/ Unlock(f) \/ ReleaseGoLimit(f) \/ PatchDone(f)

SenderStep == MainStep \/ RunReturns \/ \E f \in Files : WorkerStep(f)
=============================================================================
