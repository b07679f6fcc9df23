------------------------------ MODULE Receiver ------------------------------
(***************************************************************************)
(* The receiving side (receiver/receiver.go, receiver/removefile.go) and   *)
(* the files it writes: the main goroutine in ProcessMsg and               *)
(* FileListCheck, one goroutine per file whose block sums are made, one    *)
(* RebuildFile goroutine per patch, and the RemoveFiles goroutine.  The    *)
(* content of a file is abstracted to what the sync is about:              *)
(*   "absent", "old" (what was there), "new" (the bytes the sender         *)
(*   hashed), "torn" (anything else a rewrite in place can leave).         *)
(* The actions leave the sender's variables alone; module Session says so. *)
(***************************************************************************)
EXTENDS Connection

CONSTANT RebuildMax   (* receiver.goMaxNum: RebuildFile goroutines at a time *)

ASSUME ReceiverAssumption == RebuildMax \in Nat \ {0}

VARIABLES
    rPc,            (* where the main goroutine is                             *)
    initParam,      (* "nil" before INITPARAM, then what its Delete flag says  *)
    unchecked,      (* files FileListCheck has still to visit                  *)
    fidPathMap,     (* the fids it has registered as to be transferred         *)
    fileSumList,    (* those whose entry is in the list; the rest are being summed *)
    rebuild,        (* per file, where its RebuildFile goroutine is            *)
    rebuildGoLimit, (* the tokens in the channel rebuildGoLimit                *)
    taskWaitGroup,  (* the counter of taskWaitGroup                            *)
    remover,        (* where the RemoveFiles goroutine is                      *)
    toVisit,        (* the files not in pathMap that its walk has still to meet *)
    syncResult,
    content,        (* per file, what is on the receiver's disk under its path *)
    stamped         (* the files whose mtime and size there are the sender's   *)

taskVars == <<rebuild, rebuildGoLimit, taskWaitGroup, remover, toVisit, syncResult>>
diskVars == <<content, stamped>>
listVars == <<unchecked, fidPathMap, fileSumList>>
receiverVars == <<rPc, initParam, listVars, taskVars, diskVars>>

ReceiverPcs == {"recv", "check", "sendSumList", "acquire", "endWait"}
RebuildPcs  == {"idle", "spawning", "open", "write", "flush", "verify", "chtimes", "count",
                "fail", "release", "leave", "done"}
NoResult == [succNum |-> 0, failed |-> {}, removed |-> {}]

ReceiverTypeOK ==
    /\ rPc \in ReceiverPcs
    /\ initParam \in {"nil", "keep", "delete"}
    /\ unchecked \in SUBSET Files
    /\ fidPathMap \in SUBSET Files
    /\ fileSumList \in SUBSET fidPathMap
    /\ rebuild \in [Files -> RebuildPcs]
    /\ rebuildGoLimit \in 0..RebuildMax
    /\ taskWaitGroup \in 0..(Cardinality(Files) + 1)
    /\ remover \in {"idle", "run", "done"}
    /\ toVisit \in SUBSET Extra
    /\ syncResult \in Results
    /\ content \in [Files -> {"absent", "old", "new", "torn"}]
    /\ stamped \in SUBSET Files

ReceiverInit ==
    /\ rPc = "recv" /\ initParam = "nil"
    /\ unchecked = {} /\ fidPathMap = {} /\ fileSumList = {}
    /\ rebuild = [f \in Files |-> "idle"]
    /\ rebuildGoLimit = 0 /\ taskWaitGroup = 0
    /\ remover = "idle" /\ toVisit = Extra
    /\ syncResult = NoResult
    /\ content \in [Files -> {"absent", "old", "new"}]
    /\ stamped \in SUBSET {f \in Files : content[f] = "new"}

LoopAt(pc) == ReceiverUp /\ rPc = pc
LoopGoto(pc) == rPc' = pc /\ receiver' = receiver
Exit == receiver' = "exited" /\ rPc' = rPc

-----------------------------------------------------------------------------
(* ProcessMsg: one action per message it can read.                            *)
RecvInitParam ==
    /\ LoopAt("recv") /\ ReceiverReads("INITPARAM")
    /\ initParam' = IF Head(toR).delete THEN "delete" ELSE "keep"
    /\ \/ LoopGoto("recv") /\ syncResult' = NoResult
       \/ "badpath" \in Faults /\ Exit /\ UNCHANGED syncResult
    /\ UNCHANGED <<sender, toS, inSend, raced, listVars, diskVars,
                   rebuild, rebuildGoLimit, taskWaitGroup, remover, toVisit>>

RecvDirInfo ==
    /\ LoopAt("recv") /\ ReceiverReads("DIR_INFO")
    /\ LoopGoto("check") /\ unchecked' = Files
    /\ UNCHANGED <<sender, toS, inSend, raced, initParam, fidPathMap, fileSumList, taskVars,
                   diskVars>>

(* A patch list: count the task, then wait for a token before reading on.     *)
RecvPatchList ==
    /\ LoopAt("recv") /\ ReceiverReads("PATCHLIST")
    /\ LoopGoto("acquire")
    /\ taskWaitGroup' = taskWaitGroup + 1
    /\ rebuild' = [rebuild EXCEPT ![Head(toR).fid] = "spawning"]
    /\ UNCHANGED <<sender, toS, inSend, raced, initParam, listVars, diskVars,
                   rebuildGoLimit, remover, toVisit, syncResult>>

RebuildLimitOffByOne == rebuildGoLimit <= RebuildMax
RebuildLimitFree == rebuildGoLimit < RebuildMax

AcquireRebuildLimit(f) ==
    /\ LoopAt("acquire") /\ rebuild[f] = "spawning"
    /\ RebuildLimitFree
    /\ rebuildGoLimit' = rebuildGoLimit + 1
    /\ rebuild' = [rebuild EXCEPT ![f] = "open"]
    /\ LoopGoto("recv")
    /\ UNCHANGED <<sender, toR, toS, inSend, raced, initParam, listVars, diskVars,
                   taskWaitGroup, remover, toVisit, syncResult>>

RecvEnd ==
    /\ LoopAt("recv") /\ ReceiverReads("END")
    /\ LoopGoto("endWait")
    /\ UNCHANGED <<sender, toS, inSend, raced, initParam, listVars, taskVars, diskVars>>

NotWaitingForTasks == TRUE
AllTasksDone == taskWaitGroup = 0

(* taskWaitGroup.Wait(), marshal syncResult, send it.                         *)
SendBEnd ==
    /\ LoopAt("endWait") /\ AllTasksDone
    /\ WriteToSender(BEndMsg(syncResult)) /\ LoopGoto("recv")
    /\ UNCHANGED <<sender, toR, inSend, raced, initParam, listVars, taskVars, diskVars>>

(* The name of a removed file that is not UTF-8 cannot be marshalled:         *)
(* ProcessMsg returns without a reply, although everything has been done.     *)
ReplyFails ==
    /\ LoopAt("endWait") /\ AllTasksDone
    /\ "badname" \in Faults /\ syncResult.removed # {}
    /\ Exit
    /\ UNCHANGED <<sender, toR, toS, inSend, raced, initParam, listVars, taskVars, diskVars>>

(* SHUTDOWN, a frame that cannot be decoded, or end of file: ProcessMsg       *)
(* returns and the process exits under whatever tasks are still running.      *)
ReceiverExit ==
    /\ LoopAt("recv")
    /\ \/ ReceiverReads("SHUTDOWN")
       \/ ReceiverReads("GARBAGE")
       \/ ReceiverAtEOF /\ UNCHANGED toR
    /\ Exit
    /\ UNCHANGED <<sender, toS, inSend, raced, initParam, listVars, taskVars, diskVars>>

-----------------------------------------------------------------------------
(* FileListCheck.  What its Stat finds decides: a missing file is requested   *)
(* with an empty entry, one with another mtime or size goes to a goroutine    *)
(* that sums its blocks, an equal one is up to date, and any other error      *)
(* skips the file without a trace in the result.                              *)
CheckFile(f) ==
    /\ LoopAt("check") /\ f \in unchecked
    /\ unchecked' = unchecked \ {f}
    /\ \/ /\ content[f] = "absent"
          /\ fidPathMap' = fidPathMap \cup {f}
          /\ fileSumList' = fileSumList \cup {f}
       \/ /\ content[f] # "absent" /\ f \notin stamped
          /\ fidPathMap' = fidPathMap \cup {f}
          /\ UNCHANGED fileSumList
       \/ /\ f \in stamped \/ "stat" \in Faults
          /\ UNCHANGED <<fidPathMap, fileSumList>>
    /\ UNCHANGED <<connVars, rPc, initParam, taskVars, diskVars>>

(* The goroutine of FileListCheck: MakeSumList, then append under the mutex.  *)
SumListMade(f) ==
    /\ ReceiverUp /\ f \in fidPathMap \ fileSumList
    /\ fileSumList' = fileSumList \cup {f}
    /\ UNCHANGED <<connVars, rPc, initParam, unchecked, fidPathMap, taskVars, diskVars>>

NotWaitingForSums == TRUE
AllSumsMade == fileSumList = fidPathMap

(* waitGroup.Wait(); with Delete, RemoveFiles starts before the reply is sent. *)
EndCheck ==
    /\ LoopAt("check") /\ unchecked = {} /\ AllSumsMade
    /\ LoopGoto("sendSumList")
    /\ IF initParam = "delete"
       THEN remover' = "run" /\ taskWaitGroup' = taskWaitGroup + 1
       ELSE UNCHANGED <<remover, taskWaitGroup>>
    /\ UNCHANGED <<sender, toR, toS, inSend, raced, initParam, listVars, diskVars,
                   rebuild, rebuildGoLimit, toVisit, syncResult>>

SendSumList ==
    /\ LoopAt("sendSumList")
    /\ WriteToSender(SumListMsg(fileSumList)) /\ LoopGoto("recv")
    /\ UNCHANGED <<sender, toR, inSend, raced, initParam, listVars, taskVars, diskVars>>

-----------------------------------------------------------------------------
RebuildAt(f, pc) == ReceiverUp /\ rebuild[f] = pc
RebuildGoto(f, pc) == rebuild' = [rebuild EXCEPT ![f] = pc]
unchangedByRebuild == <<sender, toR, toS, inSend, raced, rPc, initParam, listVars, remover,
                        toVisit>>

(* Path lookup, Lstat, MkdirAll, OpenFile, ReadFull, and the new content put  *)
(* together in memory.  OpenFile leaves an empty file where there was none,   *)
(* whether or not a later step fails.  A base that shrank since it was summed *)
(* makes the slice expression panic, which ends the process.                  *)
Created(f) == IF content[f] = "absent" THEN [content EXCEPT ![f] = "torn"] ELSE content

OpenFile(f) ==
    /\ RebuildAt(f, "open")
    /\ \/ /\ f \in fidPathMap /\ content' = Created(f)
          /\ RebuildGoto(f, "write") /\ receiver' = receiver
       \/ /\ f \notin fidPathMap \/ "open" \in Faults
          /\ content' \in {content, Created(f)}
          /\ RebuildGoto(f, "fail") /\ receiver' = receiver
       \/ /\ "shrunk" \in Faults /\ content[f] # "absent"
          /\ receiver' = "crashed" /\ UNCHANGED <<rebuild, content>>
    /\ UNCHANGED <<unchangedByRebuild, rebuildGoLimit, taskWaitGroup, syncResult, stamped>>

(* The file is overwritten in place: from here to the end of Truncate it is   *)
(* neither version, and its mtime is the time of the write.                   *)
BeginWrite(f) ==
    /\ RebuildAt(f, "write") /\ RebuildGoto(f, "flush")
    /\ content' = [content EXCEPT ![f] = "torn"]
    /\ stamped' = stamped \ {f}
    /\ UNCHANGED <<unchangedByRebuild, receiver, rebuildGoLimit, taskWaitGroup, syncResult>>

(* The errors of WriteTo, Flush and Truncate are ignored; blocks copied from  *)
(* a base that changed, or a patch garbled by a race that still decodes, give *)
(* other bytes than the sender hashed.                                        *)
EndWrite(f) ==
    /\ RebuildAt(f, "flush") /\ RebuildGoto(f, "verify")
    /\ \/ content' = [content EXCEPT ![f] = "new"]
       \/ ("badwrite" \in Faults \/ raced # {}) /\ UNCHANGED content
    /\ UNCHANGED <<unchangedByRebuild, receiver, rebuildGoLimit, taskWaitGroup, syncResult,
                   stamped>>

HashUnchecked(f) == content[f] # "absent"
HashMatches(f) == content[f] = "new"

(* Read the file back and compare its md5 with the sender's.                  *)
Verify(f) ==
    /\ RebuildAt(f, "verify")
    /\ RebuildGoto(f, IF HashMatches(f) THEN "chtimes" ELSE "fail")
    /\ UNCHANGED <<unchangedByRebuild, receiver, rebuildGoLimit, taskWaitGroup, syncResult,
                   diskVars>>

(* A failing Chtimes is only printed.                                         *)
Chtimes(f) ==
    /\ RebuildAt(f, "chtimes") /\ RebuildGoto(f, "count")
    /\ \/ stamped' = stamped \cup {f}
       \/ "chtimes" \in Faults /\ UNCHANGED stamped
    /\ UNCHANGED <<unchangedByRebuild, receiver, rebuildGoLimit, taskWaitGroup, syncResult,
                   content>>

(* The counter bumped by a read and a write of its own, not atomic.AddUint32. *)
CountSuccessLost(f) ==
    /\ RebuildAt(f, "count") /\ RebuildGoto(f, "release")
    /\ syncResult' = [syncResult EXCEPT !.succNum =
                         IF \E g \in Files \ {f} : rebuild[g] = "count" THEN @ ELSE @ + 1]
    /\ UNCHANGED <<unchangedByRebuild, receiver, rebuildGoLimit, taskWaitGroup, diskVars>>

CountSuccess(f) ==
    /\ RebuildAt(f, "count") /\ RebuildGoto(f, "release")
    /\ syncResult' = [syncResult EXCEPT !.succNum = @ + 1]
    /\ UNCHANGED <<unchangedByRebuild, receiver, rebuildGoLimit, taskWaitGroup, diskVars>>

(* A rebuild that failed is tried again.                                      *)
RetryRebuild(f) ==
    /\ RebuildAt(f, "fail") /\ RebuildGoto(f, "open")
    /\ UNCHANGED <<unchangedByRebuild, receiver, rebuildGoLimit, taskWaitGroup, syncResult,
                   diskVars>>

RecordFailure(f) ==
    /\ RebuildAt(f, "fail") /\ RebuildGoto(f, "release")
    /\ syncResult' = [syncResult EXCEPT !.failed = @ \cup {f}]
    /\ UNCHANGED <<unchangedByRebuild, receiver, rebuildGoLimit, taskWaitGroup, diskVars>>

TokenKept(f) ==
    /\ RebuildAt(f, "release") /\ RebuildGoto(f, "leave")
    /\ UNCHANGED <<unchangedByRebuild, receiver, rebuildGoLimit, taskWaitGroup, syncResult,
                   diskVars>>

ReleaseRebuildLimit(f) ==
    /\ RebuildAt(f, "release") /\ RebuildGoto(f, "leave")
    /\ rebuildGoLimit' = rebuildGoLimit - 1
    /\ UNCHANGED <<unchangedByRebuild, receiver, taskWaitGroup, syncResult, diskVars>>

RebuildDone(f) ==
    /\ RebuildAt(f, "leave") /\ RebuildGoto(f, "done")
    /\ taskWaitGroup' = taskWaitGroup - 1
    /\ UNCHANGED <<unchangedByRebuild, receiver, rebuildGoLimit, syncResult, diskVars>>

-----------------------------------------------------------------------------
(* RemoveFiles, one file that is not in pathMap at a time.                    *)
RemoveFile(x) ==
    /\ ReceiverUp /\ remover = "run" /\ x \in toVisit
    /\ toVisit' = toVisit \ {x}
    /\ \/ syncResult' = [syncResult EXCEPT !.removed = @ \cup {x}]
       \/ "remove" \in Faults /\ UNCHANGED syncResult
    /\ UNCHANGED <<connVars, rPc, initParam, listVars, diskVars, rebuild, rebuildGoLimit,
                   taskWaitGroup, remover>>

(* The end of its walk, or a directory that cannot be read.                   *)
RemoveDone ==
    /\ ReceiverUp /\ remover = "run"
    /\ toVisit = {} \/ "remove" \in Faults
    /\ remover' = "done" /\ taskWaitGroup' = taskWaitGroup - 1
    /\ UNCHANGED <<connVars, rPc, initParam, listVars, diskVars, rebuild, rebuildGoLimit,
                   toVisit, syncResult>>

(* The process is killed, and what it has written is on the disk; or the      *)
(* sender is gone, and the next write to stdout or stderr is a SIGPIPE.       *)
ReceiverCrash ==
    /\ ReceiverUp /\ ("crash" \in Faults \/ ~SenderUp)
    /\ receiver' = "crashed"
    /\ UNCHANGED <<sender, toR, toS, inSend, raced, receiverVars>>

-----------------------------------------------------------------------------
LoopStep ==
    \/ RecvInitParam \/ RecvDirInfo \/ RecvPatchList \/ RecvEnd \/ SendBEnd \/ ReplyFails
    \/ ReceiverExit
    \/ \E f \in Files : AcquireRebuildLimit(f) \/ CheckFile(f) \/ SumListMade(f)
    \/ EndCheck \/ SendSumList

RebuildFile(f) ==
    \/ OpenFile(f) \/ BeginWrite(f) \/ EndWrite(f) \/ Verify(f) \/ Chtimes(f)
    \/ CountSuccess(f) \/ RecordFailure(f) \/ ReleaseRebuildLimit(f) \/ RebuildDone(f)

RemoveFiles == RemoveDone \/ \E x \in Extra : RemoveFile(x)

ReceiverStep == LoopStep \/ RemoveFiles \/ \E f \in Files : RebuildFile(f)
=============================================================================
