--------------------------- MODULE PromiseProofs ---------------------------
(***************************************************************************)
(* What a session promises, and that it comes to its end.  First, Session  *)
(* implements SyncPromise: initial states map to initial states, and under *)
(* SessionInv every step of the two processes maps to a step of            *)
(* SyncPromise or to a stutter.  Second, what a result without failures    *)
(* says: where no file is skipped, the receiver holds the sender's files.  *)
(* Last, the two halves of why a session ends: nothing blocks it but a     *)
(* SHUTDOWN that was lost, and every step uses up some of its work.        *)
(***************************************************************************)
EXTENDS SessionProofs

OutcomePcs == {"release", "leave", "done"}

(* Nothing is recorded as removed before RemoveFiles begins.                  *)
RemovedInv == remover = "idle" => syncResult.removed = {}

LEMMA RemovedInvInit == Init => RemovedInv
BY DEF Init, ReceiverInit, RemovedInv, NoResult

LEMMA RemovedInvNext == SessionInv /\ RemovedInv /\ [Next]_vars => RemovedInv'
<1>. SUFFICES ASSUME SessionInv, RemovedInv, [Next]_vars PROVE RemovedInv'
  OBVIOUS
<1>. USE DEF RemovedInv, taskVars
<1>1. CASE UNCHANGED receiverVars \/ UNCHANGED vars
  BY <1>1 DEF vars, receiverVars
<1>2. CASE LoopStep
  BY <1>2 DEF LoopStep, RecvInitParam, RecvDirInfo, RecvPatchList, RecvEnd, SendBEnd,
     ReplyFails, ReceiverExit,
     EndCheck, SendSumList, AcquireRebuildLimit, CheckFile, SumListMade, NoResult
<1>3. CASE RemoveFiles
  BY <1>3 DEF RemoveFiles, RemoveFile, RemoveDone
<1>4. ASSUME NEW f \in Files, RebuildFile(f) PROVE RemovedInv'
  <2>1. syncResult = [succNum |-> syncResult.succNum, failed |-> syncResult.failed,
                      removed |-> syncResult.removed]
    BY DEF SessionInv, ResultInv
  <2>2. remover' = remover /\ \/ syncResult' = syncResult
                              \/ syncResult' = [syncResult EXCEPT !.succNum = @ + 1]
                              \/ syncResult' = [syncResult EXCEPT !.failed = @ \cup {f}]
    BY <1>4 DEF RebuildFile, OpenFile, BeginWrite, EndWrite, Verify, Chtimes, CountSuccess,
       RecordFailure, ReleaseRebuildLimit, RebuildDone, unchangedByRebuild
  <2>3. syncResult'.removed = syncResult.removed
    BY <2>1, <2>2
  <2>. QED BY <2>2, <2>3
<1>5. CASE ReceiverCrash
  BY <1>5 DEF ReceiverCrash, receiverVars
<1>. QED BY <1>1, <1>2, <1>3, <1>4, <1>5 DEF Next, ReceiverStep, Finished

-----------------------------------------------------------------------------
(* The refinement mapping, file by file.                                      *)
LEMMA SettledAt ==
    ASSUME SessionInv, NEW f \in Files
    PROVE  /\ f \in syncResult.failed => Settled[f] = "failed" /\ rebuild[f] \in OutcomePcs
           /\ rebuild[f] \in OutcomePcs /\ f \notin syncResult.failed => Settled[f] = "ok"
           /\ rebuild[f] \notin OutcomePcs /\ worker[f] = "idle" => Settled[f] = "skipped"
           /\ rebuild[f] \notin OutcomePcs /\ worker[f] # "idle" => Settled[f] = "open"
           /\ rebuild[f] # "idle" => worker[f] # "idle"
BY DEF SessionInv, ResultInv, Recorded, OutcomePcs, Settled, PhasesInv, ProtocolInv, PatchInv, SentPcs

LEMMA SettledStays ==
    ASSUME syncResult'.failed = syncResult.failed,
           \A f \in Files : rebuild'[f] \in OutcomePcs <=> rebuild[f] \in OutcomePcs,
           \A f \in Files : worker'[f] = "idle" <=> worker[f] = "idle"
    PROVE  Settled' = Settled
BY DEF Settled, OutcomePcs

(* A move of f's goroutines that leaves every other file as it was.           *)
LEMMA SettledMoves ==
    ASSUME NEW f \in Files,
           \A g \in Files \ {f} : /\ g \in syncResult'.failed <=> g \in syncResult.failed
                                  /\ rebuild'[g] = rebuild[g] /\ worker'[g] = worker[g]
    PROVE  Settled' = [Settled EXCEPT ![f] = Settled'[f]]
BY DEF Settled

-----------------------------------------------------------------------------
LEMMA PromiseInit == Init => Promise!Init
<1>. SUFFICES ASSUME Init PROVE Promise!Init
  OBVIOUS
<1>. USE DEF Init, SenderInit, ReceiverInit, NoResult
<1>1. Settled = [f \in Files |-> "skipped"]
  BY DEF Settled
<1>. QED BY <1>1 DEF Promise!Init

Step == Promise!Next \/ UNCHANGED <<Settled, content, syncResult.removed, report>>

(* The sender opens a file when it starts its patch goroutine, and publishes  *)
(* the result it receives.                                                    *)
LEMMA SenderKeeps ==
    SessionInv /\ (SenderStep \/ SenderCrash) /\ UNCHANGED receiverVars => Step
<1>. SUFFICES ASSUME SessionInv, SenderStep \/ SenderCrash, UNCHANGED receiverVars PROVE Step
  OBVIOUS
<1>1. /\ syncResult' = syncResult /\ rebuild' = rebuild /\ content' = content
      /\ worker \in [Files -> WorkerPcs]
  BY DEF receiverVars, taskVars, diskVars, SessionInv, SenderInv, SenderShape
<1>2. ASSUME NEW f \in Files, WorkerStep(f) PROVE Step
  <2>1. /\ report' = report /\ worker[f] # "idle"
        /\ \E pc \in WorkerPcs \ {"idle"} : worker' = worker \/ worker' = [worker EXCEPT ![f] = pc]
    BY <1>2 DEF WorkerStep, MakePatch, LockAndEnterSend, LeavePatchSend, Unlock, ReleaseGoLimit,
       PatchDone, WorkerAt, WorkerGoto, WorkerPcs
  <2>2. \A g \in Files : worker'[g] = "idle" <=> worker[g] = "idle"
    BY <1>1, <2>1
  <2>. QED BY <1>1, <2>1, <2>2, SettledStays DEF Step
<1>3. ASSUME NEW f \in Files, AcquireGoLimit(f) PROVE Step
  <2>1. /\ report' = report /\ worker[f] # "idle" /\ worker' = [worker EXCEPT ![f] = "patch"]
    BY <1>3 DEF AcquireGoLimit
  <2>2. \A g \in Files : worker'[g] = "idle" <=> worker[g] = "idle"
    BY <1>1, <2>1
  <2>. QED BY <1>1, <2>1, <2>2, SettledStays DEF Step
<1>4. CASE NextSumList
  <2>1. report' = report
    BY <1>4 DEF NextSumList
  <2>2. CASE worker' = worker
    BY <1>1, <2>1, <2>2, SettledStays DEF Step
  <2>3. CASE worker' # worker
    <3>1. PICK f \in todo : worker' = [worker EXCEPT ![f] = "spawning"] /\ sPc = "range"
      BY <1>4, <2>3 DEF NextSumList, MainAt
    <3>2. f \in Files /\ worker[f] = "idle" /\ report = {}
      BY <3>1 DEF SessionInv, PhasesInv, ProtocolInv, PatchInv, PatchingPcs
    <3>3. Settled[f] = "skipped" /\ rebuild[f] = "idle" /\ f \notin syncResult.failed
      BY <3>2, SettledAt DEF OutcomePcs
    <3>4. Settled'[f] = "open"
      BY <1>1, <3>1, <3>2, <3>3 DEF Settled
    <3>5. Settled' = [Settled EXCEPT ![f] = "open"]
      BY <1>1, <3>1, <3>2, <3>4, SettledMoves
    <3>6. Promise!Open(f)
      BY <1>1, <2>1, <3>2, <3>3, <3>5 DEF Promise!Open
    <3>. QED BY <3>2, <3>6 DEF Step, Promise!Next
  <2>. QED BY <2>2, <2>3
<1>5. CASE SenderRecv
  <2>1. worker' = worker
    BY <1>5 DEF SenderRecv
  <2>2. Settled' = Settled
    BY <1>1, <2>1, SettledStays
  <2>3. CASE report' = report
    BY <1>1, <2>2, <2>3 DEF Step
  <2>4. CASE report' # report
    <3>1. /\ sPc = "recv" /\ toS # <<>> /\ Head(toS).cmd = "B_END"
          /\ report' = report \cup {Head(toS).result}
      BY <1>5, <2>4 DEF SenderRecv, SenderReads, MainAt
    <3>2. Replied
      <4>1. toS = <<>> \/ Requested \/ Replied
        BY DEF SessionInv, PhasesInv, ProtocolInv, EndingInv
      <4>2. ~Requested
        BY <3>1 DEF Requested, SumListMsg
      <4>. QED BY <3>1, <4>1, <4>2
    <3>3. Head(toS).result = syncResult
      BY <3>2 DEF Replied, BEndMsg
    <3>4. /\ report = {} /\ ActiveWorkers = {} /\ ActiveRebuilds = {} /\ Delivered
      BY <3>1, <3>2 DEF SessionInv, SenderInv, PhaseInv, PhasesInv, ProtocolInv, EndingInv
    <3>5. \A f \in Files : /\ worker[f] \in {"idle", "done"} /\ rebuild[f] \in {"idle", "done"}
                           /\ worker[f] = "done" => rebuild[f] = "done"
      BY <1>1, <3>4 DEF ActiveWorkers, ActiveRebuilds, Delivered
    <3>6. Promise!FilesIn("open") = {}
      BY <3>5, SettledAt DEF Promise!FilesIn, OutcomePcs
    <3>7. Promise!FilesIn("failed") = syncResult.failed
      BY SettledAt DEF Promise!FilesIn, SessionInv, ResultInv, Recorded, OutcomePcs
    <3>8. Promise!FilesIn("ok") = Succeeded
      BY SettledAt DEF Promise!FilesIn, Succeeded, Recorded, OutcomePcs
    <3>9. syncResult = [succNum |-> Cardinality(Promise!FilesIn("ok")),
                        failed |-> Promise!FilesIn("failed"), removed |-> syncResult.removed]
      BY <3>7, <3>8 DEF SessionInv, ResultInv
    <3>10. Promise!Cardinality(Promise!FilesIn("ok")) = Cardinality(Promise!FilesIn("ok"))
      BY DEF Promise!Cardinality, Cardinality, Promise!IsFiniteSet, IsFiniteSet
    <3>11. Promise!Publish
      BY <1>1, <2>2, <3>1, <3>3, <3>4, <3>6, <3>9, <3>10 DEF Promise!Publish
    <3>. QED BY <3>11 DEF Step, Promise!Next
  <2>. QED BY <2>3, <2>4
<1>6. CASE \/ SendInitParam \/ SendDirInfo \/ EnterEnd \/ LeaveEnd \/ EnterShutdown
           \/ LeaveShutdown \/ Reap \/ RunReturns \/ SenderCrash
  <2>1. worker' = worker /\ report' = report
    BY <1>6 DEF SendInitParam, SendDirInfo, EnterEnd, LeaveEnd, EnterShutdown, LeaveShutdown, Reap,
       RunReturns, SenderCrash, senderVars
  <2>. QED BY <1>1, <2>1, SettledStays DEF Step
<1>. QED BY <1>2, <1>3, <1>4, <1>5, <1>6 DEF SenderStep, MainStep

-----------------------------------------------------------------------------
(* A step of a rebuild writes to its open file, or settles it.                *)
LEMMA RebuildKeeps ==
    ASSUME SessionInv, SessionInv', UNCHANGED senderVars, NEW f \in Files, RebuildFile(f)
    PROVE  Step
<1>. USE DEF RebuildAt, RebuildGoto
<1>1. /\ worker' = worker /\ report' = report
      /\ rebuild \in [Files -> RebuildPcs] /\ content \in [Files -> {"absent", "old", "new", "torn"}]
  BY DEF senderVars, SessionInv, ReceiverInv
<1>2. rebuild[f] \notin {"idle", "done"}
  BY DEF RebuildFile, OpenFile, BeginWrite, EndWrite, Verify, Chtimes, CountSuccess,
     RecordFailure, ReleaseRebuildLimit, RebuildDone
<1>3. report = {}
  BY <1>2 DEF SessionInv, PhasesInv, ProtocolInv, EndingInv, ActiveRebuilds
<1>4. worker[f] # "idle"
  BY <1>2, SettledAt
<1>5. syncResult = [succNum |-> syncResult.succNum, failed |-> syncResult.failed,
                    removed |-> syncResult.removed]
  BY DEF SessionInv, ResultInv
<1>6. CASE OpenFile(f) \/ BeginWrite(f) \/ EndWrite(f) \/ Verify(f) \/ Chtimes(f)
  <2>1. /\ rebuild[f] \notin OutcomePcs /\ syncResult' = syncResult
        /\ \E pc \in RebuildPcs \ OutcomePcs :
              rebuild' = rebuild \/ rebuild' = [rebuild EXCEPT ![f] = pc]
        /\ \/ content' = content
           \/ \E c \in {"torn", "new"} : content' = [content EXCEPT ![f] = c]
    BY <1>6 DEF OpenFile, BeginWrite, EndWrite, Verify, Chtimes, Created, diskVars, RebuildPcs,
       OutcomePcs
  <2>2. Settled' = Settled
    BY <1>1, <2>1, SettledStays
  <2>3. Settled[f] = "open"
    BY <1>4, <2>1, SettledAt
  <2>4. Promise!Rewrite(f) \/ content' = content
    BY <1>1, <1>3, <2>1, <2>2, <2>3 DEF Promise!Rewrite
  <2>. QED BY <1>1, <2>1, <2>2, <2>4 DEF Step, Promise!Next
<1>7. CASE ReleaseRebuildLimit(f) \/ RebuildDone(f)
  <2>1. /\ rebuild[f] \in OutcomePcs /\ syncResult' = syncResult /\ content' = content
        /\ \E pc \in OutcomePcs : rebuild' = [rebuild EXCEPT ![f] = pc]
    BY <1>7 DEF ReleaseRebuildLimit, RebuildDone, OutcomePcs, diskVars
  <2>2. Settled' = Settled
    BY <1>1, <2>1, SettledStays
  <2>. QED BY <1>1, <2>1, <2>2 DEF Step
<1>8. CASE CountSuccess(f)
  <2>1. /\ rebuild[f] = "count" /\ rebuild' = [rebuild EXCEPT ![f] = "release"]
        /\ content' = content /\ syncResult' = [syncResult EXCEPT !.succNum = @ + 1]
    BY <1>8 DEF CountSuccess, diskVars
  <2>2. syncResult'.failed = syncResult.failed /\ syncResult'.removed = syncResult.removed
    BY <1>5, <2>1
  <2>3. Settled[f] = "open" /\ f \notin syncResult.failed
    BY <1>4, <2>1, SettledAt DEF OutcomePcs
  <2>4. Settled'[f] = "ok"
    BY <1>1, <2>1, <2>2, <2>3 DEF Settled
  <2>5. Settled' = [Settled EXCEPT ![f] = "ok"]
    BY <1>1, <2>1, <2>2, <2>4, SettledMoves
  <2>6. content[f] = "new"
    BY <2>1 DEF SessionInv, ResultInv
  <2>7. Promise!Settle(f)
    BY <1>1, <1>3, <2>1, <2>2, <2>3, <2>5, <2>6 DEF Promise!Settle
  <2>. QED BY <2>7 DEF Step, Promise!Next
<1>9. CASE RecordFailure(f)
  <2>1. /\ rebuild[f] = "fail" /\ rebuild' = [rebuild EXCEPT ![f] = "release"]
        /\ content' = content /\ syncResult' = [syncResult EXCEPT !.failed = @ \cup {f}]
    BY <1>9 DEF RecordFailure, diskVars
  <2>2. /\ syncResult'.failed = syncResult.failed \cup {f}
        /\ syncResult'.removed = syncResult.removed
    BY <1>5, <2>1
  <2>3. Settled[f] = "open"
    BY <1>4, <2>1, SettledAt DEF OutcomePcs
  <2>4. Settled'[f] = "failed"
    BY <2>2 DEF Settled
  <2>5. Settled' = [Settled EXCEPT ![f] = "failed"]
    BY <1>1, <2>1, <2>2, <2>4, SettledMoves
  <2>6. Promise!Settle(f)
    BY <1>1, <1>3, <2>1, <2>2, <2>3, <2>5 DEF Promise!Settle
  <2>. QED BY <2>6 DEF Step, Promise!Next
<1>. QED BY <1>6, <1>7, <1>8, <1>9 DEF RebuildFile

LEMMA ReceiverKeeps ==
    SessionInv /\ RemovedInv /\ SessionInv' /\ (ReceiverStep \/ ReceiverCrash)
        /\ UNCHANGED senderVars => Step
<1>. SUFFICES ASSUME SessionInv, RemovedInv, SessionInv', ReceiverStep \/ ReceiverCrash,
                     UNCHANGED senderVars
              PROVE  Step
  OBVIOUS
<1>. USE DEF taskVars, diskVars
<1>1. worker' = worker /\ report' = report /\ rebuild \in [Files -> RebuildPcs]
  BY DEF senderVars, SessionInv, ReceiverInv
<1>2. CASE RecvInitParam
  <2>1. "INITPARAM" \in Cmds
    BY <1>2, QueueTail DEF RecvInitParam, ReceiverReads, SessionInv, PhasesInv
  <2>2. remover = "idle" /\ \A f \in Files : rebuild[f] = "idle"
    BY <2>1 DEF SessionInv, PhasesInv, ProtocolInv, AskingInv, Unpatched, PatchInv, SentPcs
  <2>3. syncResult.failed = {} /\ syncResult.removed = {}
    BY <2>2 DEF RemovedInv, SessionInv, ResultInv, Recorded
  <2>4. /\ rebuild' = rebuild /\ content' = content
        /\ syncResult'.failed = {} /\ syncResult'.removed = {}
    BY <1>2, <2>3 DEF RecvInitParam, NoResult
  <2>5. Settled' = Settled
    BY <1>1, <2>3, <2>4, SettledStays
  <2>. QED BY <1>1, <2>3, <2>4, <2>5 DEF Step
<1>3. CASE RecvPatchList \/ \E f \in Files : AcquireRebuildLimit(f)
  <2>1. /\ syncResult' = syncResult /\ content' = content
        /\ \E f \in Files : /\ rebuild[f] \in {"idle", "spawning"}
                            /\ \E pc \in {"spawning", "open"} : rebuild' = [rebuild EXCEPT ![f] = pc]
    <3>1. CASE RecvPatchList
      <4>1. Head(toR).fid \in Files /\ Head(toR).fid \in Pending
        BY <3>1, QueueTail DEF RecvPatchList, ReceiverReads, SessionInv, PhasesInv, Pending
      <4>2. rebuild[Head(toR).fid] = "idle"
        BY <4>1 DEF SessionInv, PhasesInv, ProtocolInv, PatchInv, Pending
      <4>. QED BY <3>1, <4>1, <4>2 DEF RecvPatchList
    <3>. QED BY <1>3, <3>1 DEF AcquireRebuildLimit
  <2>2. \A f \in Files : rebuild'[f] \in OutcomePcs <=> rebuild[f] \in OutcomePcs
    BY <1>1, <2>1 DEF OutcomePcs
  <2>. QED BY <1>1, <2>1, <2>2, SettledStays DEF Step
<1>4. ASSUME NEW x \in Extra, RemoveFile(x) PROVE Step
  <2>1. /\ remover = "run" /\ rebuild' = rebuild /\ content' = content
        /\ \/ syncResult' = [syncResult EXCEPT !.removed = @ \cup {x}]
           \/ syncResult' = syncResult
    BY <1>4 DEF RemoveFile
  <2>2. report = {}
    BY <2>1 DEF SessionInv, PhasesInv, ProtocolInv, EndingInv
  <2>3. syncResult = [succNum |-> syncResult.succNum, failed |-> syncResult.failed,
                      removed |-> syncResult.removed]
    BY DEF SessionInv, ResultInv
  <2>4. /\ syncResult'.failed = syncResult.failed
        /\ syncResult'.removed \in {syncResult.removed, syncResult.removed \cup {x}}
    BY <2>1, <2>3
  <2>5. Settled' = Settled
    BY <1>1, <2>1, <2>4, SettledStays
  <2>6. Promise!Remove(x) \/ syncResult'.removed = syncResult.removed
    BY <1>1, <2>1, <2>2, <2>4, <2>5 DEF Promise!Remove
  <2>. QED BY <1>1, <2>1, <2>5, <2>6 DEF Step, Promise!Next
<1>5. CASE \/ RecvDirInfo \/ RecvEnd \/ SendBEnd \/ ReplyFails \/ ReceiverExit \/ SendSumList
           \/ EndCheck \/ ReceiverCrash \/ RemoveDone \/ \E f \in Files : CheckFile(f) \/ SumListMade(f)
  <2>1. rebuild' = rebuild /\ content' = content /\ syncResult' = syncResult
    BY <1>5 DEF RecvDirInfo, RecvEnd, SendBEnd,
     ReplyFails, ReceiverExit, SendSumList, EndCheck,
       ReceiverCrash, RemoveDone, CheckFile, SumListMade, receiverVars
  <2>. QED BY <1>1, <2>1, SettledStays DEF Step
<1>. QED BY <1>2, <1>3, <1>4, <1>5, RebuildKeeps DEF ReceiverStep, LoopStep, RemoveFiles

-----------------------------------------------------------------------------
(* Whatever fails and however the goroutines interleave, a session keeps its  *)
(* promise: what a run prints is final, counts what happened, and lists as    *)
(* failed every transferred file that does not hold the sender's bytes.       *)
THEOREM SessionKeepsPromise == Spec => KeepsPromise
<1>1. SessionInv /\ RemovedInv /\ SessionInv' /\ [Next]_vars => [Promise!Next]_(Promise!vars)
  <2>. SUFFICES ASSUME SessionInv, RemovedInv, SessionInv', [Next]_vars
                PROVE  [Promise!Next]_(Promise!vars)
    OBVIOUS
  <2>1. Step
    <3>1. CASE UNCHANGED vars
      <4>1. UNCHANGED <<worker, rebuild, syncResult, content, report>>
        BY <3>1 DEF vars, senderVars, receiverVars, taskVars, diskVars
      <4>. QED BY <4>1, SettledStays DEF Step
    <3>. QED BY <3>1, SenderKeeps, ReceiverKeeps DEF Next, Finished
  <2>. QED BY <2>1 DEF Step, Promise!vars
<1>. QED
  BY <1>1, PromiseInit, SessionInvHolds, RemovedInvInit, RemovedInvNext, PTL
     DEF Spec, KeepsPromise, Promise!Spec

-----------------------------------------------------------------------------
(* A result without failures.  FileListCheck chooses a file, or finds it up   *)
(* to date; what it has chosen is asked for, and what is asked for is sent.   *)
Chosen(f) ==
    f \in stamped \/ f \in fidPathMap \/ worker[f] # "idle" \/ "stat" \in Faults
Asked(f) ==
    f \in fidPathMap => worker[f] # "idle" \/ f \in todo \/ "symlink" \in Faults

(* All patches have been sent.                                                *)
Served == "END" \in Cmds \/ rPc = "endWait" \/ (toS # <<>> /\ ~Requested) \/ report # {}

MirrorInv ==
    /\ rPc = "check" => \A f \in Files : f \in unchecked \/ Chosen(f)
    /\ rPc = "sendSumList" => fileSumList = fidPathMap
    /\ Requested => toS = <<SumListMsg(fidPathMap)>>
    /\ rPc = "sendSumList" \/ Requested \/ sPc \in PatchingPcs \/ Served
         => \A f \in Files : Chosen(f)
    /\ sPc \in PatchingPcs \/ Served => \A f \in Files : Asked(f)
    /\ sPc \in {"wait", "sendEnd"} \/ Served => todo = {}

LEMMA AppendCmds ==
    ASSUME QueueInv, NEW m \in MsgsToReceiver, toR' = Append(toR, m)
    PROVE  Cmds' = Cmds \cup {m.cmd}
<1>1. /\ Len(toR) \in Nat /\ Len(toR') = Len(toR) + 1
      /\ \A i \in 1..Len(toR) : toR'[i] = toR[i]
      /\ toR'[Len(toR) + 1] = m
  BY AppendProperties, LenProperties DEF QueueInv
<1>. QED BY <1>1 DEF Cmds

(* Only the main goroutine sends END.                                         *)
LEMMA EndIsSent ==
    ASSUME SessionInv, SenderStep \/ SenderCrash
    PROVE  "END" \in Cmds' => "END" \in Cmds \/ sPc = "sendEnd"
<1>. USE DEF SessionInv, PhasesInv
<1>1. CASE toR' = toR
  BY <1>1, QueueStutter
<1>2. ASSUME NEW m \in MsgsToReceiver, m.cmd # "END", toR' = Append(toR, m)
      PROVE  "END" \in Cmds' => "END" \in Cmds
  BY <1>2, AppendCmds
<1>3. ASSUME NEW n \in 0..Len(toR), toR' = SubSeq(toR, 1, n) PROVE Cmds' \subseteq Cmds
  BY <1>3, QueuePrefix
<1>4. CASE SendInitParam
  BY <1>1, <1>2, <1>4, MessageFacts DEF SendInitParam, WriteToReceiver
<1>5. CASE SendDirInfo
  BY <1>1, <1>2, <1>5, MessageFacts DEF SendDirInfo, WriteToReceiver
<1>6. CASE LeaveShutdown
  BY <1>1, <1>2, <1>6, MessageFacts DEF LeaveShutdown, LeaveSend, WriteToReceiver
<1>7. ASSUME NEW f \in Files, LeavePatchSend(f)
      PROVE  "END" \in Cmds' => "END" \in Cmds \/ sPc = "sendEnd"
  BY <1>1, <1>2, <1>7, MessageFacts DEF LeavePatchSend, LeaveSend, WriteToReceiver
<1>8. CASE LeaveEnd
  BY <1>8 DEF LeaveEnd, MainAt
<1>9. CASE SenderCrash
  BY <1>3, <1>9 DEF SenderCrash
<1>10. CASE \/ SenderRecv \/ NextSumList \/ EnterEnd \/ EnterShutdown \/ Reap \/ RunReturns
            \/ \E f \in Files : AcquireGoLimit(f) \/ MakePatch(f) \/ LockAndEnterSend(f)
                                \/ Unlock(f) \/ ReleaseGoLimit(f) \/ PatchDone(f)
  BY <1>1, <1>10 DEF SenderRecv, NextSumList, EnterEnd, EnterShutdown, Reap, RunReturns,
     AcquireGoLimit, MakePatch, LockAndEnterSend, Unlock, ReleaseGoLimit, PatchDone, connVars
<1>. QED BY <1>4, <1>5, <1>6, <1>7, <1>8, <1>9, <1>10 DEF SenderStep, MainStep, WorkerStep

(* A step that chooses nothing and asks for nothing.                          *)
LEMMA MirrorFrame ==
    ASSUME SessionInv, MirrorInv,
           rPc' = rPc \/ rPc' \in {"recv", "acquire"} \/ (rPc' = "endWait" /\ "END" \in Cmds),
           UNCHANGED <<unchecked, fidPathMap>>,
           fileSumList' = fileSumList \/ rPc # "sendSumList",
           toS' = toS \/ toS' = <<>>,
           \A f \in Files : worker[f] # "idle" => worker'[f] # "idle",
           \A f \in Files : f \in stamped => f \in stamped' \/ worker[f] # "idle",
           sPc' \in PatchingPcs => sPc \in PatchingPcs,
           sPc' \in {"wait", "sendEnd"} => sPc \in {"wait", "sendEnd"} \/ todo = {},
           "END" \in Cmds' => "END" \in Cmds \/ sPc = "sendEnd",
           report' = report \/ Served,
           todo' \subseteq todo,
           sPc' \in PatchingPcs \/ Served =>
               \A f \in todo \ todo' : worker'[f] # "idle" \/ "symlink" \in Faults
    PROVE  MirrorInv'
<1>1. toS' = toS => Requested' = Requested
  BY DEF Requested
<1>2. toS' = <<>> => ~Requested'
  BY DEF Requested
<1>3. Served' => Served \/ sPc = "sendEnd"
  BY <1>1, <1>2 DEF Served
<1>4. \A f \in Files : Chosen(f) => Chosen(f)'
  BY DEF Chosen
<1>5. sPc \in PatchingPcs \/ Served => \A f \in Files : Asked(f)
  BY DEF MirrorInv
<1>6. sPc' \in PatchingPcs \/ Served' => \A f \in Files : Asked(f)'
  <2>1. sPc = "sendEnd" => todo = {}
    BY DEF MirrorInv
  <2>. QED BY <1>3, <1>5, <2>1 DEF Asked, PatchingPcs
<1>7. sPc' \in {"wait", "sendEnd"} \/ Served' => todo' = {}
  BY <1>3 DEF MirrorInv
<1>8. rPc' = "check" => \A f \in Files : f \in unchecked' \/ Chosen(f)'
  BY <1>4 DEF MirrorInv
<1>9. rPc' = "sendSumList" => fileSumList' = fidPathMap'
  BY DEF MirrorInv
<1>10. Requested' => toS' = <<SumListMsg(fidPathMap')>>
  BY <1>1, <1>2 DEF MirrorInv
<1>11. rPc' = "sendSumList" \/ Requested' \/ sPc' \in PatchingPcs \/ Served'
         => \A f \in Files : Chosen(f)'
  <2>1. rPc' = "sendSumList" \/ Requested' \/ sPc' \in PatchingPcs \/ Served'
          => rPc = "sendSumList" \/ Requested \/ sPc \in PatchingPcs \/ Served
    BY <1>1, <1>2, <1>3 DEF PatchingPcs
  <2>. QED BY <1>4, <2>1 DEF MirrorInv
<1>. QED BY <1>6, <1>7, <1>8, <1>9, <1>10, <1>11 DEF MirrorInv

LEMMA MirrorInvInit == Init => MirrorInv
<1>. SUFFICES ASSUME Init PROVE MirrorInv
  OBVIOUS
<1>1. /\ toR = <<>> /\ toS = <<>> /\ report = {} /\ todo = {} /\ rPc = "recv"
      /\ sPc = "start"
  BY DEF Init, ConnInit, SenderInit, ReceiverInit
<1>2. Cmds = {} /\ ~Requested
  BY <1>1, ReplyFacts DEF Cmds
<1>. QED BY <1>1, <1>2 DEF MirrorInv, Served, PatchingPcs

(* The sender takes the list it asked for and starts one goroutine per file.  *)
LEMMA SumListMirror ==
    ASSUME SessionInv, MirrorInv, Requested, toS' = <<>>, todo' = Head(toS).fids,
           sPc' = "range",
           UNCHANGED <<toR, worker, report, rPc, unchecked, fidPathMap, fileSumList, stamped>>
    PROVE  MirrorInv'
<1>1. toS = <<SumListMsg(fidPathMap)>> /\ \A f \in Files : Chosen(f)
  BY DEF MirrorInv
<1>2. todo' = fidPathMap /\ toS # <<>>
  BY <1>1 DEF SumListMsg
<1>3. Unpatched /\ rPc \notin {"check", "sendSumList"}
  BY <1>2 DEF SessionInv, PhasesInv, ProtocolInv, AskingInv
<1>4. ~Requested' /\ ~Served'
  BY <1>3, ReplyAfter DEF Served, Unpatched, Cmds
<1>5. \A f \in Files : Chosen(f)' /\ Asked(f)'
  BY <1>1, <1>2 DEF Chosen, Asked
<1>. QED BY <1>3, <1>4, <1>5 DEF MirrorInv

LEMMA SenderMirror ==
    ASSUME SessionInv, SessionInv', MirrorInv,
           SenderStep \/ SenderCrash, UNCHANGED receiverVars
    PROVE  MirrorInv'
<1>1. /\ "END" \in Cmds' => "END" \in Cmds \/ sPc = "sendEnd"
      /\ UNCHANGED <<rPc, unchecked, fidPathMap, fileSumList, stamped>>
  BY EndIsSent DEF receiverVars, listVars, diskVars
<1>2. worker \in [Files -> WorkerPcs]
  BY DEF SessionInv, SenderInv, SenderShape
<1>3. CASE SenderRecv
  <2>1. /\ sPc = "recv" /\ UNCHANGED <<toR, worker>>
        /\ toS = <<>> \/ Requested \/ Replied
    BY <1>3 DEF SenderRecv, MainAt, SessionInv, PhasesInv, ProtocolInv, EndingInv
  <2>2. CASE SenderReads("SUMLIST")
    <3>1. Requested /\ Tail(toS) = <<>>
      BY <2>1, <2>2, ReplyFacts DEF SenderReads
    <3>2. toS' = <<>> /\ sPc' = "range" /\ todo' = Head(toS).fids /\ report' = report
      BY <1>3, <2>2, <3>1, ReplyFacts DEF SenderRecv, SenderReads, SenderAtEOF, MainGoto
    <3>. QED BY <1>1, <2>1, <3>1, <3>2, SumListMirror
  <2>3. CASE SenderReads("B_END")
    <3>1. Replied /\ Tail(toS) = <<>> /\ ~Requested
      BY <2>1, <2>3, ReplyFacts DEF SenderReads
    <3>2. Served /\ toS' = <<>> /\ sPc' = "shutdown" /\ todo' = todo
      BY <1>3, <2>3, <3>1, ReplyFacts DEF SenderRecv, SenderReads, SenderAtEOF, MainGoto, Served
    <3>. QED BY <1>1, <2>1, <3>2, MirrorFrame DEF PatchingPcs
  <2>4. CASE SenderAtEOF
    <3>1. toS' = toS \/ toS' = <<>>
      BY <1>3, <2>4 DEF SenderRecv, SenderReads, SenderAtEOF
    <3>2. report' = report /\ sPc' = "shutdown" /\ todo' = todo
      BY <1>3, <2>4 DEF SenderRecv, SenderReads, SenderAtEOF, MainGoto
    <3>. QED BY <1>1, <2>1, <3>1, <3>2, MirrorFrame DEF PatchingPcs
  <2>. QED BY <1>3, <2>2, <2>3, <2>4 DEF SenderRecv
<1>4. CASE NextSumList
  <2>1. /\ sPc = "range" /\ ~Served /\ toS' = toS /\ report' = report
        /\ \A f \in todo : worker[f] = "idle"
    BY <1>4, ReplyFacts
       DEF NextSumList, MainAt, SessionInv, PhasesInv, ProtocolInv, PatchInv, PatchingPcs, Served
  <2>2. /\ todo' \subseteq todo /\ todo \subseteq Files
        /\ sPc' = "wait" => todo = {}
        /\ sPc' \in {"range", "acquire", "shutdown", "wait"}
        /\ \A f \in Files : worker[f] # "idle" => worker'[f] # "idle"
        /\ sPc' \in PatchingPcs =>
               \A f \in todo \ todo' : worker'[f] # "idle" \/ "symlink" \in Faults
    BY <1>2, <1>4
       DEF NextSumList, MainGoto, PatchingPcs, SessionInv, PhasesInv, ProtocolInv, PatchInv
  <2>. QED BY <1>1, <2>1, <2>2, MirrorFrame DEF PatchingPcs
<1>5. ASSUME NEW f \in Files, AcquireGoLimit(f) \/ WorkerStep(f) PROVE MirrorInv'
  <2>1. /\ UNCHANGED <<toS, todo, report>>
        /\ \A g \in Files : worker[g] # "idle" => worker'[g] # "idle"
        /\ sPc' = sPc \/ (sPc = "acquire" /\ sPc' = "range")
    BY <1>2, <1>5
       DEF AcquireGoLimit, WorkerStep, MakePatch, LockAndEnterSend, LeavePatchSend, Unlock,
           ReleaseGoLimit, PatchDone, MainAt, MainGoto, WorkerAt, WorkerGoto, connVars
  <2>. QED BY <1>1, <2>1, MirrorFrame DEF PatchingPcs
<1>6. CASE \/ SendInitParam \/ SendDirInfo \/ EnterEnd \/ LeaveEnd \/ EnterShutdown
           \/ LeaveShutdown \/ Reap \/ RunReturns \/ SenderCrash
  <2>1. /\ UNCHANGED <<todo, report, worker>> /\ (toS' = toS \/ toS' = <<>>)
        /\ \/ sPc' = sPc \/ sPc' \notin PatchingPcs
           \/ sPc = "wait" /\ sPc' = "sendEnd"
    BY <1>6
       DEF SendInitParam, SendDirInfo, EnterEnd, LeaveEnd, EnterShutdown, LeaveShutdown, Reap,
           RunReturns, SenderCrash, MainAt, MainGoto, Panic, senderVars, PatchingPcs
  <2>. QED BY <1>1, <2>1, MirrorFrame DEF PatchingPcs
<1>. QED BY <1>3, <1>4, <1>5, <1>6 DEF SenderStep, MainStep

(* What the receiver has read of the queue.                                   *)
LEMMA ReceiverReadsCmds ==
    ASSUME QueueInv, toR' = toR \/ (toR # <<>> /\ toR' = Tail(toR))
    PROVE  Cmds' \subseteq Cmds
BY QueueStutter, QueueTail

LEMMA CheckMirror ==
    ASSUME SessionInv, MirrorInv, rPc = "check", rPc' = "check",
           UNCHANGED <<toR, toS, sPc, todo, worker, report, stamped>>,
           \A f \in Files : f \in unchecked => f \in unchecked' \/ Chosen(f)',
           fidPathMap \subseteq fidPathMap'
    PROVE  MirrorInv'
<1>1. toS = <<>> /\ Unpatched
  BY DEF SessionInv, PhasesInv, ProtocolInv, AskingInv
<1>2. ~Requested' /\ ~Served' /\ sPc' \notin PatchingPcs
  BY <1>1, ReplyAfter DEF Served, Unpatched, Cmds
<1>3. \A f \in Files : Chosen(f) => Chosen(f)'
  BY DEF Chosen
<1>. QED BY <1>2, <1>3 DEF MirrorInv, PatchingPcs

LEMMA ReceiverMirror ==
    ASSUME SessionInv, MirrorInv,
           ReceiverStep \/ ReceiverCrash, UNCHANGED senderVars
    PROVE  MirrorInv'
<1>1. UNCHANGED <<sPc, todo, worker, report>>
  BY DEF senderVars
<1>2. ASSUME toR' = toR \/ (toR # <<>> /\ toR' = Tail(toR)) PROVE Cmds' \subseteq Cmds
  BY <1>2, ReceiverReadsCmds DEF SessionInv, PhasesInv
<1>3. CASE RecvDirInfo
  <2>1. /\ rPc' = "check" /\ unchecked' = Files /\ toR # <<>> /\ toR' = Tail(toR)
        /\ "DIR_INFO" \in Cmds /\ toS' = toS
    BY <1>3, QueueTail DEF RecvDirInfo, LoopGoto, ReceiverReads, SessionInv, PhasesInv
  <2>2. toS = <<>> /\ Unpatched
    BY <2>1 DEF SessionInv, PhasesInv, ProtocolInv, AskingInv
  <2>3. Cmds' \subseteq Cmds
    BY <1>2, <2>1
  <2>4. ~Requested' /\ ~Served' /\ sPc' \notin PatchingPcs
    BY <1>1, <2>1, <2>2, <2>3, ReplyAfter DEF Served, Unpatched
  <2>. QED BY <2>1, <2>4 DEF MirrorInv, PatchingPcs
<1>4. ASSUME NEW f \in Files, CheckFile(f) PROVE MirrorInv'
  <2>1. /\ rPc = "check" /\ rPc' = "check" /\ UNCHANGED <<toR, toS, stamped>>
        /\ unchecked' = unchecked \ {f} /\ fidPathMap \subseteq fidPathMap'
        /\ f \in fidPathMap' \/ f \in stamped \/ "stat" \in Faults
    BY <1>4 DEF CheckFile, LoopAt, connVars, diskVars
  <2>. QED BY <1>1, <2>1, CheckMirror DEF Chosen
<1>5. CASE EndCheck
  <2>1. /\ rPc = "check" /\ rPc' = "sendSumList" /\ unchecked = {} /\ fileSumList = fidPathMap
        /\ UNCHANGED <<toR, toS, unchecked, fidPathMap, fileSumList, stamped>>
    BY <1>5 DEF EndCheck, LoopAt, LoopGoto, AllSumsMade, listVars, diskVars
  <2>2. toS = <<>> /\ Unpatched
    BY <2>1 DEF SessionInv, PhasesInv, ProtocolInv, AskingInv
  <2>3. ~Requested' /\ ~Served' /\ sPc' \notin PatchingPcs
    BY <1>1, <2>1, <2>2, ReplyAfter DEF Served, Unpatched, Cmds
  <2>4. \A f \in Files : Chosen(f)'
    BY <1>1, <2>1 DEF MirrorInv, Chosen
  <2>. QED BY <2>1, <2>3, <2>4 DEF MirrorInv, PatchingPcs
<1>6. CASE SendSumList
  <2>1. /\ rPc = "sendSumList" /\ rPc' = "recv" /\ fileSumList = fidPathMap
        /\ UNCHANGED <<toR, unchecked, fidPathMap, fileSumList, stamped>>
    BY <1>6 DEF SendSumList, LoopAt, LoopGoto, listVars, diskVars, MirrorInv
  <2>2. toS = <<>> /\ Unpatched
    BY <2>1 DEF SessionInv, PhasesInv, ProtocolInv, AskingInv
  <2>3. \A m : Append(<<>>, m) = <<m>>
    OBVIOUS
  <2>4. toS' \in {<<>>, <<SumListMsg(fidPathMap)>>}
    BY <1>6, <2>1, <2>2, <2>3 DEF SendSumList, WriteToSender
  <2>5. toS' # <<>> => Requested'
    BY <2>4 DEF SessionInv, RangesInv, Requested
  <2>6. ~Served' /\ sPc' \notin PatchingPcs
    BY <1>1, <2>1, <2>2, <2>5 DEF Served, Unpatched, Cmds
  <2>7. Requested' => toS' = <<SumListMsg(fidPathMap')>>
    BY <2>1, <2>4, ReplyAfter
  <2>8. \A f \in Files : Chosen(f)'
    BY <1>1, <2>1 DEF MirrorInv, Chosen
  <2>. QED BY <2>1, <2>6, <2>7, <2>8 DEF MirrorInv, PatchingPcs
<1>7. CASE SendBEnd
  <2>1. /\ rPc = "endWait" /\ rPc' = "recv"
        /\ UNCHANGED <<toR, unchecked, fidPathMap, fileSumList, stamped>>
    BY <1>7 DEF SendBEnd, LoopAt, LoopGoto, listVars, diskVars
  <2>2. Served /\ toS = <<>> /\ sPc \notin PatchingPcs
    BY <2>1 DEF Served, SessionInv, PhasesInv, ProtocolInv, PatchInv, EndingInv
  <2>3. \A m : Append(<<>>, m) = <<m>>
    OBVIOUS
  <2>4. toS' \in {<<>>, <<BEndMsg(syncResult)>>}
    BY <1>7, <2>2, <2>3 DEF SendBEnd, WriteToSender
  <2>5. ~Requested'
    <3>1. syncResult' = syncResult
      BY <1>7 DEF SendBEnd, taskVars
    <3>. QED BY <2>4, <3>1, ReplyAfter DEF Replied
  <2>6. \A f \in Files : Chosen(f)' /\ Asked(f)'
    BY <1>1, <2>1, <2>2 DEF MirrorInv, Chosen, Asked
  <2>. QED BY <1>1, <2>1, <2>2, <2>5, <2>6 DEF MirrorInv, PatchingPcs
<1>8. CASE RecvEnd
  <2>1. /\ toR # <<>> /\ toR' = Tail(toR) /\ "END" \in Cmds /\ rPc' = "endWait"
        /\ UNCHANGED <<toS, unchecked, fidPathMap, fileSumList, stamped>>
    BY <1>8, QueueTail
       DEF RecvEnd, LoopGoto, ReceiverReads, SessionInv, PhasesInv, listVars, diskVars
  <2>2. Cmds' \subseteq Cmds
    BY <1>2, <2>1
  <2>. QED BY <1>1, <2>1, <2>2, MirrorFrame
<1>9. CASE \/ RecvInitParam \/ RecvPatchList \/ ReplyFails \/ ReceiverExit \/ ReceiverCrash
           \/ RemoveFiles \/ \E f \in Files : AcquireRebuildLimit(f) \/ SumListMade(f)
  <2>1. /\ rPc' = rPc \/ rPc' \in {"recv", "acquire"}
        /\ toR' = toR \/ (toR # <<>> /\ toR' = Tail(toR))
        /\ UNCHANGED <<toS, unchecked, fidPathMap, stamped>>
    BY <1>9 DEF RecvInitParam, RecvPatchList, ReplyFails, ReceiverExit, ReceiverCrash, RemoveFiles,
       RemoveFile, RemoveDone, AcquireRebuildLimit, SumListMade, LoopGoto, Exit, ReceiverReads,
       listVars, diskVars, connVars, receiverVars
  <2>2. fileSumList' = fileSumList \/ rPc # "sendSumList"
    BY <1>9 DEF RecvInitParam, RecvPatchList, ReplyFails, ReceiverExit, ReceiverCrash, RemoveFiles,
       RemoveFile, RemoveDone, AcquireRebuildLimit, SumListMade, listVars, receiverVars, MirrorInv
  <2>3. Cmds' \subseteq Cmds
    BY <1>2, <2>1
  <2>. QED BY <1>1, <2>1, <2>2, <2>3, MirrorFrame
<1>10. ASSUME NEW f \in Files, RebuildFile(f) PROVE MirrorInv'
  <2>1. UNCHANGED <<rPc, toR, toS, unchecked, fidPathMap, fileSumList>>
    BY <1>10 DEF RebuildFile, OpenFile, BeginWrite, EndWrite, Verify, Chtimes, CountSuccess,
       RecordFailure, ReleaseRebuildLimit, RebuildDone, unchangedByRebuild, listVars
  <2>2. \A g \in Files : g \in stamped => g \in stamped' \/ worker[g] # "idle"
    <3>1. rebuild[f] # "idle"
      BY <1>10 DEF RebuildFile, OpenFile, BeginWrite, EndWrite, Verify, Chtimes, CountSuccess,
         RecordFailure, ReleaseRebuildLimit, RebuildDone, RebuildAt
    <3>2. worker[f] # "idle"
      BY <3>1 DEF SessionInv, PhasesInv, ProtocolInv, PatchInv, SentPcs
    <3>3. \A g \in Files : g \in stamped => g \in stamped' \/ g = f
      BY <1>10 DEF RebuildFile, OpenFile, BeginWrite, EndWrite, Verify, Chtimes, CountSuccess,
         RecordFailure, ReleaseRebuildLimit, RebuildDone, diskVars
    <3>. QED BY <3>2, <3>3
  <2>3. Cmds' \subseteq Cmds
    BY <1>2, <2>1
  <2>. QED BY <1>1, <2>1, <2>2, <2>3, MirrorFrame
<1>. QED BY <1>3, <1>4, <1>5, <1>6, <1>7, <1>8, <1>9, <1>10 DEF ReceiverStep, LoopStep

(* Whatever fails or dies, a printed result without failures means that every *)
(* file of the sender is on the receiver with the sender's bytes, but for     *)
(* those Stat could not look up (receiver.go:308) and symlinks                *)
(* (sender.go:147).                                                           *)
THEOREM CleanReportIsMirror == Spec => []CleanReportMirrors
<1>1. SessionInv /\ SessionInv' /\ MirrorInv /\ [Next]_vars => MirrorInv'
  <2>. SUFFICES ASSUME SessionInv, SessionInv', MirrorInv, [Next]_vars PROVE MirrorInv'
    OBVIOUS
  <2>1. CASE UNCHANGED vars
    <3>1. /\ UNCHANGED <<rPc, sPc, toR, toS, todo, worker, report>>
          /\ UNCHANGED <<unchecked, fidPathMap, fileSumList, stamped>>
      BY <2>1 DEF vars, connVars, senderVars, receiverVars, listVars, diskVars
    <3>2. Cmds' = Cmds
      BY <3>1, QueueStutter DEF SessionInv, PhasesInv
    <3>. QED BY <3>1, <3>2, MirrorFrame
  <2>. QED BY <2>1, SenderMirror, ReceiverMirror DEF Next, Finished
<1>2. SessionInv /\ MirrorInv => CleanReportMirrors
  <2>. SUFFICES ASSUME SessionInv, MirrorInv, NEW r \in report, r.failed = {}, NEW f \in Files
                PROVE  content[f] = "new" \/ SkippedByStat(f) \/ SkippedAsSymlink(f)
    BY DEF CleanReportMirrors
  <2>1. /\ report = {syncResult} /\ ActiveWorkers = {} /\ ActiveRebuilds = {} /\ Delivered
    BY DEF SessionInv, PhasesInv, ProtocolInv, EndingInv
  <2>2. syncResult.failed = {} /\ todo = {} /\ Chosen(f) /\ Asked(f)
    BY <2>1 DEF MirrorInv, Served
  <2>3. CASE f \in stamped
    BY <2>3 DEF SessionInv, ReceiverInv, StampedIsVerified
  <2>4. CASE worker[f] # "idle"
    <3>1. worker[f] = "done" /\ rebuild[f] = "done"
      BY <2>1, <2>4 DEF ActiveWorkers, ActiveRebuilds, Delivered
    <3>2. f \in Succeeded
      BY <2>2, <3>1 DEF Succeeded, Recorded
    <3>. QED BY <3>2 DEF SessionInv, ResultInv
  <2>5. CASE f \in fidPathMap /\ worker[f] = "idle"
    BY <2>2, <2>5 DEF Asked, SkippedAsSymlink
  <2>6. CASE f \notin fidPathMap /\ "stat" \in Faults
    BY <2>6 DEF SkippedByStat
  <2>. QED BY <2>2, <2>3, <2>4, <2>5, <2>6 DEF Chosen
<1>. QED BY <1>1, <1>2, MirrorInvInit, SessionInvHolds, PTL DEF Spec

-----------------------------------------------------------------------------
(* Nothing blocks.  Who has the turn: the goroutine main waits to start is    *)
(* the only one waiting for a token, and a goroutine that holds the mutex is  *)
(* on its way to release it.                                                  *)
OneSpawning(pcs, acquiring) ==
    IF acquiring THEN \E f \in Files : \A g \in Files : pcs[g] = "spawning" <=> g = f
                 ELSE \A g \in Files : pcs[g] # "spawning"

TurnInv ==
    /\ \A f \in mutex : worker[f] \in {"send", "unlock"}
    /\ OneSpawning(worker, sPc = "acquire")
    /\ OneSpawning(rebuild, rPc = "acquire")

(* Something is on its way for whoever waits for a message: while the sender  *)
(* reads, the request, its answer, END or the result is under way, and while  *)
(* it waits for the subprocess, the SHUTDOWN.                                 *)
BallInv ==
    SenderUp /\ ReceiverUp =>
        /\ sPc = "recv" => \/ toS # <<>> \/ "DIR_INFO" \in Cmds \/ "END" \in Cmds
                           \/ rPc \in {"check", "sendSumList", "endWait"}
        /\ sPc = "reap" => "SHUTDOWN" \in Cmds \/ Main \in raced

LEMMA TurnInvInit == Init => TurnInv /\ BallInv
BY DEF Init, ConnInit, SenderInit, ReceiverInit, TurnInv, OneSpawning, BallInv

LEMMA SenderTurns ==
    ASSUME SessionInv, TurnInv, SenderStep \/ SenderCrash, UNCHANGED receiverVars
    PROVE  TurnInv'
<1>1. /\ UNCHANGED <<rebuild, rPc>> /\ worker \in [Files -> WorkerPcs] /\ mutex \in SUBSET Files
  BY DEF receiverVars, taskVars, SessionInv, SenderInv, SenderShape, RangesInv
<1>. USE DEF TurnInv, OneSpawning, MainAt, MainGoto, WorkerAt, WorkerGoto
<1>2. CASE NextSumList
  <2>1. sPc = "range" /\ mutex' = mutex
    BY <1>2 DEF NextSumList
  <2>2. CASE worker' = worker /\ sPc' # "acquire"
    BY <1>1, <2>1, <2>2
  <2>3. ASSUME NEW f \in todo, worker' = [worker EXCEPT ![f] = "spawning"], sPc' = "acquire"
        PROVE  TurnInv'
    <3>1. f \in Files /\ worker[f] = "idle"
      BY <2>1 DEF SessionInv, PhasesInv, ProtocolInv, PatchInv
    <3>. QED BY <1>1, <2>1, <2>3, <3>1
  <2>. QED BY <1>2, <2>2, <2>3 DEF NextSumList
<1>3. ASSUME NEW f \in Files, AcquireGoLimit(f) PROVE TurnInv'
  BY <1>1, <1>3 DEF AcquireGoLimit
<1>4. ASSUME NEW f \in Files, WorkerStep(f) PROVE TurnInv'
  <2>1. /\ sPc' = sPc /\ worker[f] \notin {"idle", "spawning"}
        /\ \/ UNCHANGED <<worker, mutex>>
           \/ \E pc \in {"lock", "leave", "done"} :
                /\ worker' = [worker EXCEPT ![f] = pc] /\ mutex' = mutex
                /\ worker[f] \notin {"send", "unlock"}
           \/ worker' = [worker EXCEPT ![f] = "send"] /\ mutex' = mutex \cup {f}
           \/ worker' = [worker EXCEPT ![f] = "unlock"] /\ mutex' = mutex
           \/ worker' = [worker EXCEPT ![f] = "release"] /\ mutex' = mutex \ {f}
    BY <1>4 DEF WorkerStep, MakePatch, LockAndEnterSend, LeavePatchSend, Unlock, ReleaseGoLimit,
       PatchDone
  <2>2. \A g \in Files : worker'[g] = "spawning" <=> worker[g] = "spawning"
    BY <1>1, <2>1
  <2>3. \A g \in mutex' : worker'[g] \in {"send", "unlock"}
    BY <1>1, <2>1
  <2>. QED BY <1>1, <2>1, <2>2, <2>3
<1>5. CASE \/ SendInitParam \/ SendDirInfo \/ SenderRecv \/ EnterEnd \/ LeaveEnd
           \/ EnterShutdown \/ LeaveShutdown \/ Reap \/ RunReturns \/ SenderCrash
  <2>1. /\ UNCHANGED <<worker, mutex>>
        /\ sPc' = sPc \/ (sPc # "acquire" /\ sPc' # "acquire")
    BY <1>5 DEF SendInitParam, SendDirInfo, SenderRecv, EnterEnd, LeaveEnd, EnterShutdown,
       LeaveShutdown, Reap, RunReturns, SenderCrash, Panic, senderVars
  <2>. QED BY <1>1, <2>1
<1>. QED BY <1>2, <1>3, <1>4, <1>5 DEF SenderStep, MainStep

LEMMA ReceiverTurns ==
    ASSUME SessionInv, TurnInv, ReceiverStep \/ ReceiverCrash, UNCHANGED senderVars
    PROVE  TurnInv'
<1>1. UNCHANGED <<worker, mutex, sPc>> /\ rebuild \in [Files -> RebuildPcs]
  BY DEF senderVars, SessionInv, ReceiverInv
<1>. USE DEF TurnInv, OneSpawning, LoopAt, LoopGoto, RebuildAt, RebuildGoto
<1>2. CASE RecvPatchList
  <2>1. /\ rPc = "recv" /\ rPc' = "acquire" /\ Head(toR).fid \in Files
        /\ rebuild' = [rebuild EXCEPT ![Head(toR).fid] = "spawning"]
    <3>1. Head(toR).fid \in Pending
      BY <1>2, QueueTail DEF RecvPatchList, ReceiverReads, SessionInv, PhasesInv
    <3>. QED BY <1>2, <3>1 DEF RecvPatchList, Pending
  <2>. QED BY <1>1, <2>1
<1>3. ASSUME NEW f \in Files, AcquireRebuildLimit(f) PROVE TurnInv'
  BY <1>1, <1>3 DEF AcquireRebuildLimit
<1>4. ASSUME NEW f \in Files, RebuildFile(f) PROVE TurnInv'
  <2>1. /\ rPc' = rPc /\ rebuild[f] # "spawning"
        /\ \/ rebuild' = rebuild
           \/ \E pc \in RebuildPcs \ {"spawning"} : rebuild' = [rebuild EXCEPT ![f] = pc]
    BY <1>4 DEF RebuildFile, OpenFile, BeginWrite, EndWrite, Verify, Chtimes, CountSuccess,
       RecordFailure, ReleaseRebuildLimit, RebuildDone, unchangedByRebuild, RebuildPcs
  <2>. QED BY <1>1, <2>1
<1>5. CASE \/ RecvInitParam \/ RecvDirInfo \/ RecvEnd \/ SendBEnd \/ ReplyFails \/ ReceiverExit
           \/ EndCheck \/ SendSumList \/ RemoveFiles \/ ReceiverCrash
           \/ \E f \in Files : CheckFile(f) \/ SumListMade(f)
  <2>1. /\ rebuild' = rebuild
        /\ rPc' = rPc \/ (rPc # "acquire" /\ rPc' # "acquire")
    BY <1>5 DEF RecvInitParam, RecvDirInfo, RecvEnd, SendBEnd, ReplyFails, ReceiverExit, EndCheck,
       SendSumList, RemoveFiles, RemoveFile, RemoveDone, ReceiverCrash, CheckFile, SumListMade,
       Exit, taskVars, receiverVars
  <2>. QED BY <1>1, <2>1
<1>. QED BY <1>2, <1>3, <1>4, <1>5 DEF ReceiverStep, LoopStep

(* No message is lost while both processes are up, and only the head is read. *)
LEMMA CmdsStay ==
    ASSUME QueueInv
    PROVE  /\ toR' = toR => Cmds' = Cmds
           /\ \A m \in MsgsToReceiver : toR' = Append(toR, m) => Cmds' = Cmds \cup {m.cmd}
           /\ toR # <<>> /\ toR' = Tail(toR) => Cmds \subseteq Cmds' \cup {Head(toR).cmd}
<1>1. ASSUME toR # <<>>, toR' = Tail(toR) PROVE Cmds \subseteq Cmds' \cup {Head(toR).cmd}
  <2>1. /\ Len(toR) \in Nat /\ Len(toR') = Len(toR) - 1 /\ Head(toR) = toR[1]
        /\ \A i \in 1..Len(toR') : toR'[i] = toR[i + 1]
    BY <1>1, HeadTailProperties, LenProperties DEF QueueInv
  <2>2. \A i \in 1..Len(toR) : i = 1 \/ (i - 1 \in 1..Len(toR') /\ toR'[i - 1] = toR[i])
    BY <2>1
  <2>. QED BY <2>1, <2>2 DEF Cmds
<1>. QED BY <1>1, AppendCmds, QueueStutter

LEMMA SenderBall ==
    ASSUME SessionInv, SessionInv', BallInv, SenderStep \/ SenderCrash, UNCHANGED receiverVars
    PROVE  BallInv'
<1>. SUFFICES ASSUME SenderUp', ReceiverUp' PROVE BallInv'
  BY DEF BallInv
<1>1. QueueInv /\ rPc' = rPc
  BY DEF SessionInv, PhasesInv, receiverVars
<1>2. /\ raced # {} => Main \in raced /\ sPc \notin {"recv", "sendEnd"}
      /\ raced' # {} => Main \in raced'
  BY DEF SessionInv, SenderInv, SendsOverlapOnlyOnAbort, Aborted
<1>. USE DEF MainAt, MainGoto, SenderUp, ReceiverUp
<1>3. CASE SendDirInfo
  <2>1. \/ sPc' = "recv" /\ toR' = Append(toR, PlainMsg("DIR_INFO"))
        \/ sPc' = "shutdown"
    BY <1>3 DEF SendDirInfo, WriteToReceiver
  <2>2. sPc' = "recv" => "DIR_INFO" \in Cmds'
    BY <1>1, <2>1, CmdsStay, MessageFacts
  <2>. QED BY <2>1, <2>2 DEF BallInv
<1>4. CASE LeaveEnd
  <2>1. sPc' = "recv" /\ toR' = Append(toR, PlainMsg("END"))
    BY <1>2, <1>4 DEF LeaveEnd, LeaveSend, WriteToReceiver
  <2>2. "END" \in Cmds'
    BY <1>1, <2>1, CmdsStay, MessageFacts
  <2>. QED BY <2>1, <2>2 DEF BallInv
<1>5. CASE LeaveShutdown
  <2>1. /\ sPc' = "reap" /\ raced' = raced
        /\ toR' = Append(toR, PlainMsg("SHUTDOWN")) \/ raced # {}
    BY <1>5 DEF LeaveShutdown, LeaveSend, WriteToReceiver
  <2>2. "SHUTDOWN" \in Cmds' \/ raced' # {}
    BY <1>1, <2>1, CmdsStay, MessageFacts
  <2>. QED BY <1>2, <2>1, <2>2 DEF BallInv
<1>6. ASSUME NEW f \in Files, WorkerStep(f) PROVE BallInv'
  <2>1. /\ UNCHANGED <<sPc, toS, receiver>> /\ sender = "up"
        /\ raced \subseteq raced'
        /\ toR' = toR \/ \E m \in MsgsToReceiver : toR' = Append(toR, m)
    BY <1>6, MessageFacts
       DEF WorkerStep, MakePatch, LockAndEnterSend, LeavePatchSend, Unlock, ReleaseGoLimit,
           PatchDone, WorkerAt, EnterSend, LeaveSend, WriteToReceiver, connVars
  <2>2. Cmds \subseteq Cmds'
    BY <1>1, <2>1, CmdsStay
  <2>. QED BY <1>1, <2>1, <2>2 DEF BallInv
<1>7. CASE \/ SendInitParam \/ SenderRecv \/ NextSumList \/ EnterEnd \/ EnterShutdown \/ Reap
           \/ RunReturns \/ SenderCrash \/ \E f \in Files : AcquireGoLimit(f)
  <2>1. sPc' \notin {"recv", "reap"} \/ ~SenderUp' \/ ~ReceiverUp
    BY <1>7 DEF SendInitParam, SenderRecv, NextSumList, EnterEnd, EnterShutdown, Reap, RunReturns,
       SenderCrash, AcquireGoLimit, Panic
  <2>2. receiver' = receiver
    BY <1>7 DEF SendInitParam, SenderRecv, NextSumList, EnterEnd, EnterShutdown, Reap, RunReturns,
       SenderCrash, AcquireGoLimit
  <2>. QED BY <2>1, <2>2 DEF BallInv
<1>. QED BY <1>3, <1>4, <1>5, <1>6, <1>7 DEF SenderStep, MainStep

LEMMA ReceiverBall ==
    ASSUME SessionInv, BallInv, ReceiverStep \/ ReceiverCrash, UNCHANGED senderVars
    PROVE  BallInv'
<1>. SUFFICES ASSUME SenderUp', ReceiverUp' PROVE BallInv'
  BY DEF BallInv
<1>1. QueueInv /\ sPc' = sPc
  BY DEF SessionInv, PhasesInv, senderVars
<1>. USE DEF LoopAt, LoopGoto, SenderUp, ReceiverUp
<1>2. CASE RecvInitParam \/ RecvPatchList \/ RecvDirInfo \/ RecvEnd
  <2>1. /\ toR # <<>> /\ toR' = Tail(toR) /\ rPc = "recv"
        /\ UNCHANGED <<sender, toS, raced>> /\ receiver = "up"
        /\ Head(toR).cmd # "SHUTDOWN"
        /\ Head(toR).cmd = "DIR_INFO" => rPc' = "check"
        /\ Head(toR).cmd = "END" => rPc' = "endWait"
    BY <1>2 DEF RecvInitParam, RecvPatchList, RecvDirInfo, RecvEnd, ReceiverReads
  <2>2. Cmds \subseteq Cmds' \cup {Head(toR).cmd}
    BY <1>1, <2>1, CmdsStay
  <2>. QED BY <1>1, <2>1, <2>2 DEF BallInv
<1>3. CASE SendSumList \/ SendBEnd
  <2>1. /\ UNCHANGED <<sender, toR, raced>> /\ receiver = "up"
        /\ \E m : toS' = Append(toS, m)
    BY <1>3 DEF SendSumList, SendBEnd, WriteToSender
  <2>2. toS = <<>> \/ Requested \/ Replied
    BY DEF SessionInv, PhasesInv, ProtocolInv, EndingInv
  <2>3. toS' # <<>>
    BY <2>1, <2>2 DEF Requested, Replied
  <2>4. Cmds' = Cmds
    BY <1>1, <2>1, CmdsStay
  <2>. QED BY <1>1, <2>1, <2>3, <2>4 DEF BallInv
<1>4. CASE EndCheck
  <2>1. UNCHANGED <<sender, receiver, toR, toS, raced>> /\ rPc' = "sendSumList"
    BY <1>4 DEF EndCheck
  <2>2. Cmds' = Cmds
    BY <1>1, <2>1, CmdsStay
  <2>. QED BY <1>1, <2>1, <2>2 DEF BallInv
<1>5. CASE ReplyFails \/ ReceiverExit \/ ReceiverCrash
  BY <1>5 DEF ReplyFails, ReceiverExit, ReceiverCrash, Exit
<1>6. CASE \/ RemoveFiles
           \/ \E f \in Files : AcquireRebuildLimit(f) \/ CheckFile(f) \/ SumListMade(f)
           \/ \E f \in Files : RebuildFile(f)
  <2>1. /\ UNCHANGED <<sender, toR, toS, raced>> /\ receiver = "up"
        /\ rPc' = rPc \/ rPc = "acquire"
    BY <1>6 DEF RemoveFiles, RemoveFile, RemoveDone, AcquireRebuildLimit, CheckFile, SumListMade,
       RebuildFile, OpenFile, BeginWrite, EndWrite, Verify, Chtimes, CountSuccess, RecordFailure,
       ReleaseRebuildLimit, RebuildDone, unchangedByRebuild, connVars, RebuildAt
  <2>2. Cmds' = Cmds
    BY <1>1, <2>1, CmdsStay
  <2>. QED BY <1>1, <2>1, <2>2 DEF BallInv
<1>. QED BY <1>2, <1>3, <1>4, <1>5, <1>6 DEF ReceiverStep, LoopStep

(* A set of goroutines that is counted and not zero has a member.             *)
LEMMA Counted ==
    ASSUME NEW S \in SUBSET Files, Cardinality(S) # 0 PROVE \E f \in S : TRUE
BY FS_EmptySet

(* Where the pipe has room, some patch goroutine can move unless none is at   *)
(* work: one that waits for the mutex waits for one that holds it.            *)
LEMMA SomeWorkerMoves ==
    ASSUME SessionInv, TurnInv, RoomToReceiver, NEW f \in ActiveWorkers, worker[f] # "spawning"
    PROVE  \E g \in Files : WorkerCanMove(g)
<1>1. f \in Files /\ worker[f] \in WorkerPcs \ {"idle", "spawning", "done"}
  BY DEF ActiveWorkers, SessionInv, SenderInv, SenderShape
<1>2. CASE worker[f] = "lock" /\ mutex # {}
  <2>1. PICK g \in mutex : g \in Files /\ worker[g] \in {"send", "unlock"}
    BY <1>2 DEF TurnInv, SessionInv, RangesInv
  <2>. QED BY <2>1 DEF WorkerCanMove
<1>3. CASE worker[f] # "lock" \/ mutex = {}
  BY <1>1, <1>3 DEF WorkerCanMove, WorkerPcs, MutexFree
<1>. QED BY <1>2, <1>3

(* With room in the pipe the sender waits for the receiver only.              *)
LEMMA SenderWaits ==
    ASSUME SessionInv, TurnInv, RoomToReceiver, SenderUp, ~SenderCanMove
    PROVE  ReceiverUp /\ \/ sPc = "recv" /\ toS = <<>>
                         \/ sPc = "reap"
<1>1. /\ sPc \in SenderPcs /\ goLimit = Cardinality(GoLimitHolders)
      /\ waitGroup = Cardinality(ActiveWorkers)
  BY DEF SessionInv, SenderInv, SenderShape, CountInv
<1>2. ~MainCanMove /\ (subProcessDone \/ ReceiverUp) /\ ~\E f \in Files : WorkerCanMove(f)
  BY DEF SenderCanMove
<1>3. \A f \in ActiveWorkers : worker[f] = "spawning"
  BY <1>2, SomeWorkerMoves
<1>4. sPc # "acquire"
  <2>. SUFFICES ASSUME sPc = "acquire" PROVE FALSE
    OBVIOUS
  <2>1. \E f \in Files : worker[f] = "spawning"
    BY DEF TurnInv, OneSpawning
  <2>2. ~(goLimit < SendMax)
    BY <1>2, <2>1 DEF MainCanMove, GoLimitFree
  <2>3. GoLimitHolders \in SUBSET Files /\ Cardinality(GoLimitHolders) # 0
    BY <1>1, <2>2, Constants DEF GoLimitHolders
  <2>4. PICK f \in GoLimitHolders : TRUE
    BY <2>3, Counted
  <2>5. f \in ActiveWorkers /\ worker[f] # "spawning"
    BY <2>4 DEF GoLimitHolders, ActiveWorkers
  <2>. QED BY <1>3, <2>5
<1>5. sPc # "wait"
  <2>. SUFFICES ASSUME sPc = "wait" PROVE FALSE
    OBVIOUS
  <2>1. ActiveWorkers \in SUBSET Files /\ Cardinality(ActiveWorkers) # 0
    BY <1>1, <1>2 DEF MainCanMove, AllPatchesSent, ActiveWorkers
  <2>2. PICK f \in ActiveWorkers : TRUE
    BY <2>1, Counted
  <2>3. worker[f] # "spawning"
    BY <2>1, <2>2 DEF TurnInv, OneSpawning
  <2>. QED BY <1>3, <2>2, <2>3
<1>. QED BY <1>1, <1>2, <1>4, <1>5 DEF MainCanMove, SenderPcs

(* With room in its pipe the receiver waits for a message only.               *)
LEMMA ReceiverWaits ==
    ASSUME SessionInv, TurnInv, ReceiverUp, ~ReceiverCanMove,
           rPc \in {"sendSumList", "endWait"} => RoomToSender
    PROVE  SenderUp /\ rPc = "recv" /\ toR = <<>>
<1>1. /\ rPc \in ReceiverPcs /\ rebuildGoLimit = Cardinality(RebuildHolders)
      /\ taskWaitGroup = Cardinality(ActiveRebuilds) + (IF remover = "run" THEN 1 ELSE 0)
  BY DEF SessionInv, RangesInv, CountInv
<1>2. /\ ~LoopCanMove /\ fidPathMap = fileSumList /\ remover # "run"
      /\ \A f \in Files : rebuild[f] \in {"idle", "spawning", "done"}
  BY DEF ReceiverCanMove
<1>3. rPc # "acquire"
  <2>. SUFFICES ASSUME rPc = "acquire" PROVE FALSE
    OBVIOUS
  <2>1. \E f \in Files : rebuild[f] = "spawning"
    BY DEF TurnInv, OneSpawning
  <2>2. ~(rebuildGoLimit < RebuildMax)
    BY <1>2, <2>1 DEF LoopCanMove, RebuildLimitFree
  <2>3. RebuildHolders = {}
    BY <1>2 DEF RebuildHolders
  <2>. QED BY <1>1, <2>2, <2>3, FS_EmptySet, Constants
<1>4. rPc # "endWait"
  <2>. SUFFICES ASSUME rPc = "endWait" PROVE FALSE
    OBVIOUS
  <2>1. ActiveRebuilds = {}
    BY <1>2 DEF TurnInv, OneSpawning, ActiveRebuilds
  <2>2. taskWaitGroup = 0
    BY <1>1, <1>2, <2>1, FS_EmptySet
  <2>. QED BY <1>2, <2>2 DEF LoopCanMove, AllTasksDone
<1>. QED BY <1>1, <1>2, <1>3, <1>4 DEF LoopCanMove, AllSumsMade, ReceiverPcs

(* The two goroutine limits, the two counters, the mutex and the two pipes    *)
(* (sender.go:153-186, receiver.go:95-127) never close a circle, for any      *)
(* number of files and any limits: what is left waiting in the end is a       *)
(* session whose SHUTDOWN was lost in a race (sender.go:99-104).              *)
THEOREM NothingElseBlocks == Spec => []OnlyALostShutdownBlocks
<1>1. SessionInv /\ SessionInv' /\ TurnInv /\ BallInv /\ [Next]_vars => TurnInv' /\ BallInv'
  <2>. SUFFICES ASSUME SessionInv, SessionInv', TurnInv, BallInv, [Next]_vars
                PROVE  TurnInv' /\ BallInv'
    OBVIOUS
  <2>1. CASE UNCHANGED vars
    <3>1. /\ UNCHANGED <<sender, receiver, toR, toS, raced>>
          /\ UNCHANGED <<sPc, worker, mutex, rPc, rebuild>>
      BY <2>1 DEF vars, connVars, senderVars, receiverVars, taskVars
    <3>2. Cmds' = Cmds
      BY <3>1, QueueStutter DEF SessionInv, PhasesInv
    <3>. QED BY <3>1, <3>2 DEF TurnInv, OneSpawning, BallInv, SenderUp, ReceiverUp
  <2>. QED BY <2>1, SenderTurns, ReceiverTurns, SenderBall, ReceiverBall DEF Next, Finished
<1>2. SessionInv /\ TurnInv /\ BallInv => OnlyALostShutdownBlocks
  <2>. SUFFICES ASSUME SessionInv, TurnInv, BallInv, ~SenderCanMove, ~ReceiverCanMove, ~Ended
                PROVE  Main \in raced /\ MainAt("reap") /\ LoopAt("recv") /\ toR = <<>>
    BY DEF OnlyALostShutdownBlocks
  <2>1. PipeCap \in Nat /\ PipeCap > 0 /\ Len(<<>>) = 0
    BY ConnectionAssumption DEF ConnectionAssumption
  <2>2. rPc \in {"sendSumList", "endWait"} => RoomToSender
    BY <2>1 DEF RoomToSender, SessionInv, PhasesInv, ProtocolInv, AskingInv, EndingInv
  <2>3. ReceiverUp => SenderUp /\ rPc = "recv" /\ toR = <<>>
    BY <2>2, ReceiverWaits
  <2>4. SenderUp /\ RoomToReceiver
    BY <2>1, <2>3 DEF Ended, RoomToReceiver
  <2>5. ReceiverUp /\ ((sPc = "recv" /\ toS = <<>>) \/ sPc = "reap")
    BY <2>4, SenderWaits
  <2>6. Cmds = {}
    BY <2>1, <2>3, <2>5 DEF Cmds
  <2>. QED BY <2>3, <2>4, <2>5, <2>6 DEF BallInv, MainAt, LoopAt
<1>. QED BY <1>1, <1>2, TurnInvInit, SessionInvHolds, PTL DEF Spec

-----------------------------------------------------------------------------
(* Every step uses up some of the session's work.  A file moves on its way,   *)
(* and the places it has passed are gone.                                     *)
NoPlaceTwice(way) ==
    Len(way) \in Nat /\ \A i, j \in 1..Len(way) : way[i] = way[j] => i = j

Passes(pcs, next, way) ==
    \E f \in Files : \E a, b \in 1..Len(way) :
        /\ a < b /\ pcs[f] = way[a] /\ next[f] = way[b]
        /\ \A g \in Files \ {f} : next[g] = pcs[g]

LEMMA WayMoves ==
    ASSUME NEW way, NEW pcs, NEW next, NoPlaceTwice(way), Passes(pcs, next, way)
    PROVE  Way(next, way) \subseteq Way(pcs, way) /\ Way(next, way) # Way(pcs, way)
<1>. /\ Len(way) \in Nat
     /\ \A i, j \in 1..Len(way) : way[i] = way[j] => i = j
  BY DEF NoPlaceTwice
<1>. PICK f \in Files, a \in 1..Len(way), b \in 1..Len(way) :
        /\ a < b /\ pcs[f] = way[a] /\ next[f] = way[b]
        /\ \A g \in Files \ {f} : next[g] = pcs[g]
  BY DEF Passes
<1>1. ASSUME NEW g \in Files, NEW i \in 1..Len(way), <<g, i>> \in Way(next, way)
      PROVE  <<g, i>> \in Way(pcs, way)
  <2>1. PICK j \in 1..(i - 1) : next[g] = way[j]
    BY <1>1 DEF Way
  <2>2. CASE g = f
    <3>1. j = b
      BY <2>1, <2>2
    <3>2. a \in 1..(i - 1)
      BY <2>1, <3>1
    <3>. QED BY <2>2, <3>2 DEF Way
  <2>. QED BY <2>1, <2>2 DEF Way
<1>2. <<f, b>> \in Way(pcs, way)
  <2>1. a \in 1..(b - 1)
    OBVIOUS
  <2>. QED BY <2>1 DEF Way
<1>3. <<f, b>> \notin Way(next, way)
  <2>. SUFFICES ASSUME NEW j \in 1..(b - 1), next[f] = way[j] PROVE FALSE
    BY DEF Way
  <2>1. j \in 1..Len(way) /\ j # b
    OBVIOUS
  <2>. QED BY <2>1
<1>4. Way(next, way) \subseteq Way(pcs, way)
  <2>. SUFFICES ASSUME NEW x \in Way(next, way) PROVE x \in Way(pcs, way)
    OBVIOUS
  <2>1. PICK g \in Files, i \in 1..Len(way) : x = <<g, i>>
    BY DEF Way
  <2>. QED BY <1>1, <2>1
<1>. QED BY <1>2, <1>3, <1>4

LEMMA WayFacts ==
    /\ Len(WorkerWay) = 9 /\ Len(RebuildWay) = 12
    /\ NoPlaceTwice(WorkerWay) /\ NoPlaceTwice(RebuildWay)
<1>1. Len(WorkerWay) = 9 /\ Len(RebuildWay) = 12
  BY DEF WorkerWay, RebuildWay
<1>2. ASSUME NEW i \in 1..9, NEW j \in 1..9, WorkerWay[i] = WorkerWay[j] PROVE i = j
  BY <1>2 DEF WorkerWay
<1>3. ASSUME NEW i \in 1..12, NEW j \in 1..12, RebuildWay[i] = RebuildWay[j] PROVE i = j
  BY <1>3 DEF RebuildWay
<1>. QED BY <1>1, <1>2, <1>3 DEF NoPlaceTwice

LEMMA WorkerMovesOn ==
    ASSUME worker \in [Files -> WorkerPcs], NEW f \in Files, NEW pc,
           worker' = [worker EXCEPT ![f] = pc],
           \/ worker[f] = "idle" /\ pc = "spawning"
           \/ worker[f] = "spawning" /\ pc = "patch"
           \/ worker[f] = "patch" /\ pc = "lock"
           \/ worker[f] = "lock" /\ pc = "send"
           \/ worker[f] = "send" /\ pc = "unlock"
           \/ worker[f] = "unlock" /\ pc = "release"
           \/ worker[f] = "release" /\ pc = "leave"
           \/ worker[f] = "leave" /\ pc = "done"
    PROVE  Way(worker, WorkerWay)' \subseteq Way(worker, WorkerWay)
           /\ Way(worker, WorkerWay)' # Way(worker, WorkerWay)
<1>1. \E a \in 1..8 : worker[f] = WorkerWay[a] /\ pc = WorkerWay[a + 1]
  <2>1. /\ WorkerWay[1] = "idle" /\ WorkerWay[2] = "spawning" /\ WorkerWay[3] = "patch"
        /\ WorkerWay[4] = "lock" /\ WorkerWay[5] = "send" /\ WorkerWay[6] = "unlock"
        /\ WorkerWay[7] = "release" /\ WorkerWay[8] = "leave" /\ WorkerWay[9] = "done"
    BY DEF WorkerWay
  <2>. QED BY <2>1
<1>2. Passes(worker, worker', WorkerWay)
  <2>1. PICK a \in 1..8 : worker[f] = WorkerWay[a] /\ pc = WorkerWay[a + 1]
    BY <1>1
  <2>2. a \in 1..Len(WorkerWay) /\ a + 1 \in 1..Len(WorkerWay) /\ a < a + 1
    BY WayFacts
  <2>3. worker'[f] = WorkerWay[a + 1] /\ \A g \in Files \ {f} : worker'[g] = worker[g]
    BY <2>1
  <2>. QED BY <2>1, <2>2, <2>3 DEF Passes
<1>3. Way(worker', WorkerWay) \subseteq Way(worker, WorkerWay)
      /\ Way(worker', WorkerWay) # Way(worker, WorkerWay)
  BY <1>2, WayFacts, WayMoves
<1>4. Way(worker, WorkerWay)' = Way(worker', WorkerWay)
  BY DEF Way, WorkerWay
<1>. QED BY <1>3, <1>4

LEMMA RebuildMovesOn ==
    ASSUME rebuild \in [Files -> RebuildPcs], NEW f \in Files, NEW pc,
           rebuild' = [rebuild EXCEPT ![f] = pc],
           \/ rebuild[f] = "idle" /\ pc = "spawning"
           \/ rebuild[f] = "spawning" /\ pc = "open"
           \/ rebuild[f] = "open" /\ pc \in {"write", "fail"}
           \/ rebuild[f] = "write" /\ pc = "flush"
           \/ rebuild[f] = "flush" /\ pc = "verify"
           \/ rebuild[f] = "verify" /\ pc \in {"chtimes", "fail"}
           \/ rebuild[f] = "chtimes" /\ pc = "count"
           \/ rebuild[f] \in {"count", "fail"} /\ pc = "release"
           \/ rebuild[f] = "release" /\ pc = "leave"
           \/ rebuild[f] = "leave" /\ pc = "done"
    PROVE  Way(rebuild, RebuildWay)' \subseteq Way(rebuild, RebuildWay)
           /\ Way(rebuild, RebuildWay)' # Way(rebuild, RebuildWay)
<1>1. \E a, b \in 1..12 : a < b /\ rebuild[f] = RebuildWay[a] /\ pc = RebuildWay[b]
  <2>1. /\ RebuildWay[1] = "idle" /\ RebuildWay[2] = "spawning" /\ RebuildWay[3] = "open"
        /\ RebuildWay[4] = "write" /\ RebuildWay[5] = "flush" /\ RebuildWay[6] = "verify"
        /\ RebuildWay[7] = "chtimes" /\ RebuildWay[8] = "count" /\ RebuildWay[9] = "fail"
        /\ RebuildWay[10] = "release" /\ RebuildWay[11] = "leave" /\ RebuildWay[12] = "done"
    BY DEF RebuildWay
  <2>. QED BY <2>1
<1>2. Passes(rebuild, rebuild', RebuildWay)
  <2>1. PICK a \in 1..12, b \in 1..12 :
           a < b /\ rebuild[f] = RebuildWay[a] /\ pc = RebuildWay[b]
    BY <1>1
  <2>2. a \in 1..Len(RebuildWay) /\ b \in 1..Len(RebuildWay)
    BY WayFacts
  <2>3. rebuild'[f] = RebuildWay[b] /\ \A g \in Files \ {f} : rebuild'[g] = rebuild[g]
    BY <2>1
  <2>. QED BY <2>1, <2>2, <2>3 DEF Passes
<1>3. Way(rebuild', RebuildWay) \subseteq Way(rebuild, RebuildWay)
      /\ Way(rebuild', RebuildWay) # Way(rebuild, RebuildWay)
  BY <1>2, WayFacts, WayMoves
<1>4. Way(rebuild, RebuildWay)' = Way(rebuild', RebuildWay)
  BY DEF Way, RebuildWay
<1>. QED BY <1>3, <1>4

(* The parts of what is left to do, and the whole.                            *)
WorkersLeft  == Way(worker, WorkerWay)
RebuildsLeft == Way(rebuild, RebuildWay)

LEMMA WorkParts ==
    ASSUME Stages' \subseteq Stages, ToCheck' \subseteq ToCheck,
           Files \ fileSumList' \subseteq Files \ fileSumList, ToSend' \subseteq ToSend,
           WorkersLeft' \subseteq WorkersLeft, RebuildsLeft' \subseteq RebuildsLeft,
           toVisit' \subseteq toVisit,
           \/ Stages' # Stages \/ ToCheck' # ToCheck
           \/ Files \ fileSumList' # Files \ fileSumList \/ ToSend' # ToSend
           \/ WorkersLeft' # WorkersLeft \/ RebuildsLeft' # RebuildsLeft \/ toVisit' # toVisit
    PROVE  Work' \subseteq Work /\ Work' # Work
<1>1. /\ \A x : <<"stage", x>> \in Work <=> x \in Stages
      /\ \A x : <<"check", x>> \in Work <=> x \in ToCheck
      /\ \A x : <<"sum", x>> \in Work <=> x \in Files \ fileSumList
      /\ \A x : <<"range", x>> \in Work <=> x \in ToSend
      /\ \A x : <<"worker", x>> \in Work <=> x \in WorkersLeft
      /\ \A x : <<"rebuild", x>> \in Work <=> x \in RebuildsLeft
      /\ \A x : <<"remove", x>> \in Work <=> x \in toVisit
  BY DEF Work, WorkersLeft, RebuildsLeft
<1>2. /\ \A x : <<"stage", x>> \in Work' <=> x \in Stages'
      /\ \A x : <<"check", x>> \in Work' <=> x \in ToCheck'
      /\ \A x : <<"sum", x>> \in Work' <=> x \in Files \ fileSumList'
      /\ \A x : <<"range", x>> \in Work' <=> x \in ToSend'
      /\ \A x : <<"worker", x>> \in Work' <=> x \in WorkersLeft'
      /\ \A x : <<"rebuild", x>> \in Work' <=> x \in RebuildsLeft'
      /\ \A x : <<"remove", x>> \in Work' <=> x \in toVisit'
  BY DEF Work, WorkersLeft, RebuildsLeft
<1>. DEFINE Tags == {"stage", "check", "sum", "range", "worker", "rebuild", "remove"}
<1>3. \A w \in Work' : \E t \in Tags : \E x : w = <<t, x>>
  BY DEF Work
<1>4. Work' \subseteq Work
  <2>. SUFFICES ASSUME NEW w \in Work' PROVE w \in Work
    OBVIOUS
  <2>1. PICK t \in Tags : \E x : w = <<t, x>>
    BY <1>3
  <2>2. PICK x : w = <<t, x>>
    BY <2>1
  <2>. QED BY <1>1, <1>2, <2>2
<1>5. Work' # Work
  BY <1>1, <1>2
<1>. QED BY <1>4, <1>5

Shrinks == Work' \subseteq Work /\ Work' # Work

Passed == {"shutdown", "sendShutdown", "reap"}

(* The stages go by one after the other ...                                   *)
StagesKept ==
    /\ sPc' = "start" => sPc = "start"
    /\ sPc' = "start" \/ "INITPARAM" \in Cmds' => sPc = "start" \/ "INITPARAM" \in Cmds
    /\ sPc' \in {"start", "dirInfo"} => sPc \in {"start", "dirInfo"}
    /\ DirInfoAhead' => DirInfoAhead
    /\ CheckAhead' => CheckAhead
    /\ ReplyAhead' => ReplyAhead
    /\ SumListAhead' => SumListAhead
    /\ WaitAhead' => WaitAhead
    /\ EnterAhead' => EnterAhead
    /\ LeaveAhead' => LeaveAhead
    /\ EndAhead' => EndAhead
    /\ BEndAhead' => BEndAhead
    /\ sPc \in Passed => sPc' \in Passed
    /\ sPc \in Passed \ {"shutdown"} => sPc' \in Passed \ {"shutdown"}
    /\ sPc = "reap" => sPc' = "reap"
    /\ subProcessDone => subProcessDone'
    /\ SenderUp' => SenderUp
    /\ ReceiverUp' => ReceiverUp
    /\ remover' = "idle" => remover = "idle"
    /\ remover = "done" => remover' = "done"

(* ... and one of them with this step.                                        *)
StagePassed ==
    \/ sPc = "start" /\ sPc' # "start"
    \/ (sPc = "start" \/ "INITPARAM" \in Cmds) /\ ~(sPc' = "start" \/ "INITPARAM" \in Cmds')
    \/ sPc \in {"start", "dirInfo"} /\ sPc' \notin {"start", "dirInfo"}
    \/ DirInfoAhead /\ ~DirInfoAhead'
    \/ CheckAhead /\ ~CheckAhead'
    \/ ReplyAhead /\ ~ReplyAhead'
    \/ SumListAhead /\ ~SumListAhead'
    \/ WaitAhead /\ ~WaitAhead'
    \/ EnterAhead /\ ~EnterAhead'
    \/ LeaveAhead /\ ~LeaveAhead'
    \/ EndAhead /\ ~EndAhead'
    \/ BEndAhead /\ ~BEndAhead'
    \/ sPc \notin Passed /\ sPc' \in Passed
    \/ sPc \notin Passed \ {"shutdown"} /\ sPc' \in Passed \ {"shutdown"}
    \/ sPc # "reap" /\ sPc' = "reap"
    \/ ~subProcessDone /\ subProcessDone'
    \/ SenderUp /\ ~SenderUp'
    \/ ReceiverUp /\ ~ReceiverUp'
    \/ remover = "idle" /\ remover' # "idle"
    \/ remover # "done" /\ remover' = "done"

LEMMA StagesAfter ==
    StagesKept => Stages' \subseteq Stages /\ (StagePassed => Stages' # Stages)
BY DEF Stages, When, StagesKept, StagePassed, Passed

(* A step that takes up nothing that is behind.                               *)
NothingBack ==
    /\ StagesKept
    /\ unchecked' \subseteq ToCheck /\ fileSumList \subseteq fileSumList'
    /\ todo' \subseteq ToSend /\ toVisit' \subseteq toVisit
    /\ WorkersLeft' \subseteq WorkersLeft /\ RebuildsLeft' \subseteq RebuildsLeft

LEMMA WorkShrinks ==
    ASSUME NothingBack,
           \/ StagePassed
           \/ ToCheck' # ToCheck \/ ToSend' # ToSend \/ toVisit' # toVisit
           \/ Files \ fileSumList' # Files \ fileSumList
           \/ WorkersLeft' # WorkersLeft \/ RebuildsLeft' # RebuildsLeft
    PROVE  Shrinks
<1>1. Stages' \subseteq Stages /\ (StagePassed => Stages' # Stages)
  BY StagesAfter DEF NothingBack
<1>2. ToCheck' \subseteq ToCheck
  BY DEF ToCheck, StagesKept, NothingBack
<1>3. ToSend' \subseteq ToSend
  BY DEF ToSend, StagesKept, NothingBack
<1>4. Files \ fileSumList' \subseteq Files \ fileSumList
  BY DEF NothingBack
<1>. QED BY <1>1, <1>2, <1>3, <1>4, WorkParts DEF Shrinks, NothingBack

(* The sender's steps leave the receiver's work alone.                        *)
LEMMA SenderBack ==
    ASSUME SessionInv, UNCHANGED receiverVars, StagesKept,
           todo' = todo \/ todo' \subseteq ToSend, WorkersLeft' \subseteq WorkersLeft
    PROVE  NothingBack
<1>1. /\ UNCHANGED <<unchecked, fileSumList, toVisit, rebuild>>
      /\ unchecked \subseteq Files /\ todo \subseteq Files
  BY DEF receiverVars, listVars, taskVars, SessionInv, RangesInv, PhasesInv, ProtocolInv, PatchInv
<1>2. RebuildsLeft' = RebuildsLeft
  BY <1>1 DEF RebuildsLeft, Way, RebuildWay
<1>3. unchecked \subseteq ToCheck /\ todo \subseteq ToSend
  BY <1>1 DEF ToCheck, ToSend
<1>. QED BY <1>1, <1>2, <1>3 DEF NothingBack

LEMMA MainShrinks ==
    ASSUME SessionInv, UNCHANGED receiverVars,
           \/ SendInitParam \/ SendDirInfo \/ SenderRecv
           \/ EnterEnd \/ LeaveEnd \/ EnterShutdown \/ LeaveShutdown \/ Reap
           \/ RunReturns \/ SenderCrash
    PROVE  Shrinks
<1>1. UNCHANGED <<rPc, remover>> /\ QueueInv /\ subProcessDone \in BOOLEAN /\ sPc \in SenderPcs
  BY DEF receiverVars, taskVars, SessionInv, RangesInv, PhasesInv, SenderInv, SenderShape
<1>2. ASSUME NEW m \in MsgsToReceiver, toR' = Append(toR, m) PROVE Cmds' = Cmds \cup {m.cmd}
  BY <1>1, <1>2, CmdsStay
<1>3. toR' = toR => Cmds' = Cmds
  BY <1>1, CmdsStay
<1>4. ASSUME StagesKept, StagePassed, worker' = worker, todo' = todo \/ todo' \subseteq ToSend
      PROVE  Shrinks
  <2>1. WorkersLeft' = WorkersLeft
    BY <1>4 DEF WorkersLeft, Way, WorkerWay
  <2>. QED BY <1>4, <2>1, SenderBack, WorkShrinks
<1>. DEFINE PassedOne == StagesKept /\ StagePassed
<1>. USE DEF MainAt, MainGoto, SenderUp, ReceiverUp
<1>5. CASE SendInitParam
  <2>1. /\ sPc = "start" /\ sender = "up"
        /\ UNCHANGED <<receiver, toS, todo, worker, subProcessDone>>
        /\ \/ sPc' = "dirInfo" /\ sender' = sender
           \/ sPc' = sPc /\ sender' = "crashed"
        /\ Cmds' = Cmds \/ Cmds' = Cmds \cup {"INITPARAM"}
    BY <1>2, <1>3, <1>5, MessageFacts DEF SendInitParam, WriteToReceiver, Panic
  <2>2. PassedOne
    BY <1>1, <2>1 DEF StagesKept, StagePassed, Passed, DirInfoAhead, CheckAhead, ReplyAhead,
       SumListAhead, WaitAhead, EnterAhead, LeaveAhead, EndAhead, BEndAhead
  <2>. QED BY <1>4, <2>1, <2>2
<1>6. CASE SendDirInfo
  <2>1. /\ sPc = "dirInfo" /\ sPc' \in {"recv", "shutdown"}
        /\ UNCHANGED <<sender, receiver, toS, todo, worker, subProcessDone>>
        /\ Cmds' = Cmds \/ Cmds' = Cmds \cup {"DIR_INFO"}
    BY <1>2, <1>3, <1>6, MessageFacts DEF SendDirInfo, WriteToReceiver
  <2>2. PassedOne
    BY <1>1, <2>1 DEF StagesKept, StagePassed, Passed, DirInfoAhead, CheckAhead, ReplyAhead,
       SumListAhead, WaitAhead, EnterAhead, LeaveAhead, EndAhead, BEndAhead
  <2>. QED BY <1>4, <2>1, <2>2
<1>7. CASE SenderRecv
  <2>1. /\ sPc = "recv" /\ UNCHANGED <<sender, receiver, worker, subProcessDone>> /\ Cmds' = Cmds
        /\ \/ /\ sPc' = "range" /\ Requested /\ toS' = <<>> /\ todo' \in SUBSET Files
           \/ sPc' = "shutdown" /\ toS' = <<>> /\ todo' = todo
    <3>1. toS = <<>> \/ Requested \/ Replied
      BY DEF SessionInv, PhasesInv, ProtocolInv, EndingInv
    <3>. QED BY <1>3, <1>7, <3>1, ReplyFacts DEF SenderRecv, SenderReads, SenderAtEOF
  <2>2. Requested => SumListAhead /\ ~ReplyAhead
    <3>1. Requested => toS # <<>> /\ Head(toS).cmd = "SUMLIST"
      BY ReplyFacts
    <3>. QED BY <3>1 DEF SumListAhead, ReplyAhead, CheckAhead, DirInfoAhead, SessionInv, PhasesInv,
         ProtocolInv, AskingInv
  <2>3. PassedOne
    BY <1>1, <2>1, <2>2 DEF StagesKept, StagePassed, Passed, DirInfoAhead, CheckAhead, ReplyAhead,
       SumListAhead, WaitAhead, EnterAhead, LeaveAhead, EndAhead, BEndAhead
  <2>4. todo' = todo \/ todo' \subseteq ToSend
    BY <2>1, <2>2 DEF ToSend
  <2>. QED BY <1>4, <2>1, <2>3, <2>4
<1>8. CASE EnterEnd \/ EnterShutdown
  <2>1. /\ UNCHANGED <<sender, receiver, toS, todo, worker, subProcessDone>> /\ Cmds' = Cmds
        /\ \/ sPc = "wait" /\ sPc' = "sendEnd"
           \/ sPc = "shutdown" /\ sPc' = "sendShutdown"
    BY <1>3, <1>8 DEF EnterEnd, EnterShutdown
  <2>2. sPc = "wait" => ~SumListAhead
    BY DEF SumListAhead, ReplyAhead, CheckAhead, DirInfoAhead, PatchingPcs, Unpatched, SessionInv,
       PhasesInv, ProtocolInv, AskingInv, PatchInv
  <2>3. PassedOne
    BY <1>1, <2>1, <2>2 DEF StagesKept, StagePassed, Passed, DirInfoAhead, CheckAhead, ReplyAhead,
       SumListAhead, WaitAhead, EnterAhead, LeaveAhead, EndAhead, BEndAhead
  <2>. QED BY <1>4, <2>1, <2>3
<1>9. CASE LeaveEnd \/ LeaveShutdown
  <2>1. /\ UNCHANGED <<receiver, toS, todo, worker, subProcessDone>>
        /\ \/ sPc = "sendEnd" /\ sPc' = "recv" /\ sender' = sender
           \/ sPc = "sendShutdown" /\ sPc' = "reap" /\ sender' = sender
           \/ sPc = "sendShutdown" /\ sPc' = sPc /\ sender = "up" /\ sender' = "crashed"
        /\ Cmds' \subseteq Cmds \cup {"END", "SHUTDOWN", "GARBAGE"}
        /\ "END" \in Cmds' => "END" \in Cmds \/ sPc = "sendEnd"
    <3>1. CASE LeaveEnd
      BY <1>2, <1>3, <3>1, MessageFacts DEF LeaveEnd, LeaveSend, WriteToReceiver
    <3>2. CASE LeaveShutdown
      <4>1. \/ Cmds' = Cmds
            \/ Cmds' = Cmds \cup {"SHUTDOWN"}
            \/ Cmds' = Cmds \cup {"GARBAGE"}
        BY <1>2, <1>3, <3>2, MessageFacts DEF LeaveShutdown, LeaveSend, WriteToReceiver
      <4>. QED BY <3>2, <4>1 DEF LeaveShutdown, Panic
    <3>. QED BY <1>9, <3>1, <3>2
  <2>2. sPc = "sendEnd" => ~SumListAhead
    BY DEF SumListAhead, ReplyAhead, CheckAhead, DirInfoAhead, PatchingPcs, Unpatched, SessionInv,
       PhasesInv, ProtocolInv, AskingInv, PatchInv
  <2>3. PassedOne
    BY <1>1, <2>1, <2>2 DEF StagesKept, StagePassed, Passed, DirInfoAhead, CheckAhead, ReplyAhead,
       SumListAhead, WaitAhead, EnterAhead, LeaveAhead, EndAhead, BEndAhead
  <2>. QED BY <1>4, <2>1, <2>3
<1>10. CASE RunReturns \/ Reap \/ SenderCrash
  <2>1. /\ sender = "up" /\ UNCHANGED <<receiver, sPc, todo, worker>>
        /\ toS' = toS \/ toS' = <<>>
        /\ subProcessDone => subProcessDone'
        /\ ~SenderUp' \/ (~subProcessDone /\ subProcessDone' /\ sender' = sender)
    BY <1>10 DEF RunReturns, Reap, SenderCrash, senderVars
  <2>2. Cmds' \subseteq Cmds
    BY <1>1, <1>3, <1>10, QueuePrefix DEF RunReturns, Reap, SenderCrash
  <2>3. PassedOne
    BY <1>1, <2>1, <2>2 DEF StagesKept, StagePassed, Passed, DirInfoAhead, CheckAhead, ReplyAhead,
       SumListAhead, WaitAhead, EnterAhead, LeaveAhead, EndAhead, BEndAhead
  <2>. QED BY <1>4, <2>1, <2>3
<1>. QED BY <1>5, <1>6, <1>7, <1>8, <1>9, <1>10

(* A step of the range loop takes an entry off the list; a goroutine's step   *)
(* moves its file on, or the process is gone.                                 *)
LEMMA PatchingShrinks ==
    ASSUME SessionInv, UNCHANGED receiverVars,
           \/ NextSumList
           \/ \E f \in Files : AcquireGoLimit(f) \/ WorkerStep(f)
    PROVE  Shrinks
<1>1. /\ UNCHANGED <<rPc, remover>> /\ QueueInv /\ worker \in [Files -> WorkerPcs]
      /\ todo \subseteq Files
  BY DEF receiverVars, taskVars, SessionInv, PhasesInv, ProtocolInv, PatchInv, SenderInv,
     SenderShape
<1>2. ASSUME NEW m \in MsgsToReceiver, toR' = Append(toR, m) PROVE Cmds' = Cmds \cup {m.cmd}
  BY <1>1, <1>2, CmdsStay
<1>3. toR' = toR => Cmds' = Cmds
  BY <1>1, CmdsStay
<1>4. worker' = worker => WorkersLeft' = WorkersLeft
  BY DEF WorkersLeft, Way, WorkerWay
<1>. USE DEF MainAt, MainGoto, SenderUp, ReceiverUp
<1>5. CASE NextSumList
  <2>1. /\ sPc = "range" /\ UNCHANGED <<sender, receiver, toS, subProcessDone>> /\ Cmds' = Cmds
        /\ \/ /\ sPc' \in {"range", "acquire", "shutdown"}
              /\ \E f \in todo :
                    /\ todo' = todo \ {f}
                    /\ worker' = worker \/ worker' = [worker EXCEPT ![f] = "spawning"]
           \/ sPc' = "wait" /\ UNCHANGED <<todo, worker>>
    BY <1>3, <1>5 DEF NextSumList
  <2>2. ~SumListAhead
    BY <2>1 DEF SumListAhead, ReplyAhead, CheckAhead, DirInfoAhead, PatchingPcs, Unpatched,
       SessionInv, PhasesInv, ProtocolInv, AskingInv, PatchInv
  <2>3. StagesKept /\ (sPc' = "wait" => StagePassed)
    BY <1>1, <2>1, <2>2 DEF StagesKept, StagePassed, Passed, DirInfoAhead, CheckAhead, ReplyAhead,
       SumListAhead, WaitAhead, EnterAhead, LeaveAhead, EndAhead, BEndAhead
  <2>4. WorkersLeft' \subseteq WorkersLeft
    <3>1. ASSUME NEW f \in todo, worker' = [worker EXCEPT ![f] = "spawning"]
          PROVE  WorkersLeft' \subseteq WorkersLeft
      <4>1. f \in Files /\ worker[f] = "idle"
        BY <2>1 DEF SessionInv, PhasesInv, ProtocolInv, PatchInv
      <4>. QED BY <1>1, <3>1, <4>1, WorkerMovesOn DEF WorkersLeft
    <3>. QED BY <1>4, <2>1, <3>1
  <2>5. sPc' = "wait" \/ ToSend' # ToSend
    BY <2>1, <2>2, <2>3 DEF ToSend, StagesKept
  <2>6. todo' \subseteq ToSend
    BY <1>1, <2>1 DEF ToSend
  <2>. QED BY <2>3, <2>4, <2>5, <2>6, SenderBack, WorkShrinks
<1>6. ASSUME NEW f \in Files, AcquireGoLimit(f) \/ WorkerStep(f) PROVE Shrinks
  <2>1. /\ UNCHANGED <<receiver, toS, todo, subProcessDone>> /\ sender = "up"
        /\ sPc' = sPc \/ (sPc = "acquire" /\ sPc' = "range")
        /\ \/ sender' = sender /\ \E pc \in WorkerPcs :
                /\ worker' = [worker EXCEPT ![f] = pc]
                /\ \/ worker[f] = "spawning" /\ pc = "patch"
                   \/ worker[f] = "patch" /\ pc = "lock"
                   \/ worker[f] = "lock" /\ pc = "send"
                   \/ worker[f] = "send" /\ pc = "unlock"
                   \/ worker[f] = "unlock" /\ pc = "release"
                   \/ worker[f] = "release" /\ pc = "leave"
                   \/ worker[f] = "leave" /\ pc = "done"
           \/ sender' = "crashed" /\ worker' = worker
    BY <1>6 DEF AcquireGoLimit, WorkerStep, MakePatch, LockAndEnterSend, LeavePatchSend, Unlock,
       ReleaseGoLimit, PatchDone, WorkerAt, WorkerGoto, WorkerPcs, connVars
  <2>2. Cmds' \subseteq Cmds \cup {"PATCHLIST", "GARBAGE"}
    <3>1. CASE LeavePatchSend(f)
      <4>1. \/ Cmds' = Cmds
            \/ Cmds' = Cmds \cup {"PATCHLIST"}
            \/ Cmds' = Cmds \cup {"GARBAGE"}
        BY <1>2, <1>3, <3>1, MessageFacts DEF LeavePatchSend, LeaveSend, WriteToReceiver
      <4>. QED BY <4>1
    <3>2. ~LeavePatchSend(f) => toR' = toR
      BY <1>6 DEF AcquireGoLimit, WorkerStep, MakePatch, LockAndEnterSend, Unlock, ReleaseGoLimit,
         PatchDone, connVars
    <3>. QED BY <1>3, <3>1, <3>2
  <2>3. StagesKept /\ (sender' = "crashed" => StagePassed)
    BY <1>1, <2>1, <2>2 DEF StagesKept, StagePassed, Passed, DirInfoAhead, CheckAhead, ReplyAhead,
       SumListAhead, WaitAhead, EnterAhead, LeaveAhead, EndAhead, BEndAhead
  <2>4. /\ WorkersLeft' \subseteq WorkersLeft
        /\ sender' = "crashed" \/ WorkersLeft' # WorkersLeft
    BY <1>1, <1>4, <2>1, WorkerMovesOn DEF WorkersLeft
  <2>. QED BY <2>1, <2>3, <2>4, SenderBack, WorkShrinks
<1>. QED BY <1>5, <1>6

LEMMA SenderShrinks ==
    ASSUME SessionInv, SenderStep \/ SenderCrash, UNCHANGED receiverVars PROVE Shrinks
BY MainShrinks, PatchingShrinks DEF SenderStep, MainStep

(* The receiver's steps leave the sender's work alone.                        *)
LEMMA ReceiverBack ==
    ASSUME SessionInv, UNCHANGED senderVars, StagesKept,
           unchecked' = unchecked \/ unchecked' \subseteq ToCheck,
           fileSumList \subseteq fileSumList', toVisit' \subseteq toVisit,
           RebuildsLeft' \subseteq RebuildsLeft
    PROVE  NothingBack
<1>1. /\ UNCHANGED <<todo, worker>>
      /\ unchecked \subseteq Files /\ todo \subseteq Files
  BY DEF senderVars, SessionInv, RangesInv, PhasesInv, ProtocolInv, PatchInv
<1>2. WorkersLeft' = WorkersLeft
  BY <1>1 DEF WorkersLeft, Way, WorkerWay
<1>3. unchecked \subseteq ToCheck /\ todo \subseteq ToSend
  BY <1>1 DEF ToCheck, ToSend
<1>. QED BY <1>1, <1>2, <1>3 DEF NothingBack

LEMMA LoopShrinks ==
    ASSUME SessionInv, UNCHANGED senderVars,
           \/ RecvInitParam \/ RecvDirInfo \/ RecvEnd \/ SendBEnd \/ ReplyFails \/ ReceiverExit
           \/ EndCheck \/ SendSumList \/ RemoveDone \/ ReceiverCrash
    PROVE  Shrinks
<1>1. /\ UNCHANGED <<sPc, subProcessDone>> /\ QueueInv /\ rPc \in ReceiverPcs
      /\ AskingInv /\ PatchInv /\ EndingInv
  BY DEF senderVars, SessionInv, RangesInv, PhasesInv, ProtocolInv
<1>2. toR' = toR => Cmds' = Cmds
  BY <1>1, CmdsStay
<1>3. UNCHANGED <<rebuild, fileSumList, toVisit>>
  BY DEF RecvInitParam, RecvDirInfo, RecvEnd, SendBEnd, ReplyFails, ReceiverExit, EndCheck,
     SendSumList, RemoveDone, ReceiverCrash, taskVars, listVars, receiverVars
<1>4. ASSUME StagesKept, StagePassed, unchecked' = unchecked \/ unchecked' \subseteq ToCheck
      PROVE  Shrinks
  <2>1. RebuildsLeft' = RebuildsLeft
    BY <1>3 DEF RebuildsLeft, Way, RebuildWay
  <2>. QED BY <1>3, <1>4, <2>1, ReceiverBack, WorkShrinks
<1>. DEFINE PassedOne == StagesKept /\ StagePassed
<1>. USE DEF LoopAt, LoopGoto, SenderUp, ReceiverUp
<1>5. CASE RecvInitParam
  <2>1. /\ rPc = "recv" /\ rPc' = "recv" /\ UNCHANGED <<sender, toS, unchecked, remover>>
        /\ receiver = "up" /\ toR # <<>> /\ toR' = Tail(toR) /\ Head(toR).cmd = "INITPARAM"
    BY <1>5 DEF RecvInitParam, ReceiverReads, Exit, listVars
  <2>2. Cmds' \subseteq Cmds /\ "INITPARAM" \in Cmds /\ "INITPARAM" \notin Cmds' /\ sPc # "start"
    BY <1>1, <2>1, QueueTail DEF AskingInv
  <2>3. PassedOne
    BY <1>1, <2>1, <2>2 DEF StagesKept, StagePassed, Passed, DirInfoAhead, CheckAhead, ReplyAhead,
       SumListAhead, WaitAhead, EnterAhead, LeaveAhead, EndAhead, BEndAhead
  <2>. QED BY <1>4, <2>1, <2>3
<1>6. CASE RecvDirInfo
  <2>1. /\ rPc = "recv" /\ rPc' = "check" /\ UNCHANGED <<sender, receiver, toS, remover>>
        /\ toR # <<>> /\ toR' = Tail(toR) /\ Head(toR).cmd = "DIR_INFO" /\ unchecked' = Files
    BY <1>6 DEF RecvDirInfo, ReceiverReads, taskVars
  <2>2. /\ Cmds' \subseteq Cmds /\ "DIR_INFO" \in Cmds /\ "DIR_INFO" \notin Cmds'
        /\ sPc \notin {"start", "dirInfo"}
    BY <1>1, <2>1, QueueTail DEF AskingInv
  <2>3. PassedOne
    BY <1>1, <2>1, <2>2 DEF StagesKept, StagePassed, Passed, DirInfoAhead, CheckAhead, ReplyAhead,
       SumListAhead, WaitAhead, EnterAhead, LeaveAhead, EndAhead, BEndAhead
  <2>4. unchecked' \subseteq ToCheck
    BY <2>1, <2>2 DEF ToCheck, DirInfoAhead
  <2>. QED BY <1>4, <2>3, <2>4
<1>7. CASE EndCheck \/ SendSumList
  <2>1. /\ UNCHANGED <<sender, receiver, unchecked>> /\ Cmds' = Cmds
        /\ \/ /\ rPc = "check" /\ rPc' = "sendSumList" /\ toS' = toS
              /\ remover' = remover \/ remover' = "run"
           \/ rPc = "sendSumList" /\ rPc' = "recv" /\ remover' = remover
    BY <1>2, <1>7 DEF EndCheck, SendSumList, listVars, taskVars
  <2>2. ~DirInfoAhead /\ (rPc = "check" => remover = "idle")
    BY <1>1, <2>1 DEF AskingInv, DirInfoAhead
  <2>3. PassedOne
    BY <1>1, <2>1, <2>2 DEF StagesKept, StagePassed, Passed, DirInfoAhead, CheckAhead, ReplyAhead,
       SumListAhead, WaitAhead, EnterAhead, LeaveAhead, EndAhead, BEndAhead
  <2>. QED BY <1>4, <2>1, <2>3
<1>8. CASE RecvEnd \/ SendBEnd
  <2>1. /\ UNCHANGED <<sender, receiver, unchecked, remover>>
        /\ \/ /\ rPc = "recv" /\ rPc' = "endWait" /\ toS' = toS /\ toR # <<>> /\ toR' = Tail(toR)
              /\ Head(toR).cmd = "END"
           \/ /\ rPc = "endWait" /\ rPc' = "recv" /\ Cmds' = Cmds
              /\ toS' = toS \/ toS' = Append(toS, BEndMsg(syncResult))
    BY <1>2, <1>8 DEF RecvEnd, SendBEnd, ReceiverReads, WriteToSender, listVars, taskVars
  <2>2. /\ Cmds' \subseteq Cmds
        /\ rPc = "recv" => "END" \in Cmds /\ "END" \notin Cmds'
    BY <1>1, <2>1, QueueTail
  <2>3. /\ toS = <<>> /\ sPc \notin PatchingPcs /\ (rPc = "endWait" => "END" \notin Cmds)
        /\ ~ReplyAhead /\ ~SumListAhead
    BY <1>1, <2>1, <2>2 DEF AskingInv, PatchInv, EndingInv, Unpatched, ReplyAhead, CheckAhead,
       DirInfoAhead, SumListAhead
  <2>4. toS' # <<>> => Head(toS').cmd # "SUMLIST"
    <3>1. toS' = toS \/ toS' = <<BEndMsg(syncResult)>>
      BY <2>1, <2>3
    <3>. QED BY <2>3, <3>1 DEF BEndMsg
  <2>5. PassedOne
    BY <1>1, <2>1, <2>2, <2>3, <2>4 DEF StagesKept, StagePassed, Passed, DirInfoAhead, CheckAhead,
       ReplyAhead, SumListAhead, WaitAhead, EnterAhead, LeaveAhead, EndAhead, BEndAhead, PatchingPcs
  <2>. QED BY <1>4, <2>1, <2>5
<1>9. CASE RemoveDone \/ ReplyFails \/ ReceiverExit \/ ReceiverCrash
  <2>1. /\ UNCHANGED <<sender, toS, rPc, unchecked>> /\ receiver = "up"
        /\ toR' = toR \/ (toR # <<>> /\ toR' = Tail(toR))
        /\ \/ receiver' # "up" /\ remover' = remover
           \/ receiver' = receiver /\ remover = "run" /\ remover' = "done"
    BY <1>9 DEF RemoveDone, ReplyFails, ReceiverExit, ReceiverCrash, ReceiverReads, Exit, connVars,
       listVars, taskVars, receiverVars
  <2>2. Cmds' \subseteq Cmds
    BY <1>1, <2>1, ReceiverReadsCmds
  <2>3. PassedOne
    BY <1>1, <2>1, <2>2 DEF StagesKept, StagePassed, Passed, DirInfoAhead, CheckAhead, ReplyAhead,
       SumListAhead, WaitAhead, EnterAhead, LeaveAhead, EndAhead, BEndAhead
  <2>. QED BY <1>4, <2>1, <2>3
<1>. QED BY <1>5, <1>6, <1>7, <1>8, <1>9

(* A file is checked, summed or removed, and a rebuild moves on or takes the  *)
(* process down.                                                              *)
LEMMA TasksShrink ==
    ASSUME SessionInv, UNCHANGED senderVars,
           \/ RecvPatchList \/ \E x \in Extra : RemoveFile(x)
           \/ \E f \in Files : \/ CheckFile(f) \/ SumListMade(f)
                               \/ AcquireRebuildLimit(f) \/ RebuildFile(f)
    PROVE  Shrinks
<1>1. /\ UNCHANGED <<sPc, subProcessDone>> /\ QueueInv /\ rPc \in ReceiverPcs
      /\ AskingInv /\ PatchInv /\ rebuild \in [Files -> RebuildPcs]
      /\ unchecked \subseteq Files /\ fidPathMap \subseteq Files
  BY DEF senderVars, SessionInv, RangesInv, PhasesInv, ProtocolInv, ReceiverInv
<1>2. toR' = toR => Cmds' = Cmds
  BY <1>1, CmdsStay
<1>3. rebuild' = rebuild => RebuildsLeft' = RebuildsLeft
  BY DEF RebuildsLeft, Way, RebuildWay
<1>. USE DEF LoopAt, LoopGoto, SenderUp, ReceiverUp
<1>4. CASE (\E x \in Extra : RemoveFile(x)) \/ \E f \in Files : CheckFile(f) \/ SumListMade(f)
  <2>1. /\ UNCHANGED <<sender, receiver, toS, rPc, rebuild, remover>> /\ Cmds' = Cmds
        /\ fileSumList \subseteq fileSumList' /\ toVisit' \subseteq toVisit
        /\ \/ toVisit' # toVisit /\ unchecked' = unchecked
           \/ rPc = "check" /\ \E f \in unchecked : unchecked' = unchecked \ {f}
           \/ /\ unchecked' = unchecked
              /\ \E f \in fidPathMap : f \notin fileSumList /\ f \in fileSumList'
    BY <1>2, <1>4 DEF RemoveFile, CheckFile, SumListMade, connVars, taskVars, listVars
  <2>2. StagesKept /\ DirInfoAhead' = DirInfoAhead
    BY <1>1, <2>1 DEF StagesKept, Passed, DirInfoAhead, CheckAhead, ReplyAhead,
       SumListAhead, WaitAhead, EnterAhead, LeaveAhead, EndAhead, BEndAhead
  <2>3. rPc = "check" => ~DirInfoAhead
    BY <1>1 DEF AskingInv, DirInfoAhead
  <2>4. \/ toVisit' # toVisit \/ ToCheck' # ToCheck
        \/ Files \ fileSumList' # Files \ fileSumList
    BY <1>1, <2>1, <2>2, <2>3 DEF ToCheck
  <2>5. unchecked' = unchecked \/ unchecked' \subseteq ToCheck
    BY <1>1, <2>1 DEF ToCheck
  <2>. QED BY <1>3, <2>1, <2>2, <2>4, <2>5, ReceiverBack, WorkShrinks
<1>5. CASE RecvPatchList \/ \E f \in Files : AcquireRebuildLimit(f) \/ RebuildFile(f)
  <2>1. /\ UNCHANGED <<sender, toS, remover, unchecked, fileSumList, toVisit>> /\ receiver = "up"
        /\ toR' = toR \/ (toR # <<>> /\ toR' = Tail(toR))
        /\ rPc' = rPc \/ (rPc = "recv" /\ rPc' = "acquire") \/ (rPc = "acquire" /\ rPc' = "recv")
    BY <1>5 DEF RecvPatchList, ReceiverReads, AcquireRebuildLimit, RebuildFile, OpenFile,
       BeginWrite, EndWrite, Verify, Chtimes, CountSuccess, RecordFailure, ReleaseRebuildLimit,
       RebuildDone, unchangedByRebuild, RebuildAt, listVars
  <2>2. \/ receiver' = receiver /\ \E f \in Files, pc \in RebuildPcs :
              /\ rebuild' = [rebuild EXCEPT ![f] = pc]
              /\ \/ rebuild[f] = "idle" /\ pc = "spawning"
                 \/ rebuild[f] = "spawning" /\ pc = "open"
                 \/ rebuild[f] = "open" /\ pc \in {"write", "fail"}
                 \/ rebuild[f] = "write" /\ pc = "flush"
                 \/ rebuild[f] = "flush" /\ pc = "verify"
                 \/ rebuild[f] = "verify" /\ pc \in {"chtimes", "fail"}
                 \/ rebuild[f] = "chtimes" /\ pc = "count"
                 \/ rebuild[f] \in {"count", "fail"} /\ pc = "release"
                 \/ rebuild[f] = "release" /\ pc = "leave"
                 \/ rebuild[f] = "leave" /\ pc = "done"
        \/ receiver' = "crashed" /\ rebuild' = rebuild
    <3>1. CASE RecvPatchList
      <4>1. Head(toR).fid \in Files /\ rebuild[Head(toR).fid] = "idle"
        BY <1>1, <3>1, QueueTail DEF RecvPatchList, ReceiverReads, PatchInv, Pending
      <4>. QED BY <3>1, <4>1 DEF RecvPatchList, RebuildPcs
    <3>2. ASSUME NEW f \in Files, AcquireRebuildLimit(f) \/ RebuildFile(f)
          PROVE  \/ /\ receiver' = receiver
                    /\ \E pc \in RebuildPcs :
                       /\ rebuild' = [rebuild EXCEPT ![f] = pc]
                       /\ \/ rebuild[f] = "spawning" /\ pc = "open"
                          \/ rebuild[f] = "open" /\ pc \in {"write", "fail"}
                          \/ rebuild[f] = "write" /\ pc = "flush"
                          \/ rebuild[f] = "flush" /\ pc = "verify"
                          \/ rebuild[f] = "verify" /\ pc \in {"chtimes", "fail"}
                          \/ rebuild[f] = "chtimes" /\ pc = "count"
                          \/ rebuild[f] \in {"count", "fail"} /\ pc = "release"
                          \/ rebuild[f] = "release" /\ pc = "leave"
                          \/ rebuild[f] = "leave" /\ pc = "done"
                 \/ receiver' = "crashed" /\ rebuild' = rebuild
      BY <3>2 DEF AcquireRebuildLimit, RebuildFile, OpenFile, BeginWrite, EndWrite, Verify,
         Chtimes, CountSuccess, RecordFailure, ReleaseRebuildLimit, RebuildDone, RebuildAt,
         RebuildGoto, RebuildPcs
    <3>. QED BY <1>5, <3>1, <3>2
  <2>3. Cmds' \subseteq Cmds
    BY <1>1, <2>1, ReceiverReadsCmds
  <2>4. StagesKept /\ (receiver' = "crashed" => StagePassed)
    BY <1>1, <2>1, <2>2, <2>3 DEF StagesKept, StagePassed, Passed, DirInfoAhead, CheckAhead,
       ReplyAhead, SumListAhead, WaitAhead, EnterAhead, LeaveAhead, EndAhead, BEndAhead
  <2>5. /\ RebuildsLeft' \subseteq RebuildsLeft
        /\ receiver' = "crashed" \/ RebuildsLeft' # RebuildsLeft
    BY <1>1, <1>3, <2>2, RebuildMovesOn DEF RebuildsLeft
  <2>. QED BY <2>1, <2>4, <2>5, ReceiverBack, WorkShrinks
<1>. QED BY <1>4, <1>5

LEMMA ReceiverShrinks ==
    ASSUME SessionInv, ReceiverStep \/ ReceiverCrash, UNCHANGED senderVars PROVE Shrinks
BY LoopShrinks, TasksShrink DEF ReceiverStep, LoopStep, RemoveFiles

-----------------------------------------------------------------------------
(* How much work there can be.                                                *)
StageNames ==
    <<"start", "init", "dirInfo", "check", "endCheck", "sumList", "range", "wait", "enterEnd",
      "leaveEnd", "endWait", "bEnd", "shutdown", "enterShutdown", "leaveShutdown", "subProcess",
      "sender", "receiver", "remove", "removed">>

Within(S, n) == IsFiniteSet(S) /\ n \in Int /\ Cardinality(S) <= n

MostWork == 20 + Cardinality(Files) * 22 + Cardinality(Extra)

LEMMA SubsetWithin == ASSUME NEW n, NEW S, Within(S, n), NEW T \in SUBSET S PROVE Within(T, n)
<1>1. IsFiniteSet(S) /\ IsFiniteSet(T) /\ Cardinality(T) <= Cardinality(S)
  BY FS_Subset DEF Within
<1>2. Cardinality(S) \in Int /\ Cardinality(T) \in Int
  BY <1>1, FS_CardinalityType
<1>. QED BY <1>1, <1>2 DEF Within

LEMMA UnionWithin ==
    ASSUME NEW m, NEW n, NEW S, NEW T, Within(S, m), Within(T, n)
    PROVE  Within(S \cup T, m + n)
<1>1. /\ IsFiniteSet(S \cup T) /\ IsFiniteSet(S \cap T)
      /\ Cardinality(S \cup T) = Cardinality(S) + Cardinality(T) - Cardinality(S \cap T)
  BY FS_Union, FS_Intersection DEF Within
<1>2. Cardinality(S) \in Nat /\ Cardinality(T) \in Nat /\ Cardinality(S \cap T) \in Nat
  BY <1>1, FS_CardinalityType DEF Within
<1>. QED BY <1>1, <1>2 DEF Within

LEMMA TaggedWithin ==
    ASSUME NEW n, NEW tag, NEW T, Within(T, n) PROVE Within({tag} \X T, n)
<1>1. IsFiniteSet({tag}) /\ Cardinality({tag}) = 1
  BY FS_Singleton
<1>2. IsFiniteSet({tag} \X T) /\ Cardinality({tag} \X T) = Cardinality({tag}) * Cardinality(T)
  BY <1>1, FS_Product DEF Within
<1>3. Cardinality(T) \in Int
  BY FS_CardinalityType DEF Within
<1>. QED BY <1>1, <1>2, <1>3 DEF Within

LEMMA StagesWithin == Within(Stages, 20)
<1>. DEFINE n == 20  Names == {StageNames[i] : i \in 1..n}
<1>1. Stages \subseteq Names
  <2>1. \A s \in Stages : \E i \in 1..20 : s = StageNames[i]
    BY DEF Stages, When, StageNames
  <2>. QED BY <2>1
<1>2. n \in Nat
  OBVIOUS
<1>3. n = 20
  OBVIOUS
<1>. HIDE DEF n
<1>4. [i \in 1..n |-> StageNames[i]] \in Surjection(1..n, Names)
  BY DEF Surjection
<1>5. IsFiniteSet(1..n) /\ Cardinality(1..n) = IF 1 > n THEN 0 ELSE n - 1 + 1
  BY <1>2, FS_Interval
<1>. HIDE DEF Names
<1>6. IsFiniteSet(Names) /\ Cardinality(Names) <= Cardinality(1..n)
  BY <1>4, <1>5, FS_Surjection
<1>7. Within(Names, 20)
  BY <1>3, <1>5, <1>6, FS_CardinalityType DEF Within
<1>. QED BY <1>1, <1>7, SubsetWithin

LEMMA PlacesWithin ==
    ASSUME NEW len \in Nat, NEW S \in SUBSET (Files \X (2..(len + 1)))
    PROVE  Within(S, Cardinality(Files) * len)
<1>1. IsFiniteSet(2..(len + 1)) /\ Cardinality(2..(len + 1)) = len
  <2>1. /\ IsFiniteSet(2..(len + 1))
        /\ Cardinality(2..(len + 1)) = IF 2 > len + 1 THEN 0 ELSE (len + 1) - 2 + 1
    BY FS_Interval
  <2>. QED BY <2>1
<1>2. /\ IsFiniteSet(Files \X (2..(len + 1)))
      /\ Cardinality(Files \X (2..(len + 1))) = Cardinality(Files) * Cardinality(2..(len + 1))
  BY <1>1, Constants, FS_Product
<1>3. Cardinality(Files) * len \in Int
  BY <1>1, <1>2, FS_CardinalityType
<1>4. Within(Files \X (2..(len + 1)), Cardinality(Files) * len)
  <2>1. Cardinality(Files \X (2..(len + 1))) = Cardinality(Files) * len
    BY <1>1, <1>2
  <2>. QED BY <1>2, <1>3, <2>1 DEF Within
<1>. QED BY <1>4, SubsetWithin

LEMMA WayWithin ==
    /\ Within(WorkersLeft, Cardinality(Files) * 8)
    /\ Within(RebuildsLeft, Cardinality(Files) * 11)
<1>1. WorkersLeft \in SUBSET (Files \X (2..(8 + 1)))
  BY WayFacts DEF WorkersLeft, Way
<1>2. RebuildsLeft \in SUBSET (Files \X (2..(11 + 1)))
  BY WayFacts DEF RebuildsLeft, Way
<1>3. Within(WorkersLeft, Cardinality(Files) * 8)
  BY <1>1, PlacesWithin
<1>4. Within(RebuildsLeft, Cardinality(Files) * 11)
  BY <1>2, PlacesWithin
<1>. QED BY <1>3, <1>4

LEMMA WorkWithin == ASSUME SessionInv PROVE Within(Work, MostWork)
<1>. DEFINE N == Cardinality(Files)  M == Cardinality(Extra)
<1>1. N \in Int /\ M \in Int /\ Within(Files, N) /\ Within(Extra, M)
  BY ConnectionAssumption, FS_CardinalityType DEF ConnectionAssumption, Within
<1>2. /\ ToCheck \in SUBSET Files /\ ToSend \in SUBSET Files
      /\ Files \ fileSumList \in SUBSET Files /\ toVisit \in SUBSET Extra
  BY DEF ToCheck, ToSend, SessionInv, RangesInv, PhasesInv, ProtocolInv, PatchInv
<1>. DEFINE A == {"stage"} \X Stages                B == {"check"} \X ToCheck
            C == {"sum"} \X (Files \ fileSumList)   D == {"range"} \X ToSend
            E == {"worker"} \X WorkersLeft          F == {"rebuild"} \X RebuildsLeft
            G == {"remove"} \X toVisit
<1>3. Within(A, 20)
  BY StagesWithin, TaggedWithin
<1>4. Within(B, N) /\ Within(C, N) /\ Within(D, N) /\ Within(G, M)
  <2>1. Within(ToCheck, N) /\ Within(Files \ fileSumList, N) /\ Within(ToSend, N)
        /\ Within(toVisit, M)
    BY <1>1, <1>2, SubsetWithin
  <2>. QED BY <1>1, <2>1, TaggedWithin
<1>5. N * 8 \in Int /\ N * 11 \in Int /\ Within(E, N * 8) /\ Within(F, N * 11)
  <2>1. N * 8 \in Int /\ N * 11 \in Int
    BY <1>1
  <2>. QED BY <2>1, WayWithin, TaggedWithin
<1>6. Work = ((A \cup B) \cup (C \cup D)) \cup ((E \cup F) \cup G)
  BY DEF Work, WorkersLeft, RebuildsLeft
<1>7. MostWork = ((20 + N) + (N + N)) + ((N * 8 + N * 11) + M)
  BY <1>1 DEF MostWork
<1>. HIDE DEF N, M, A, B, C, D, E, F, G
<1>8. Within(A \cup B, 20 + N) /\ Within(C \cup D, N + N) /\ Within(E \cup F, N * 8 + N * 11)
  BY <1>1, <1>3, <1>4, <1>5, UnionWithin
<1>9. /\ Within((A \cup B) \cup (C \cup D), (20 + N) + (N + N))
      /\ Within((E \cup F) \cup G, (N * 8 + N * 11) + M)
  BY <1>1, <1>4, <1>5, <1>8, UnionWithin
<1>. QED BY <1>1, <1>5, <1>6, <1>7, <1>9, UnionWithin

(* No step of a session is taken twice, whatever fails and whoever crashes    *)
(* (sender.go:142-190, receiver.go:86-127, 301-340): a session of N files     *)
(* with M files to remove takes at most 20 + 22 N + M steps.                  *)
THEOREM SessionsRunOut == Spec => EveryStepUsesUp /\ [](Cardinality(Work) <= MostWork)
<1>1. SessionInv /\ SessionInv' /\ [Next]_vars => [Cardinality(Work') < Cardinality(Work)]_vars
  <2>. SUFFICES ASSUME SessionInv, SessionInv', Next, ~UNCHANGED vars
                PROVE  Cardinality(Work') < Cardinality(Work)
    OBVIOUS
  <2>1. Shrinks
    BY SenderShrinks, ReceiverShrinks DEF Next, Finished
  <2>2. IsFiniteSet(Work) /\ Cardinality(Work) \in Nat
      BY WorkWithin, FS_CardinalityType DEF Within
  <2>3. IsFiniteSet(Work') /\ Cardinality(Work') \in Nat
    BY <2>1, <2>2, FS_Subset, FS_CardinalityType DEF Shrinks
  <2>4. Cardinality(Work') <= Cardinality(Work) /\ Cardinality(Work') # Cardinality(Work)
    BY <2>1, <2>2, FS_Subset DEF Shrinks
  <2>. QED BY <2>2, <2>3, <2>4
<1>2. SessionInv => Cardinality(Work) <= MostWork
  BY WorkWithin DEF Within
<1>. QED BY <1>1, <1>2, SessionInvHolds, PTL DEF Spec, EveryStepUsesUp
=============================================================================
