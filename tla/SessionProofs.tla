--------------------------- MODULE SessionProofs ---------------------------
(***************************************************************************)
(* What holds of a session with any number of files, any goroutine limits  *)
(* and any faults.  First, from an invariant for each end: the mtime is    *)
(* put on verified bytes only, the goroutine limits hold, and conn.Send    *)
(* overlaps only in an aborted session.  Second: the printed result is     *)
(* the truth.  Its invariant follows the protocol through its phases by    *)
(* what is on its way in the two pipes: the request, the list of wanted    *)
(* files, one patch per file, the END behind them all, and the reply, made *)
(* when nothing is left to do.                                             *)
(***************************************************************************)
EXTENDS Session, FiniteSetTheorems, SequenceTheorems, TLAPS

LEMMA Constants ==
    /\ IsFiniteSet(Files) /\ Main \notin Files
    /\ SendMax \in Nat /\ SendMax > 0 /\ RebuildMax \in Nat /\ RebuildMax > 0
BY ConnectionAssumption, SenderAssumption, ReceiverAssumption
   DEF ConnectionAssumption, SenderAssumption, ReceiverAssumption

(* How a token moves: the set of holders shrinks, loses f, or gains f.        *)
LEMMA CardinalityBounds ==
    ASSUME NEW S \in SUBSET Files, NEW T \in SUBSET Files
    PROVE  /\ Cardinality(S) \in Nat /\ Cardinality(T) \in Nat
           /\ T \subseteq S => Cardinality(T) <= Cardinality(S)
           /\ \A f \in S : T \subseteq S \ {f} => Cardinality(T) <= Cardinality(S) - 1
           /\ \A f : T \subseteq S \cup {f} => Cardinality(T) <= Cardinality(S) + 1
<1>1. IsFiniteSet(S) /\ IsFiniteSet(T)
  BY Constants, FS_Subset
<1>2. Cardinality(S) \in Nat /\ Cardinality(T) \in Nat
  BY <1>1, FS_CardinalityType
<1>3. T \subseteq S => Cardinality(T) <= Cardinality(S)
  BY <1>1, FS_Subset
<1>4. ASSUME NEW f \in S, T \subseteq S \ {f} PROVE Cardinality(T) <= Cardinality(S) - 1
  <2>1. IsFiniteSet(S \ {f}) /\ Cardinality(S \ {f}) = Cardinality(S) - 1
    BY <1>1, FS_RemoveElement
  <2>. QED BY <1>2, <1>4, <2>1, FS_Subset
<1>5. ASSUME NEW f, T \subseteq S \cup {f} PROVE Cardinality(T) <= Cardinality(S) + 1
  <2>1. IsFiniteSet(S \cup {f}) /\ Cardinality(S \cup {f}) <= Cardinality(S) + 1
    <3>1. /\ IsFiniteSet(S \cup {f})
          /\ Cardinality(S \cup {f}) = IF f \in S THEN Cardinality(S) ELSE Cardinality(S) + 1
      BY <1>1, FS_AddElement
    <3>. QED BY <1>2, <3>1
  <2>2. Cardinality(T) <= Cardinality(S \cup {f}) /\ Cardinality(S \cup {f}) \in Nat
    BY <1>5, <2>1, FS_Subset, FS_CardinalityType
  <2>. QED BY <1>2, <2>1, <2>2
<1>. QED BY <1>2, <1>3, <1>4, <1>5

-----------------------------------------------------------------------------
(* The receiver's end.                                                        *)
ReceiverInv ==
    /\ rebuild \in [Files -> RebuildPcs]
    /\ content \in [Files -> {"absent", "old", "new", "torn"}]
    /\ stamped \in SUBSET Files
    /\ rebuildGoLimit \in Int /\ rebuildGoLimit <= RebuildMax
    /\ Cardinality(RebuildHolders) <= rebuildGoLimit
    /\ \A f \in Files : rebuild[f] = "chtimes" => content[f] = "new"
    /\ StampedIsVerified

LEMMA ReceiverInvInit == Init => ReceiverInv
<1>. SUFFICES ASSUME Init PROVE ReceiverInv
  OBVIOUS
<1>1. RebuildHolders = {}
  BY DEF Init, ReceiverInit, RebuildHolders
<1>2. Cardinality({}) = 0
  BY FS_EmptySet
<1>. QED BY <1>1, <1>2, Constants
         DEF Init, ReceiverInit, ReceiverInv, RebuildPcs, StampedIsVerified

(* What every step of a RebuildFile goroutine but the token's does.           *)
LEMMA HoldersAfter ==
    ASSUME ReceiverInv, NEW f \in Files, NEW pc \in RebuildPcs,
           rebuild' = [rebuild EXCEPT ![f] = pc]
    PROVE  /\ rebuild' \in [Files -> RebuildPcs]
           /\ RebuildHolders' \in SUBSET Files /\ RebuildHolders \in SUBSET Files
           /\ f \in RebuildHolders => RebuildHolders' \subseteq RebuildHolders
           /\ pc \in {"idle", "spawning", "leave", "done"}
                => RebuildHolders' \subseteq RebuildHolders \ {f}
           /\ RebuildHolders' \subseteq RebuildHolders \cup {f}
BY DEF ReceiverInv, RebuildHolders

LEMMA ReceiverInvStutter ==
    ReceiverInv /\ UNCHANGED <<rebuild, rebuildGoLimit, content, stamped>> => ReceiverInv'
BY DEF ReceiverInv, RebuildHolders, StampedIsVerified

(* RecvPatchList: a goroutine that waits for its token holds none.            *)
LEMMA RecvPatchListInv == ReceiverInv /\ RecvPatchList => ReceiverInv'
<1>. SUFFICES ASSUME ReceiverInv, RecvPatchList PROVE ReceiverInv'
  OBVIOUS
<1>. DEFINE f == Head(toR).fid
<1>1. /\ rebuild' = [rebuild EXCEPT ![f] = "spawning"]
      /\ UNCHANGED <<rebuildGoLimit, content, stamped>>
  BY DEF RecvPatchList, diskVars
<1>2. rebuild' \in [Files -> RebuildPcs] /\ RebuildHolders' \subseteq RebuildHolders
      /\ \A g \in Files : rebuild'[g] = "chtimes" => rebuild[g] = "chtimes"
  BY <1>1 DEF ReceiverInv, RebuildHolders, RebuildPcs
<1>3. Cardinality(RebuildHolders') \in Int /\ Cardinality(RebuildHolders) \in Int
      /\ Cardinality(RebuildHolders') <= Cardinality(RebuildHolders)
  BY <1>2, CardinalityBounds DEF RebuildHolders
<1>. QED BY <1>1, <1>2, <1>3, Constants DEF ReceiverInv, StampedIsVerified

LEMMA AcquireRebuildLimitInv ==
    ASSUME NEW f \in Files, ReceiverInv, AcquireRebuildLimit(f) PROVE ReceiverInv'
<1>1. /\ rebuild[f] = "spawning" /\ rebuildGoLimit < RebuildMax
      /\ rebuildGoLimit' = rebuildGoLimit + 1
      /\ rebuild' = [rebuild EXCEPT ![f] = "open"] /\ UNCHANGED <<content, stamped>>
  BY DEF AcquireRebuildLimit, RebuildLimitFree, diskVars
<1>2. RebuildHolders' \in SUBSET Files /\ RebuildHolders' \subseteq RebuildHolders \cup {f}
      /\ rebuild' \in [Files -> RebuildPcs]
  BY <1>1, HoldersAfter DEF RebuildPcs
<1>3. Cardinality(RebuildHolders') \in Int /\ Cardinality(RebuildHolders) \in Int
      /\ Cardinality(RebuildHolders') <= Cardinality(RebuildHolders) + 1
  BY <1>2, CardinalityBounds DEF RebuildHolders
<1>. QED BY <1>1, <1>2, <1>3, Constants DEF ReceiverInv, StampedIsVerified

(* Between taking and giving back the token, a goroutine changes no token and *)
(* no file but its own.  It reaches "chtimes" only with the right content,    *)
(* and takes the stamp off before the content changes.                        *)
LEMMA RebuildStepInv ==
    ASSUME NEW f \in Files, ReceiverInv,
           OpenFile(f) \/ BeginWrite(f) \/ EndWrite(f) \/ Verify(f) \/ Chtimes(f)
             \/ CountSuccess(f) \/ RecordFailure(f)
    PROVE  ReceiverInv'
<1>1. PICK pc \in RebuildPcs :
        /\ rebuild' = [rebuild EXCEPT ![f] = pc] \/ rebuild' = rebuild
        /\ f \in RebuildHolders /\ rebuildGoLimit' = rebuildGoLimit
  BY DEF OpenFile, BeginWrite, EndWrite, Verify, Chtimes, CountSuccess, RecordFailure,
         RebuildAt, RebuildGoto, RebuildHolders, RebuildPcs
<1>2. /\ RebuildHolders' \in SUBSET Files /\ RebuildHolders' \subseteq RebuildHolders
      /\ RebuildHolders \in SUBSET Files /\ rebuild' \in [Files -> RebuildPcs]
  BY <1>1, HoldersAfter DEF RebuildHolders, ReceiverInv
<1>3. Cardinality(RebuildHolders') <= rebuildGoLimit
  <2>1. /\ Cardinality(RebuildHolders') \in Int /\ Cardinality(RebuildHolders) \in Int
        /\ Cardinality(RebuildHolders') <= Cardinality(RebuildHolders)
    BY <1>2, CardinalityBounds
  <2>. QED BY <2>1 DEF ReceiverInv
<1>. DEFINE DiskOK == /\ content' \in [Files -> {"absent", "old", "new", "torn"}]
                      /\ stamped' \in SUBSET Files
                      /\ \A g \in Files : rebuild'[g] = "chtimes" => content'[g] = "new"
                      /\ StampedIsVerified'
<1>4. DiskOK
  <2>. USE DEF ReceiverInv, RebuildAt, RebuildGoto, RebuildPcs, diskVars, StampedIsVerified
  <2>1. CASE OpenFile(f)
    BY <2>1 DEF OpenFile, Created
  <2>2. CASE BeginWrite(f)
    BY <2>2 DEF BeginWrite
  <2>3. CASE EndWrite(f)
    BY <2>3 DEF EndWrite
  <2>4. CASE Verify(f)
    BY <2>4 DEF Verify, HashMatches
  <2>5. CASE Chtimes(f)
    BY <2>5 DEF Chtimes
  <2>6. CASE CountSuccess(f)
    BY <2>6 DEF CountSuccess
  <2>7. CASE RecordFailure(f)
    BY <2>7 DEF RecordFailure
  <2>. QED BY <2>1, <2>2, <2>3, <2>4, <2>5, <2>6, <2>7
<1>. QED BY <1>1, <1>2, <1>3, <1>4 DEF ReceiverInv

LEMMA ReleaseRebuildLimitInv ==
    ASSUME NEW f \in Files, ReceiverInv, ReleaseRebuildLimit(f) \/ RebuildDone(f)
    PROVE  ReceiverInv'
<1>1. CASE ReleaseRebuildLimit(f)
  <2>1. /\ rebuild[f] = "release" /\ rebuildGoLimit' = rebuildGoLimit - 1
        /\ rebuild' = [rebuild EXCEPT ![f] = "leave"] /\ UNCHANGED <<content, stamped>>
    BY <1>1 DEF ReleaseRebuildLimit, RebuildAt, RebuildGoto, diskVars
  <2>2. RebuildHolders' \in SUBSET Files /\ RebuildHolders' \subseteq RebuildHolders \ {f}
        /\ rebuild' \in [Files -> RebuildPcs] /\ f \in RebuildHolders
    BY <2>1, HoldersAfter DEF RebuildPcs, RebuildHolders
  <2>3. Cardinality(RebuildHolders') \in Int /\ Cardinality(RebuildHolders) \in Int
        /\ Cardinality(RebuildHolders') <= Cardinality(RebuildHolders) - 1
    BY <2>2, CardinalityBounds DEF RebuildHolders
  <2>. QED BY <2>1, <2>2, <2>3, Constants DEF ReceiverInv, StampedIsVerified
<1>2. CASE RebuildDone(f)
  <2>1. /\ rebuild[f] = "leave" /\ UNCHANGED <<rebuildGoLimit, content, stamped>>
        /\ rebuild' = [rebuild EXCEPT ![f] = "done"]
    BY <1>2 DEF RebuildDone, RebuildAt, RebuildGoto, diskVars
  <2>2. RebuildHolders' = RebuildHolders /\ rebuild' \in [Files -> RebuildPcs]
    BY <2>1 DEF RebuildHolders, ReceiverInv, RebuildPcs
  <2>. QED BY <2>1, <2>2 DEF ReceiverInv, StampedIsVerified
<1>. QED BY <1>1, <1>2

(* Every other step of the session leaves files and tokens alone.             *)
LEMMA ReceiverInvNext == ReceiverInv /\ [Next]_vars => ReceiverInv'
<1>. SUFFICES ASSUME ReceiverInv, [Next]_vars PROVE ReceiverInv'
  OBVIOUS
<1>. USE DEF receiverVars, taskVars, diskVars, unchangedByRebuild
<1>1. CASE UNCHANGED receiverVars
  BY <1>1, ReceiverInvStutter
<1>2. CASE LoopStep
  <2>1. CASE RecvInitParam \/ RecvDirInfo \/ RecvEnd \/ SendBEnd \/ ReceiverExit \/ EndCheck
               \/ ReplyFails \/ SendSumList \/ \E f \in Files : CheckFile(f) \/ SumListMade(f)
    BY <2>1, ReceiverInvStutter DEF RecvInitParam, RecvDirInfo, RecvEnd, SendBEnd, ReceiverExit,
       ReplyFails, EndCheck, SendSumList, CheckFile, SumListMade
  <2>. QED BY <1>2, <2>1, RecvPatchListInv, AcquireRebuildLimitInv DEF LoopStep
<1>3. CASE RemoveFiles \/ ReceiverCrash
  BY <1>3, ReceiverInvStutter DEF RemoveFiles, RemoveFile, RemoveDone, ReceiverCrash
<1>4. CASE \E f \in Files : RebuildFile(f)
  BY <1>4, RebuildStepInv, ReleaseRebuildLimitInv DEF RebuildFile
<1>5. CASE UNCHANGED vars
  BY <1>5, ReceiverInvStutter DEF vars
<1>. QED BY <1>1, <1>2, <1>3, <1>4, <1>5 DEF Next, ReceiverStep, Finished

(* No crash, abort, failed write or interleaving puts the sender's mtime on a *)
(* file that does not hold the sender's bytes (receiver.go:229-242), so the   *)
(* quick check of a later session never takes such a file for up to date.     *)
THEOREM StampsAreEarned == Spec => []StampedIsVerified
<1>1. ReceiverInv => StampedIsVerified
  BY DEF ReceiverInv
<1>. QED BY <1>1, ReceiverInvInit, ReceiverInvNext, PTL DEF Spec

-----------------------------------------------------------------------------
(* The sender's end.                                                          *)
SenderShape ==
    /\ worker \in [Files -> WorkerPcs] /\ sPc \in SenderPcs
    /\ inSend \in SUBSET (Files \cup {Main}) /\ raced \in SUBSET (Files \cup {Main})
    /\ goLimit \in Int /\ waitGroup \in Int

TokensInv ==
    /\ goLimit <= SendMax /\ Cardinality(GoLimitHolders) <= goLimit
    /\ Cardinality(ActiveWorkers) <= waitGroup

(* Who holds the mutex and who is inside Send.                                *)
MutexInv ==
    /\ \A f \in Files : worker[f] \in {"send", "unlock"} => f \in mutex
    /\ \A f \in Files : f \in inSend => worker[f] = "send"
    /\ \A f, g \in Files : worker[f] = "send" /\ worker[g] = "send" => f = g
    /\ Main \in inSend => sPc \in {"sendEnd", "sendShutdown"}

(* When the main goroutine may still have patch goroutines at work.           *)
PhaseInv ==
    /\ sPc \in {"start", "dirInfo", "recv", "sendEnd"} => ActiveWorkers = {}
    /\ sPc \in {"range", "acquire"} => \A f \in Files : f \in todo => f \notin ActiveWorkers
    /\ report # {} => ActiveWorkers = {} /\ sPc \in {"shutdown", "sendShutdown", "reap"}

SenderInv == SenderShape /\ TokensInv /\ MutexInv /\ PhaseInv /\ SendsOverlapOnlyOnAbort

usedBySenderInv == <<sPc, todo, worker, waitGroup, goLimit, mutex, report, inSend, raced>>

LEMMA SenderInvInit == Init => SenderInv
<1>. SUFFICES ASSUME Init PROVE SenderInv
  OBVIOUS
<1>1. GoLimitHolders = {} /\ ActiveWorkers = {}
  BY DEF Init, SenderInit, GoLimitHolders, ActiveWorkers
<1>2. Cardinality({}) = 0
  BY FS_EmptySet
<1>. QED BY <1>1, <1>2, Constants
         DEF Init, SenderInit, ConnInit, SenderInv, SenderShape, TokensInv, MutexInv, PhaseInv,
             SendsOverlapOnlyOnAbort, WorkerPcs, SenderPcs

LEMMA SenderInvStutter == SenderInv /\ UNCHANGED usedBySenderInv => SenderInv'
BY DEF usedBySenderInv, SenderInv, SenderShape, TokensInv, MutexInv, PhaseInv,
       SendsOverlapOnlyOnAbort, GoLimitHolders, ActiveWorkers, Aborted

(* A main goroutine that only moves on, without goroutines behind its back.   *)
LEMMA MainMovesInv ==
    ASSUME SenderInv, UNCHANGED <<todo, worker, waitGroup, goLimit, mutex, inSend, raced, report>>,
           \/ sPc' = sPc
           \/ sPc = "start" /\ sPc' = "dirInfo"
           \/ sPc = "dirInfo" /\ sPc' \in {"recv", "shutdown"}
           \/ sPc = "range" /\ sPc' = "wait"
           \/ sPc = "recv" /\ sPc' = "shutdown"
    PROVE  SenderInv'
BY DEF SenderInv, SenderShape, TokensInv, MutexInv, PhaseInv, SendsOverlapOnlyOnAbort,
       GoLimitHolders, ActiveWorkers, Aborted, SenderPcs

(* ProcessMsg receives only when no patch goroutine is at work.               *)
LEMMA SenderRecvInv == SenderInv /\ SenderRecv => SenderInv'
<1>. SUFFICES ASSUME SenderInv, SenderRecv PROVE SenderInv'
  OBVIOUS
<1>1. /\ sPc = "recv" /\ UNCHANGED <<worker, waitGroup, goLimit, mutex, inSend, raced>>
      /\ \/ sPc' = "range" /\ report' = report
         \/ sPc' = "shutdown"
  BY DEF SenderRecv, MainAt, MainGoto
<1>2. ActiveWorkers = {} /\ report = {} /\ raced = {}
  BY <1>1 DEF SenderInv, PhaseInv, SendsOverlapOnlyOnAbort, Aborted
<1>3. ActiveWorkers' = {} /\ GoLimitHolders' = GoLimitHolders
  BY <1>1, <1>2 DEF ActiveWorkers, GoLimitHolders
<1>. QED BY <1>1, <1>2, <1>3 DEF SenderInv, SenderShape, TokensInv, MutexInv, PhaseInv,
            SendsOverlapOnlyOnAbort, Aborted, SenderPcs

(* How the two counted sets change when goroutine f moves to pc.              *)
LEMMA WorkerMoves ==
    ASSUME SenderInv, NEW f, NEW pc \in WorkerPcs, worker' = [worker EXCEPT ![f] = pc]
    PROVE  /\ worker' \in [Files -> WorkerPcs]
           /\ Cardinality(GoLimitHolders') \in Int /\ Cardinality(GoLimitHolders) \in Int
           /\ Cardinality(ActiveWorkers') \in Int /\ Cardinality(ActiveWorkers) \in Int
           /\ Cardinality(GoLimitHolders') <= Cardinality(GoLimitHolders) + 1
           /\ Cardinality(ActiveWorkers') <= Cardinality(ActiveWorkers) + 1
           /\ f \in GoLimitHolders \/ pc \notin {"patch", "lock", "send", "unlock", "release"}
                => Cardinality(GoLimitHolders') <= Cardinality(GoLimitHolders)
           /\ f \in GoLimitHolders /\ pc = "leave"
                => Cardinality(GoLimitHolders') <= Cardinality(GoLimitHolders) - 1
           /\ f \in ActiveWorkers => Cardinality(ActiveWorkers') <= Cardinality(ActiveWorkers)
           /\ f \in ActiveWorkers /\ pc = "done"
                => Cardinality(ActiveWorkers') <= Cardinality(ActiveWorkers) - 1
<1>1. worker \in [Files -> WorkerPcs] /\ worker' \in [Files -> WorkerPcs]
  BY DEF SenderInv, SenderShape
<1>2. /\ GoLimitHolders \in SUBSET Files /\ GoLimitHolders' \in SUBSET Files
      /\ GoLimitHolders' \subseteq GoLimitHolders \cup {f}
      /\ f \in GoLimitHolders \/ pc \notin {"patch", "lock", "send", "unlock", "release"}
           => GoLimitHolders' \subseteq GoLimitHolders
      /\ pc = "leave" => GoLimitHolders' \subseteq GoLimitHolders \ {f}
  BY <1>1 DEF GoLimitHolders
<1>3. /\ ActiveWorkers \in SUBSET Files /\ ActiveWorkers' \in SUBSET Files
      /\ ActiveWorkers' \subseteq ActiveWorkers \cup {f}
      /\ f \in ActiveWorkers => ActiveWorkers' \subseteq ActiveWorkers
      /\ pc = "done" => ActiveWorkers' \subseteq ActiveWorkers \ {f}
  BY <1>1 DEF ActiveWorkers
<1>4. /\ Cardinality(GoLimitHolders') \in Int /\ Cardinality(GoLimitHolders) \in Int
      /\ Cardinality(GoLimitHolders') <= Cardinality(GoLimitHolders) + 1
      /\ GoLimitHolders' \subseteq GoLimitHolders
           => Cardinality(GoLimitHolders') <= Cardinality(GoLimitHolders)
      /\ f \in GoLimitHolders /\ GoLimitHolders' \subseteq GoLimitHolders \ {f}
           => Cardinality(GoLimitHolders') <= Cardinality(GoLimitHolders) - 1
  BY <1>2, CardinalityBounds
<1>5. /\ Cardinality(ActiveWorkers') \in Int /\ Cardinality(ActiveWorkers) \in Int
      /\ Cardinality(ActiveWorkers') <= Cardinality(ActiveWorkers) + 1
      /\ ActiveWorkers' \subseteq ActiveWorkers
           => Cardinality(ActiveWorkers') <= Cardinality(ActiveWorkers)
      /\ f \in ActiveWorkers /\ ActiveWorkers' \subseteq ActiveWorkers \ {f}
           => Cardinality(ActiveWorkers') <= Cardinality(ActiveWorkers) - 1
  BY <1>3, CardinalityBounds
<1>. QED BY <1>1, <1>2, <1>3, <1>4, <1>5

(* The range loop starts a goroutine only for a file that has none.           *)
LEMMA NextSumListInv == SenderInv /\ NextSumList => SenderInv'
<1>. SUFFICES ASSUME SenderInv, NextSumList PROVE SenderInv'
  OBVIOUS
<1>1. sPc = "range" /\ UNCHANGED <<inSend, raced, goLimit, mutex, report>>
  BY DEF NextSumList, MainAt
<1>2. report = {} /\ raced = {}
  BY <1>1 DEF SenderInv, PhaseInv, SendsOverlapOnlyOnAbort, Aborted
<1>3. CASE UNCHANGED <<worker, waitGroup>>
  <2>1. todo' \subseteq todo /\ sPc' \in {"range", "shutdown", "wait"}
    BY <1>3, Constants DEF NextSumList, MainGoto, SenderInv, SenderShape
  <2>. QED BY <1>1, <1>2, <1>3, <2>1 DEF SenderInv, SenderShape, TokensInv, MutexInv, PhaseInv,
              SendsOverlapOnlyOnAbort, GoLimitHolders, ActiveWorkers, SenderPcs
<1>4. ASSUME NEW f \in todo, todo' = todo \ {f}, sPc' = "acquire", waitGroup' = waitGroup + 1,
             worker' = [worker EXCEPT ![f] = "spawning"]
      PROVE  SenderInv'
  <2>1. f \in Files => worker[f] \in {"idle", "done"}
    BY <1>1 DEF SenderInv, PhaseInv, ActiveWorkers
  <2>2. /\ worker' \in [Files -> WorkerPcs]
        /\ Cardinality(GoLimitHolders') \in Int /\ Cardinality(GoLimitHolders) \in Int
        /\ Cardinality(ActiveWorkers') \in Int /\ Cardinality(ActiveWorkers) \in Int
        /\ Cardinality(GoLimitHolders') <= Cardinality(GoLimitHolders)
        /\ Cardinality(ActiveWorkers') <= Cardinality(ActiveWorkers) + 1
    <3>1. "spawning" \in WorkerPcs
      BY DEF WorkerPcs
    <3>. QED BY <1>4, <3>1, WorkerMoves
  <2>3. SenderShape' /\ TokensInv'
    BY <1>1, <1>4, <2>2 DEF SenderInv, SenderShape, TokensInv, SenderPcs
  <2>4. MutexInv' /\ PhaseInv' /\ SendsOverlapOnlyOnAbort'
    BY <1>1, <1>2, <1>4, <2>1
       DEF SenderInv, SenderShape, MutexInv, PhaseInv, SendsOverlapOnlyOnAbort, ActiveWorkers
  <2>. QED BY <2>3, <2>4 DEF SenderInv
<1>. QED BY <1>3, <1>4 DEF NextSumList, MainGoto

LEMMA AcquireGoLimitInv ==
    ASSUME NEW f \in Files, SenderInv, AcquireGoLimit(f) PROVE SenderInv'
<1>1. /\ sPc = "acquire" /\ sPc' = "range" /\ worker[f] = "spawning" /\ goLimit < SendMax
      /\ goLimit' = goLimit + 1 /\ worker' = [worker EXCEPT ![f] = "patch"]
      /\ UNCHANGED <<inSend, raced, todo, waitGroup, mutex, report>>
  BY DEF AcquireGoLimit, MainAt, MainGoto, GoLimitFree
<1>2. f \in ActiveWorkers
  BY <1>1 DEF ActiveWorkers
<1>3. /\ worker' \in [Files -> WorkerPcs]
      /\ Cardinality(GoLimitHolders') \in Int /\ Cardinality(GoLimitHolders) \in Int
      /\ Cardinality(ActiveWorkers') \in Int /\ Cardinality(ActiveWorkers) \in Int
      /\ Cardinality(GoLimitHolders') <= Cardinality(GoLimitHolders) + 1
      /\ Cardinality(ActiveWorkers') <= Cardinality(ActiveWorkers)
  <2>1. "patch" \in WorkerPcs
    BY DEF WorkerPcs
  <2>. QED BY <1>1, <1>2, <2>1, WorkerMoves
<1>4. SenderShape' /\ TokensInv'
  BY <1>1, <1>3, Constants DEF SenderInv, SenderShape, TokensInv, SenderPcs
<1>5. MutexInv' /\ PhaseInv' /\ SendsOverlapOnlyOnAbort'
  BY <1>1, <1>2 DEF SenderInv, SenderShape, MutexInv, PhaseInv, SendsOverlapOnlyOnAbort, Aborted,
                    ActiveWorkers
<1>. QED BY <1>4, <1>5 DEF SenderInv

(* waitGroup.Wait(): nobody is left to overlap with the END.                  *)
LEMMA EndInv == SenderInv /\ (EnterEnd \/ LeaveEnd) => SenderInv'
<1>. SUFFICES ASSUME SenderInv, EnterEnd \/ LeaveEnd PROVE SenderInv'
  OBVIOUS
<1>. USE DEF SenderInv, SenderShape, MutexInv
<1>1. CASE EnterEnd
  <2>1. /\ sPc = "wait" /\ sPc' = "sendEnd" /\ waitGroup = 0 /\ inSend' = inSend \cup {Main}
        /\ raced' = IF inSend = {} THEN raced ELSE raced \cup inSend \cup {Main}
        /\ UNCHANGED <<todo, worker, waitGroup, goLimit, mutex, report>>
    BY <1>1 DEF EnterEnd, MainAt, MainGoto, AllPatchesSent, EnterSend
  <2>2. ActiveWorkers = {}
    <3>1. ActiveWorkers \in SUBSET Files /\ IsFiniteSet(ActiveWorkers)
      BY Constants, FS_Subset DEF ActiveWorkers
    <3>2. Cardinality(ActiveWorkers) <= 0 /\ Cardinality(ActiveWorkers) \in Nat
      BY <2>1, <3>1, FS_CardinalityType DEF TokensInv
    <3>. QED BY <3>1, <3>2, FS_EmptySet
  <2>3. inSend = {} /\ raced' = raced
    BY <2>1, <2>2 DEF ActiveWorkers
  <2>. QED BY <2>1, <2>2, <2>3, Constants DEF TokensInv, PhaseInv, SendsOverlapOnlyOnAbort, Aborted,
              GoLimitHolders, ActiveWorkers, SenderPcs
<1>2. CASE LeaveEnd
  <2>1. /\ sPc = "sendEnd" /\ sPc' = "recv" /\ inSend' = inSend \ {Main}
        /\ UNCHANGED <<raced, todo, worker, waitGroup, goLimit, mutex, report>>
    BY <1>2 DEF LeaveEnd, MainAt, MainGoto, LeaveSend
  <2>. QED BY <2>1, Constants DEF TokensInv, PhaseInv, SendsOverlapOnlyOnAbort, Aborted,
              GoLimitHolders, ActiveWorkers, SenderPcs
<1>. QED BY <1>1, <1>2

(* SHUTDOWN does not wait: a goroutine inside Send means an aborted session.  *)
LEMMA ShutdownInv == SenderInv /\ (EnterShutdown \/ LeaveShutdown) => SenderInv'
<1>. SUFFICES ASSUME SenderInv, EnterShutdown \/ LeaveShutdown PROVE SenderInv'
  OBVIOUS
<1>. USE DEF SenderInv, SenderShape, MutexInv
<1>1. CASE EnterShutdown
  <2>1. /\ sPc = "shutdown" /\ sPc' = "sendShutdown" /\ inSend' = inSend \cup {Main}
        /\ raced' = IF inSend = {} THEN raced ELSE raced \cup inSend \cup {Main}
        /\ UNCHANGED <<todo, worker, waitGroup, goLimit, mutex, report>>
    BY <1>1 DEF EnterShutdown, MainAt, MainGoto, EnterSend
  <2>2. report # {} => inSend = {}
    BY <2>1 DEF PhaseInv, ActiveWorkers
  <2>. QED BY <2>1, <2>2, Constants DEF TokensInv, PhaseInv, SendsOverlapOnlyOnAbort, Aborted,
              GoLimitHolders, ActiveWorkers, SenderPcs
<1>2. CASE LeaveShutdown
  <2>1. /\ sPc = "sendShutdown"
        /\ \/ sPc' = "reap" /\ inSend' = inSend \ {Main}
           \/ sPc' = sPc /\ inSend' = inSend
        /\ UNCHANGED <<raced, todo, worker, waitGroup, goLimit, mutex, report>>
    BY <1>2 DEF LeaveShutdown, MainAt, MainGoto, LeaveSend, Panic
  <2>. QED BY <2>1, Constants DEF TokensInv, PhaseInv, SendsOverlapOnlyOnAbort, Aborted,
              GoLimitHolders, ActiveWorkers, SenderPcs
<1>. QED BY <1>1, <1>2

(* A patch goroutine enters Send alone, or beside Main's SHUTDOWN.            *)
LEMMA WorkerStepInv == ASSUME NEW f \in Files, SenderInv, WorkerStep(f) PROVE SenderInv'
<1>. USE DEF SenderInv, SenderShape, WorkerAt, WorkerGoto, connVars
<1>1. CASE MakePatch(f)
  <2>1. /\ worker[f] = "patch"
        /\ worker' = [worker EXCEPT ![f] = "lock"] \/ worker' = worker
        /\ UNCHANGED <<sPc, todo, waitGroup, goLimit, mutex, inSend, raced, report>>
    BY <1>1 DEF MakePatch
  <2>2. CASE worker' = worker
    BY <2>1, <2>2, SenderInvStutter DEF usedBySenderInv
  <2>3. CASE worker' = [worker EXCEPT ![f] = "lock"]
    <3>1. SenderShape' /\ TokensInv'
      BY <2>1, <2>3, WorkerMoves DEF TokensInv, WorkerPcs, GoLimitHolders, ActiveWorkers
    <3>. QED BY <2>1, <2>3, <3>1
             DEF MutexInv, PhaseInv, SendsOverlapOnlyOnAbort, Aborted, ActiveWorkers
  <2>. QED BY <2>1, <2>2, <2>3
<1>2. CASE LockAndEnterSend(f)
  <2>1. /\ worker[f] = "lock" /\ mutex = {} /\ mutex' = mutex \cup {f}
        /\ worker' = [worker EXCEPT ![f] = "send"] /\ inSend' = inSend \cup {f}
        /\ raced' = IF inSend = {} THEN raced ELSE raced \cup inSend \cup {f}
        /\ UNCHANGED <<sPc, todo, waitGroup, goLimit, report>>
    BY <1>2 DEF LockAndEnterSend, MutexFree, EnterSend
  <2>2. inSend \subseteq {Main} /\ f \in ActiveWorkers
    BY <2>1 DEF MutexInv, ActiveWorkers
  <2>3. inSend # {} => Main \in inSend /\ sPc = "sendShutdown" /\ report = {}
    BY <2>2 DEF MutexInv, PhaseInv
  <2>4. SenderShape' /\ TokensInv'
    BY <2>1, WorkerMoves DEF TokensInv, WorkerPcs, GoLimitHolders, ActiveWorkers
  <2>. QED BY <2>1, <2>2, <2>3, <2>4, Constants
           DEF MutexInv, PhaseInv, SendsOverlapOnlyOnAbort, Aborted, ActiveWorkers
<1>3. CASE LeavePatchSend(f)
  <2>1. /\ worker[f] = "send" /\ worker' = [worker EXCEPT ![f] = "unlock"]
        /\ inSend' = inSend \ {f}
        /\ UNCHANGED <<sPc, todo, waitGroup, goLimit, mutex, raced, report>>
    BY <1>3 DEF LeavePatchSend, LeaveSend
  <2>2. SenderShape' /\ TokensInv'
    BY <2>1, WorkerMoves DEF TokensInv, WorkerPcs, GoLimitHolders, ActiveWorkers
  <2>. QED BY <2>1, <2>2
           DEF MutexInv, PhaseInv, SendsOverlapOnlyOnAbort, Aborted, ActiveWorkers
<1>4. CASE Unlock(f)
  <2>1. /\ worker[f] = "unlock" /\ worker' = [worker EXCEPT ![f] = "release"]
        /\ mutex' = mutex \ {f}
        /\ UNCHANGED <<sPc, todo, waitGroup, goLimit, inSend, raced, report>>
    BY <1>4 DEF Unlock
  <2>2. SenderShape' /\ TokensInv'
    BY <2>1, WorkerMoves DEF TokensInv, WorkerPcs, GoLimitHolders, ActiveWorkers
  <2>. QED BY <2>1, <2>2
           DEF MutexInv, PhaseInv, SendsOverlapOnlyOnAbort, Aborted, ActiveWorkers
<1>5. CASE ReleaseGoLimit(f)
  <2>1. /\ worker[f] = "release" /\ worker' = [worker EXCEPT ![f] = "leave"]
        /\ goLimit' = goLimit - 1
        /\ UNCHANGED <<sPc, todo, waitGroup, mutex, inSend, raced, report>>
    BY <1>5 DEF ReleaseGoLimit
  <2>2. f \in GoLimitHolders /\ f \in ActiveWorkers
    BY <2>1 DEF GoLimitHolders, ActiveWorkers
  <2>3. /\ worker' \in [Files -> WorkerPcs]
        /\ Cardinality(GoLimitHolders') \in Int /\ Cardinality(GoLimitHolders) \in Int
        /\ Cardinality(ActiveWorkers') \in Int /\ Cardinality(ActiveWorkers) \in Int
        /\ Cardinality(GoLimitHolders') <= Cardinality(GoLimitHolders) - 1
        /\ Cardinality(ActiveWorkers') <= Cardinality(ActiveWorkers)
    <3>1. "leave" \in WorkerPcs
      BY DEF WorkerPcs
    <3>. QED BY ONLY SenderInv, <2>1, <2>2, <3>1, WorkerMoves
  <2>4. SenderShape' /\ TokensInv'
    BY <2>1, <2>3, Constants DEF TokensInv
  <2>. QED BY <2>1, <2>4
           DEF MutexInv, PhaseInv, SendsOverlapOnlyOnAbort, Aborted, ActiveWorkers
<1>6. CASE PatchDone(f)
  <2>1. /\ worker[f] = "leave" /\ worker' = [worker EXCEPT ![f] = "done"]
        /\ waitGroup' = waitGroup - 1
        /\ UNCHANGED <<sPc, todo, goLimit, mutex, inSend, raced, report>>
    BY <1>6 DEF PatchDone
  <2>2. f \in ActiveWorkers
    BY <2>1 DEF ActiveWorkers
  <2>3. /\ worker' \in [Files -> WorkerPcs]
        /\ Cardinality(GoLimitHolders') \in Int /\ Cardinality(GoLimitHolders) \in Int
        /\ Cardinality(ActiveWorkers') \in Int /\ Cardinality(ActiveWorkers) \in Int
        /\ Cardinality(GoLimitHolders') <= Cardinality(GoLimitHolders)
        /\ Cardinality(ActiveWorkers') <= Cardinality(ActiveWorkers) - 1
    <3>1. "done" \in WorkerPcs
      BY DEF WorkerPcs
    <3>. QED BY ONLY SenderInv, <2>1, <2>2, <3>1, WorkerMoves
  <2>4. SenderShape' /\ TokensInv'
    BY <2>1, <2>3 DEF TokensInv
  <2>. QED BY <2>1, <2>4
           DEF MutexInv, PhaseInv, SendsOverlapOnlyOnAbort, Aborted, ActiveWorkers
<1>. QED BY <1>1, <1>2, <1>3, <1>4, <1>5, <1>6 DEF WorkerStep

(* The steps of the receiver, and the crash of either process, change nothing *)
(* the sender's invariant speaks of.                                          *)
LEMMA ReceiverLeavesSender ==
    (ReceiverStep \/ ReceiverCrash) /\ UNCHANGED senderVars => UNCHANGED usedBySenderInv
<1>. SUFFICES ASSUME ReceiverStep \/ ReceiverCrash, UNCHANGED senderVars
              PROVE  UNCHANGED <<inSend, raced>>
  BY DEF usedBySenderInv, senderVars
<1>. USE DEF connVars, unchangedByRebuild
<1>1. CASE LoopStep
  BY <1>1 DEF LoopStep, RecvInitParam, RecvDirInfo, RecvPatchList, RecvEnd, SendBEnd,
     ReplyFails, ReceiverExit, AcquireRebuildLimit, CheckFile, SumListMade, EndCheck, SendSumList
<1>2. CASE RemoveFiles \/ ReceiverCrash
  BY <1>2 DEF RemoveFiles, RemoveFile, RemoveDone, ReceiverCrash
<1>3. CASE \E f \in Files : RebuildFile(f)
  BY <1>3 DEF RebuildFile, OpenFile, BeginWrite, EndWrite, Verify, Chtimes, CountSuccess,
     RecordFailure, ReleaseRebuildLimit, RebuildDone
<1>. QED BY <1>1, <1>2, <1>3 DEF ReceiverStep

LEMMA SenderInvNext == SenderInv /\ [Next]_vars => SenderInv'
<1>. SUFFICES ASSUME SenderInv, [Next]_vars PROVE SenderInv'
  OBVIOUS
<1>1. CASE MainStep
  <2>1. CASE SendInitParam \/ SendDirInfo
    BY <2>1, MainMovesInv DEF SendInitParam, SendDirInfo, MainAt, MainGoto, Panic
  <2>2. CASE Reap
    BY <2>2, SenderInvStutter DEF Reap, usedBySenderInv, senderVars
  <2>. QED BY <1>1, <2>1, <2>2, SenderRecvInv, NextSumListInv, AcquireGoLimitInv, EndInv,
              ShutdownInv DEF MainStep
<1>2. CASE RunReturns \/ SenderCrash
  BY <1>2, SenderInvStutter DEF RunReturns, SenderCrash, usedBySenderInv, senderVars
<1>3. CASE \E f \in Files : WorkerStep(f)
  BY <1>3, WorkerStepInv
<1>4. CASE UNCHANGED vars
  BY <1>4, SenderInvStutter DEF usedBySenderInv, vars, connVars, senderVars
<1>. QED BY <1>1, <1>2, <1>3, <1>4, ReceiverLeavesSender, SenderInvStutter
         DEF Next, SenderStep, Finished

-----------------------------------------------------------------------------
(* At most SendMax source files are held in memory (sender.go:153-159) and at *)
(* most RebuildMax rebuilds are under way (receiver.go:110, 143-146).         *)
THEOREM LimitsHold == Spec => []ConcurrencyBounded
<1>1. SenderInv /\ ReceiverInv => ConcurrencyBounded
  <2>. SUFFICES ASSUME SenderInv, ReceiverInv PROVE ConcurrencyBounded
    OBVIOUS
  <2>1. Cardinality(GoLimitHolders) \in Int /\ Cardinality(RebuildHolders) \in Int
    BY CardinalityBounds DEF GoLimitHolders, RebuildHolders
  <2>. QED BY <2>1, Constants DEF SenderInv, SenderShape, TokensInv, ReceiverInv,
                                  ConcurrencyBounded
<1>. QED BY <1>1, SenderInvInit, SenderInvNext, ReceiverInvInit, ReceiverInvNext, PTL DEF Spec

(* The only Send that can overlap another is Start's SHUTDOWN (sender.go:99)  *)
(* after ProcessMsg returned early: the mutex keeps the patches apart and     *)
(* waitGroup keeps the END behind them (sender.go:174-186).                   *)
THEOREM OnlyAbortsRace == Spec => []SendsOverlapOnlyOnAbort
<1>1. SenderInv => SendsOverlapOnlyOnAbort
  BY DEF SenderInv
<1>. QED BY <1>1, SenderInvInit, SenderInvNext, PTL DEF Spec

-----------------------------------------------------------------------------
SentPcs     == {"unlock", "release", "leave", "done"}
PatchingPcs == {"range", "acquire", "wait", "sendEnd"}

(* What is on its way.                                                        *)
Pending   == {f \in Files : \E i \in 1..Len(toR) : toR[i] = PatchListMsg(f)}
Requested == \E S \in SUBSET Files : toS = <<SumListMsg(S)>>
Replied   == toS = <<BEndMsg(syncResult)>>

QueueInv ==
    /\ toR \in Seq(MsgsToReceiver)
    /\ \A i \in 1..Len(toR) : toR[i].cmd = "INITPARAM" => i = 1
    /\ \A i, j \in 1..Len(toR) :
          toR[i] = toR[j] /\ toR[i].cmd \in {"DIR_INFO", "PATCHLIST", "END"} => i = j

(* END comes behind the patches.                                              *)
EndLast ==
    \A i \in 1..Len(toR) : toR[i].cmd = "END" =>
       \A f \in Files : worker[f] = "done" =>
          rebuild[f] # "idle" \/ \E j \in 1..(i - 1) : toR[j] = PatchListMsg(f)

(* The session has not yet come to the patches.                               *)
Unpatched ==
    /\ report = {} /\ todo = {}
    /\ \A f \in Files : worker[f] = "idle"
    /\ "END" \notin Cmds /\ sPc \notin PatchingPcs /\ rPc # "endWait"

(* INITPARAM, DIR_INFO, FileListCheck, the list of wanted files.              *)
AskingInv ==
    /\ sPc = "start" => toR = <<>>
    /\ sPc = "dirInfo" => "DIR_INFO" \notin Cmds
    /\ sPc \in {"start", "dirInfo"} \/ "INITPARAM" \in Cmds \/ "DIR_INFO" \in Cmds
         => toS = <<>> /\ Unpatched /\ rPc = "recv" /\ remover = "idle"
    /\ rPc \in {"check", "sendSumList"} => toS = <<>> /\ Unpatched
    /\ rPc = "check" => remover = "idle"
    /\ Requested => Unpatched

(* One patch per file.                                                        *)
PatchInv ==
    /\ sPc \in PatchingPcs => toS = <<>> /\ report = {} /\ "END" \notin Cmds /\ rPc # "endWait"
    /\ todo \in SUBSET Files
    /\ sPc \in {"range", "acquire"} => \A f \in todo : worker[f] = "idle"
    /\ \A f \in Files : rebuild[f] # "idle" \/ f \in Pending => worker[f] \in SentPcs
    /\ \A f \in Pending : rebuild[f] = "idle"
    /\ SenderUp /\ ReceiverUp /\ raced = {} =>
         \A f \in Files : worker[f] \in SentPcs => rebuild[f] # "idle" \/ f \in Pending

(* Every patch that was made has reached its RebuildFile goroutine.           *)
Delivered == \A f \in Files : worker[f] = "done" => rebuild[f] # "idle"

(* B_END comes behind the tasks.                                              *)
EndingInv ==
    /\ toS = <<>> \/ Requested \/ Replied
    /\ "END" \in Cmds \/ rPc = "endWait" => toS = <<>> /\ report = {} /\ ActiveWorkers = {}
    /\ "END" \in Cmds => rPc # "endWait"
    /\ rPc = "endWait" => Delivered
    /\ Replied \/ report # {} =>
         /\ ActiveWorkers = {} /\ ActiveRebuilds = {} /\ remover # "run" /\ Delivered
         /\ rPc = "recv" /\ "END" \notin Cmds
    /\ report # {} => report = {syncResult} /\ toS = <<>>

ProtocolInv == AskingInv /\ PatchInv /\ EndingInv
PhasesInv   == QueueInv /\ EndLast /\ ProtocolInv

(* The counters are exact.                                                    *)
CountInv ==
    /\ waitGroup = Cardinality(ActiveWorkers)
    /\ goLimit = Cardinality(GoLimitHolders)
    /\ rebuildGoLimit = Cardinality(RebuildHolders)
    /\ taskWaitGroup = Cardinality(ActiveRebuilds) + (IF remover = "run" THEN 1 ELSE 0)

(* So is the result.                                                          *)
Recorded  == {f \in Files : rebuild[f] \in {"release", "leave", "done"}}
Succeeded == {f \in Recorded : f \notin syncResult.failed}

ResultInv ==
    /\ syncResult = [succNum |-> Cardinality(Succeeded), failed |-> syncResult.failed,
                     removed |-> syncResult.removed]
    /\ syncResult.removed \in SUBSET Extra
    /\ syncResult.failed \in SUBSET Recorded
    /\ \A f \in Files : rebuild[f] = "count" \/ f \in Succeeded => content[f] = "new"

(* What remains of the types.                                                 *)
RangesInv ==
    /\ sender \in {"up", "done", "crashed"} /\ receiver \in {"up", "exited", "crashed"}
    /\ mutex \in SUBSET Files /\ subProcessDone \in BOOLEAN
    /\ rPc \in ReceiverPcs /\ initParam \in {"nil", "keep", "delete"}
    /\ unchecked \in SUBSET Files /\ fidPathMap \in SUBSET Files
    /\ fileSumList \in SUBSET fidPathMap
    /\ remover \in {"idle", "run", "done"} /\ toVisit \in SUBSET Extra

SessionInv == SenderInv /\ ReceiverInv /\ RangesInv /\ PhasesInv /\ CountInv /\ ResultInv

-----------------------------------------------------------------------------
(* The queue to the receiver: what it holds after a message joins it, after   *)
(* its head is read, and after a crash has cut it.                            *)
LEMMA MessageFacts ==
    /\ \A f \in Files : PatchListMsg(f) \in MsgsToReceiver /\ PatchListMsg(f).cmd = "PATCHLIST"
                        /\ PatchListMsg(f).fid = f
    /\ \A d \in BOOLEAN : InitParamMsg(d) \in MsgsToReceiver /\ InitParamMsg(d).cmd = "INITPARAM"
    /\ \A c \in {"DIR_INFO", "END", "SHUTDOWN", "GARBAGE"} :
          PlainMsg(c) \in MsgsToReceiver /\ PlainMsg(c).cmd = c
    /\ \A m \in MsgsToReceiver :
          /\ m.cmd = "PATCHLIST" => m.fid \in Files /\ m = PatchListMsg(m.fid)
          /\ m.cmd \in {"DIR_INFO", "END"} => m = PlainMsg(m.cmd)
<1>. USE DEF MsgsToReceiver
<1>1. \A f \in Files : PatchListMsg(f) \in MsgsToReceiver /\ PatchListMsg(f).cmd = "PATCHLIST"
                      /\ PatchListMsg(f).fid = f
  BY DEF PatchListMsg
<1>2. \A d \in BOOLEAN : InitParamMsg(d) \in MsgsToReceiver /\ InitParamMsg(d).cmd = "INITPARAM"
  BY DEF InitParamMsg
<1>3. \A c \in {"DIR_INFO", "END", "SHUTDOWN", "GARBAGE"} :
         PlainMsg(c) \in MsgsToReceiver /\ PlainMsg(c).cmd = c
  BY DEF PlainMsg
<1>4. \A m \in MsgsToReceiver :
         /\ m.cmd = "PATCHLIST" => m.fid \in Files /\ m = PatchListMsg(m.fid)
         /\ m.cmd \in {"DIR_INFO", "END"} => m = PlainMsg(m.cmd)
  BY <1>1, <1>2, <1>3
<1>. QED BY <1>1, <1>2, <1>3, <1>4

LEMMA QueueAppend ==
    ASSUME QueueInv, NEW m \in MsgsToReceiver, toR' = Append(toR, m),
           m.cmd = "INITPARAM" => toR = <<>>,
           m.cmd \in {"DIR_INFO", "END"} => m.cmd \notin Cmds,
           m.cmd = "PATCHLIST" => m.fid \notin Pending
    PROVE  /\ QueueInv' /\ Cmds' = Cmds \cup {m.cmd}
           /\ Pending' = Pending \cup {f \in Files : m = PatchListMsg(f)}
<1>1. /\ toR' \in Seq(MsgsToReceiver) /\ Len(toR) \in Nat /\ Len(toR') = Len(toR) + 1
      /\ \A i \in 1..Len(toR) : toR'[i] = toR[i] /\ toR[i] \in MsgsToReceiver
      /\ toR'[Len(toR) + 1] = m
  BY AppendProperties, ElementOfSeq, LenProperties DEF QueueInv
<1>2. Cmds' = Cmds \cup {m.cmd}
  BY <1>1 DEF Cmds
<1>3. Pending' = Pending \cup {f \in Files : m = PatchListMsg(f)}
  BY <1>1 DEF Pending
<1>4. \A i \in 1..Len(toR') : toR'[i].cmd = "INITPARAM" => i = 1
  BY <1>1 DEF QueueInv
<1>5. \A i \in 1..Len(toR) : toR[i] = m => m.cmd \notin {"DIR_INFO", "PATCHLIST", "END"}
  BY <1>1, MessageFacts DEF Cmds, Pending
<1>6. \A i, j \in 1..Len(toR') :
        toR'[i] = toR'[j] /\ toR'[i].cmd \in {"DIR_INFO", "PATCHLIST", "END"} => i = j
  BY <1>1, <1>5 DEF QueueInv
<1>. QED BY <1>1, <1>2, <1>3, <1>4, <1>6 DEF QueueInv

LEMMA QueueTail ==
    ASSUME QueueInv, toR # <<>>, toR' = Tail(toR)
    PROVE  /\ QueueInv' /\ Cmds' \subseteq Cmds /\ Pending' \subseteq Pending
           /\ Head(toR).cmd \in Cmds /\ "INITPARAM" \notin Cmds'
           /\ Head(toR).cmd \in {"DIR_INFO", "END"} => Head(toR).cmd \notin Cmds'
           /\ Head(toR).cmd = "PATCHLIST" =>
                 Head(toR).fid \in Pending /\ Pending' = Pending \ {Head(toR).fid}
           /\ Head(toR).cmd # "PATCHLIST" => Pending' = Pending
<1>1. /\ toR' \in Seq(MsgsToReceiver) /\ Len(toR) \in Nat /\ Len(toR') = Len(toR) - 1
      /\ Len(toR) >= 1 /\ Head(toR) = toR[1]
      /\ \A i \in 1..Len(toR') : toR'[i] = toR[i + 1]
      /\ \A i \in 1..Len(toR) : toR[i] \in MsgsToReceiver
  BY HeadTailProperties, ElementOfSeq, LenProperties, EmptySeq DEF QueueInv
<1>2. /\ \A i \in 1..Len(toR') : i + 1 \in 1..Len(toR) /\ i + 1 # 1
      /\ \A i \in 1..Len(toR) : i = 1 \/ (i - 1 \in 1..Len(toR') /\ toR'[i - 1] = toR[i])
  BY <1>1
<1>3. Cmds' \subseteq Cmds /\ Head(toR).cmd \in Cmds /\ Pending' \subseteq Pending
  BY <1>1, <1>2 DEF Cmds, Pending
<1>4. \A i \in 1..Len(toR') : toR'[i].cmd # "INITPARAM"
  BY <1>1, <1>2 DEF QueueInv
<1>5. \A i \in 1..Len(toR') : Head(toR).cmd \in {"DIR_INFO", "PATCHLIST", "END"}
                                => toR'[i] # Head(toR)
  BY <1>1, <1>2 DEF QueueInv
<1>6. \A i, j \in 1..Len(toR') :
        toR'[i] = toR'[j] /\ toR'[i].cmd \in {"DIR_INFO", "PATCHLIST", "END"} => i = j
  BY <1>1, <1>2 DEF QueueInv
<1>7. Head(toR).cmd \in {"DIR_INFO", "END"} => Head(toR).cmd \notin Cmds'
  <2>. SUFFICES ASSUME Head(toR).cmd \in {"DIR_INFO", "END"}, Head(toR).cmd \in Cmds'
                PROVE  FALSE
    OBVIOUS
  <2>1. PICK i \in 1..Len(toR') : toR'[i].cmd = Head(toR).cmd
    BY DEF Cmds
  <2>2. toR'[i] = Head(toR)
    BY <1>1, <1>2, <2>1, MessageFacts
  <2>. QED BY <1>5, <2>2
<1>8. \A f \in Pending : f \in Pending' \/ Head(toR) = PatchListMsg(f)
  BY <1>1, <1>2 DEF Pending
<1>9. Head(toR).cmd = "PATCHLIST" =>
         Head(toR).fid \in Pending /\ Pending' = Pending \ {Head(toR).fid}
  <2>. SUFFICES ASSUME Head(toR).cmd = "PATCHLIST"
                PROVE  Head(toR).fid \in Pending /\ Pending' = Pending \ {Head(toR).fid}
    OBVIOUS
  <2>1. Head(toR).fid \in Files /\ Head(toR) = PatchListMsg(Head(toR).fid)
    BY <1>1, MessageFacts
  <2>2. Head(toR).fid \in Pending /\ Head(toR).fid \notin Pending'
    BY <1>1, <1>5, <2>1 DEF Pending
  <2>3. \A f \in Files : Head(toR) = PatchListMsg(f) => f = Head(toR).fid
    BY MessageFacts
  <2>. QED BY <1>3, <1>8, <2>2, <2>3 DEF Pending
<1>10. Head(toR).cmd # "PATCHLIST" => Pending' = Pending
  BY <1>3, <1>8, MessageFacts DEF Pending
<1>. QED BY <1>1, <1>3, <1>4, <1>6, <1>7, <1>9, <1>10 DEF QueueInv, Cmds

LEMMA QueuePrefix ==
    ASSUME QueueInv, NEW n \in 0..Len(toR), toR' = SubSeq(toR, 1, n)
    PROVE  QueueInv' /\ Cmds' \subseteq Cmds /\ Pending' \subseteq Pending
<1>1. /\ Len(toR) \in Nat /\ \A i \in 1..Len(toR) : toR[i] \in MsgsToReceiver
  BY ElementOfSeq, LenProperties DEF QueueInv
<1>2. /\ toR' \in Seq(MsgsToReceiver) /\ Len(toR') = n
      /\ \A i \in 1..n : toR'[i] = toR[i] /\ i \in 1..Len(toR)
  <2>1. 1 \in Int /\ n \in Int /\ \A i \in 1..n : toR[i] \in MsgsToReceiver
    BY <1>1
  <2>2. /\ toR' \in Seq(MsgsToReceiver) /\ Len(toR') = IF 1 <= n THEN n - 1 + 1 ELSE 0
        /\ \A i \in 1..(n - 1 + 1) : toR'[i] = toR[1 + i - 1]
    BY <2>1, SubSeqProperties
  <2>. QED BY <1>1, <2>1, <2>2
<1>. QED BY <1>1, <1>2 DEF QueueInv, Cmds, Pending

LEMMA QueueStutter ==
    ASSUME QueueInv, toR' = toR PROVE QueueInv' /\ Cmds' = Cmds /\ Pending' = Pending
BY DEF QueueInv, Cmds, Pending

(* While an END is on its way no patch goroutine ends and no task is undone.  *)
KeepsOrder ==
    "END" \in Cmds' => \A f \in Files : /\ worker'[f] = "done" => worker[f] = "done"
                                        /\ rebuild[f] # "idle" => rebuild'[f] # "idle"

LEMMA EndLastStutter == ASSUME QueueInv, EndLast, toR' = toR, KeepsOrder PROVE EndLast'
BY DEF EndLast, KeepsOrder, Cmds

LEMMA EndLastAppend ==
    ASSUME QueueInv, EndLast, NEW m \in MsgsToReceiver, toR' = Append(toR, m), KeepsOrder,
           m.cmd = "END" => \A f \in Files : worker'[f] = "done" =>
                               rebuild'[f] # "idle" \/ f \in Pending
    PROVE  EndLast'
<1>1. /\ Len(toR) \in Nat /\ Len(toR') = Len(toR) + 1 /\ toR'[Len(toR) + 1] = m
      /\ \A i \in 1..Len(toR) : toR'[i] = toR[i]
  BY AppendProperties, LenProperties DEF QueueInv
<1>. SUFFICES ASSUME NEW i \in 1..Len(toR'), toR'[i].cmd = "END",
                     NEW f \in Files, worker'[f] = "done", rebuild'[f] = "idle"
              PROVE  \E j \in 1..(i - 1) : toR'[j] = PatchListMsg(f)
  BY DEF EndLast
<1>2. worker[f] = "done" /\ rebuild[f] = "idle"
  BY DEF KeepsOrder, Cmds
<1>3. CASE i \in 1..Len(toR)
  BY <1>1, <1>2, <1>3 DEF EndLast
<1>4. CASE i = Len(toR) + 1
  <2>1. f \in Pending
    BY <1>1, <1>4
  <2>. QED BY <1>1, <1>4, <2>1 DEF Pending
<1>. QED BY <1>1, <1>3, <1>4

LEMMA EndLastTail ==
    ASSUME QueueInv, EndLast, toR # <<>>, toR' = Tail(toR), KeepsOrder,
           Head(toR).cmd = "PATCHLIST" => rebuild'[Head(toR).fid] # "idle"
    PROVE  EndLast'
<1>1. /\ Len(toR) \in Nat /\ Len(toR') = Len(toR) - 1 /\ Head(toR) = toR[1]
      /\ \A i \in 1..Len(toR') : toR'[i] = toR[i + 1]
  BY HeadTailProperties, LenProperties DEF QueueInv
<1>. SUFFICES ASSUME NEW i \in 1..Len(toR'), toR'[i].cmd = "END",
                     NEW f \in Files, worker'[f] = "done", rebuild'[f] = "idle"
              PROVE  \E j \in 1..(i - 1) : toR'[j] = PatchListMsg(f)
  BY DEF EndLast
<1>2. worker[f] = "done" /\ rebuild[f] = "idle"
  BY DEF KeepsOrder, Cmds
<1>3. i + 1 \in 1..Len(toR) /\ toR[i + 1].cmd = "END"
  BY <1>1
<1>4. PICK j \in 1..i : toR[j] = PatchListMsg(f)
  <2>1. \E j \in 1..(i + 1 - 1) : toR[j] = PatchListMsg(f)
    BY <1>2, <1>3 DEF EndLast
  <2>2. i + 1 - 1 = i
    BY <1>1
  <2>. QED BY <2>1, <2>2
<1>5. j # 1
  BY <1>1, <1>4, MessageFacts
<1>6. j - 1 \in 1..(i - 1) /\ j - 1 \in 1..Len(toR') /\ toR'[j - 1] = toR[j - 1 + 1]
  BY <1>1, <1>4, <1>5
<1>7. j - 1 + 1 = j
  BY <1>4
<1>. QED BY <1>4, <1>6, <1>7

LEMMA EndLastPrefix ==
    ASSUME QueueInv, EndLast, NEW n \in 0..Len(toR), toR' = SubSeq(toR, 1, n),
           worker' = worker, rebuild' = rebuild
    PROVE  EndLast'
<1>1. /\ Len(toR) \in Nat /\ \A i \in 1..Len(toR) : toR[i] \in MsgsToReceiver
  BY ElementOfSeq, LenProperties DEF QueueInv
<1>2. Len(toR') = n /\ \A i \in 1..n : toR'[i] = toR[i] /\ i \in 1..Len(toR)
  <2>1. 1 \in Int /\ n \in Int /\ \A i \in 1..n : toR[i] \in MsgsToReceiver
    BY <1>1
  <2>2. /\ Len(toR') = IF 1 <= n THEN n - 1 + 1 ELSE 0
        /\ \A i \in 1..(n - 1 + 1) : toR'[i] = toR[1 + i - 1]
    BY <2>1, SubSeqProperties
  <2>. QED BY <1>1, <2>1, <2>2
<1>. QED BY <1>1, <1>2 DEF EndLast

LEMMA EndIsLast ==
    ASSUME QueueInv, EndLast, toR # <<>>, Head(toR).cmd = "END" PROVE Delivered
<1>1. Len(toR) \in Nat /\ Len(toR) >= 1 /\ Head(toR) = toR[1]
  BY LenProperties, EmptySeq DEF QueueInv
<1>. QED BY <1>1 DEF EndLast, Delivered

(* What can be on its way to the sender.                                      *)
LEMMA ReplyFacts ==
    /\ Requested => /\ toS # <<>> /\ ~Replied /\ Tail(toS) = <<>>
                    /\ Head(toS).cmd = "SUMLIST" /\ Head(toS).fids \in SUBSET Files
    /\ Replied => /\ toS # <<>> /\ Tail(toS) = <<>>
                  /\ Head(toS).cmd = "B_END" /\ Head(toS).result = syncResult
<1>1. ASSUME NEW S \in SUBSET Files, toS = <<SumListMsg(S)>>
      PROVE  /\ toS # <<>> /\ Tail(toS) = <<>> /\ Head(toS).cmd = "SUMLIST"
             /\ Head(toS).fids \in SUBSET Files
  BY <1>1 DEF SumListMsg
<1>2. Replied => /\ toS # <<>> /\ Tail(toS) = <<>>
                 /\ Head(toS).cmd = "B_END" /\ Head(toS).result = syncResult
  BY DEF Replied, BEndMsg
<1>. QED BY <1>1, <1>2 DEF Requested

LEMMA ReplyAfter ==
    /\ Requested' => toS' # <<>> /\ ~Replied'
    /\ Replied' => toS' # <<>>
    /\ toS' = toS => Requested' = Requested
    /\ toS' = toS /\ syncResult' = syncResult => Replied' = Replied
<1>1. ASSUME NEW S \in SUBSET Files, toS' = <<SumListMsg(S)>>
      PROVE  toS' # <<>> /\ Head(toS').cmd = "SUMLIST"
  BY <1>1 DEF SumListMsg
<1>2. Replied' => toS' # <<>> /\ Head(toS').cmd = "B_END"
  BY DEF Replied, BEndMsg
<1>3. toS' = toS => Requested' = Requested
  BY DEF Requested
<1>4. toS' = toS /\ syncResult' = syncResult => Replied' = Replied
  BY DEF Replied
<1>. QED BY <1>1, <1>2, <1>3, <1>4 DEF Requested

-----------------------------------------------------------------------------
(* The phases, step by step.  A patch goroutine at work means that no END has *)
(* been sent, so its own steps change nothing but its place ...               *)
LEMMA WorkerMovesPhases ==
    ASSUME PhasesInv, SenderInv, NEW f \in Files, NEW pc \in WorkerPcs,
           worker[f] \notin {"idle", "done"}, pc # "idle",
           worker' = worker \/ worker' = [worker EXCEPT ![f] = pc],
           worker[f] \in SentPcs <=> pc \in SentPcs,
           raced' = {} => raced = {}, SenderUp' => SenderUp,
           UNCHANGED <<receiver, toR, toS, sPc, rPc, todo, rebuild, remover, report, syncResult>>
    PROVE  PhasesInv'
<1>1. worker' \in [Files -> WorkerPcs] /\ f \in ActiveWorkers
  BY DEF SenderInv, SenderShape, ActiveWorkers
<1>2. QueueInv' /\ Cmds' = Cmds /\ Pending' = Pending
  BY QueueStutter DEF PhasesInv
<1>3. Requested' = Requested /\ Replied' = Replied
  BY ReplyAfter
<1>4. "END" \notin Cmds /\ rPc # "endWait" /\ ~Replied /\ report = {}
  BY <1>1 DEF PhasesInv, ProtocolInv, EndingInv
<1>5. EndLast'
  BY <1>2, <1>4, EndLastStutter DEF PhasesInv, KeepsOrder
<1>6. ~Unpatched /\ \A g \in Files : worker[g] \in SentPcs <=> worker'[g] \in SentPcs
  BY DEF Unpatched, SenderInv, SenderShape
<1>7. AskingInv'
  BY <1>2, <1>3, <1>6 DEF PhasesInv, ProtocolInv, AskingInv
<1>8. PatchInv'
  BY <1>2, <1>3, <1>4, <1>6
     DEF PhasesInv, ProtocolInv, PatchInv, SenderUp, ReceiverUp, SenderInv, SenderShape
<1>9. EndingInv'
  BY <1>2, <1>3, <1>4 DEF PhasesInv, ProtocolInv, EndingInv
<1>. QED BY <1>2, <1>5, <1>7, <1>8, <1>9 DEF PhasesInv, ProtocolInv

(* ... and a RebuildFile goroutine at work that no reply has been made.       *)
LEMMA RebuildMovesPhases ==
    ASSUME PhasesInv, ReceiverInv, NEW f \in Files, NEW pc \in RebuildPcs,
           rebuild[f] \notin {"idle", "done"}, pc # "idle",
           rebuild' = rebuild \/ rebuild' = [rebuild EXCEPT ![f] = pc],
           ReceiverUp' => ReceiverUp,
           UNCHANGED <<sender, toR, toS, raced, sPc, rPc, todo, worker, remover, report>>
    PROVE  PhasesInv'
<1>1. rebuild' \in [Files -> RebuildPcs] /\ f \in ActiveRebuilds
      /\ \A g \in Files : rebuild[g] # "idle" <=> rebuild'[g] # "idle"
  BY DEF ReceiverInv, ActiveRebuilds
<1>2. QueueInv' /\ Cmds' = Cmds /\ Pending' = Pending
  BY QueueStutter DEF PhasesInv
<1>3. ~Replied /\ report = {}
  BY <1>1 DEF PhasesInv, ProtocolInv, EndingInv
<1>4. Requested' = Requested /\ ~Replied'
  BY <1>3, ReplyAfter DEF PhasesInv, ProtocolInv, EndingInv
<1>5. EndLast'
  BY <1>1, <1>2, EndLastStutter DEF PhasesInv, KeepsOrder
<1>6. AskingInv'
  BY <1>2, <1>4 DEF PhasesInv, ProtocolInv, AskingInv, Unpatched
<1>7. PatchInv'
  BY <1>1, <1>2, <1>4 DEF PhasesInv, ProtocolInv, PatchInv, SenderUp, ReceiverUp, Pending
<1>8. EndingInv'
  BY <1>1, <1>2, <1>3, <1>4
     DEF PhasesInv, ProtocolInv, EndingInv, Delivered, ActiveWorkers
<1>. QED BY <1>2, <1>5, <1>6, <1>7, <1>8 DEF PhasesInv, ProtocolInv

(* A patch joins the queue once, or a race has garbled or lost it.            *)
LEMMA LeavePatchSendPhases ==
    ASSUME PhasesInv, SenderInv, NEW f \in Files, LeavePatchSend(f), UNCHANGED receiverVars
    PROVE  PhasesInv'
<1>1. /\ worker[f] = "send" /\ worker' = [worker EXCEPT ![f] = "unlock"]
      /\ worker' \in [Files -> WorkerPcs] /\ f \in ActiveWorkers
      /\ UNCHANGED <<sender, receiver, toS, sPc, rPc, todo, rebuild, remover, report, raced,
                     syncResult>>
  BY DEF LeavePatchSend, WorkerAt, WorkerGoto, SenderInv, SenderShape, ActiveWorkers,
         receiverVars, taskVars, WorkerPcs
<1>2. /\ "END" \notin Cmds /\ rPc # "endWait" /\ ~Replied /\ report = {} /\ ~Unpatched
      /\ f \notin Pending /\ rebuild[f] = "idle"
  BY <1>1 DEF PhasesInv, ProtocolInv, EndingInv, PatchInv, Unpatched, SentPcs
<1>3. /\ QueueInv' /\ EndLast' /\ Cmds' \subseteq Cmds \cup {"PATCHLIST", "GARBAGE"}
      /\ Pending' \in {Pending, Pending \cup {f}}
      /\ ReceiverUp /\ raced = {} => f \in Pending'
  <2>1. CASE ReceiverUp /\ toR' = Append(toR, PatchListMsg(f))
    <3>1. /\ QueueInv' /\ Cmds' = Cmds \cup {"PATCHLIST"}
          /\ Pending' = Pending \cup {g \in Files : PatchListMsg(f) = PatchListMsg(g)}
      BY <1>2, <2>1, MessageFacts, QueueAppend DEF PhasesInv
    <3>2. EndLast'
      BY <1>2, <2>1, <3>1, MessageFacts, EndLastAppend DEF PhasesInv, KeepsOrder
    <3>3. {g \in Files : PatchListMsg(f) = PatchListMsg(g)} = {f}
      BY MessageFacts
    <3>. QED BY <3>1, <3>2, <3>3
  <2>2. CASE raced # {} /\ toR' = Append(toR, PlainMsg("GARBAGE"))
    <3>1. /\ QueueInv' /\ Cmds' = Cmds \cup {"GARBAGE"}
          /\ Pending' = Pending \cup {g \in Files : PlainMsg("GARBAGE") = PatchListMsg(g)}
      BY <2>2, MessageFacts, QueueAppend DEF PhasesInv
    <3>2. EndLast'
      BY <1>2, <2>2, <3>1, MessageFacts, EndLastAppend DEF PhasesInv, KeepsOrder
    <3>3. {g \in Files : PlainMsg("GARBAGE") = PatchListMsg(g)} = {}
      BY MessageFacts
    <3>. QED BY <2>2, <3>1, <3>2, <3>3
  <2>3. CASE toR' = toR /\ (~ReceiverUp \/ raced # {})
    <3>1. QueueInv' /\ Cmds' = Cmds /\ Pending' = Pending
      BY <2>3, QueueStutter DEF PhasesInv
    <3>2. EndLast'
      BY <1>2, <2>3, <3>1, EndLastStutter DEF PhasesInv, KeepsOrder
    <3>. QED BY <2>3, <3>1, <3>2
  <2>. QED BY <2>1, <2>2, <2>3 DEF LeavePatchSend, LeaveSend, WriteToReceiver
<1>4. Requested' = Requested /\ Replied' = Replied
  BY <1>1, ReplyAfter
<1>5. AskingInv'
  BY <1>1, <1>2, <1>3, <1>4 DEF PhasesInv, ProtocolInv, AskingInv, LeavePatchSend, Unpatched
<1>6. PatchInv'
  BY <1>1, <1>2, <1>3, <1>4
     DEF PhasesInv, ProtocolInv, PatchInv, SentPcs, SenderInv, SenderShape, SenderUp, ReceiverUp
<1>7. EndingInv'
  BY <1>1, <1>2, <1>3, <1>4 DEF PhasesInv, ProtocolInv, EndingInv
<1>. QED BY <1>3, <1>5, <1>6, <1>7 DEF PhasesInv, ProtocolInv

(* The main goroutine of the sender moves on without a word, a process ends,  *)
(* or a Send begins.                                                          *)
LEMMA MainMovesPhases ==
    ASSUME PhasesInv, SenderUp' => SenderUp, ReceiverUp' => ReceiverUp, raced' = {} => raced = {},
           UNCHANGED <<toR, toS, worker, rPc, rebuild, remover, report, syncResult>>,
           todo' \subseteq todo,
           \/ sPc' = sPc
           \/ sPc = "start" /\ sPc' = "dirInfo"
           \/ sPc = "dirInfo" /\ sPc' = "recv"
           \/ sPc = "range" /\ sPc' = "wait"
           \/ sPc = "wait" /\ sPc' = "sendEnd"
           \/ sPc = "sendEnd" /\ sPc' = "recv"
           \/ sPc' \in {"shutdown", "sendShutdown", "reap"}
    PROVE  PhasesInv'
<1>1. QueueInv' /\ Cmds' = Cmds /\ Pending' = Pending
  BY QueueStutter DEF PhasesInv
<1>2. EndLast'
  BY EndLastStutter DEF PhasesInv, KeepsOrder
<1>3. Requested' = Requested /\ Replied' = Replied
  BY ReplyAfter
<1>4. toR = <<>> => Cmds = {}
  BY EmptySeq DEF Cmds
<1>5. Unpatched /\ sPc' \notin PatchingPcs => Unpatched'
  BY <1>1 DEF Unpatched
<1>6. AskingInv'
  BY <1>1, <1>3, <1>4, <1>5 DEF PhasesInv, ProtocolInv, AskingInv, PatchingPcs, Unpatched
<1>7. PatchInv'
  BY <1>1, <1>3 DEF PhasesInv, ProtocolInv, PatchInv, PatchingPcs
<1>8. EndingInv'
  BY <1>1, <1>3 DEF PhasesInv, ProtocolInv, EndingInv, ActiveWorkers, ActiveRebuilds, Delivered
<1>. QED BY <1>1, <1>2, <1>6, <1>7, <1>8 DEF PhasesInv, ProtocolInv

(* INITPARAM is the first message, DIR_INFO comes once, SHUTDOWN at any time. *)
LEMMA MainSendsPhases ==
    ASSUME PhasesInv, NEW m \in MsgsToReceiver, toR' = Append(toR, m),
           UNCHANGED <<toS, todo, worker, rPc, rebuild, remover, report, syncResult,
                       sender, receiver, raced>>,
           \/ sPc = "start" /\ sPc' = "dirInfo" /\ m.cmd = "INITPARAM"
           \/ sPc = "dirInfo" /\ sPc' = "recv" /\ m.cmd = "DIR_INFO"
           \/ sPc = "sendShutdown" /\ sPc' = "reap" /\ m.cmd \in {"SHUTDOWN", "GARBAGE"}
    PROVE  PhasesInv'
<1>1. /\ sPc = "start" => toR = <<>>
      /\ sPc = "dirInfo" => "DIR_INFO" \notin Cmds
      /\ sPc \in {"start", "dirInfo"} => Unpatched
  BY DEF PhasesInv, ProtocolInv, AskingInv
<1>2. QueueInv' /\ Cmds' = Cmds \cup {m.cmd} /\ Pending' = Pending
  <2>1. {f \in Files : m = PatchListMsg(f)} = {}
    BY MessageFacts
  <2>. QED BY <1>1, <2>1, QueueAppend DEF PhasesInv
<1>3. EndLast'
  BY <1>2, EndLastAppend DEF PhasesInv, KeepsOrder
<1>4. Requested' = Requested /\ Replied' = Replied
  BY ReplyAfter
<1>5. toR = <<>> => Cmds = {}
  BY EmptySeq DEF Cmds
<1>6. Unpatched => Unpatched'
  BY <1>2 DEF Unpatched, PatchingPcs
<1>7. AskingInv'
  BY <1>1, <1>2, <1>4, <1>5, <1>6 DEF PhasesInv, ProtocolInv, AskingInv
<1>8. PatchInv'
  BY <1>2, <1>4 DEF PhasesInv, ProtocolInv, PatchInv, PatchingPcs, SenderUp, ReceiverUp
<1>9. EndingInv'
  BY <1>2, <1>4 DEF PhasesInv, ProtocolInv, EndingInv, ActiveWorkers, ActiveRebuilds, Delivered
<1>. QED BY <1>2, <1>3, <1>7, <1>8, <1>9 DEF PhasesInv, ProtocolInv

(* END is sent when every patch is on its way or at its goroutine.            *)
LEMMA EndPhases ==
    ASSUME PhasesInv, SenderInv, LeaveEnd, UNCHANGED receiverVars PROVE PhasesInv'
<1>1. /\ SenderUp /\ sPc = "sendEnd" /\ sPc' = "recv"
      /\ UNCHANGED <<toS, todo, worker, rPc, rebuild, remover, report, syncResult,
                     sender, receiver, raced>>
  BY DEF LeaveEnd, MainAt, MainGoto, receiverVars, taskVars
<1>2. raced = {} /\ ActiveWorkers = {}
  BY <1>1 DEF SenderInv, PhaseInv, SendsOverlapOnlyOnAbort, Aborted
<1>3. CASE toR' = toR
  BY <1>1, <1>3, MainMovesPhases DEF SenderUp, ReceiverUp
<1>4. CASE ReceiverUp /\ toR' = Append(toR, PlainMsg("END"))
  <2>1. "END" \notin Cmds /\ toS = <<>> /\ report = {} /\ rPc # "endWait" /\ ~Unpatched
    BY <1>1 DEF PhasesInv, ProtocolInv, PatchInv, PatchingPcs, Unpatched
  <2>2. PlainMsg("END") \in MsgsToReceiver /\ PlainMsg("END").cmd = "END"
        /\ {f \in Files : PlainMsg("END") = PatchListMsg(f)} = {}
    BY MessageFacts
  <2>3. QueueInv' /\ Cmds' = Cmds \cup {"END"} /\ Pending' = Pending
    BY <1>4, <2>1, <2>2, QueueAppend DEF PhasesInv
  <2>4. \A f \in Files : worker'[f] = "done" => rebuild'[f] # "idle" \/ f \in Pending
    BY <1>1, <1>2, <1>4 DEF PhasesInv, ProtocolInv, PatchInv, SentPcs
  <2>5. EndLast'
    BY <1>1, <1>4, <2>2, <2>4, EndLastAppend DEF PhasesInv, KeepsOrder
  <2>6. Requested' = Requested /\ Replied' = Replied
    BY <1>1, ReplyAfter
  <2>7. AskingInv'
    BY <1>1, <2>1, <2>3, <2>6 DEF PhasesInv, ProtocolInv, AskingInv
  <2>8. PatchInv'
    BY <1>1, <2>3, <2>6 DEF PhasesInv, ProtocolInv, PatchInv, PatchingPcs, SenderUp, ReceiverUp
  <2>9. EndingInv'
    BY <1>1, <1>2, <2>1, <2>3, <2>6, ReplyFacts
       DEF PhasesInv, ProtocolInv, EndingInv, ActiveWorkers, ActiveRebuilds, Delivered
  <2>. QED BY <2>3, <2>5, <2>7, <2>8, <2>9 DEF PhasesInv, ProtocolInv
<1>. QED BY <1>2, <1>3, <1>4 DEF LeaveEnd, LeaveSend, WriteToReceiver

(* The list of wanted files opens the patches, the result closes the session. *)
LEMMA SenderRecvPhases ==
    ASSUME PhasesInv, SenderInv, SenderRecv, UNCHANGED receiverVars PROVE PhasesInv'
<1>1. /\ sPc = "recv"
      /\ UNCHANGED <<toR, worker, rPc, rebuild, remover, syncResult, sender, receiver, raced>>
  BY DEF SenderRecv, MainAt, MainGoto, receiverVars, taskVars
<1>2. QueueInv' /\ Cmds' = Cmds /\ Pending' = Pending /\ EndLast'
  BY <1>1, QueueStutter, EndLastStutter DEF PhasesInv, KeepsOrder
<1>3. toS = <<>> \/ Requested \/ Replied
  BY DEF PhasesInv, ProtocolInv, EndingInv
<1>4. CASE toS' = toS /\ sPc' = "shutdown" /\ todo' = todo /\ report' = report
  BY <1>1, <1>4, MainMovesPhases DEF SenderUp, ReceiverUp
<1>5. CASE SenderReads("SUMLIST") /\ sPc' = "range" /\ todo' = Head(toS).fids /\ report' = report
  <2>1. Requested /\ toS' = <<>> /\ Head(toS).fids \in SUBSET Files
    BY <1>3, <1>5, ReplyFacts DEF SenderReads
  <2>2. Unpatched /\ ~Requested' /\ ~Replied'
    BY <2>1, ReplyAfter DEF PhasesInv, ProtocolInv, AskingInv
  <2>3. ~(rPc \in {"check", "sendSumList"}) /\ "INITPARAM" \notin Cmds /\ "DIR_INFO" \notin Cmds
    BY <2>1, ReplyFacts DEF PhasesInv, ProtocolInv, AskingInv
  <2>4. AskingInv'
    BY <1>1, <1>2, <1>5, <2>2, <2>3 DEF AskingInv
  <2>5. PatchInv'
    BY <1>1, <1>2, <1>5, <2>1, <2>2
       DEF PhasesInv, ProtocolInv, PatchInv, Unpatched, SenderUp, ReceiverUp
  <2>6. EndingInv'
    BY <1>1, <1>2, <1>5, <2>1, <2>2 DEF EndingInv, Unpatched
  <2>. QED BY <1>2, <2>4, <2>5, <2>6 DEF PhasesInv, ProtocolInv
<1>6. CASE SenderReads("B_END") /\ sPc' = "shutdown" /\ todo' = todo
           /\ report' = report \cup {Head(toS).result}
  <2>1. Replied /\ toS' = <<>> /\ report = {} /\ report' = {syncResult}
    <3>1. Replied /\ toS' = <<>> /\ Head(toS).result = syncResult
      BY <1>3, <1>6, ReplyFacts DEF SenderReads
    <3>2. report = {}
      BY <3>1, ReplyFacts DEF PhasesInv, ProtocolInv, EndingInv
    <3>. QED BY <1>6, <3>1, <3>2
  <2>2. /\ ~Requested' /\ ~Replied' /\ toS # <<>> /\ "END" \notin Cmds /\ rPc = "recv"
        /\ ActiveWorkers = {} /\ ActiveRebuilds = {} /\ remover # "run" /\ Delivered
    BY <2>1, ReplyAfter, ReplyFacts DEF PhasesInv, ProtocolInv, EndingInv
  <2>3. AskingInv'
    BY <1>1, <1>2, <1>6, <2>2 DEF PhasesInv, ProtocolInv, AskingInv
  <2>4. PatchInv'
    BY <1>1, <1>2, <1>6, <2>2
       DEF PhasesInv, ProtocolInv, PatchInv, PatchingPcs, SenderUp, ReceiverUp
  <2>5. EndingInv'
    BY <1>1, <1>2, <1>6, <2>1, <2>2 DEF EndingInv, ActiveWorkers, ActiveRebuilds, Delivered
  <2>. QED BY <1>2, <2>3, <2>4, <2>5 DEF PhasesInv, ProtocolInv
<1>. QED BY <1>4, <1>5, <1>6 DEF SenderRecv, MainGoto

(* A patch goroutine is started, or gets its token.                           *)
LEMMA WorkerStartsPhases ==
    ASSUME PhasesInv, SenderInv, NEW f \in Files, NEW pc \in {"spawning", "patch"},
           sPc \in {"range", "acquire"}, sPc' \in {"range", "acquire"},
           worker[f] \notin SentPcs, worker' = [worker EXCEPT ![f] = pc],
           todo' \subseteq todo \ {f},
           UNCHANGED <<toR, toS, rPc, rebuild, remover, report, syncResult, sender, receiver,
                       raced>>
    PROVE  PhasesInv'
<1>1. worker' \in [Files -> WorkerPcs]
      /\ \A g \in Files : /\ worker[g] \in SentPcs <=> worker'[g] \in SentPcs
                          /\ worker[g] = "done" <=> worker'[g] = "done"
  BY DEF SenderInv, SenderShape, WorkerPcs, SentPcs
<1>2. QueueInv' /\ Cmds' = Cmds /\ Pending' = Pending
  BY QueueStutter DEF PhasesInv
<1>3. EndLast'
  BY <1>1, <1>2, EndLastStutter DEF PhasesInv, KeepsOrder
<1>4. Requested' = Requested /\ Replied' = Replied
  BY ReplyAfter
<1>5. toS = <<>> /\ report = {} /\ "END" \notin Cmds /\ rPc # "endWait" /\ ~Unpatched /\ ~Replied
  BY ReplyFacts DEF PhasesInv, ProtocolInv, PatchInv, PatchingPcs, Unpatched
<1>6. AskingInv'
  BY <1>2, <1>4, <1>5 DEF PhasesInv, ProtocolInv, AskingInv
<1>7. PatchInv'
  BY <1>1, <1>2, <1>5
     DEF PhasesInv, ProtocolInv, PatchInv, SenderUp, ReceiverUp, SenderInv, SenderShape
<1>8. EndingInv'
  BY <1>2, <1>4, <1>5 DEF PhasesInv, ProtocolInv, EndingInv
<1>. QED BY <1>2, <1>3, <1>6, <1>7, <1>8 DEF PhasesInv, ProtocolInv

(* What a dead process had on its way may be lost.                            *)
LEMMA LostPhases ==
    ASSUME PhasesInv, SenderUp' /\ ReceiverUp' => FALSE,
           UNCHANGED <<sPc, todo, worker, rPc, rebuild, remover, report, syncResult, raced>>,
           \/ toS' = toS /\ \E n \in 0..Len(toR) : toR' = SubSeq(toR, 1, n)
           \/ toS' = <<>> /\ toR' = toR
    PROVE  PhasesInv'
<1>1. /\ QueueInv' /\ EndLast' /\ Cmds' \subseteq Cmds /\ Pending' \subseteq Pending
      /\ toR = <<>> => toR' = <<>>
  <2>1. CASE toR' = toR
    BY <2>1, QueueStutter, EndLastStutter DEF PhasesInv, KeepsOrder
  <2>2. ASSUME NEW n \in 0..Len(toR), toR' = SubSeq(toR, 1, n)
        PROVE  /\ QueueInv' /\ EndLast' /\ Cmds' \subseteq Cmds /\ Pending' \subseteq Pending
               /\ toR = <<>> => toR' = <<>>
    <3>1. QueueInv' /\ EndLast' /\ Cmds' \subseteq Cmds /\ Pending' \subseteq Pending
      BY <2>2, QueuePrefix, EndLastPrefix DEF PhasesInv
    <3>2. ASSUME toR = <<>> PROVE toR' = <<>>
      <4>1. n = 0
        BY <3>2
      <4>. QED BY <2>2, <4>1, SubSeqEmpty
    <3>. QED BY <3>1, <3>2
  <2>. QED BY <2>1, <2>2
<1>2. (Requested' => Requested) /\ (Replied' => Replied) /\ (toS = <<>> => toS' = <<>>)
  BY ReplyAfter
<1>3. toS' = <<>> \/ Requested' \/ Replied'
  BY ReplyAfter DEF PhasesInv, ProtocolInv, EndingInv
<1>4. Unpatched => Unpatched'
  BY <1>1 DEF Unpatched
<1>5. AskingInv'
  BY <1>1, <1>2, <1>4 DEF PhasesInv, ProtocolInv, AskingInv
<1>6. PatchInv'
  BY <1>1, <1>2 DEF PhasesInv, ProtocolInv, PatchInv
<1>7. EndingInv'
  BY <1>1, <1>2, <1>3
     DEF PhasesInv, ProtocolInv, EndingInv, ActiveWorkers, ActiveRebuilds, Delivered
<1>. QED BY <1>1, <1>5, <1>6, <1>7 DEF PhasesInv, ProtocolInv

LEMMA SenderPhases ==
    PhasesInv /\ SenderInv /\ (SenderStep \/ SenderCrash) /\ UNCHANGED receiverVars => PhasesInv'
<1>. SUFFICES ASSUME PhasesInv, SenderInv, UNCHANGED receiverVars, SenderStep \/ SenderCrash
              PROVE  PhasesInv'
  OBVIOUS
<1>. USE DEF receiverVars, taskVars, MainAt, MainGoto
<1>1. CASE SendInitParam
  <2>1. CASE toR' = toR
    BY <1>1, <2>1, MainMovesPhases DEF SendInitParam, Panic, SenderUp, ReceiverUp
  <2>2. ASSUME NEW d \in BOOLEAN, toR' = Append(toR, InitParamMsg(d)), sPc' = "dirInfo",
               sender' = sender
        PROVE  PhasesInv'
    BY <1>1, <2>2, MessageFacts, MainSendsPhases DEF SendInitParam
  <2>. QED BY <1>1, <2>1, <2>2 DEF SendInitParam, WriteToReceiver
<1>2. CASE SendDirInfo
  <2>1. CASE toR' = toR
    BY <1>2, <2>1, MainMovesPhases DEF SendDirInfo, SenderUp, ReceiverUp
  <2>2. CASE toR' = Append(toR, PlainMsg("DIR_INFO")) /\ sPc' = "recv"
    BY <1>2, <2>2, MessageFacts, MainSendsPhases DEF SendDirInfo
  <2>. QED BY <1>2, <2>1, <2>2 DEF SendDirInfo, WriteToReceiver
<1>3. CASE NextSumList
  <2>1. CASE sPc' # "acquire"
    <3>1. /\ sPc = "range" /\ sPc' \in {"range", "wait", "shutdown"} /\ todo' \subseteq todo
          /\ UNCHANGED <<toR, toS, worker, report, sender, receiver, raced>>
      BY <1>3, <2>1 DEF NextSumList
    <3>. QED BY <3>1, MainMovesPhases DEF SenderUp, ReceiverUp
  <2>2. ASSUME NEW f \in todo, todo' = todo \ {f}, sPc' = "acquire",
               worker' = [worker EXCEPT ![f] = "spawning"]
        PROVE  PhasesInv'
    <3>1. f \in Files /\ worker[f] = "idle" /\ sPc = "range"
      BY <1>3, <2>2 DEF NextSumList, PhasesInv, ProtocolInv, PatchInv
    <3>. QED BY <1>3, <2>2, <3>1, WorkerStartsPhases DEF NextSumList, SentPcs
  <2>. QED BY <1>3, <2>1, <2>2 DEF NextSumList
<1>4. ASSUME NEW f \in Files, AcquireGoLimit(f) PROVE PhasesInv'
  <2>1. worker[f] = "spawning" /\ sPc = "acquire" /\ todo' = todo
    BY <1>4 DEF AcquireGoLimit
  <2>2. f \notin todo
    BY <2>1 DEF PhasesInv, ProtocolInv, PatchInv
  <2>. QED BY <1>4, <2>1, <2>2, WorkerStartsPhases DEF AcquireGoLimit, SentPcs
<1>5. CASE EnterEnd \/ EnterShutdown
  BY <1>5, MainMovesPhases DEF EnterEnd, EnterShutdown, EnterSend, SenderUp, ReceiverUp
<1>6. CASE LeaveShutdown
  <2>1. CASE toR' = toR
    BY <1>6, <2>1, MainMovesPhases DEF LeaveShutdown, Panic, LeaveSend, SenderUp, ReceiverUp
  <2>2. ASSUME NEW c \in {"SHUTDOWN", "GARBAGE"}, toR' = Append(toR, PlainMsg(c)), sPc' = "reap",
               sender' = sender
        PROVE  PhasesInv'
    BY <1>6, <2>2, MessageFacts, MainSendsPhases DEF LeaveShutdown
  <2>. QED BY <1>6, <2>1, <2>2 DEF LeaveShutdown, LeaveSend, WriteToReceiver
<1>7. CASE Reap
  BY <1>7, MainMovesPhases DEF Reap, senderVars, SenderUp, ReceiverUp
<1>8. CASE RunReturns \/ SenderCrash
  BY <1>8, LostPhases DEF RunReturns, SenderCrash, senderVars, SenderUp, ReceiverUp
<1>9. ASSUME NEW f \in Files, WorkerStep(f) PROVE PhasesInv'
  <2>. USE DEF WorkerAt, WorkerGoto, connVars, SentPcs, WorkerPcs, SenderUp
  <2>1. CASE MakePatch(f)
    BY <2>1, WorkerMovesPhases DEF MakePatch
  <2>2. CASE LockAndEnterSend(f)
    BY <2>2, WorkerMovesPhases DEF LockAndEnterSend, EnterSend
  <2>3. CASE Unlock(f)
    BY <2>3, WorkerMovesPhases DEF Unlock
  <2>4. CASE ReleaseGoLimit(f)
    BY <2>4, WorkerMovesPhases DEF ReleaseGoLimit
  <2>5. CASE PatchDone(f)
    BY <2>5, WorkerMovesPhases DEF PatchDone
  <2>. QED BY <1>9, <2>1, <2>2, <2>3, <2>4, <2>5, LeavePatchSendPhases DEF WorkerStep
<1>. QED BY <1>1, <1>2, <1>3, <1>4, <1>5, <1>6, <1>7, <1>8, <1>9, EndPhases, SenderRecvPhases
         DEF SenderStep, MainStep

(* RemoveFiles at work also means that no reply has been made.                *)
LEMMA RemoverMovesPhases ==
    ASSUME PhasesInv, remover = "run", remover' \in {"run", "done"},
           UNCHANGED <<sender, receiver, toR, toS, raced, sPc, rPc, todo, worker, rebuild, report>>
    PROVE  PhasesInv'
<1>1. QueueInv' /\ Cmds' = Cmds /\ Pending' = Pending /\ EndLast'
  BY QueueStutter, EndLastStutter DEF PhasesInv, KeepsOrder
<1>2. ~Replied /\ report = {}
  BY DEF PhasesInv, ProtocolInv, EndingInv
<1>3. Requested' = Requested /\ ~Replied'
  BY <1>2, ReplyAfter DEF PhasesInv, ProtocolInv, EndingInv
<1>4. AskingInv'
  BY <1>1, <1>3 DEF PhasesInv, ProtocolInv, AskingInv, Unpatched
<1>5. PatchInv'
  BY <1>1, <1>3 DEF PhasesInv, ProtocolInv, PatchInv, SenderUp, ReceiverUp
<1>6. EndingInv'
  BY <1>1, <1>2, <1>3 DEF PhasesInv, ProtocolInv, EndingInv, Delivered, ActiveWorkers
<1>. QED BY <1>1, <1>4, <1>5, <1>6 DEF PhasesInv, ProtocolInv

(* The list of FileListCheck is complete: RemoveFiles may start.              *)
LEMMA EndCheckPhases ==
    ASSUME PhasesInv, rPc = "check", rPc' = "sendSumList",
           UNCHANGED <<sender, receiver, toR, toS, raced, sPc, todo, worker, rebuild, report,
                       syncResult>>
    PROVE  PhasesInv'
<1>1. QueueInv' /\ Cmds' = Cmds /\ Pending' = Pending /\ EndLast'
  BY QueueStutter, EndLastStutter DEF PhasesInv, KeepsOrder
<1>2. Requested' = Requested /\ Replied' = Replied
  BY ReplyAfter
<1>3. toS = <<>> /\ Unpatched /\ ~Replied
  BY ReplyFacts DEF PhasesInv, ProtocolInv, AskingInv
<1>4. AskingInv'
  BY <1>1, <1>2, <1>3 DEF PhasesInv, ProtocolInv, AskingInv, Unpatched
<1>5. PatchInv'
  BY <1>1, <1>2 DEF PhasesInv, ProtocolInv, PatchInv, SenderUp, ReceiverUp
<1>6. EndingInv'
  BY <1>1, <1>2, <1>3 DEF PhasesInv, ProtocolInv, EndingInv, Delivered, ActiveWorkers, Unpatched
<1>. QED BY <1>1, <1>4, <1>5, <1>6 DEF PhasesInv, ProtocolInv

(* The token comes: a task waits for it only in the phase of the patches.     *)
LEMMA AcquirePhases ==
    ASSUME PhasesInv, ReceiverInv, NEW f \in Files, rPc = "acquire", rPc' = "recv",
           rebuild[f] = "spawning", rebuild' = [rebuild EXCEPT ![f] = "open"],
           UNCHANGED <<sender, receiver, toR, toS, raced, sPc, todo, worker, remover, report,
                       syncResult>>
    PROVE  PhasesInv'
<1>1. rebuild' \in [Files -> RebuildPcs] /\ f \in ActiveRebuilds
      /\ \A g \in Files : rebuild[g] # "idle" <=> rebuild'[g] # "idle"
  BY DEF ReceiverInv, ActiveRebuilds, RebuildPcs
<1>2. QueueInv' /\ Cmds' = Cmds /\ Pending' = Pending
  BY QueueStutter DEF PhasesInv
<1>3. EndLast'
  BY <1>1, EndLastStutter DEF PhasesInv, KeepsOrder
<1>4. Requested' = Requested /\ Replied' = Replied
  BY ReplyAfter
<1>5. ~Replied /\ report = {} /\ ~Unpatched
  BY <1>1 DEF PhasesInv, ProtocolInv, EndingInv, PatchInv, Unpatched, SentPcs, ActiveRebuilds
<1>6. AskingInv'
  BY <1>2, <1>4, <1>5 DEF PhasesInv, ProtocolInv, AskingInv
<1>7. PatchInv'
  BY <1>1, <1>2, <1>4
     DEF PhasesInv, ProtocolInv, PatchInv, SenderUp, ReceiverUp, Pending
<1>8. EndingInv'
  BY <1>1, <1>2, <1>4, <1>5 DEF PhasesInv, ProtocolInv, EndingInv, Delivered, ActiveWorkers
<1>. QED BY <1>2, <1>3, <1>6, <1>7, <1>8 DEF PhasesInv, ProtocolInv

(* Reading a message that starts nothing.                                     *)
LEMMA ReadPhases ==
    ASSUME PhasesInv, NEW c \in {"INITPARAM", "SHUTDOWN", "GARBAGE"}, ReceiverReads(c),
           c = "INITPARAM" \/ syncResult' = syncResult, ReceiverUp' => ReceiverUp,
           UNCHANGED <<sender, toS, raced, sPc, rPc, todo, worker, rebuild, remover, report>>
    PROVE  PhasesInv'
<1>1. /\ QueueInv' /\ Cmds' \subseteq Cmds /\ Pending' = Pending /\ "INITPARAM" \notin Cmds'
      /\ c \in Cmds /\ toR # <<>>
  BY QueueTail DEF PhasesInv, ReceiverReads
<1>2. EndLast'
  BY <1>1, EndLastTail DEF PhasesInv, ReceiverReads, KeepsOrder
<1>3. c = "INITPARAM" => toS = <<>> /\ report = {}
  BY <1>1 DEF PhasesInv, ProtocolInv, AskingInv, Unpatched
<1>4. Requested' = Requested /\ (Replied' <=> Replied)
  BY <1>3, ReplyAfter, ReplyFacts
<1>5. Unpatched => Unpatched'
  BY <1>1 DEF Unpatched
<1>6. AskingInv'
  BY <1>1, <1>4, <1>5 DEF PhasesInv, ProtocolInv, AskingInv
<1>7. PatchInv'
  BY <1>1, <1>4 DEF PhasesInv, ProtocolInv, PatchInv, SenderUp, ReceiverUp
<1>8. EndingInv'
  BY <1>1, <1>3, <1>4
     DEF PhasesInv, ProtocolInv, EndingInv, Delivered, ActiveWorkers, ActiveRebuilds
<1>. QED BY <1>1, <1>2, <1>6, <1>7, <1>8 DEF PhasesInv, ProtocolInv

(* DIR_INFO opens the check, END closes the patches.                          *)
LEMMA RecvDirInfoPhases ==
    ASSUME PhasesInv, ReceiverReads("DIR_INFO"), rPc' = "check",
           UNCHANGED <<sender, receiver, toS, raced, sPc, todo, worker, rebuild, remover, report,
                       syncResult>>
    PROVE  PhasesInv'
<1>1. /\ QueueInv' /\ Cmds' \subseteq Cmds /\ Pending' = Pending
      /\ "INITPARAM" \notin Cmds' /\ "DIR_INFO" \notin Cmds' /\ "DIR_INFO" \in Cmds /\ toR # <<>>
  BY QueueTail DEF PhasesInv, ReceiverReads
<1>2. EndLast'
  BY <1>1, EndLastTail DEF PhasesInv, ReceiverReads, KeepsOrder
<1>3. Requested' = Requested /\ Replied' = Replied
  BY ReplyAfter
<1>4. toS = <<>> /\ Unpatched /\ remover = "idle" /\ sPc \notin {"start", "dirInfo"}
  BY <1>1 DEF PhasesInv, ProtocolInv, AskingInv, QueueInv
<1>5. ~Replied /\ Unpatched'
  BY <1>1, <1>4, ReplyFacts DEF Unpatched
<1>6. AskingInv'
  BY <1>1, <1>4, <1>5 DEF AskingInv
<1>7. PatchInv'
  BY <1>1, <1>3 DEF PhasesInv, ProtocolInv, PatchInv, SenderUp, ReceiverUp
<1>8. EndingInv'
  BY <1>1, <1>3, <1>4, <1>5 DEF PhasesInv, ProtocolInv, EndingInv, Unpatched
<1>. QED BY <1>1, <1>2, <1>6, <1>7, <1>8 DEF PhasesInv, ProtocolInv

LEMMA RecvEndPhases ==
    ASSUME PhasesInv, ReceiverReads("END"), rPc' = "endWait",
           UNCHANGED <<sender, receiver, toS, raced, sPc, todo, worker, rebuild, remover, report,
                       syncResult>>
    PROVE  PhasesInv'
<1>1. /\ QueueInv' /\ Cmds' \subseteq Cmds /\ Pending' = Pending
      /\ "END" \in Cmds /\ "END" \notin Cmds' /\ toR # <<>>
  BY QueueTail DEF PhasesInv, ReceiverReads
<1>2. EndLast' /\ Delivered /\ Delivered'
  BY <1>1, EndLastTail, EndIsLast DEF PhasesInv, ReceiverReads, KeepsOrder, Delivered
<1>3. Requested' = Requested /\ Replied' = Replied
  BY ReplyAfter
<1>4. /\ toS = <<>> /\ report = {} /\ ActiveWorkers = {} /\ ~Replied /\ ~Unpatched
      /\ sPc \notin PatchingPcs
  BY <1>1, ReplyFacts DEF PhasesInv, ProtocolInv, EndingInv, PatchInv, Unpatched
<1>5. AskingInv'
  BY <1>1, <1>3, <1>4 DEF PhasesInv, ProtocolInv, AskingInv
<1>6. PatchInv'
  BY <1>1, <1>3, <1>4 DEF PhasesInv, ProtocolInv, PatchInv, SenderUp, ReceiverUp
<1>7. EndingInv'
  BY <1>1, <1>2, <1>3, <1>4 DEF PhasesInv, ProtocolInv, EndingInv, ActiveWorkers
<1>. QED BY <1>1, <1>2, <1>5, <1>6, <1>7 DEF PhasesInv, ProtocolInv

(* A patch leaves the queue and has its goroutine.                            *)
LEMMA RecvPatchListPhases ==
    ASSUME PhasesInv, ReceiverInv, ReceiverReads("PATCHLIST"), rPc = "recv", rPc' = "acquire",
           rebuild' = [rebuild EXCEPT ![Head(toR).fid] = "spawning"],
           UNCHANGED <<sender, receiver, toS, raced, sPc, todo, worker, remover, report,
                       syncResult>>
    PROVE  PhasesInv'
<1>. DEFINE f == Head(toR).fid
<1>1. /\ QueueInv' /\ Cmds' \subseteq Cmds /\ Pending' = Pending \ {f} /\ f \in Pending
      /\ f \in Files /\ "INITPARAM" \notin Cmds' /\ toR # <<>>
  BY QueueTail DEF PhasesInv, ReceiverReads, Pending
<1>2. /\ rebuild' \in [Files -> RebuildPcs] /\ rebuild'[f] = "spawning"
      /\ \A g \in Files : g # f => rebuild'[g] = rebuild[g]
  BY <1>1 DEF ReceiverInv, RebuildPcs
<1>3. EndLast'
  BY <1>1, <1>2, EndLastTail DEF PhasesInv, ReceiverReads, KeepsOrder
<1>4. Requested' = Requested /\ Replied' = Replied
  BY ReplyAfter
<1>5. worker[f] \in SentPcs /\ rebuild[f] = "idle" /\ ~Unpatched
  BY <1>1 DEF PhasesInv, ProtocolInv, PatchInv, Unpatched, SentPcs
<1>6. ~Replied /\ report = {}
  BY <1>1, <1>5
     DEF PhasesInv, ProtocolInv, EndingInv, ActiveWorkers, Delivered, SentPcs
<1>7. AskingInv'
  BY <1>1, <1>4, <1>5 DEF PhasesInv, ProtocolInv, AskingInv
<1>8. PatchInv'
  BY <1>1, <1>2, <1>4, <1>5 DEF PhasesInv, ProtocolInv, PatchInv, SenderUp, ReceiverUp
<1>9. EndingInv'
  BY <1>1, <1>2, <1>4, <1>6 DEF PhasesInv, ProtocolInv, EndingInv, Delivered, ActiveWorkers
<1>. QED BY <1>1, <1>3, <1>7, <1>8, <1>9 DEF PhasesInv, ProtocolInv

(* The receiver's two messages, each into an empty pipe.                      *)
LEMMA ReplyPhases ==
    ASSUME PhasesInv, RangesInv, CountInv, ReceiverInv, SendSumList \/ SendBEnd,
           UNCHANGED senderVars
    PROVE  PhasesInv'
<1>1. /\ rPc \in {"sendSumList", "endWait"} /\ rPc' = "recv"
      /\ UNCHANGED <<sender, receiver, toR, raced, sPc, todo, worker, rebuild, remover, report,
                     syncResult>>
  BY DEF SendSumList, SendBEnd, LoopAt, LoopGoto, senderVars, taskVars
<1>2. QueueInv' /\ Cmds' = Cmds /\ Pending' = Pending /\ EndLast'
  BY <1>1, QueueStutter, EndLastStutter DEF PhasesInv, KeepsOrder
<1>3. toS = <<>> /\ report = {} /\ (Unpatched => Unpatched') /\ sPc \notin PatchingPcs
  BY <1>1, <1>2 DEF PhasesInv, ProtocolInv, EndingInv, AskingInv, PatchInv, Unpatched
<1>4. \A m : Append(<<>>, m) = <<m>>
  OBVIOUS
<1>5. PatchInv'
  BY <1>1, <1>2, <1>3 DEF PhasesInv, ProtocolInv, PatchInv, SenderUp, ReceiverUp
<1>6. CASE SendSumList
  <2>1. Unpatched /\ rPc = "sendSumList" /\ toS' \in {<<>>, <<SumListMsg(fileSumList)>>}
    BY <1>3, <1>4, <1>6
       DEF SendSumList, LoopAt, WriteToSender, PhasesInv, ProtocolInv, AskingInv
  <2>2. toS' = <<>> \/ Requested'
    BY <2>1 DEF RangesInv, Requested
  <2>3. ~Replied' /\ Unpatched'
    BY <1>3, <2>1, <2>2, ReplyAfter
  <2>4. AskingInv'
    BY <1>1, <1>2, <2>1, <2>3 DEF PhasesInv, ProtocolInv, AskingInv
  <2>5. EndingInv'
    BY <1>1, <1>2, <1>3, <2>1, <2>2, <2>3 DEF EndingInv, Unpatched
  <2>. QED BY <1>2, <1>5, <2>4, <2>5 DEF PhasesInv, ProtocolInv
<1>7. CASE SendBEnd
  <2>1. rPc = "endWait" /\ taskWaitGroup = 0 /\ toS' \in {<<>>, <<BEndMsg(syncResult)>>}
    BY <1>3, <1>4, <1>7 DEF SendBEnd, LoopAt, WriteToSender, AllTasksDone
  <2>2. toS' = <<>> \/ Replied'
    BY <1>1, <2>1 DEF Replied
  <2>3. ~Requested'
    BY <2>2, ReplyAfter
  <2>4. ActiveWorkers = {} /\ Delivered /\ "END" \notin Cmds /\ ~Unpatched
    BY <2>1 DEF PhasesInv, ProtocolInv, EndingInv, Unpatched
  <2>5. ActiveRebuilds = {} /\ remover # "run"
    <3>1. ActiveRebuilds \in SUBSET Files /\ IsFiniteSet(ActiveRebuilds)
      BY Constants, FS_Subset DEF ActiveRebuilds
    <3>2. Cardinality(ActiveRebuilds) \in Nat
      BY <3>1, FS_CardinalityType
    <3>3. Cardinality(ActiveRebuilds) = 0 /\ remover # "run"
      BY <2>1, <3>2 DEF CountInv
    <3>. QED BY <3>1, <3>3, FS_EmptySet
  <2>6. AskingInv'
    BY <1>1, <1>2, <2>3, <2>4 DEF PhasesInv, ProtocolInv, AskingInv
  <2>7. EndingInv'
    BY <1>1, <1>2, <1>3, <2>2, <2>4, <2>5
       DEF EndingInv, Delivered, ActiveWorkers, ActiveRebuilds
  <2>. QED BY <1>2, <1>5, <2>6, <2>7 DEF PhasesInv, ProtocolInv
<1>. QED BY <1>6, <1>7
LEMMA ReceiverPhases ==
    /\ PhasesInv /\ ReceiverInv /\ RangesInv /\ CountInv
    /\ (ReceiverStep \/ ReceiverCrash) /\ UNCHANGED senderVars
    => PhasesInv'
<1>. SUFFICES ASSUME PhasesInv, ReceiverInv, RangesInv, CountInv, UNCHANGED senderVars,
                     ReceiverStep \/ ReceiverCrash
              PROVE  PhasesInv'
  OBVIOUS
<1>. USE DEF senderVars, connVars, taskVars, LoopAt, LoopGoto, Exit, ReceiverUp
<1>1. CASE RecvInitParam
  BY <1>1, ReadPhases DEF RecvInitParam
<1>2. CASE RecvDirInfo
  BY <1>2, RecvDirInfoPhases DEF RecvDirInfo
<1>3. CASE RecvPatchList
  BY <1>3, RecvPatchListPhases DEF RecvPatchList
<1>4. CASE RecvEnd
  BY <1>4, RecvEndPhases DEF RecvEnd
<1>5. CASE ReceiverExit
  BY <1>5, ReadPhases, MainMovesPhases DEF ReceiverExit, SenderUp
<1>6. ASSUME NEW f \in Files, AcquireRebuildLimit(f) PROVE PhasesInv'
  BY <1>6, AcquirePhases DEF AcquireRebuildLimit
<1>7. CASE ReplyFails \/ ReceiverCrash \/ \E f \in Files : CheckFile(f) \/ SumListMade(f)
  BY <1>7, MainMovesPhases DEF ReplyFails, ReceiverCrash, CheckFile, SumListMade, SenderUp, receiverVars
<1>8. CASE EndCheck
  BY <1>8, EndCheckPhases DEF EndCheck
<1>9. CASE RemoveFiles
  BY <1>9, RemoverMovesPhases DEF RemoveFiles, RemoveFile, RemoveDone
<1>10. ASSUME NEW f \in Files, RebuildFile(f) PROVE PhasesInv'
  <2>1. PICK pc \in RebuildPcs :
          /\ rebuild[f] \notin {"idle", "done"} /\ pc # "idle"
          /\ rebuild' = rebuild \/ rebuild' = [rebuild EXCEPT ![f] = pc]
          /\ ReceiverUp' => ReceiverUp
          /\ UNCHANGED <<sender, toR, toS, raced, rPc, remover>>
    BY <1>10 DEF RebuildFile, OpenFile, BeginWrite, EndWrite, Verify, Chtimes, CountSuccess,
       RecordFailure, ReleaseRebuildLimit, RebuildDone, RebuildAt, RebuildGoto, RebuildPcs,
       unchangedByRebuild
  <2>. QED BY <2>1, RebuildMovesPhases
<1>. QED BY <1>1, <1>2, <1>3, <1>4, <1>5, <1>6, <1>7, <1>8, <1>9, <1>10, ReplyPhases
         DEF ReceiverStep, LoopStep

-----------------------------------------------------------------------------
(* The counters.  A goroutine that moves joins a set, leaves it, or stays.    *)
LEMMA CardinalityMoves ==
    ASSUME NEW S \in SUBSET Files, NEW T, NEW f \in Files, NEW b \in BOOLEAN,
           T = IF b THEN S \cup {f} ELSE S \ {f}
    PROVE  /\ Cardinality(S) \in Nat
           /\ Cardinality(T) = Cardinality(S) + (IF b THEN 1 ELSE 0) - (IF f \in S THEN 1 ELSE 0)
<1>1. IsFiniteSet(S) /\ Cardinality(S) \in Nat
  BY Constants, FS_Subset, FS_CardinalityType
<1>2. CASE b /\ f \notin S
  <2>1. Cardinality(S \cup {f}) = Cardinality(S) + 1
    BY <1>1, <1>2, FS_AddElement
  <2>. QED BY <1>1, <1>2, <2>1
<1>3. CASE ~b /\ f \in S
  <2>1. Cardinality(S \ {f}) = Cardinality(S) - 1
    BY <1>1, <1>3, FS_RemoveElement
  <2>. QED BY <1>1, <1>3, <2>1
<1>4. CASE b <=> f \in S
  <2>1. T = S
    BY <1>4
  <2>. QED BY <1>1, <1>4, <2>1
<1>. QED BY <1>2, <1>3, <1>4

IsActive(pc)         == pc \notin {"idle", "done"}
HoldsGoLimit(pc)     == pc \in {"patch", "lock", "send", "unlock", "release"}
HoldsRebuildLimit(pc) == pc \notin {"idle", "spawning", "leave", "done"}
One(b)               == IF b THEN 1 ELSE 0

LEMMA WorkerCounts ==
    ASSUME SenderInv, NEW f \in Files, NEW pc, worker' = [worker EXCEPT ![f] = pc]
    PROVE  /\ Cardinality(ActiveWorkers) \in Nat /\ Cardinality(GoLimitHolders) \in Nat
           /\ Cardinality(ActiveWorkers')
                = Cardinality(ActiveWorkers) + One(IsActive(pc)) - One(IsActive(worker[f]))
           /\ Cardinality(GoLimitHolders')
                = Cardinality(GoLimitHolders) + One(HoldsGoLimit(pc)) - One(HoldsGoLimit(worker[f]))
<1>1. /\ ActiveWorkers \in SUBSET Files /\ IsActive(pc) \in BOOLEAN
      /\ ActiveWorkers' = IF IsActive(pc) THEN ActiveWorkers \cup {f} ELSE ActiveWorkers \ {f}
      /\ f \in ActiveWorkers <=> IsActive(worker[f])
  BY DEF SenderInv, SenderShape, ActiveWorkers, IsActive
<1>2. /\ GoLimitHolders \in SUBSET Files /\ HoldsGoLimit(pc) \in BOOLEAN
      /\ GoLimitHolders' = IF HoldsGoLimit(pc) THEN GoLimitHolders \cup {f}
                                               ELSE GoLimitHolders \ {f}
      /\ f \in GoLimitHolders <=> HoldsGoLimit(worker[f])
  BY DEF SenderInv, SenderShape, GoLimitHolders, HoldsGoLimit
<1>3. /\ Cardinality(ActiveWorkers) \in Nat
      /\ Cardinality(ActiveWorkers')
           = Cardinality(ActiveWorkers) + One(IsActive(pc)) - One(IsActive(worker[f]))
  BY <1>1, CardinalityMoves DEF One
<1>4. /\ Cardinality(GoLimitHolders) \in Nat
      /\ Cardinality(GoLimitHolders')
           = Cardinality(GoLimitHolders) + One(HoldsGoLimit(pc)) - One(HoldsGoLimit(worker[f]))
  BY <1>2, CardinalityMoves DEF One
<1>. QED BY <1>3, <1>4

LEMMA RebuildCounts ==
    ASSUME ReceiverInv, NEW f \in Files, NEW pc, rebuild' = [rebuild EXCEPT ![f] = pc]
    PROVE  /\ Cardinality(ActiveRebuilds) \in Nat /\ Cardinality(RebuildHolders) \in Nat
           /\ Cardinality(ActiveRebuilds')
                = Cardinality(ActiveRebuilds) + One(IsActive(pc)) - One(IsActive(rebuild[f]))
           /\ Cardinality(RebuildHolders')
                = Cardinality(RebuildHolders) + One(HoldsRebuildLimit(pc))
                  - One(HoldsRebuildLimit(rebuild[f]))
<1>1. /\ ActiveRebuilds \in SUBSET Files /\ IsActive(pc) \in BOOLEAN
      /\ ActiveRebuilds' = IF IsActive(pc) THEN ActiveRebuilds \cup {f} ELSE ActiveRebuilds \ {f}
      /\ f \in ActiveRebuilds <=> IsActive(rebuild[f])
  BY DEF ReceiverInv, ActiveRebuilds, IsActive
<1>2. /\ RebuildHolders \in SUBSET Files /\ HoldsRebuildLimit(pc) \in BOOLEAN
      /\ RebuildHolders' = IF HoldsRebuildLimit(pc) THEN RebuildHolders \cup {f}
                                                    ELSE RebuildHolders \ {f}
      /\ f \in RebuildHolders <=> HoldsRebuildLimit(rebuild[f])
  BY DEF ReceiverInv, RebuildHolders, HoldsRebuildLimit
<1>3. /\ Cardinality(ActiveRebuilds) \in Nat
      /\ Cardinality(ActiveRebuilds')
           = Cardinality(ActiveRebuilds) + One(IsActive(pc)) - One(IsActive(rebuild[f]))
  BY <1>1, CardinalityMoves DEF One
<1>4. /\ Cardinality(RebuildHolders) \in Nat
      /\ Cardinality(RebuildHolders')
           = Cardinality(RebuildHolders) + One(HoldsRebuildLimit(pc))
             - One(HoldsRebuildLimit(rebuild[f]))
  BY <1>2, CardinalityMoves DEF One
<1>. QED BY <1>3, <1>4

LEMMA CountStutter ==
    CountInv /\ UNCHANGED <<worker, rebuild, remover, waitGroup, goLimit, rebuildGoLimit,
                            taskWaitGroup>> => CountInv'
BY DEF CountInv, ActiveWorkers, GoLimitHolders, ActiveRebuilds, RebuildHolders

LEMMA SenderCounts ==
    CountInv /\ PhasesInv /\ SenderInv /\ (SenderStep \/ SenderCrash) /\ UNCHANGED receiverVars
    => CountInv'
<1>. SUFFICES ASSUME CountInv, PhasesInv, SenderInv, UNCHANGED receiverVars,
                     SenderStep \/ SenderCrash
              PROVE  CountInv'
  OBVIOUS
<1>. USE DEF receiverVars, taskVars
<1>1. UNCHANGED <<ActiveRebuilds, RebuildHolders, remover, rebuildGoLimit, taskWaitGroup>>
  BY DEF ActiveRebuilds, RebuildHolders
<1>2. CASE UNCHANGED <<worker, waitGroup, goLimit>>
  BY <1>2, CountStutter
<1>3. ASSUME NEW f \in Files, NEW pc \in WorkerPcs, worker' = [worker EXCEPT ![f] = pc],
             \/ /\ worker[f] = "idle" /\ pc = "spawning"
                /\ waitGroup' = waitGroup + 1 /\ goLimit' = goLimit
             \/ /\ worker[f] = "spawning" /\ pc = "patch"
                /\ waitGroup' = waitGroup /\ goLimit' = goLimit + 1
             \/ /\ worker[f] \in {"patch", "lock", "send", "unlock"}
                /\ pc \in {"lock", "send", "unlock", "release"}
                /\ waitGroup' = waitGroup /\ goLimit' = goLimit
             \/ /\ worker[f] = "release" /\ pc = "leave"
                /\ waitGroup' = waitGroup /\ goLimit' = goLimit - 1
             \/ /\ worker[f] = "leave" /\ pc = "done"
                /\ waitGroup' = waitGroup - 1 /\ goLimit' = goLimit
      PROVE  CountInv'
  <2>1. /\ Cardinality(ActiveWorkers) \in Nat /\ Cardinality(GoLimitHolders) \in Nat
        /\ Cardinality(ActiveWorkers')
             = Cardinality(ActiveWorkers) + One(IsActive(pc)) - One(IsActive(worker[f]))
        /\ Cardinality(GoLimitHolders')
             = Cardinality(GoLimitHolders) + One(HoldsGoLimit(pc)) - One(HoldsGoLimit(worker[f]))
    BY <1>3, WorkerCounts
  <2>2. waitGroup = Cardinality(ActiveWorkers) /\ goLimit = Cardinality(GoLimitHolders)
    BY DEF CountInv
  <2>3. waitGroup' = Cardinality(ActiveWorkers') /\ goLimit' = Cardinality(GoLimitHolders')
    BY ONLY <1>3, <2>1, <2>2 DEF One, IsActive, HoldsGoLimit
  <2>. QED BY <1>1, <2>3 DEF CountInv
<1>4. CASE NextSumList
  <2>1. CASE sPc' # "acquire"
    <3>1. UNCHANGED <<worker, waitGroup, goLimit>>
      BY <1>4, <2>1 DEF NextSumList, MainGoto
    <3>. QED BY <1>2, <3>1
  <2>2. ASSUME NEW f \in todo, worker' = [worker EXCEPT ![f] = "spawning"],
               waitGroup' = waitGroup + 1
        PROVE  CountInv'
    <3>1. sPc = "range" /\ goLimit' = goLimit
      BY <1>4 DEF NextSumList, MainAt
    <3>2. f \in Files /\ worker[f] = "idle"
      BY <2>2, <3>1 DEF PhasesInv, ProtocolInv, PatchInv
    <3>. QED BY <1>3, <2>2, <3>1, <3>2 DEF WorkerPcs
  <2>. QED BY <1>4, <2>1, <2>2 DEF NextSumList, MainGoto
<1>5. ASSUME NEW f \in Files, AcquireGoLimit(f) PROVE CountInv'
  BY <1>3, <1>5 DEF AcquireGoLimit, MainAt, WorkerPcs
<1>6. ASSUME NEW f \in Files, WorkerStep(f) PROVE CountInv'
  <2>. USE DEF WorkerAt, WorkerGoto, connVars, WorkerPcs
  <2>1. CASE MakePatch(f)
    BY <1>2, <1>3, <2>1 DEF MakePatch
  <2>2. CASE LockAndEnterSend(f) \/ LeavePatchSend(f)
    BY <1>3, <2>2 DEF LockAndEnterSend, LeavePatchSend
  <2>3. CASE Unlock(f) \/ ReleaseGoLimit(f) \/ PatchDone(f)
    BY <1>3, <2>3 DEF Unlock, ReleaseGoLimit, PatchDone
  <2>. QED BY <1>6, <2>1, <2>2, <2>3 DEF WorkerStep
<1>7. CASE SendInitParam \/ SendDirInfo \/ SenderRecv \/ EnterEnd \/ LeaveEnd \/ EnterShutdown
           \/ LeaveShutdown \/ Reap \/ RunReturns \/ SenderCrash
  BY <1>2, <1>7 DEF SendInitParam, SendDirInfo, SenderRecv, EnterEnd, LeaveEnd, EnterShutdown,
     LeaveShutdown, Reap, RunReturns, SenderCrash, senderVars
<1>. QED BY <1>4, <1>5, <1>6, <1>7 DEF SenderStep, MainStep
LEMMA ReceiverCounts ==
    /\ CountInv /\ PhasesInv /\ ReceiverInv
    /\ (ReceiverStep \/ ReceiverCrash) /\ UNCHANGED senderVars
    => CountInv'
<1>. SUFFICES ASSUME CountInv, PhasesInv, ReceiverInv, UNCHANGED senderVars,
                     ReceiverStep \/ ReceiverCrash
              PROVE  CountInv'
  OBVIOUS
<1>. USE DEF senderVars, taskVars
<1>1. UNCHANGED <<ActiveWorkers, GoLimitHolders, waitGroup, goLimit>>
  BY DEF ActiveWorkers, GoLimitHolders
<1>2. CASE UNCHANGED <<rebuild, rebuildGoLimit, taskWaitGroup, remover>>
  BY <1>2, CountStutter
<1>3. ASSUME NEW f \in Files, NEW pc \in RebuildPcs, rebuild' = [rebuild EXCEPT ![f] = pc],
             remover' = remover,
             \/ /\ rebuild[f] = "idle" /\ pc = "spawning"
                /\ taskWaitGroup' = taskWaitGroup + 1 /\ rebuildGoLimit' = rebuildGoLimit
             \/ /\ rebuild[f] = "spawning" /\ pc = "open"
                /\ taskWaitGroup' = taskWaitGroup /\ rebuildGoLimit' = rebuildGoLimit + 1
             \/ /\ rebuild[f] \in {"open", "write", "flush", "verify", "chtimes", "count", "fail"}
                /\ pc \in {"write", "flush", "verify", "chtimes", "count", "fail", "release"}
                /\ taskWaitGroup' = taskWaitGroup /\ rebuildGoLimit' = rebuildGoLimit
             \/ /\ rebuild[f] = "release" /\ pc = "leave"
                /\ taskWaitGroup' = taskWaitGroup /\ rebuildGoLimit' = rebuildGoLimit - 1
             \/ /\ rebuild[f] = "leave" /\ pc = "done"
                /\ taskWaitGroup' = taskWaitGroup - 1 /\ rebuildGoLimit' = rebuildGoLimit
      PROVE  CountInv'
  <2>1. /\ Cardinality(ActiveRebuilds) \in Nat /\ Cardinality(RebuildHolders) \in Nat
        /\ Cardinality(ActiveRebuilds')
             = Cardinality(ActiveRebuilds) + One(IsActive(pc)) - One(IsActive(rebuild[f]))
        /\ Cardinality(RebuildHolders')
             = Cardinality(RebuildHolders) + One(HoldsRebuildLimit(pc))
               - One(HoldsRebuildLimit(rebuild[f]))
    BY <1>3, RebuildCounts
  <2>2. /\ rebuildGoLimit = Cardinality(RebuildHolders)
        /\ taskWaitGroup = Cardinality(ActiveRebuilds) + (IF remover = "run" THEN 1 ELSE 0)
    BY DEF CountInv
  <2>3. /\ rebuildGoLimit' = Cardinality(RebuildHolders')
        /\ taskWaitGroup' = Cardinality(ActiveRebuilds') + (IF remover' = "run" THEN 1 ELSE 0)
    BY ONLY <1>3, <2>1, <2>2 DEF One, IsActive, HoldsRebuildLimit
  <2>. QED BY <1>1, <2>3 DEF CountInv
<1>4. CASE RecvPatchList
  <2>. DEFINE f == Head(toR).fid
  <2>1. f \in Files /\ rebuild[f] = "idle"
    <3>1. f \in Pending
      BY <1>4, QueueTail DEF RecvPatchList, ReceiverReads, PhasesInv
    <3>. QED BY <3>1 DEF PhasesInv, ProtocolInv, PatchInv, Pending
  <2>2. /\ rebuild' = [rebuild EXCEPT ![f] = "spawning"] /\ remover' = remover
        /\ taskWaitGroup' = taskWaitGroup + 1 /\ rebuildGoLimit' = rebuildGoLimit
    BY <1>4 DEF RecvPatchList
  <2>. QED BY <1>3, <2>1, <2>2 DEF RebuildPcs
<1>5. ASSUME NEW f \in Files, AcquireRebuildLimit(f) PROVE CountInv'
  BY <1>3, <1>5 DEF AcquireRebuildLimit, RebuildPcs
<1>6. CASE EndCheck
  <2>1. remover = "idle"
    BY <1>6 DEF EndCheck, LoopAt, PhasesInv, ProtocolInv, AskingInv
  <2>2. ActiveRebuilds' = ActiveRebuilds /\ RebuildHolders' = RebuildHolders
    BY <1>6 DEF EndCheck, ActiveRebuilds, RebuildHolders
  <2>3. Cardinality(ActiveRebuilds) \in Nat
    BY CardinalityBounds DEF ActiveRebuilds
  <2>. QED BY <1>1, <1>6, <2>1, <2>2, <2>3 DEF EndCheck, CountInv
<1>7. CASE RemoveDone
  <2>1. ActiveRebuilds' = ActiveRebuilds /\ RebuildHolders' = RebuildHolders
    BY <1>7 DEF RemoveDone, ActiveRebuilds, RebuildHolders
  <2>2. Cardinality(ActiveRebuilds) \in Nat
    BY CardinalityBounds DEF ActiveRebuilds
  <2>. QED BY <1>1, <1>7, <2>1, <2>2 DEF RemoveDone, CountInv
<1>8. ASSUME NEW f \in Files, RebuildFile(f) PROVE CountInv'
  <2>. USE DEF RebuildAt, RebuildGoto, unchangedByRebuild, RebuildPcs
  <2>1. CASE OpenFile(f)
    BY <1>2, <1>3, <2>1 DEF OpenFile
  <2>2. CASE BeginWrite(f) \/ EndWrite(f) \/ Chtimes(f) \/ CountSuccess(f) \/ RecordFailure(f)
    BY <1>3, <2>2 DEF BeginWrite, EndWrite, Chtimes, CountSuccess, RecordFailure
  <2>3. CASE Verify(f)
    <3>1. PICK pc \in {"chtimes", "fail"} : rebuild' = [rebuild EXCEPT ![f] = pc]
      BY <2>3 DEF Verify
    <3>. QED BY <1>3, <2>3, <3>1 DEF Verify
  <2>4. CASE ReleaseRebuildLimit(f) \/ RebuildDone(f)
    BY <1>3, <2>4 DEF ReleaseRebuildLimit, RebuildDone
  <2>. QED BY <1>8, <2>1, <2>2, <2>3, <2>4 DEF RebuildFile
<1>9. CASE \/ RecvInitParam \/ RecvDirInfo \/ RecvEnd \/ SendBEnd \/ ReceiverExit \/ SendSumList
           \/ ReplyFails \/ ReceiverCrash \/ \E x \in Extra : RemoveFile(x)
           \/ \E f \in Files : CheckFile(f) \/ SumListMade(f)
  BY <1>2, <1>9 DEF RecvInitParam, RecvDirInfo, RecvEnd, SendBEnd, ReceiverExit, SendSumList,
     ReplyFails, ReceiverCrash, RemoveFile, CheckFile, SumListMade, receiverVars
<1>. QED BY <1>4, <1>5, <1>6, <1>7, <1>8, <1>9 DEF ReceiverStep, LoopStep, RemoveFiles

-----------------------------------------------------------------------------
(* The result.  Only CountSuccess and RecordFailure change what a goroutine   *)
(* has recorded, and only before that does it touch its file.                 *)
LEMMA ResultStutter ==
    ResultInv /\ UNCHANGED <<rebuild, syncResult, content>> => ResultInv'
BY DEF ResultInv, Recorded, Succeeded

LEMMA ResultKept ==
    ASSUME ResultInv, ReceiverInv, NEW f \in Files, NEW pc \in RebuildPcs,
           rebuild' = rebuild \/ rebuild' = [rebuild EXCEPT ![f] = pc],
           syncResult' = syncResult,
           f \in Recorded <=> pc \in {"release", "leave", "done"},
           \A g \in Files : content'[g] # content[g] => g = f /\ rebuild[f] # "count"
                                                        /\ f \notin Recorded,
           rebuild' # rebuild /\ pc = "count" => content[f] = "new" /\ content' = content
    PROVE  ResultInv'
<1>1. rebuild' \in [Files -> RebuildPcs] /\ \A g \in Files : rebuild[g] # rebuild'[g] =>
        g = f /\ rebuild' # rebuild /\ rebuild'[f] = pc
  BY DEF ReceiverInv
<1>2. Recorded' = Recorded
  BY <1>1 DEF Recorded
<1>3. Succeeded' = Succeeded
  BY <1>2 DEF Succeeded
<1>. QED BY <1>1, <1>2, <1>3 DEF ResultInv, Succeeded, Recorded
LEMMA CountSuccessResult ==
    ASSUME ResultInv, ReceiverInv, NEW f \in Files, CountSuccess(f) PROVE ResultInv'
<1>1. /\ rebuild[f] = "count" /\ content' = content
      /\ rebuild' = [rebuild EXCEPT ![f] = "release"]
      /\ syncResult' = [syncResult EXCEPT !.succNum = @ + 1]
  BY DEF CountSuccess, RebuildAt, RebuildGoto, diskVars
<1>2. Recorded' = Recorded \cup {f} /\ f \notin Recorded
  BY <1>1 DEF ReceiverInv, Recorded
<1>3. /\ syncResult = [succNum |-> Cardinality(Succeeded), failed |-> syncResult.failed,
                       removed |-> syncResult.removed]
      /\ syncResult.failed \in SUBSET Recorded
  BY DEF ResultInv
<1>4. syncResult' = [succNum |-> Cardinality(Succeeded) + 1, failed |-> syncResult.failed,
                     removed |-> syncResult.removed]
  BY <1>1, <1>3
<1>5. syncResult'.failed = syncResult.failed /\ syncResult'.removed = syncResult.removed
  BY <1>4
<1>6. Succeeded' = Succeeded \cup {f} /\ f \notin Succeeded
  BY <1>2, <1>3, <1>5 DEF Succeeded
<1>7. Cardinality(Succeeded') = Cardinality(Succeeded) + 1
  <2>1. IsFiniteSet(Succeeded)
    BY Constants, FS_Subset DEF Succeeded, Recorded
  <2>. QED BY <1>6, <2>1, FS_AddElement
<1>8. content[f] = "new"
  BY <1>1 DEF ResultInv
<1>9. \A g \in Files : rebuild'[g] = "count" => rebuild[g] = "count"
  BY <1>1 DEF ReceiverInv
<1>. QED BY <1>1, <1>2, <1>4, <1>5, <1>6, <1>7, <1>8, <1>9 DEF ResultInv

LEMMA RecordFailureResult ==
    ASSUME ResultInv, ReceiverInv, NEW f \in Files, RecordFailure(f) PROVE ResultInv'
<1>1. /\ rebuild[f] = "fail" /\ content' = content
      /\ rebuild' = [rebuild EXCEPT ![f] = "release"]
      /\ syncResult' = [syncResult EXCEPT !.failed = @ \cup {f}]
  BY DEF RecordFailure, RebuildAt, RebuildGoto, diskVars
<1>2. Recorded' = Recorded \cup {f} /\ f \notin Recorded
  BY <1>1 DEF ReceiverInv, Recorded
<1>3. /\ syncResult = [succNum |-> Cardinality(Succeeded), failed |-> syncResult.failed,
                       removed |-> syncResult.removed]
      /\ syncResult.failed \in SUBSET Recorded
  BY DEF ResultInv
<1>4. syncResult' = [succNum |-> Cardinality(Succeeded), failed |-> syncResult.failed \cup {f},
                     removed |-> syncResult.removed]
  BY <1>1, <1>3
<1>5. syncResult'.failed = syncResult.failed \cup {f}
      /\ syncResult'.removed = syncResult.removed
  BY <1>4
<1>6. Succeeded' = Succeeded
  BY <1>2, <1>5 DEF Succeeded
<1>7. \A g \in Files : rebuild'[g] = "count" => rebuild[g] = "count"
  BY <1>1 DEF ReceiverInv
<1>. QED BY <1>1, <1>2, <1>3, <1>4, <1>5, <1>6, <1>7 DEF ResultInv

(* INITPARAM resets the result before there is anything in it.                *)
LEMMA RecvInitParamResult ==
    ASSUME ResultInv, PhasesInv, RecvInitParam PROVE ResultInv'
<1>1. UNCHANGED <<rebuild, content>> /\ syncResult' \in {syncResult, NoResult}
  BY DEF RecvInitParam, diskVars
<1>2. CASE syncResult' = NoResult
  <2>1. "INITPARAM" \in Cmds
    BY QueueTail DEF RecvInitParam, ReceiverReads, PhasesInv
  <2>2. \A f \in Files : rebuild[f] = "idle"
    BY <2>1 DEF PhasesInv, ProtocolInv, AskingInv, Unpatched, PatchInv, SentPcs
  <2>3. Recorded' = {} /\ Succeeded' = {} /\ \A f \in Files : rebuild'[f] # "count"
    BY <1>1, <2>2 DEF Recorded, Succeeded
  <2>4. Cardinality({}) = 0
    BY FS_EmptySet
  <2>. QED BY <1>2, <2>3, <2>4 DEF ResultInv, NoResult
<1>. QED BY <1>1, <1>2, ResultStutter

LEMMA RemoveFileResult ==
    ASSUME ResultInv, NEW x \in Extra, RemoveFile(x) PROVE ResultInv'
<1>1. UNCHANGED <<rebuild, content>>
  BY DEF RemoveFile, diskVars
<1>2. CASE syncResult' = [syncResult EXCEPT !.removed = @ \cup {x}]
  <2>1. syncResult' = [succNum |-> Cardinality(Succeeded), failed |-> syncResult.failed,
                       removed |-> syncResult.removed \cup {x}]
    BY <1>2 DEF ResultInv
  <2>2. syncResult'.failed = syncResult.failed
        /\ syncResult'.removed = syncResult.removed \cup {x}
    BY <2>1
  <2>3. Recorded' = Recorded /\ Succeeded' = Succeeded
    BY <1>1, <2>2 DEF Recorded, Succeeded
  <2>. QED BY <1>1, <2>1, <2>2, <2>3 DEF ResultInv
<1>. QED BY <1>1, <1>2, ResultStutter DEF RemoveFile

LEMMA ReceiverResults ==
    ResultInv /\ PhasesInv /\ ReceiverInv /\ (ReceiverStep \/ ReceiverCrash) => ResultInv'
<1>. SUFFICES ASSUME ResultInv, PhasesInv, ReceiverInv, ReceiverStep \/ ReceiverCrash
              PROVE  ResultInv'
  OBVIOUS
<1>. USE DEF taskVars, diskVars
<1>1. CASE RecvPatchList
  <2>1. Head(toR).fid \in Files /\ rebuild[Head(toR).fid] = "idle"
    <3>1. Head(toR).fid \in Pending
      BY <1>1, QueueTail DEF RecvPatchList, ReceiverReads, PhasesInv
    <3>. QED BY <3>1 DEF PhasesInv, ProtocolInv, PatchInv, Pending
  <2>. QED BY <1>1, <2>1, ResultKept DEF RecvPatchList, Recorded, RebuildPcs
<1>2. ASSUME NEW f \in Files, AcquireRebuildLimit(f) PROVE ResultInv'
  BY <1>2, ResultKept DEF AcquireRebuildLimit, Recorded, RebuildPcs
<1>3. ASSUME NEW f \in Files, RebuildFile(f) PROVE ResultInv'
  <2>. USE DEF RebuildAt, RebuildGoto, RebuildPcs, Recorded
  <2>1. CASE OpenFile(f)
    <3>1. /\ rebuild[f] = "open" /\ syncResult' = syncResult
          /\ rebuild' = rebuild \/ rebuild' = [rebuild EXCEPT ![f] = "write"]
             \/ rebuild' = [rebuild EXCEPT ![f] = "fail"]
          /\ content' \in {content, Created(f)}
      BY <2>1 DEF OpenFile
    <3>2. \A g \in Files : content'[g] # content[g] => g = f
      BY <3>1 DEF Created, ReceiverInv
    <3>. QED BY <3>1, <3>2, ResultKept
  <2>2. CASE BeginWrite(f)
    BY <2>2, ResultKept DEF BeginWrite, ReceiverInv
  <2>3. CASE EndWrite(f)
    BY <2>3, ResultKept DEF EndWrite, ReceiverInv
  <2>4. CASE Verify(f)
    BY <2>4, ResultKept DEF Verify
  <2>5. CASE Chtimes(f)
    BY <2>5, ResultKept DEF Chtimes, ReceiverInv
  <2>6. CASE ReleaseRebuildLimit(f) \/ RebuildDone(f)
    BY <2>6, ResultKept DEF ReleaseRebuildLimit, RebuildDone
  <2>. QED BY <1>3, <2>1, <2>2, <2>3, <2>4, <2>5, <2>6, CountSuccessResult, RecordFailureResult
           DEF RebuildFile
<1>4. CASE \/ RecvDirInfo \/ RecvEnd \/ SendBEnd \/ ReceiverExit \/ SendSumList \/ EndCheck
           \/ ReplyFails \/ ReceiverCrash \/ RemoveDone
           \/ \E f \in Files : CheckFile(f) \/ SumListMade(f)
  BY <1>4, ResultStutter DEF ReplyFails, RecvDirInfo, RecvEnd, SendBEnd, ReceiverExit, SendSumList, EndCheck,
     ReceiverCrash, RemoveDone, CheckFile, SumListMade, receiverVars
<1>. QED BY <1>1, <1>2, <1>3, <1>4, RecvInitParamResult, RemoveFileResult
         DEF ReceiverStep, LoopStep, RemoveFiles
-----------------------------------------------------------------------------
(* All of it together.                                                        *)
LEMMA RangesSender ==
    RangesInv /\ (SenderStep \/ SenderCrash) /\ UNCHANGED receiverVars => RangesInv'
<1>. SUFFICES ASSUME RangesInv, UNCHANGED receiverVars, SenderStep \/ SenderCrash
              PROVE  RangesInv'
  OBVIOUS
<1>1. UNCHANGED <<rPc, initParam, unchecked, fidPathMap, fileSumList, remover, toVisit>>
  BY DEF receiverVars, listVars, taskVars
<1>. USE DEF MainAt, MainGoto, Panic, WorkerAt, WorkerGoto, connVars, senderVars
<1>2. CASE MainStep
  BY <1>1, <1>2 DEF MainStep, SendInitParam, SendDirInfo, SenderRecv, NextSumList, AcquireGoLimit,
     EnterEnd, LeaveEnd, EnterShutdown, LeaveShutdown, Reap, RangesInv
<1>3. CASE \E f \in Files : WorkerStep(f)
  BY <1>1, <1>3 DEF WorkerStep, MakePatch, LockAndEnterSend, LeavePatchSend, Unlock,
     ReleaseGoLimit, PatchDone, RangesInv
<1>4. CASE RunReturns \/ SenderCrash
  BY <1>1, <1>4 DEF RunReturns, SenderCrash, RangesInv
<1>. QED BY <1>2, <1>3, <1>4 DEF SenderStep

LEMMA RangesReceiver ==
    RangesInv /\ (ReceiverStep \/ ReceiverCrash) /\ UNCHANGED senderVars => RangesInv'
<1>. SUFFICES ASSUME RangesInv, UNCHANGED senderVars, ReceiverStep \/ ReceiverCrash
              PROVE  RangesInv'
  OBVIOUS
<1>1. UNCHANGED <<mutex, subProcessDone>>
  BY DEF senderVars
<1>. USE DEF LoopAt, LoopGoto, Exit, connVars, listVars, taskVars, unchangedByRebuild, ReceiverPcs
<1>2. CASE LoopStep
  <2>1. CASE RecvInitParam \/ RecvDirInfo \/ RecvPatchList \/ RecvEnd \/ SendBEnd \/ ReceiverExit
             \/ ReplyFails \/ EndCheck \/ SendSumList \/ \E f \in Files : AcquireRebuildLimit(f)
    BY <1>1, <2>1 DEF RecvInitParam, RecvDirInfo, RecvPatchList, RecvEnd, SendBEnd, ReceiverExit,
       ReplyFails, EndCheck, SendSumList, AcquireRebuildLimit, RangesInv
  <2>2. ASSUME NEW f \in Files, CheckFile(f) \/ SumListMade(f) PROVE RangesInv'
    BY <1>1, <2>2 DEF CheckFile, SumListMade, RangesInv
  <2>. QED BY <1>2, <2>1, <2>2 DEF LoopStep
<1>3. CASE RemoveFiles \/ ReceiverCrash
  BY <1>1, <1>3 DEF RemoveFiles, RemoveFile, RemoveDone, ReceiverCrash, receiverVars, RangesInv
<1>4. CASE \E f \in Files : RebuildFile(f)
  BY <1>1, <1>4 DEF RebuildFile, OpenFile, BeginWrite, EndWrite, Verify, Chtimes, CountSuccess,
     RecordFailure, ReleaseRebuildLimit, RebuildDone, RebuildGoto, RangesInv
<1>. QED BY <1>2, <1>3, <1>4 DEF ReceiverStep

LEMMA SessionInvInit == Init => SessionInv
<1>. SUFFICES ASSUME Init PROVE SessionInv
  OBVIOUS
<1>. USE DEF Init, ConnInit, SenderInit, ReceiverInit
<1>1. RangesInv
  BY DEF RangesInv, ReceiverPcs
<1>2. Cmds = {} /\ Pending = {} /\ QueueInv /\ EndLast
  BY EmptySeq DEF Cmds, Pending, QueueInv, EndLast
<1>3. ~Requested /\ ~Replied
  BY ReplyFacts
<1>4. ProtocolInv
  BY <1>2, <1>3 DEF ProtocolInv, AskingInv, PatchInv, EndingInv, Unpatched, PatchingPcs, SentPcs
<1>5. ActiveWorkers = {} /\ GoLimitHolders = {} /\ ActiveRebuilds = {} /\ RebuildHolders = {}
      /\ Recorded = {} /\ Succeeded = {}
  BY DEF ActiveWorkers, GoLimitHolders, ActiveRebuilds, RebuildHolders, Recorded, Succeeded
<1>6. Cardinality({}) = 0
  BY FS_EmptySet
<1>7. CountInv
  BY <1>5, <1>6 DEF CountInv
<1>8. ResultInv
  BY <1>5, <1>6 DEF ResultInv, NoResult
<1>. QED BY <1>1, <1>2, <1>4, <1>7, <1>8, SenderInvInit, ReceiverInvInit
         DEF SessionInv, PhasesInv

LEMMA SessionInvNext == SessionInv /\ [Next]_vars => SessionInv'
<1>. SUFFICES ASSUME SessionInv, [Next]_vars
              PROVE  RangesInv' /\ PhasesInv' /\ CountInv' /\ ResultInv'
  BY SenderInvNext, ReceiverInvNext DEF SessionInv
<1>. USE DEF SessionInv
<1>1. CASE (SenderStep \/ SenderCrash) /\ UNCHANGED receiverVars
  <2>1. ResultInv'
    BY <1>1, ResultStutter DEF receiverVars, taskVars, diskVars
  <2>. QED BY <1>1, <2>1, RangesSender, SenderPhases, SenderCounts
<1>2. CASE (ReceiverStep \/ ReceiverCrash) /\ UNCHANGED senderVars
  BY <1>2, RangesReceiver, ReceiverPhases, ReceiverCounts, ReceiverResults
<1>3. CASE UNCHANGED vars
  <2>. USE DEF vars, connVars, senderVars, receiverVars, listVars, taskVars, diskVars
  <2>1. RangesInv'
    BY <1>3 DEF RangesInv
  <2>2. PhasesInv'
    BY <1>3, MainMovesPhases DEF SenderUp, ReceiverUp
  <2>. QED BY <1>3, <2>1, <2>2, CountStutter, ResultStutter
<1>. QED BY <1>1, <1>2, <1>3 DEF Next, Finished
LEMMA SessionInvHolds == Spec => []SessionInv
BY SessionInvInit, SessionInvNext, PTL DEF Spec

(* The counters of the wait groups and the tokens in the channels never leave *)
(* their range, and every message is one its reader understands: in           *)
(* particular no waitGroup.Done() or channel receive happens too often        *)
(* (sender.go:156-159, receiver.go:143-146).                                  *)
THEOREM SessionTypeCorrect == Spec => []TypeOK
<1>1. SessionInv => TypeOK
  <2>. SUFFICES ASSUME SessionInv PROVE TypeOK
    OBVIOUS
  <2>. USE DEF SessionInv, SenderInv, SenderShape, TokensInv, ReceiverInv, RangesInv, CountInv
  <2>1. /\ Cardinality(ActiveWorkers) \in 0..Cardinality(Files)
        /\ Cardinality(ActiveRebuilds) \in 0..Cardinality(Files)
        /\ Cardinality(Succeeded) \in 0..Cardinality(Files)
        /\ Cardinality(GoLimitHolders) \in Nat /\ Cardinality(RebuildHolders) \in Nat
        /\ Cardinality(Files) \in Nat
    <3>1. \A S \in SUBSET Files : /\ Cardinality(S) \in Nat /\ Cardinality(Files) \in Nat
                                  /\ Cardinality(S) <= Cardinality(Files)
      BY CardinalityBounds
    <3>2. \A S \in SUBSET Files : Cardinality(S) \in 0..Cardinality(Files)
      BY <3>1
    <3>3. /\ ActiveWorkers \in SUBSET Files /\ ActiveRebuilds \in SUBSET Files
          /\ Succeeded \in SUBSET Files /\ GoLimitHolders \in SUBSET Files
          /\ RebuildHolders \in SUBSET Files /\ Files \in SUBSET Files
      BY DEF ActiveWorkers, ActiveRebuilds, Succeeded, Recorded, GoLimitHolders, RebuildHolders
    <3>. QED BY ONLY <3>1, <3>2, <3>3, Zenon
  <2>2. syncResult \in Results
    BY <2>1 DEF ResultInv, Recorded, Results
  <2>3. toS \in Seq(MsgsToSender)
    <3>1. toS = <<>> \/ \E m \in MsgsToSender : toS = <<m>>
      BY <2>2 DEF PhasesInv, ProtocolInv, EndingInv, Requested, Replied, MsgsToSender
    <3>2. ASSUME NEW m \in MsgsToSender PROVE <<m>> \in Seq(MsgsToSender)
      OBVIOUS
    <3>3. <<>> \in Seq(MsgsToSender)
      OBVIOUS
    <3>. QED BY ONLY <3>1, <3>2, <3>3, Zenon
  <2>4. ConnTypeOK
    BY <2>3 DEF ConnTypeOK, PhasesInv, QueueInv
  <2>5. report \in SUBSET Results
    BY <2>2 DEF PhasesInv, ProtocolInv, EndingInv
  <2>6. SenderTypeOK
    BY <2>1, <2>5, Constants DEF SenderTypeOK, PhasesInv, ProtocolInv, PatchInv
  <2>7. ReceiverTypeOK
    BY <2>1, <2>2, Constants DEF ReceiverTypeOK
  <2>. QED BY <2>4, <2>6, <2>7 DEF TypeOK
<1>. QED BY <1>1, SessionInvHolds, PTL

(* When the result is printed (sender.go:190-213) nothing is left to do on    *)
(* either side, and every file that was transferred and is not listed as      *)
(* failed holds the bytes of the sender.                                      *)
THEOREM ResultIsFinal == Spec => []ReportFinal
<1>1. SessionInv => ReportFinal
  <2>. SUFFICES ASSUME SessionInv, NEW r \in report
                PROVE  /\ ActiveWorkers = {} /\ ActiveRebuilds = {} /\ remover # "run"
                       /\ \A f \in Files : worker[f] = "done" /\ f \notin r.failed
                                             => content[f] = "new"
    BY DEF ReportFinal
  <2>1. r = syncResult /\ ActiveWorkers = {} /\ ActiveRebuilds = {} /\ remover # "run" /\ Delivered
    BY DEF SessionInv, PhasesInv, ProtocolInv, EndingInv
  <2>2. \A f \in Files : worker[f] = "done" => f \in Recorded
    BY <2>1 DEF ActiveRebuilds, Delivered, Recorded
  <2>. QED BY <2>1, <2>2 DEF SessionInv, ResultInv, Succeeded
<1>. QED BY <1>1, SessionInvHolds, PTL

(* The result counts every patch that was sent exactly once, as a success     *)
(* (receiver.go:244-246) or as a failure (receiver.go:249-253), and is the    *)
(* receiver's own.                                                            *)
THEOREM ResultIsExact == Spec => []ReportExact
<1>1. SessionInv => ReportExact
  <2>. SUFFICES ASSUME SessionInv, NEW r \in report
                PROVE  /\ r = syncResult
                       /\ r.succNum + Cardinality(r.failed)
                            = Cardinality({f \in Files : worker[f] = "done"})
    BY DEF ReportExact
  <2>1. r = syncResult /\ ActiveRebuilds = {} /\ ActiveWorkers = {} /\ Delivered
    BY DEF SessionInv, PhasesInv, ProtocolInv, EndingInv
  <2>2. {f \in Files : worker[f] = "done"} = Recorded
    BY <2>1 DEF ActiveRebuilds, ActiveWorkers, Delivered, Recorded, SessionInv, PhasesInv,
       ProtocolInv, PatchInv, SentPcs
  <2>3. r.succNum = Cardinality(Succeeded) /\ r.failed = syncResult.failed
        /\ r.failed \in SUBSET Recorded
    BY <2>1 DEF SessionInv, ResultInv
  <2>4. Succeeded \cap r.failed = {} /\ Succeeded \cup r.failed = Recorded
    BY <2>3 DEF Succeeded
  <2>5. IsFiniteSet(Succeeded) /\ IsFiniteSet(r.failed)
    BY <2>3, Constants, FS_Subset DEF Succeeded, Recorded
  <2>6. Cardinality(Recorded) = Cardinality(Succeeded) + Cardinality(r.failed)
    <3>1. Cardinality(Succeeded \cup r.failed)
            = Cardinality(Succeeded) + Cardinality(r.failed) - Cardinality(Succeeded \cap r.failed)
      BY <2>5, FS_Union
    <3>2. Cardinality({}) = 0 /\ Cardinality(Succeeded) \in Nat /\ Cardinality(r.failed) \in Nat
      BY <2>5, FS_EmptySet, FS_CardinalityType
    <3>3. Cardinality(Succeeded \cup r.failed) = Cardinality(Recorded)
          /\ Cardinality(Succeeded \cap r.failed) = 0
      BY <2>4, <3>2, Zenon
    <3>. QED BY <3>1, <3>2, <3>3
  <2>. QED BY <2>1, <2>2, <2>3, <2>6
<1>. QED BY <1>1, SessionInvHolds, PTL

(* Once the result is printed no step of either process changes the           *)
(* receiver's files or its tally, whatever was still on its way.              *)
THEOREM NothingAfterResult == Spec => DiskFrozenAfterReport
<1>1. SessionInv /\ [Next]_vars => [report # {} => UNCHANGED <<content, stamped, syncResult>>]_vars
  <2>. SUFFICES ASSUME SessionInv, [Next]_vars, report # {}
                PROVE  UNCHANGED <<content, stamped, syncResult>>
    OBVIOUS
  <2>1. ActiveRebuilds = {} /\ remover # "run" /\ "INITPARAM" \notin Cmds
    BY DEF SessionInv, PhasesInv, ProtocolInv, EndingInv, AskingInv, Unpatched
  <2>. USE DEF taskVars, diskVars
  <2>2. CASE UNCHANGED receiverVars
    BY <2>2 DEF receiverVars
  <2>3. CASE LoopStep
    <3>1. ~RecvInitParam
      BY <2>1, QueueTail DEF RecvInitParam, ReceiverReads, SessionInv, PhasesInv
    <3>. QED BY <2>3, <3>1 DEF LoopStep, RecvDirInfo, RecvPatchList, RecvEnd, SendBEnd,
                ReplyFails, ReceiverExit, EndCheck, SendSumList, AcquireRebuildLimit, CheckFile, SumListMade
  <2>4. CASE RemoveFiles
    BY <2>1, <2>4 DEF RemoveFiles, RemoveFile, RemoveDone
  <2>5. ASSUME NEW f \in Files, RebuildFile(f) PROVE FALSE
    BY <2>1, <2>5 DEF RebuildFile, OpenFile, BeginWrite, EndWrite, Verify, Chtimes, CountSuccess,
       RecordFailure, ReleaseRebuildLimit, RebuildDone, RebuildAt, ActiveRebuilds
  <2>6. CASE ReceiverCrash
    BY <2>6 DEF ReceiverCrash, receiverVars
  <2>7. CASE UNCHANGED vars
    BY <2>7 DEF vars, receiverVars
  <2>. QED BY <2>2, <2>3, <2>4, <2>5, <2>6, <2>7 DEF Next, ReceiverStep, Finished
<1>. QED BY <1>1, SessionInvHolds, PTL DEF Spec, DiskFrozenAfterReport
=============================================================================
