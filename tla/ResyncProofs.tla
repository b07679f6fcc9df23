---------------------------- MODULE ResyncProofs ----------------------------
(***************************************************************************)
(* Theorems about Resync for any sizes, clocks and number of sessions.     *)
(*                                                                         *)
(* The three properties follow from one invariant.  Its heart is what the  *)
(* times say of the bytes: a whole file on the receiver was read at        *)
(* readAt, so a source that differs was written no earlier, and its mtime  *)
(* on the receiver is no later (the walk came before the read) or is the   *)
(* moment of the last rewrite.                                             *)
(***************************************************************************)
EXTENDS Resync, TLAPS

(* What can be on either disk, and no stamp is of the future.                 *)
DiskInv ==
    /\ source.mtime <= now /\ listed.mtime <= now /\ readAt <= now
    /\ source = NoFile \/ source.version \in 1..newest
    /\ \/ dest = NoFile
       \/ dest.version = Torn /\ dest.mtime = tornAt
       \/ dest.version \in 1..newest

(* Whole bytes on the receiver.                                               *)
DestInv ==
    dest.version \in 1..newest =>
        /\ dest.mtime <= readAt \/ dest.mtime = tornAt
        /\ source # NoFile /\ source.version # dest.version => source.mtime >= readAt

(* Bytes on their way there.                                                  *)
DataInv ==
    /\ step \in {"read", "torn"} =>
           /\ data.version \in 1..newest
           /\ listed.mtime <= data.mtime /\ data.mtime <= now
           /\ source # NoFile /\ source.version # data.version => source.mtime >= data.mtime
    /\ step = "verified" => dest.version \in 1..newest /\ listed.mtime <= readAt

(* A session that nothing has disturbed so far.                               *)
CalmInv ==
    calm =>
        /\ listed = source
        /\ step \in {"requested", "read", "torn", "verified"} => source # NoFile
        /\ step \in {"read", "torn"} =>
               data.version = source.version /\ data.size = source.size
        /\ step = "verified" => dest.version = source.version /\ dest.size = source.size
        /\ step = "idle" => /\ source # NoFile => WouldSkip
                            /\ source = NoFile /\ delete => dest = NoFile

Inv == TypeOK /\ DiskInv /\ DestInv /\ DataInv /\ CalmInv

-----------------------------------------------------------------------------
LEMMA FileFields ==
    ASSUME NEW v \in Int, NEW t \in Int, NEW n \in Sizes \cup {0}
    PROVE  /\ File(v, t, n) \in AllFiles
           /\ File(v, t, n).version = v /\ File(v, t, n).mtime = t
           /\ File(v, t, n).size = n
BY DEF File, AllFiles

LEMMA NoFileFields ==
    NoFile \in AllFiles /\ NoFile.version = 0 /\ NoFile.mtime = 0 /\ NoFile.size = 0
BY FileFields DEF NoFile, Absent

LEMMA InitInv == Init => Inv
<1> SUFFICES ASSUME Init PROVE Inv
    OBVIOUS
<1> USE NoFileFields DEF Init
<1>0. delete \in BOOLEAN /\ calm \in BOOLEAN
    OBVIOUS
<1>1. TypeOK
    BY <1>0, ResyncAssumption DEF TypeOK, Absent
<1>2. DiskInv
    BY DEF DiskInv
<1>3. DestInv /\ DataInv /\ CalmInv
    BY DEF DestInv, DataInv, CalmInv, Absent
<1>4. QED
    BY <1>1, <1>2, <1>3 DEF Inv

LEMMA NextInv == Inv /\ [Next]_vars => Inv'
<1> SUFFICES ASSUME Inv, [Next]_vars PROVE Inv'
    OBVIOUS
<1> USE ResyncAssumption
    DEF Inv, TypeOK, DiskInv, DestInv, DataInv, CalmInv, At, Goto, unchangedBySession,
        WouldSkip, AllFiles
<1>1. CASE Tick
    BY <1>1 DEF Tick, sessionVars
<1>2. CASE WriteSource
    <2> PICK n \in Sizes : source' = File(newest', now, n)
        BY <1>2 DEF WriteSource
    <2>1. newest' \in Int /\ now \in Int /\ n \in Sizes \cup {0}
        BY <1>2 DEF WriteSource
    <2>2. /\ source' \in AllFiles
          /\ source'.version = newest' /\ source'.mtime = now
        BY <2>1, FileFields
    <2>3. QED
        <3>0. calm' \in BOOLEAN /\ ~calm'
            BY <1>2 DEF WriteSource
        <3>1. TypeOK'
            BY <1>2, <2>2, <3>0 DEF WriteSource, sessionVars
        <3>2. DiskInv'
            BY <1>2, <2>2 DEF WriteSource, sessionVars
        <3>3. DestInv'
            BY <1>2, <2>2, NoFileFields DEF WriteSource, sessionVars, Torn
        <3>4. DataInv'
            BY <1>2, <2>2 DEF WriteSource, sessionVars
        <3>5. CalmInv'
            BY <3>0
        <3>6. QED
            BY <3>1, <3>2, <3>3, <3>4, <3>5
<1>3. CASE DeleteSource
    <2>0. ~calm'
        BY <1>3 DEF DeleteSource
    <2>1. TypeOK'
        BY <1>3, NoFileFields DEF DeleteSource, sessionVars
    <2>2. DiskInv'
        BY <1>3, NoFileFields DEF DeleteSource, sessionVars
    <2>3. DestInv'
        BY <1>3, NoFileFields DEF DeleteSource, sessionVars
    <2>4. DataInv'
        BY <1>3, NoFileFields DEF DeleteSource, sessionVars
    <2>5. CalmInv'
        BY <2>0
    <2>6. QED
        BY <2>1, <2>2, <2>3, <2>4, <2>5
<1> USE DEF NoFile, File, Absent, Torn
<1>4. CASE ReadDirInfo
    BY <1>4 DEF ReadDirInfo
<1>5. CASE Check
    BY <1>5 DEF Check, UpToDate
<1>6. CASE RemoveUnlisted
    BY <1>6 DEF RemoveUnlisted
<1>7. CASE ReadFile
    BY <1>7 DEF ReadFile
<1>8. CASE WriteSome
    BY <1>8 DEF WriteSome, Broken
<1>9. CASE EndWrite
    BY <1>9 DEF EndWrite
<1>10. CASE Chtimes
    BY <1>10 DEF Chtimes, ChtimesListed
<1>11. CASE Stop
    BY <1>11 DEF Stop
<1>12. CASE UNCHANGED vars
    BY <1>12 DEF vars, sessionVars
<1>13. QED
    BY <1>1, <1>2, <1>3, <1>4, <1>5, <1>6, <1>7, <1>8, <1>9, <1>10, <1>11, <1>12
       DEF Next, Session

THEOREM InvHolds == Spec => []Inv
BY InitInv, NextInv, PTL DEF Spec

(* Every file is one of the model's records, every time an integer.           *)
THEOREM TypeCorrect == Spec => []TypeOK
<1>1. Inv => TypeOK
    BY DEF Inv
<1>2. QED
    BY <1>1, InvHolds, PTL

LEMMA InvMissed == Inv => MissedOnlyInATie
BY DEF Inv, TypeOK, DiskInv, DestInv, MissedOnlyInATie, WouldSkip, InSync, AllFiles,
    NoFile, File, Absent, Torn

(* Whatever the sessions before did and wherever they broke off, the quick    *)
(* check of FileListCheck misses a change only in a tie of whole seconds.     *)
THEOREM QuickCheckMissesTiesOnly == Spec => []MissedOnlyInATie
BY InvMissed, InvHolds, PTL

(* One session without a crash, a failure or a write of the source repairs    *)
(* the file, up to such a tie.                                                *)
THEOREM CalmSessionsRepair == Spec => []CalmSessionRepairs
<1>1. Inv => CalmSessionRepairs
    BY InvMissed DEF Inv, TypeOK, CalmInv, CalmSessionRepairs, MissedOnlyInATie,
        At, InSync, NoFile
<1>2. QED
    BY <1>1, InvHolds, PTL

(* After it the next session has nothing to do for the file.                  *)
THEOREM CalmSessionsSettle == Spec => []CalmSessionSettles
<1>1. Inv => CalmSessionSettles
    BY DEF Inv, CalmInv, CalmSessionSettles, At
<1>2. QED
    BY <1>1, InvHolds, PTL
=============================================================================
