------------------------------- MODULE Resync -------------------------------
(***************************************************************************)
(* One file over many runs of the program.  Nothing but the two disks is   *)
(* kept from one session to the next: FileListCheck (receiver.go) takes a  *)
(* file for up to date when its size and its mtime in whole seconds are    *)
(* those of the DIR_INFO, and RebuildFile puts that mtime on the file once *)
(* its bytes are verified.  The source may be written at any moment, also  *)
(* between the walk that notes its mtime and size (sender.go, ReadDirInfo) *)
(* and the ReadFile of MakePatch; a session may stop at any step; and the  *)
(* receiver has a clock of its own.  Files do not depend on one another.   *)
(*                                                                         *)
(* A version stands for the bytes of the source after one write; what a    *)
(* rewrite in place may leave is version Torn.                             *)
(***************************************************************************)
EXTENDS Integers

CONSTANTS
    Sizes,       (* the sizes of a version                                     *)
    Skews,       (* how far the receiver's clock may be ahead of the sender's  *)
    MaxTime,     (* bound: seconds                                             *)
    MaxVersion   (* bound: writes of the source                                *)

ASSUME ResyncAssumption ==
    /\ Skews \subseteq Int
    /\ MaxTime \in Nat /\ MaxVersion \in Nat

Torn == -1
Absent == 0

VARIABLES
    now,       (* the sender's clock in seconds                                *)
    skew,      (* the receiver's clock less the sender's                       *)
    source, dest,   (* the file on either disk: version, mtime, size           *)
    newest,    (* the version last written to the source                       *)
    step,      (* "idle", "listed", "requested", "read", "torn" or "verified"  *)
    delete,    (* the Delete flag of this session                              *)
    listed,    (* what ReadDirInfo has noted of the source                     *)
    data,      (* what ReadFile of MakePatch returned, with the time of it     *)
    readAt, tornAt, calm   (* history: when dest's bytes were read and when it *)
                           (* was last torn; the source was not written and    *)
                           (* nothing failed since this session began          *)

sessionVars == <<step, delete, listed, data>>
vars == <<now, skew, source, dest, newest, sessionVars, readAt, tornAt, calm>>

FileSwapped(v, t, n) == [version |-> v, mtime |-> n, size |-> t]
File(v, t, n) == [version |-> v, mtime |-> t, size |-> n]
NoFile == File(Absent, 0, 0)
AllFiles == [version : Int, mtime : Int, size : Sizes \cup {0}]

TypeOK ==
    /\ now \in Nat /\ skew \in Skews /\ newest \in Nat
    /\ source \in AllFiles /\ dest \in AllFiles /\ listed \in AllFiles /\ data \in AllFiles
    /\ step \in {"idle", "listed", "requested", "read", "torn", "verified"}
    /\ delete \in BOOLEAN /\ calm \in BOOLEAN
    /\ readAt \in Int /\ tornAt \in Int

(* Neither side has the file; a first session brings it over.                 *)
Init ==
    /\ now = 1 /\ skew \in Skews
    /\ source = NoFile /\ dest = NoFile /\ newest = Absent
    /\ step = "idle" /\ delete = FALSE
    /\ listed = NoFile /\ data = NoFile
    /\ readAt = -1 /\ tornAt = -1 /\ calm = FALSE

-----------------------------------------------------------------------------
Tick ==
    /\ now < MaxTime /\ now' = now + 1
    /\ UNCHANGED <<skew, source, dest, newest, sessionVars, readAt, tornAt, calm>>

(* Somebody writes the source, which gives it the present mtime, ...          *)
WriteSource ==
    /\ newest < MaxVersion /\ newest' = newest + 1
    /\ \E n \in Sizes : source' = File(newest', now, n)
    /\ calm' = FALSE
    /\ UNCHANGED <<now, skew, dest, sessionVars, readAt, tornAt>>

(* ... or deletes it.                                                         *)
DeleteSource ==
    /\ source # NoFile /\ source' = NoFile
    /\ calm' = FALSE
    /\ UNCHANGED <<now, skew, dest, newest, sessionVars, readAt, tornAt>>

-----------------------------------------------------------------------------
At(s) == step = s
Goto(s) == step' = s
unchangedBySession == <<now, skew, source, newest>>

(* A session begins: ReadDirInfo notes the source's mtime and size.           *)
ReadDirInfo ==
    /\ At("idle") /\ Goto("listed")
    /\ delete' \in BOOLEAN
    /\ listed' = source
    /\ calm' = TRUE
    /\ UNCHANGED <<unchangedBySession, dest, data, readAt, tornAt>>

(* The quick check of FileListCheck.                                          *)
SameSize == dest # NoFile /\ listed.size = dest.size
UpToDate == dest # NoFile /\ listed.mtime = dest.mtime /\ listed.size = dest.size

Check ==
    /\ At("listed") /\ listed # NoFile
    /\ IF UpToDate THEN Goto("idle") ELSE Goto("requested")
    /\ UNCHANGED <<unchangedBySession, dest, delete, listed, data, readAt, tornAt, calm>>

(* A file that was not listed is deleted with the Delete flag, and left alone *)
(* without it.                                                                *)
RemoveUnlisted ==
    /\ At("listed") /\ listed = NoFile
    /\ Goto("idle")
    /\ dest' = IF delete THEN NoFile ELSE dest
    /\ UNCHANGED <<unchangedBySession, delete, listed, data, readAt, tornAt, calm>>

(* MakePatch reads the source as it is by now.                                *)
ReadFile ==
    /\ At("requested") /\ source # NoFile
    /\ Goto("read")
    /\ data' = File(source.version, now, source.size)
    /\ UNCHANGED <<unchangedBySession, dest, delete, listed, readAt, tornAt, calm>>

BrokenStamped(n) == File(Torn, listed.mtime, n)
Broken(n) == File(Torn, now + skew, n)

(* RebuildFile creates the file and overwrites it in place, by one write after *)
(* another, at a size that may already be the new one; each gives it the      *)
(* receiver's present mtime.                                                  *)
WriteSome ==
    /\ At("read") \/ At("torn")
    /\ Goto("torn")
    /\ \E n \in Sizes \cup {0} : dest' = Broken(n)
    /\ tornAt' = now + skew
    /\ UNCHANGED <<unchangedBySession, delete, listed, data, readAt, calm>>

(* The last write; the file read back has the sender's md5.                   *)
EndWrite ==
    /\ At("torn") /\ Goto("verified")
    /\ dest' = File(data.version, now + skew, data.size)
    /\ readAt' = data.mtime /\ tornAt' = now + skew
    /\ UNCHANGED <<unchangedBySession, delete, listed, data, calm>>

(* os.Chtimes, to the mtime that DIR_INFO gave.                               *)
ChtimesNow == [dest EXCEPT !.mtime = now + skew]
ChtimesListed == [dest EXCEPT !.mtime = listed.mtime]

Chtimes ==
    /\ At("verified") /\ Goto("idle")
    /\ dest' = ChtimesListed
    /\ UNCHANGED <<unchangedBySession, delete, listed, data, readAt, tornAt, calm>>

(* A crash of either process, an abort, or a failure of this file, Chtimes    *)
(* included: the session is over for it and the disk stays as it is.          *)
Stop ==
    /\ ~At("idle") /\ Goto("idle")
    /\ calm' = FALSE
    /\ UNCHANGED <<unchangedBySession, dest, delete, listed, data, readAt, tornAt>>

Session ==
    ReadDirInfo \/ Check \/ RemoveUnlisted \/ ReadFile \/ WriteSome \/ EndWrite \/ Chtimes

Next == Tick \/ WriteSource \/ DeleteSource \/ Session \/ Stop

Spec == Init /\ [][Next]_vars

-----------------------------------------------------------------------------
InSync == dest.version = source.version
(* The next session would take the file for up to date.                       *)
WouldSkip == source # NoFile /\ dest # NoFile
             /\ source.mtime = dest.mtime /\ source.size = dest.size

(* A file that differs passes the quick check only by a tie of whole seconds: *)
(* the source was written again in the very second in which it had been       *)
(* written and read, or the receiver's clock showed the second of the         *)
(* source's mtime when a rewrite was broken off.  No crash, abort or write    *)
(* between the walk and the ReadFile is missed otherwise.                     *)
MissedOnlyInATie ==
    WouldSkip /\ ~InSync => source.mtime \in {readAt, tornAt}

(* A session that nothing disturbs repairs whatever earlier ones have left:   *)
(* afterwards both sides have the same bytes, and with the Delete flag neither *)
(* has the file, unless the quick check has missed it by such a tie.          *)
CalmSessionRepairs ==
    At("idle") /\ calm =>
        \/ InSync
        \/ WouldSkip /\ source.mtime \in {readAt, tornAt}
        \/ source = NoFile /\ ~delete

(* And nothing is sent again: after it the next one skips the file.           *)
CalmSessionSettles == At("idle") /\ calm /\ source # NoFile => WouldSkip
=============================================================================
