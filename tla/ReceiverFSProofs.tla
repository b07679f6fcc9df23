-------------------------- MODULE ReceiverFSProofs --------------------------
(***************************************************************************)
(* Theorems about ReceiverFS for any tree of paths, any disk and any list. *)
(*                                                                         *)
(* RemoveFiles acts on names it saw some steps before.  The invariant says *)
(* why that is safe: an unlisted file nobody else touches, so an entry     *)
(* that was a file is one still; and the directory that the prune loop has *)
(* come to is there, as only RemoveFiles removes anything.                 *)
(*                                                                         *)
(* The second part is about what the walk has still to do: it is complete  *)
(* because what was there from the beginning and lies in a directory that  *)
(* was listed has been visited, or is in the listing or on the stack.      *)
(***************************************************************************)
EXTENDS ReceiverFS, SequenceTheorems, TLAPS

(* The prune loop.                                                            *)
PruneInv ==
    /\ remover \in {"hasFile", "rmdir"} => dir = Base \/ fs[dir] = "dir"
    /\ remover = "rmdir" => dir # Base

(* Files of the receiver's own.                                               *)
UnlistedInv ==
    \A p \in Paths \ pathMap :
        /\ fs[p] = "file" => before[p] = "file"
        /\ <<p, "file">> \in entries => fs[p] = "file"
        /\ p \in removedList <=> before[p] = "file" /\ fs[p] # "file"

(* Files of the sender.                                                       *)
ListedInv ==
    \A p \in pathMap :
        /\ p \notin removedList
        /\ before[p] = "file" => fs[p] = "file"
        /\ rebuild[p] \in {"write", "ok"} => fs[p] = "file"

(* What is not requested, and what the end of the tasks means.                *)
RequestInv ==
    /\ phase = "check" => before = fs /\ \A f \in Paths : rebuild[f] = "idle"
    /\ \A f \in Paths : rebuild[f] # "idle" => f \in requested
    /\ phase # "check" =>
           \A f \in pathMap \ requested : before[f] # "none" \/ Obstructed(f, before)
    /\ phase = "over" => \A f \in requested : rebuild[f] \in {"ok", "failed"}

Inv == TypeOK /\ PruneInv /\ UnlistedInv /\ ListedInv /\ RequestInv

-----------------------------------------------------------------------------
(* The disk stays a tree.                                                     *)
LEMMA TreeGrows ==
    ASSUME NEW disk \in [Paths -> Kinds], IsTree(disk), NEW p \in Paths,
           NEW kind \in {"file", "dir"}, disk[p] = "dir" => kind = "dir",
           Parent[p] = Base \/ disk[Parent[p]] = "dir"
    PROVE  [disk EXCEPT ![p] = kind] \in [Paths -> Kinds]
           /\ IsTree([disk EXCEPT ![p] = kind])
BY FSAssumption DEF IsTree, Kinds

LEMMA TreeShrinks ==
    ASSUME NEW disk \in [Paths -> Kinds], IsTree(disk), NEW p \in Paths,
           \A q \in Paths : Parent[q] = p => disk[q] = "none"
    PROVE  [disk EXCEPT ![p] = "none"] \in [Paths -> Kinds]
           /\ IsTree([disk EXCEPT ![p] = "none"])
BY FSAssumption DEF IsTree, Kinds

LEMMA InitInv == Init => Inv
<1> SUFFICES ASSUME Init PROVE Inv
    OBVIOUS
<1> USE FSAssumption DEF Init
<1>0. removeFailed \in BOOLEAN /\ dirsLeft = {} /\ IsTree(fs) /\ pathMap \in SUBSET Paths
    OBVIOUS
<1>1. TypeOK
    BY <1>0 DEF TypeOK, Dirs, Kinds, RebuildPcs, RemoverPcs
<1>2. PruneInv /\ UnlistedInv /\ ListedInv /\ RequestInv
    BY <1>1 DEF TypeOK, PruneInv, UnlistedInv, ListedInv, RequestInv
<1>3. QED
    BY <1>1, <1>2 DEF Inv

LEMMA CheckInv == Inv /\ FileListCheck => Inv'
<1> SUFFICES ASSUME Inv, FileListCheck PROVE Inv'
    OBVIOUS
<1> USE FSAssumption DEF Inv, FileListCheck, rebuildVars, historyVars
<1>0. /\ requested' \in SUBSET pathMap
      /\ remover' \in {remover, "next"} /\ stack' \in {stack, <<Base>>}
    OBVIOUS
<1>1. TypeOK'
    <2>0. <<Base>> \in Seq(Dirs) /\ stack \in Seq(Dirs)
        BY DEF TypeOK, Dirs
    <2>1. stack' \in Seq(Dirs) /\ remover' \in RemoverPcs
        BY <1>0, <2>0 DEF TypeOK, RemoverPcs
    <2>2. phase' = "tasks" /\ IsTree(fs')
        BY DEF TypeOK
    <2>3. QED
        BY <1>0, <2>1, <2>2 DEF TypeOK
<1>2. PruneInv'
    BY <1>0 DEF PruneInv
<1>3. UnlistedInv' /\ ListedInv'
    BY DEF UnlistedInv, ListedInv
<1>4. RequestInv'
    <2>1. before' = fs /\ fs' = fs /\ pathMap' = pathMap /\ phase' = "tasks" /\ rebuild' = rebuild
        BY DEF RequestInv
    <2>2. \A f \in pathMap \ requested' : fs[f] # "none" \/ Obstructed(f, fs)
        OBVIOUS
    <2>3. \A f \in Paths : rebuild[f] = "idle"
        BY DEF RequestInv
    <2>4. QED
        BY <2>1, <2>2, <2>3 DEF RequestInv, Obstructed
<1>5. QED
    BY <1>1, <1>2, <1>3, <1>4

(* A goroutine of RebuildFile only ever adds to the disk: a directory where   *)
(* there was nothing, or the file it is for.                                  *)
LEMMA RebuildInv ==
    ASSUME Inv, NEW f \in Paths, RebuildFile(f)
    PROVE  Inv'
<1> USE FSAssumption DEF Inv, unchangedByRebuild, removeVars, RebuildAt, Goto
<1>1. CASE Lstat(f)
    <2> USE <1>1 DEF Lstat
    <2>1. TypeOK'
        BY DEF TypeOK, Dirs, RebuildPcs, IsTree
    <2>2. PruneInv' /\ UnlistedInv'
        BY DEF PruneInv, UnlistedInv
    <2>3. ListedInv' /\ RequestInv'
        BY DEF ListedInv, RequestInv, TypeOK, Obstructed
    <2>4. QED
        BY <2>1, <2>2, <2>3
<1>2. CASE MkdirAllUp(f)
    <2> USE <1>2 DEF MkdirAllUp
    <2>0. IsDir(at[f]) \/ at[f] \in Paths
        BY DEF TypeOK, Dirs, IsDir
    <2>1. TypeOK'
        <3>1. /\ at' \in [Paths -> Dirs] /\ rebuild' \in [Paths -> RebuildPcs]
            <4>1. at \in [Paths -> Dirs] /\ rebuild \in [Paths -> RebuildPcs]
                BY DEF TypeOK
            <4>2. at' = at \/ (at[f] \in Paths /\ at' = [at EXCEPT ![f] = Parent[at[f]]])
                BY <2>0, <4>1
            <4>3. at' \in [Paths -> Dirs]
                BY <4>1, <4>2 DEF Dirs
            <4>4. rebuild' \in [Paths -> RebuildPcs]
                BY <4>1 DEF RebuildPcs
            <4>5. QED
                BY <4>3, <4>4
        <3>2. missing' \in [Paths -> Seq(Paths)]
            <4>1. ~IsDir(at[f]) => <<at[f]>> \o missing[f] \in Seq(Paths)
                BY <2>0 DEF TypeOK
            <4>2. missing \in [Paths -> Seq(Paths)]
                BY DEF TypeOK
            <4>3. missing' = missing \/ (~IsDir(at[f])
                      /\ missing' = [missing EXCEPT ![f] = <<at[f]>> \o missing[f]])
                OBVIOUS
            <4>4. QED
                BY <4>1, <4>2, <4>3
        <3>3. QED
            BY <3>1, <3>2 DEF TypeOK, IsTree
    <2>2. PruneInv' /\ UnlistedInv'
        BY DEF PruneInv, UnlistedInv
    <2>3. ListedInv' /\ RequestInv'
        BY DEF ListedInv, RequestInv, TypeOK, Obstructed
    <2>4. QED
        BY <2>1, <2>2, <2>3
<1>3. CASE MkdirAllDown(f)
    <2> DEFINE d == Head(missing[f])
    <2> USE <1>3 DEF MkdirAllDown
    <2>1. missing[f] # <<>> => d \in Paths /\ Tail(missing[f]) \in Seq(Paths)
        BY DEF TypeOK
    <2>2. fs' = fs \/ (fs[d] = "none" /\ d \in Paths /\ IsDir(Parent[d])
                       /\ fs' = [fs EXCEPT ![d] = "dir"])
        BY <2>1
    <2>3. /\ fs' \in [Paths -> Kinds] /\ IsTree(fs')
        <3>1. CASE fs' = fs
            BY <3>1 DEF TypeOK
        <3>2. CASE fs[d] = "none" /\ d \in Paths /\ IsDir(Parent[d])
                   /\ fs' = [fs EXCEPT ![d] = "dir"]
            <4>1. Parent[d] = Base \/ fs[Parent[d]] = "dir"
                BY <3>2 DEF IsDir
            <4>2. QED
                BY <3>2, <4>1, TreeGrows DEF TypeOK
        <3>3. QED
            BY <2>2, <3>1, <3>2
    <2>4. TypeOK'
        <3>1. missing' \in [Paths -> Seq(Paths)]
            <4>1. missing \in [Paths -> Seq(Paths)]
                BY DEF TypeOK
            <4>2. \/ missing' = missing
                  \/ missing[f] # <<>> /\ missing' = [missing EXCEPT ![f] = Tail(missing[f])]
                OBVIOUS
            <4>3. QED
                BY ONLY <2>1, <4>1, <4>2
        <3>2. rebuild' \in [Paths -> RebuildPcs]
            BY <2>1 DEF TypeOK, RebuildPcs
        <3>3. dirsMade' \in SUBSET Paths
            BY <2>1 DEF TypeOK
        <3>4. QED
            BY <2>3, <3>1, <3>2, <3>3 DEF TypeOK
    <2>5. PruneInv' /\ UnlistedInv'
        BY <2>2 DEF PruneInv, UnlistedInv, TypeOK, Dirs
    <2>6. ListedInv' /\ RequestInv'
        BY <2>2 DEF ListedInv, RequestInv, TypeOK, Obstructed
    <2>7. QED
        BY <2>4, <2>5, <2>6
<1>4. CASE OpenFile(f)
    <2> USE <1>4 DEF OpenFile, AfterError
    <2>1. f \in pathMap
        BY DEF RequestInv, TypeOK
    <2>2. fs' = fs \/ (fs[f] # "dir" /\ IsDir(Parent[f]) /\ fs' = [fs EXCEPT ![f] = "file"])
        OBVIOUS
    <2>3. /\ fs' \in [Paths -> Kinds] /\ IsTree(fs')
        <3>1. CASE fs' = fs
            BY <3>1 DEF TypeOK
        <3>2. CASE fs[f] # "dir" /\ IsDir(Parent[f]) /\ fs' = [fs EXCEPT ![f] = "file"]
            <4>1. Parent[f] = Base \/ fs[Parent[f]] = "dir"
                BY <3>2 DEF IsDir
            <4>2. QED
                BY <3>2, <4>1, TreeGrows DEF TypeOK
        <3>3. QED
            BY <2>2, <3>1, <3>2
    <2>4. TypeOK'
        BY <2>3 DEF TypeOK, RebuildPcs
    <2>5. PruneInv' /\ UnlistedInv'
        BY <2>1, <2>2 DEF PruneInv, UnlistedInv, TypeOK, Dirs
    <2>6. ListedInv' /\ RequestInv'
        BY <2>2 DEF ListedInv, RequestInv, TypeOK, Obstructed
    <2>7. QED
        BY <2>4, <2>5, <2>6
<1>5. CASE WriteFile(f)
    <2> USE <1>5 DEF WriteFile, AfterError
    <2>1. TypeOK'
        BY DEF TypeOK, RebuildPcs, IsTree
    <2>2. PruneInv' /\ UnlistedInv'
        BY DEF PruneInv, UnlistedInv
    <2>3. ListedInv' /\ RequestInv'
        BY DEF ListedInv, RequestInv, TypeOK, Obstructed
    <2>4. QED
        BY <2>1, <2>2, <2>3
<1>6. QED
    BY <1>1, <1>2, <1>3, <1>4, <1>5 DEF RebuildFile

(* RemoveFiles.                                                               *)
LEMMA WalkInv == Inv /\ (NextDir \/ ListingDone \/ HasFile) => Inv'
<1> USE FSAssumption DEF Inv, unchangedByRemover, rebuildVars, RemoverAt
<1>1. ASSUME Inv, NextDir PROVE Inv'
    <2> USE <1>1 DEF NextDir
    <2>1. stack # <<>> => stack[Len(stack)] \in Dirs /\ SubSeq(stack, 1, Len(stack) - 1) \in Seq(Dirs)
        BY DEF TypeOK
    <2>2. /\ stack' \in Seq(Dirs) /\ remover' \in {"done", "entries"}
          /\ entries' \subseteq entries \/ \E d \in Dirs : entries' = {<<p, fs[p]>> : p \in In(d)}
        BY <2>1 DEF TypeOK
    <2>3. removeFailed' \in BOOLEAN
        BY DEF TypeOK
    <2>4. \A p \in Paths, kind \in Kinds :
              <<p, kind>> \in entries' => <<p, kind>> \in entries \/ fs[p] = kind
        BY <2>2
    <2>5. entries' \in SUBSET (Paths \X {"file", "dir"})
        BY <2>2 DEF TypeOK, In, Kinds
    <2>6. TypeOK'
        BY <2>2, <2>3, <2>5 DEF TypeOK, RemoverPcs, IsTree
    <2>7. PruneInv' /\ UnlistedInv'
        BY <2>2, <2>4 DEF PruneInv, UnlistedInv, Kinds
    <2>8. ListedInv' /\ RequestInv'
        BY DEF ListedInv, RequestInv, Obstructed
    <2>9. QED
        BY <2>6, <2>7, <2>8
<1>2. ASSUME Inv, ListingDone PROVE Inv'
    <2> USE <1>2 DEF ListingDone
    <2>1. TypeOK'
        BY DEF TypeOK, RemoverPcs, IsTree
    <2>2. PruneInv' /\ UnlistedInv'
        BY DEF PruneInv, UnlistedInv
    <2>3. ListedInv' /\ RequestInv'
        BY DEF ListedInv, RequestInv, Obstructed
    <2>4. QED
        BY <2>1, <2>2, <2>3
<1>3. ASSUME Inv, HasFile PROVE Inv'
    <2> USE <1>3 DEF HasFile
    <2>0. remover' = "entries" \/ (remover' = "rmdir" /\ dir # Base)
        OBVIOUS
    <2>1. TypeOK'
        BY <2>0 DEF TypeOK, RemoverPcs, IsTree
    <2>2. PruneInv' /\ UnlistedInv'
        BY DEF PruneInv, UnlistedInv
    <2>3. ListedInv' /\ RequestInv'
        BY DEF ListedInv, RequestInv, Obstructed
    <2>4. QED
        BY <2>1, <2>2, <2>3
<1>4. QED
    BY <1>1, <1>2, <1>3

LEMMA VisitEntryInv ==
    ASSUME Inv, NEW p \in Paths, NEW kind \in {"file", "dir"}, VisitEntry(p, kind)
    PROVE  Inv'
<1> USE FSAssumption DEF Inv, unchangedByRemover, rebuildVars, RemoverAt, VisitEntry, NotListed
<1>1. CASE fs' = fs /\ remover' = remover /\ dir' = dir /\ removedList' = removedList
           /\ stack' \in {stack, Append(stack, p)} /\ removeFailed' \in BOOLEAN
    <2> USE <1>1
    <2>1. stack' \in Seq(Dirs)
        <3>1. stack \in Seq(Dirs) /\ p \in Dirs
            BY DEF TypeOK, Dirs
        <3>2. Append(stack, p) \in Seq(Dirs)
            BY <3>1
        <3>3. QED
            BY <3>1, <3>2
    <2>2. TypeOK'
        BY <2>1 DEF TypeOK, IsTree
    <2>3. PruneInv' /\ UnlistedInv'
        BY DEF PruneInv, UnlistedInv
    <2>4. ListedInv' /\ RequestInv'
        BY DEF ListedInv, RequestInv, Obstructed
    <2>5. QED
        BY <2>2, <2>3, <2>4
<1>2. CASE /\ p \notin pathMap /\ kind = "file"
           /\ fs' = Removed(p) /\ removedList' = removedList \cup {p}
           /\ remover' = "hasFile" /\ dir' = Parent[p]
           /\ UNCHANGED <<stack, removeFailed>>
    <2> USE <1>2 DEF Removed
    <2>1. fs[p] = "file"
        BY DEF UnlistedInv
    <2>2. /\ fs' \in [Paths -> Kinds] /\ IsTree(fs')
        <3>1. \A q \in Paths : Parent[q] = p => fs[q] = "none"
            BY <2>1 DEF TypeOK, IsTree
        <3>2. QED
            BY <3>1, TreeShrinks DEF TypeOK
    <2>3. TypeOK'
        BY <2>2 DEF TypeOK, RemoverPcs, Dirs
    <2>4. PruneInv'
        BY <2>1 DEF PruneInv, TypeOK, IsTree
    <2>5. UnlistedInv'
        BY <2>1 DEF UnlistedInv, TypeOK
    <2>6. ListedInv' /\ RequestInv'
        BY DEF ListedInv, RequestInv, TypeOK, Obstructed
    <2>7. QED
        BY <2>3, <2>4, <2>5, <2>6
<1>3. QED
    BY <1>1, <1>2 DEF TypeOK

LEMMA RemoveDirInv == Inv /\ RemoveDir => Inv'
<1> SUFFICES ASSUME Inv, RemoveDir PROVE Inv'
    OBVIOUS
<1> USE FSAssumption DEF Inv, unchangedByRemover, rebuildVars, RemoverAt, RemoveDir, RemoveOrLeave
<1>1. dir \in Paths /\ fs[dir] = "dir"
    BY DEF PruneInv, TypeOK, Dirs
<1>2. Parent[dir] = Base \/ (fs[Parent[dir]] = "dir" /\ Parent[dir] \in Paths)
    BY <1>1 DEF TypeOK, IsTree
<1>3. \/ fs' = fs
      \/ In(dir) = {} /\ fs' = [fs EXCEPT ![dir] = "none"]
    BY <1>1 DEF CanRemove, Removed
<1>4. /\ fs' \in [Paths -> Kinds] /\ IsTree(fs')
    <2>1. CASE fs' = fs
        BY <2>1 DEF TypeOK
    <2>2. CASE In(dir) = {} /\ fs' = [fs EXCEPT ![dir] = "none"]
        <3>1. \A q \in Paths : Parent[q] = dir => fs[q] = "none"
            BY <2>2 DEF In
        <3>2. fs \in [Paths -> Kinds] /\ IsTree(fs) /\ dir \in Paths
            BY <1>1 DEF TypeOK
        <3>3. /\ [fs EXCEPT ![dir] = "none"] \in [Paths -> Kinds]
              /\ IsTree([fs EXCEPT ![dir] = "none"])
            BY ONLY <3>1, <3>2, TreeShrinks
        <3>4. QED
            BY ONLY <2>2, <3>3
    <2>3. QED
        BY <1>3, <2>1, <2>2
<1>5. TypeOK'
    BY <1>1, <1>4 DEF TypeOK, RemoverPcs, Dirs
<1>6. PruneInv'
    BY <1>1, <1>2, <1>3 DEF PruneInv, TypeOK, In
<1>7. UnlistedInv'
    BY <1>1, <1>3 DEF UnlistedInv, TypeOK
<1>8. ListedInv' /\ RequestInv'
    <2>1. \A p \in Paths : fs[p] = "file" => fs'[p] = "file"
        BY <1>1, <1>3 DEF TypeOK
    <2>2. ListedInv'
        BY <2>1 DEF ListedInv, TypeOK
    <2>3. RequestInv'
        BY DEF RequestInv, Obstructed
    <2>4. QED
        BY <2>2, <2>3
<1>9. QED
    BY <1>5, <1>6, <1>7, <1>8

LEMMA NextInv == Inv /\ [Next]_vars => Inv'
<1>1. ASSUME Inv, TasksDone PROVE Inv'
    <2> USE <1>1 DEF Inv, TasksDone, rebuildVars, removeVars, historyVars
    <2>1. TypeOK'
        BY DEF TypeOK, IsTree
    <2>2. PruneInv' /\ UnlistedInv'
        BY DEF PruneInv, UnlistedInv
    <2>3. ListedInv' /\ RequestInv'
        BY DEF ListedInv, RequestInv, Obstructed
    <2>4. QED
        BY <2>1, <2>2, <2>3
<1>2. ASSUME Inv, UNCHANGED vars PROVE Inv'
    <2> USE <1>2 DEF Inv, vars, rebuildVars, removeVars, historyVars
    <2>1. TypeOK'
        BY DEF TypeOK, IsTree
    <2>2. PruneInv' /\ UnlistedInv'
        BY DEF PruneInv, UnlistedInv
    <2>3. ListedInv' /\ RequestInv'
        BY DEF ListedInv, RequestInv, Obstructed
    <2>4. QED
        BY <2>1, <2>2, <2>3
<1>3. QED
    BY <1>1, <1>2, CheckInv, RebuildInv, WalkInv, VisitEntryInv, RemoveDirInv
       DEF Next, RemoveFiles, Finished

THEOREM InvHolds == Spec => []Inv
BY InitInv, NextInv, PTL DEF Spec

-----------------------------------------------------------------------------
(* The disk is a tree at every step of the race, and every goroutine is where *)
(* it can be.                                                                 *)
THEOREM TypeCorrect == Spec => []TypeOK
<1>1. Inv => TypeOK
    BY DEF Inv
<1>2. QED
    BY <1>1, InvHolds, PTL

(* RemovedList names the files that RemoveFiles has deleted, all of them and  *)
(* no other.                                                                  *)
THEOREM RemovedListIsExact == Spec => []RemovedListExact
<1>1. Inv => RemovedListExact
    BY DEF Inv, TypeOK, UnlistedInv, ListedInv, RemovedListExact, FilesIn
<1>2. QED
    BY <1>1, InvHolds, PTL

(* A file of the sender that is missing at the end is in the failed list, or  *)
(* Stat could not look it up, or a directory passed for it.                   *)
THEOREM AbsentFilesAreReported == Spec => []AbsentIsReported
<1>1. Inv => AbsentIsReported
    BY DEF Inv, TypeOK, ListedInv, RequestInv, AbsentIsReported, Kinds
<1>2. QED
    BY <1>1, InvHolds, PTL

(* No step of any goroutine removes a file of the sender.                     *)
THEOREM ListedFilesStay == Spec => ListedNeverRemoved
<1> DEFINE Stays == \A f \in pathMap : fs[f] = "file" => fs'[f] = "file"
<1>1. Inv /\ [Next]_vars => [Stays]_vars
    <2> SUFFICES ASSUME Inv, Next PROVE Stays
        OBVIOUS
    <2> USE DEF Inv
    <2>1. CASE FileListCheck \/ TasksDone \/ Finished
        BY <2>1 DEF FileListCheck, TasksDone, Finished, vars
    <2>2. ASSUME NEW f \in Paths, RebuildFile(f) PROVE Stays
        BY <2>2 DEF RebuildFile, Lstat, MkdirAllUp, MkdirAllDown, OpenFile, WriteFile, TypeOK
    <2>3. CASE NextDir \/ ListingDone \/ HasFile
        BY <2>3 DEF NextDir, ListingDone, HasFile
    <2>4. CASE RemoveDir
        <3>1. dir \in Paths /\ fs[dir] = "dir"
            BY <2>4 DEF RemoveDir, RemoverAt, PruneInv, TypeOK, Dirs
        <3>2. QED
            BY <2>4, <3>1 DEF RemoveDir, RemoveOrLeave, Removed, TypeOK
    <2>5. ASSUME NEW p \in Paths, NEW kind \in {"file", "dir"}, VisitEntry(p, kind) PROVE Stays
        BY <2>5 DEF VisitEntry, NotListed, Removed, TypeOK
    <2>6. QED
        BY <2>1, <2>2, <2>3, <2>4, <2>5 DEF Next, RemoveFiles
<1>2. QED
    BY <1>1, InvHolds, PTL DEF Spec, ListedNeverRemoved

-----------------------------------------------------------------------------
(* What the walk has still to do.  O are paths that have been there since the *)
(* walk began, the files of the receiver's own and all above them; V are the  *)
(* directories that were listed.  Of O, what lies in a listed directory was   *)
(* listed too, is about to be, or is a file to be kept.                       *)
On(s) == {s[j] : j \in 1..Len(s)}
Distinct(s) == \A a, b \in 1..Len(s) : s[a] = s[b] => a = b

Kept(O) ==
    /\ \A p \in O : fs[p] # "none" /\ (Parent[p] = Base \/ Parent[p] \in O)
    /\ \A p \in Paths \ pathMap : fs[p] = "file" => p \in O
Visited(V, O) ==
    /\ Base \in V \cup On(stack)
    /\ \A p \in Paths : p \in V => Parent[p] \in V /\ (p \in O => fs[p] = "dir")
    /\ remover \in {"hasFile", "rmdir"} => dir \in V
OnStack(V) ==
    /\ Distinct(stack)
    /\ \A d \in On(stack) : d \notin V /\ (d # Base => Parent[d] \in V /\ fs[d] = "dir")
Listing(V) ==
    /\ remover = "next" => entries = {}
    /\ remover = "done" => entries = {} /\ On(stack) = {}
    /\ \A p \in Paths, kind \in {"file", "dir"} :
          <<p, kind>> \in entries =>
              p \notin V /\ Parent[p] \in V /\ p \notin On(stack) /\ fs[p] = kind
Coming(V, O) ==
    \A p \in O : Parent[p] \in V =>
        \/ p \in V \cup On(stack) \/ <<p, fs[p]>> \in entries
        \/ p \in pathMap /\ fs[p] = "file"
Ahead(V, O) == Kept(O) /\ Visited(V, O) /\ OnStack(V) /\ Listing(V) /\ Coming(V, O)

AheadInv ==
    remover # "idle" /\ ~removeFailed =>
        \E V \in SUBSET Dirs, O \in SUBSET Paths : Ahead(V, O)

(* A directory that has lost all it had is the one the prune loop is at, or   *)
(* could not be removed.                                                      *)
Emptied(d) == fs[d] = "dir" /\ (\A p \in Paths : Parent[p] = d => fs[p] = "none")
              /\ \E p \in Paths : Parent[p] = d /\ before[p] # "none"
EmptiedInv ==
    \A d \in Paths \ (dirsMade \cup dirsLeft) :
        Emptied(d) => remover \in {"hasFile", "rmdir"} /\ dir = d

LEMMA OnPop ==
    ASSUME NEW S, NEW s \in Seq(S), s # <<>>, Distinct(s)
    PROVE  LET top == s[Len(s)]
               rest == SubSeq(s, 1, Len(s) - 1)
           IN /\ On(rest) = On(s) \ {top} /\ Distinct(rest) /\ top \in On(s)
<1>. DEFINE top == s[Len(s)]
            rest == SubSeq(s, 1, Len(s) - 1)
<1>1. Len(s) \in Nat /\ Len(s) # 0 /\ \A j \in 1..Len(s) : s[j] \in S
  BY LenProperties, EmptySeq, ElementOfSeq
<1>2. Len(rest) = Len(s) - 1 /\ \A j \in 1..(Len(s) - 1) : rest[j] = s[j]
  <2>. DEFINE l == Len(s) - 1
  <2>1. l \in Nat /\ \A j \in 1..l : s[j] \in S
    BY <1>1
  <2>. HIDE DEF l
  <2>2. Len(SubSeq(s, 1, l)) = l /\ \A j \in 1..l : SubSeq(s, 1, l)[j] = s[j]
    <3>1. 1 \in Int /\ l \in Int /\ l - 1 + 1 = l /\ (IF 1 <= l THEN l - 1 + 1 ELSE 0) = l
      BY <2>1
    <3>2. Len(SubSeq(s, 1, l)) = IF 1 <= l THEN l - 1 + 1 ELSE 0
      BY <2>1, <3>1, SubSeqProperties
    <3>3. \A j \in 1..(l - 1 + 1) : SubSeq(s, 1, l)[j] = s[1 + j - 1]
      BY <2>1, <3>1, SubSeqProperties
    <3>4. \A j \in 1..l : 1 + j - 1 = j
      BY <2>1
    <3>. QED BY <3>1, <3>2, <3>3, <3>4
  <2>. QED BY <2>2 DEF l
<1>. HIDE DEF rest
<1>3. On(rest) = On(s) \ {top}
  <2>1. ASSUME NEW x \in On(rest) PROVE x \in On(s) \ {top}
    <3>1. PICK j \in 1..(Len(s) - 1) : x = s[j]
      BY <1>2 DEF On
    <3>2. j \in 1..Len(s) /\ j # Len(s) /\ Len(s) \in 1..Len(s)
      BY <1>1
    <3>. QED BY <3>1, <3>2 DEF On, Distinct
  <2>2. ASSUME NEW x \in On(s) \ {top} PROVE x \in On(rest)
    <3>1. PICK j \in 1..Len(s) : x = s[j] /\ j # Len(s)
      BY DEF On
    <3>2. j \in 1..(Len(s) - 1)
      BY <1>1, <3>1
    <3>. QED BY <1>2, <3>1, <3>2 DEF On
  <2>. QED BY <2>1, <2>2
<1>4. Distinct(rest)
  <2>. SUFFICES ASSUME NEW a \in 1..(Len(s) - 1), NEW b \in 1..(Len(s) - 1), rest[a] = rest[b]
                PROVE  a = b
    BY <1>2 DEF Distinct
  <2>1. a \in 1..Len(s) /\ b \in 1..Len(s) /\ s[a] = s[b]
    BY <1>1, <1>2
  <2>. QED BY <2>1 DEF Distinct
<1>5. top \in On(s)
  BY <1>1 DEF On
<1>. QED BY <1>3, <1>4, <1>5 DEF rest

LEMMA OnPush ==
    ASSUME NEW S, NEW s \in Seq(S), NEW x \in S
    PROVE  /\ On(Append(s, x)) = On(s) \cup {x}
           /\ Distinct(s) /\ x \notin On(s) => Distinct(Append(s, x))
<1>. DEFINE u == Append(s, x)
<1>1. Len(s) \in Nat /\ Len(u) = Len(s) + 1 /\ u[Len(s) + 1] = x
      /\ \A j \in 1..Len(s) : u[j] = s[j]
  BY LenProperties, AppendProperties
<1>. HIDE DEF u
<1>2. \A j \in 1..Len(u) : j \in 1..Len(s) \/ j = Len(s) + 1
  BY <1>1
<1>3. 1..Len(s) \subseteq 1..Len(u) /\ Len(s) + 1 \in 1..Len(u)
  BY <1>1
<1>4. On(u) = On(s) \cup {x}
  BY <1>1, <1>2, <1>3 DEF On
<1>5. ASSUME Distinct(s), x \notin On(s) PROVE Distinct(u)
  <2>. SUFFICES ASSUME NEW a \in 1..Len(u), NEW b \in 1..Len(u), u[a] = u[b] PROVE a = b
    BY DEF Distinct
  <2>1. CASE a \in 1..Len(s) /\ b \in 1..Len(s)
    BY <1>1, <1>5, <2>1 DEF Distinct
  <2>2. CASE a \in 1..Len(s) /\ b = Len(s) + 1
    BY <1>1, <1>5, <2>2 DEF On
  <2>3. CASE a = Len(s) + 1 /\ b \in 1..Len(s)
    BY <1>1, <1>5, <2>3 DEF On
  <2>. QED BY <1>2, <2>1, <2>2, <2>3
<1>. QED BY <1>4, <1>5 DEF u

(* The walk has not begun.                                                    *)
IdleInv ==
    /\ phase = "check" => remover = "idle"
    /\ remover = "idle" => entries = {}

DoneInv == AheadInv /\ EmptiedInv /\ IdleInv

(* Steps that only add to the disk, and only for the sender.                  *)
Grows ==
    /\ UNCHANGED <<remover, stack, entries, dir, removeFailed, pathMap, before, dirsLeft>>
    /\ dirsMade \subseteq dirsMade'
    /\ \A p \in Paths : /\ fs[p] # "none" => fs'[p] = fs[p]
                        /\ p \notin pathMap /\ fs'[p] = "file" => fs[p] = "file"
                        /\ fs'[p] = "dir" => fs[p] = "dir" \/ p \in dirsMade'

LEMMA GrowsKeeps ==
    ASSUME TypeOK, AheadInv, EmptiedInv, Grows
    PROVE  AheadInv' /\ EmptiedInv'
<1>1. AheadInv'
  <2>. SUFFICES ASSUME remover' # "idle", ~removeFailed'
                PROVE  \E V \in SUBSET Dirs, O \in SUBSET Paths : Ahead(V, O)'
    BY DEF AheadInv
  <2>1. PICK V \in SUBSET Dirs, O \in SUBSET Paths : Ahead(V, O)
    BY DEF AheadInv, Grows
  <2>2. \A p \in O : fs'[p] = fs[p]
    BY <2>1 DEF Ahead, Kept, Grows
  <2>3. \A p \in Paths : fs[p] \in {"file", "dir"} => fs'[p] = fs[p]
    BY DEF Grows
  <2>4. Kept(O)'
    BY <2>1, <2>2 DEF Ahead, Kept, Grows
  <2>5. Visited(V, O)'
    BY <2>1, <2>2 DEF Ahead, Visited, Grows, On
  <2>6. OnStack(V)'
    <3>1. On(stack) \subseteq Paths \cup {Base}
      BY ElementOfSeq DEF TypeOK, On, Dirs
    <3>. QED BY <2>1, <2>3, <3>1 DEF Ahead, OnStack, Grows, On, Distinct
  <2>7. Listing(V)'
    BY <2>1, <2>3 DEF Ahead, Listing, Grows, On
  <2>8. Coming(V, O)'
    BY <2>1, <2>2 DEF Ahead, Coming, Grows, On
  <2>9. Ahead(V, O)'
    BY <2>4, <2>5, <2>6, <2>7, <2>8 DEF Ahead
  <2>. QED BY <2>9
<1>2. EmptiedInv'
  <2>. SUFFICES ASSUME NEW d \in Paths, d \notin dirsMade', d \notin dirsLeft', Emptied(d)'
                PROVE  remover' \in {"hasFile", "rmdir"} /\ dir' = d
    BY DEF EmptiedInv
  <2>1. Emptied(d) /\ d \notin dirsMade /\ d \notin dirsLeft
    BY DEF Emptied, Grows
  <2>. QED BY <2>1 DEF EmptiedInv, Grows
<1>. QED BY <1>1, <1>2

LEMMA RebuildGrows ==
    ASSUME Inv, NEW f \in Paths, RebuildFile(f)
    PROVE  Grows
<1>0. fs \in [Paths -> Kinds] /\ pathMap \in SUBSET Paths
  BY DEF Inv, TypeOK
<1>1. CASE Lstat(f) \/ MkdirAllUp(f) \/ WriteFile(f)
  BY <1>0, <1>1 DEF Lstat, MkdirAllUp, WriteFile, unchangedByRebuild, removeVars, Grows
<1>2. CASE MkdirAllDown(f)
  <2>1. UNCHANGED <<remover, stack, entries, dir, removeFailed, pathMap, before, dirsLeft>>
    BY <1>2 DEF MkdirAllDown, unchangedByRebuild, removeVars
  <2>. DEFINE d == Head(missing[f])
  <2>2. \/ fs' = fs /\ dirsMade' = dirsMade
        \/ fs[d] = "none" /\ fs' = [fs EXCEPT ![d] = "dir"] /\ dirsMade' = dirsMade \cup {d}
    BY <1>2 DEF MkdirAllDown
  <2>. HIDE DEF d
  <2>. QED BY <1>0, <2>1, <2>2 DEF Grows
<1>3. CASE OpenFile(f)
  <2>1. UNCHANGED <<remover, stack, entries, dir, removeFailed, pathMap, before, dirsMade, dirsLeft>>
    BY <1>3 DEF OpenFile, unchangedByRebuild, removeVars
  <2>2. f \in pathMap
    BY <1>3 DEF OpenFile, RebuildAt, Inv, RequestInv, TypeOK
  <2>3. fs' = fs \/ (fs[f] # "dir" /\ fs' = [fs EXCEPT ![f] = "file"])
    BY <1>3 DEF OpenFile
  <2>. QED BY <1>0, <2>1, <2>2, <2>3 DEF Grows, Kinds
<1>. QED BY <1>1, <1>2, <1>3 DEF RebuildFile

(* The walk begins at basePath, with all that is there before it.             *)
LEMMA CheckDone ==
    ASSUME Inv, DoneInv, FileListCheck
    PROVE  DoneInv'
<1>1. remover = "idle" /\ entries = {} /\ before = fs /\ fs \in [Paths -> Kinds] /\ IsTree(fs)
  BY DEF Inv, TypeOK, RequestInv, DoneInv, IdleInv, FileListCheck
<1>2. UNCHANGED <<fs, entries, before, dirsMade, removeFailed, dirsLeft, pathMap, dir>>
      /\ phase' = "tasks"
  BY DEF FileListCheck, historyVars
<1>3. (remover' = "next" /\ stack' = <<Base>>) \/ remover' = "idle"
  BY <1>1 DEF FileListCheck
<1>4. IdleInv'
  BY <1>1, <1>2, <1>3 DEF IdleInv
<1>5. EmptiedInv'
  BY <1>1, <1>2 DEF EmptiedInv, Emptied
<1>6. AheadInv'
  <2>. SUFFICES ASSUME remover' # "idle" PROVE \E V \in SUBSET Dirs, O \in SUBSET Paths : Ahead(V, O)'
    BY DEF AheadInv
  <2>. DEFINE O == {p \in Paths : fs[p] # "none"}
              V == {}
  <2>1. remover' = "next" /\ stack' = <<Base>>
    BY <1>3
  <2>2. On(stack)' = {Base} /\ Distinct(stack')
    BY <2>1 DEF On, Distinct
  <2>3. Kept(O)'
    BY <1>1, <1>2, FSAssumption DEF Kept, IsTree
  <2>4. Visited(V, O)'
    BY <2>1, <2>2 DEF Visited
  <2>5. OnStack(V)'
    BY <2>2 DEF OnStack
  <2>6. Listing(V)' /\ Coming(V, O)'
    BY <1>1, <1>2, <2>1 DEF Listing, Coming
  <2>7. Ahead(V, O)' /\ V \in SUBSET Dirs /\ O \in SUBSET Paths
    BY <2>3, <2>4, <2>5, <2>6 DEF Ahead
  <2>. QED BY <2>7
<1>. QED BY <1>4, <1>5, <1>6 DEF DoneInv

(* A directory is listed: all that is in it is about to be visited.           *)
LEMMA NextDirDone ==
    ASSUME Inv, DoneInv, NextDir
    PROVE  DoneInv'
<1>1. remover = "next" /\ phase = "tasks"
  BY DEF NextDir, RemoverAt
<1>2. UNCHANGED <<fs, before, dirsMade, dirsLeft, pathMap, dir, phase>> /\ remover' \in {"done", "entries"}
  BY DEF NextDir, unchangedByRemover
<1>3. fs \in [Paths -> Kinds] /\ IsTree(fs) /\ stack \in Seq(Dirs)
  BY DEF Inv, TypeOK
<1>4. IdleInv'
  BY <1>1, <1>2 DEF IdleInv
<1>5. EmptiedInv'
  BY <1>1, <1>2 DEF EmptiedInv, Emptied, DoneInv
<1>6. AheadInv'
  <2>. SUFFICES ASSUME ~removeFailed' PROVE \E V \in SUBSET Dirs, O \in SUBSET Paths : Ahead(V, O)'
    BY DEF AheadInv
  <2>1. ~removeFailed
    BY DEF NextDir
  <2>2. PICK V \in SUBSET Dirs, O \in SUBSET Paths : Ahead(V, O)
    BY <1>1, <2>1 DEF DoneInv, AheadInv
  <2>3. Kept(O)'
    BY <1>2, <2>2 DEF Ahead, Kept
  <2>4. CASE stack = <<>>
    <3>1. stack' = stack /\ entries' = entries /\ remover' = "done"
      BY <2>4 DEF NextDir
    <3>2. On(stack) = {} /\ entries = {}
      BY <1>1, <2>2, <2>4, EmptySeq DEF On, Ahead, Listing
    <3>3. Visited(V, O)' /\ OnStack(V)' /\ Listing(V)' /\ Coming(V, O)'
      BY <1>2, <2>2, <3>1, <3>2 DEF Ahead, Visited, OnStack, Listing, Coming, On, Distinct
    <3>4. Ahead(V, O)'
      BY <2>3, <3>3 DEF Ahead
    <3>. QED BY <3>4
  <2>5. CASE stack # <<>>
    <3>0. PICK current : current = stack[Len(stack)]
      OBVIOUS
    <3>. DEFINE W == V \cup {current}
    <3>1. stack' = SubSeq(stack, 1, Len(stack) - 1)
      BY <2>5 DEF NextDir
    <3>2. On(stack)' = On(stack) \ {current} /\ Distinct(stack') /\ current \in On(stack)
      <4>1. Distinct(stack)
        BY <2>2 DEF Ahead, OnStack
      <4>2. On(SubSeq(stack, 1, Len(stack) - 1)) = On(stack) \ {stack[Len(stack)]}
            /\ Distinct(SubSeq(stack, 1, Len(stack) - 1)) /\ stack[Len(stack)] \in On(stack)
        BY <1>3, <2>5, <4>1, OnPop
      <4>3. On(stack)' = On(stack')
        BY DEF On
      <4>. QED BY <3>0, <3>1, <4>2, <4>3
    <3>3. current \in Dirs /\ current \notin V
          /\ (current # Base => current \in Paths /\ Parent[current] \in V /\ fs[current] = "dir")
      BY <1>3, <2>2, <3>2, ElementOfSeq DEF Ahead, OnStack, On, Dirs
    <3>4. IsDir(current)
      BY <3>3 DEF IsDir
    <3>5. remover' = "entries" /\ entries' = {<<p, fs[p]>> : p \in In(current)}
      BY <2>1, <2>5, <3>0, <3>4 DEF NextDir
    <3>6. \A p \in Paths : Parent[p] = current => p \notin V /\ p \notin On(stack) /\ p # current
      <4>. SUFFICES ASSUME NEW p \in Paths, Parent[p] = current
                    PROVE  p \notin V /\ p \notin On(stack) /\ p # current
        OBVIOUS
      <4>1. p \notin V
        BY <2>2, <3>3 DEF Ahead, Visited
      <4>2. p \notin On(stack)
        BY <2>2, <3>3, FSAssumption DEF Ahead, OnStack
      <4>. QED BY <3>2, <4>1, <4>2
    <3>7. \A p \in Paths, kind \in {"file", "dir"} :
             <<p, kind>> \in entries' => Parent[p] = current /\ fs[p] = kind
      BY <3>5 DEF In
    <3>8. \A p \in Paths : Parent[p] = current /\ fs[p] # "none" => <<p, fs[p]>> \in entries'
      BY <3>5 DEF In
    <3>9. Visited(W, O)'
      <4>1. Base \in W \cup On(stack)'
        BY <2>2, <3>2 DEF Ahead, Visited
      <4>2. \A p \in Paths : p \in W => Parent[p] \in W /\ (p \in O => fs[p] = "dir")
        BY <2>2, <3>3, FSAssumption DEF Ahead, Visited
      <4>. QED BY <1>2, <3>5, <4>1, <4>2 DEF Visited
    <3>10. OnStack(W)'
      BY <1>2, <2>2, <3>2 DEF Ahead, OnStack
    <3>11. Listing(W)'
      <4>1. \A p \in Paths, kind \in {"file", "dir"} :
               <<p, kind>> \in entries' =>
                   p \notin W /\ Parent[p] \in W /\ p \notin On(stack)' /\ fs[p] = kind
        BY <3>2, <3>6, <3>7
      <4>. QED BY <1>2, <3>5, <4>1 DEF Listing
    <3>12. Coming(W, O)'
      <4>1. \A p \in O : fs[p] # "none"
        BY <2>2 DEF Ahead, Kept
      <4>2. \A p \in O : Parent[p] \in V =>
               p \in V \cup On(stack) \/ (p \in pathMap /\ fs[p] = "file")
        BY <1>1, <2>2 DEF Ahead, Coming, Listing
      <4>3. \A p \in O : Parent[p] \in W =>
               \/ p \in W \cup On(stack)' \/ <<p, fs[p]>> \in entries'
               \/ p \in pathMap /\ fs[p] = "file"
        BY <3>2, <3>8, <4>1, <4>2
      <4>. QED BY <1>2, <4>3 DEF Coming
    <3>13. Ahead(W, O)'
      BY <2>3, <3>9, <3>10, <3>11, <3>12 DEF Ahead
    <3>14. W \in SUBSET Dirs
      BY <2>2, <3>3
    <3>. QED BY <3>13, <3>14
  <2>. QED BY <2>4, <2>5
<1>. QED BY <1>4, <1>5, <1>6 DEF DoneInv

LEMMA ListingDoneDone ==
    ASSUME Inv, DoneInv, ListingDone
    PROVE  DoneInv'
<1>1. remover = "entries" /\ entries = {} /\ remover' = "next"
      /\ UNCHANGED <<fs, before, dirsMade, dirsLeft, pathMap, phase, stack, entries, dir, removeFailed>>
  BY DEF ListingDone, unchangedByRemover, RemoverAt
<1>2. IdleInv'
  BY <1>1 DEF DoneInv, IdleInv, ListingDone, RemoverAt
<1>3. EmptiedInv'
  BY <1>1 DEF DoneInv, EmptiedInv, Emptied
<1>4. AheadInv'
  <2>. SUFFICES ASSUME ~removeFailed'
                PROVE  \E V \in SUBSET Dirs, O \in SUBSET Paths : Ahead(V, O)'
    BY DEF AheadInv
  <2>1. PICK V \in SUBSET Dirs, O \in SUBSET Paths : Ahead(V, O)
    BY <1>1 DEF DoneInv, AheadInv
  <2>2. On(stack)' = On(stack)
    BY <1>1 DEF On
  <2>3. Kept(O)' /\ OnStack(V)' /\ Coming(V, O)'
    BY <1>1, <2>1, <2>2 DEF Ahead, Kept, OnStack, Coming, Distinct
  <2>4. Visited(V, O)' /\ Listing(V)'
    BY <1>1, <2>1, <2>2 DEF Ahead, Visited, Listing
  <2>5. Ahead(V, O)'
    BY <2>3, <2>4 DEF Ahead
  <2>. QED BY <2>1, <2>5
<1>. QED BY <1>2, <1>3, <1>4 DEF DoneInv

LEMMA HasFileDone ==
    ASSUME Inv, DoneInv, HasFile
    PROVE  DoneInv'
<1>1. remover = "hasFile" /\ phase = "tasks"
      /\ UNCHANGED <<fs, before, dirsMade, dirsLeft, pathMap, phase, stack, entries, dir, removeFailed>>
      /\ remover' \in {"entries", "rmdir"}
      /\ (dir # Base /\ In(dir) = {} => remover' = "rmdir")
  BY DEF HasFile, unchangedByRemover, RemoverAt
<1>2. IdleInv'
  BY <1>1 DEF IdleInv
<1>3. EmptiedInv'
  <2>. SUFFICES ASSUME NEW d \in Paths, d \notin dirsMade, d \notin dirsLeft, Emptied(d)
                PROVE  remover' = "rmdir" /\ dir = d
    BY <1>1 DEF EmptiedInv, Emptied
  <2>1. dir = d
    BY DEF DoneInv, EmptiedInv
  <2>2. dir # Base /\ In(dir) = {}
    BY <2>1, FSAssumption DEF Emptied, In
  <2>. QED BY <1>1, <2>1, <2>2
<1>4. AheadInv'
  <2>. SUFFICES ASSUME ~removeFailed'
                PROVE  \E V \in SUBSET Dirs, O \in SUBSET Paths : Ahead(V, O)'
    BY DEF AheadInv
  <2>1. PICK V \in SUBSET Dirs, O \in SUBSET Paths : Ahead(V, O)
    BY <1>1 DEF DoneInv, AheadInv
  <2>2. On(stack)' = On(stack) /\ remover' \in {"entries", "rmdir"}
    BY <1>1 DEF On
  <2>3. Kept(O)' /\ OnStack(V)' /\ Coming(V, O)'
    BY <1>1, <2>1, <2>2 DEF Ahead, Kept, OnStack, Coming, Distinct
  <2>4. Visited(V, O)' /\ Listing(V)'
    BY <1>1, <2>1, <2>2 DEF Ahead, Visited, Listing
  <2>5. Ahead(V, O)'
    BY <2>3, <2>4 DEF Ahead
  <2>. QED BY <2>1, <2>5
<1>. QED BY <1>2, <1>3, <1>4 DEF DoneInv

LEMMA VisitEntryDone ==
    ASSUME Inv, DoneInv, NEW p \in Paths, NEW kind \in {"file", "dir"}, VisitEntry(p, kind)
    PROVE  DoneInv'
<1>1. remover = "entries" /\ phase = "tasks" /\ <<p, kind>> \in entries
      /\ UNCHANGED <<before, dirsMade, dirsLeft, pathMap, phase>>
      /\ entries' = entries \ {<<p, kind>>}
  BY DEF VisitEntry, unchangedByRemover, RemoverAt
<1>2. fs \in [Paths -> Kinds] /\ IsTree(fs) /\ stack \in Seq(Dirs) /\ p \in Dirs
      /\ entries \in SUBSET (Paths \X {"file", "dir"})
  BY DEF Inv, TypeOK, Dirs
<1>3. ~removeFailed' => ~removeFailed
  BY DEF VisitEntry
<1>4. ~removeFailed' => \E V \in SUBSET Dirs, O \in SUBSET Paths : Ahead(V, O)
  BY <1>1, <1>3 DEF DoneInv, AheadInv
<1>5. CASE kind = "dir"
  <2>1. stack' = Append(stack, p) /\ UNCHANGED <<remover, fs, dir, removeFailed>>
    BY <1>5 DEF VisitEntry
  <2>2. IdleInv' /\ EmptiedInv'
    BY <1>1, <2>1 DEF DoneInv, IdleInv, EmptiedInv, Emptied
  <2>3. AheadInv'
    <3>. SUFFICES ASSUME ~removeFailed'
                  PROVE  \E V \in SUBSET Dirs, O \in SUBSET Paths : Ahead(V, O)'
      BY DEF AheadInv
    <3>1. PICK V \in SUBSET Dirs, O \in SUBSET Paths : Ahead(V, O)
      BY <1>4
    <3>2. p \notin V /\ Parent[p] \in V /\ p \notin On(stack) /\ fs[p] = "dir"
      BY <1>1, <1>5, <3>1 DEF Ahead, Listing
    <3>3. On(stack)' = On(stack) \cup {p} /\ Distinct(stack')
      BY <1>2, <2>1, <3>1, <3>2, OnPush DEF Ahead, OnStack, On
    <3>4. Kept(O)' /\ Visited(V, O)' /\ OnStack(V)'
      BY <1>1, <2>1, <3>1, <3>2, <3>3 DEF Ahead, Kept, Visited, OnStack
    <3>5. Listing(V)'
      <4>1. \A q \in Paths, k \in {"file", "dir"} :
               <<q, k>> \in entries' =>
                   q \notin V /\ Parent[q] \in V /\ q \notin On(stack)' /\ fs'[q] = k
        BY <1>1, <1>5, <2>1, <3>1, <3>2, <3>3 DEF Ahead, Listing
      <4>. QED BY <1>1, <2>1, <4>1 DEF Listing
    <3>6. Coming(V, O)'
      BY <1>1, <1>5, <2>1, <3>1, <3>3 DEF Ahead, Coming
    <3>7. Ahead(V, O)'
      BY <3>4, <3>5, <3>6 DEF Ahead
    <3>. QED BY <3>1, <3>7
  <2>. QED BY <2>2, <2>3 DEF DoneInv
<1>6. CASE /\ kind = "file" /\ NotListed(p) /\ CanRemove(p)
           /\ fs' = Removed(p) /\ remover' = "hasFile" /\ dir' = Parent[p]
           /\ UNCHANGED <<stack, removeFailed>>
  <2>1. p \notin pathMap /\ fs[p] = "file"
    BY <1>1, <1>6 DEF NotListed, Inv, UnlistedInv
  <2>2. fs'[p] = "none" /\ \A q \in Paths : q # p => fs'[q] = fs[q]
    BY <1>2, <1>6 DEF Removed
  <2>3. IdleInv'
    BY <1>1, <1>6 DEF IdleInv
  <2>4. EmptiedInv'
    <3>. SUFFICES ASSUME NEW d \in Paths, d \notin dirsMade, d \notin dirsLeft, Emptied(d)',
                         d # Parent[p]
                  PROVE  FALSE
      BY <1>1, <1>6 DEF EmptiedInv
    <3>1. Emptied(d)
      BY <1>1, <2>2 DEF Emptied
    <3>. QED BY <1>1, <3>1 DEF DoneInv, EmptiedInv
  <2>5. AheadInv'
    <3>. SUFFICES ASSUME ~removeFailed'
                  PROVE  \E V \in SUBSET Dirs, O \in SUBSET Paths : Ahead(V, O)'
      BY DEF AheadInv
    <3>1. PICK V \in SUBSET Dirs, O \in SUBSET Paths : Ahead(V, O)
      BY <1>4
    <3>. DEFINE R == O \ {p}
    <3>2. p \notin V /\ Parent[p] \in V /\ p \notin On(stack)
      BY <1>1, <1>6, <3>1 DEF Ahead, Listing
    <3>3. Kept(R)'
      <4>1. \A q \in R : Parent[q] # p
        BY <1>2, <2>1, <3>1, FSAssumption DEF Ahead, Kept, IsTree
      <4>2. \A q \in R : fs'[q] # "none" /\ (Parent[q] = Base \/ Parent[q] \in R)
        BY <2>2, <3>1, <4>1 DEF Ahead, Kept
      <4>3. \A q \in Paths \ pathMap : fs'[q] = "file" => q \in R
        BY <2>2, <3>1 DEF Ahead, Kept
      <4>. QED BY <1>1, <4>2, <4>3 DEF Kept
    <3>4. Visited(V, R)'
      BY <1>6, <2>2, <3>1, <3>2 DEF Ahead, Visited, On
    <3>5. OnStack(V)'
      <4>1. \A d \in On(stack) : d # Base => d \in Paths /\ d # p
        BY <1>2, <3>2, ElementOfSeq DEF On, Dirs
      <4>2. On(stack)' = On(stack)
        BY <1>6 DEF On
      <4>. QED BY <1>6, <2>2, <3>1, <4>1, <4>2 DEF Ahead, OnStack, Distinct
    <3>6. Listing(V)'
      <4>1. \A q \in Paths, k \in {"file", "dir"} :
               <<q, k>> \in entries' => <<q, k>> \in entries /\ q # p
        BY <1>1, <1>6, <2>1, <3>1 DEF Ahead, Listing
      <4>2. \A q \in Paths, k \in {"file", "dir"} :
               <<q, k>> \in entries' =>
                   q \notin V /\ Parent[q] \in V /\ q \notin On(stack)' /\ fs'[q] = k
        <5>1. On(stack)' = On(stack)
          BY <1>6 DEF On
        <5>. QED BY <1>6, <2>2, <3>1, <4>1, <5>1 DEF Ahead, Listing
      <4>. QED BY <1>6, <4>2 DEF Listing
    <3>7. Coming(V, R)'
      <4>1. \A q \in R : q \in Paths /\ fs'[q] = fs[q] /\ (<<q, fs[q]>> \in entries => <<q, fs[q]>> \in entries')
        BY <1>1, <2>2, <3>1
      <4>. QED BY <1>1, <1>6, <3>1, <4>1 DEF Ahead, Coming, On
    <3>8. Ahead(V, R)'
      BY <3>3, <3>4, <3>5, <3>6, <3>7 DEF Ahead
    <3>. QED BY <3>1, <3>8
  <2>. QED BY <2>3, <2>4, <2>5 DEF DoneInv
<1>7. CASE /\ kind = "file" /\ removeFailed' = (removeFailed \/ (NotListed(p) /\ CanRemove(p)))
           /\ UNCHANGED <<stack, remover, fs, dir>>
  <2>1. IdleInv' /\ EmptiedInv'
    BY <1>1, <1>7 DEF DoneInv, IdleInv, EmptiedInv, Emptied
  <2>2. AheadInv'
    <3>. SUFFICES ASSUME ~removeFailed'
                  PROVE  \E V \in SUBSET Dirs, O \in SUBSET Paths : Ahead(V, O)'
      BY DEF AheadInv
    <3>1. PICK V \in SUBSET Dirs, O \in SUBSET Paths : Ahead(V, O)
      BY <1>4
    <3>2. fs[p] = "file"
      BY <1>1, <1>7, <3>1 DEF Ahead, Listing
    <3>3. p \in pathMap
      BY <1>7, <3>2 DEF NotListed, CanRemove
    <3>4. Kept(O)' /\ Visited(V, O)' /\ OnStack(V)' /\ Listing(V)'
      BY <1>1, <1>7, <3>1 DEF Ahead, Kept, Visited, OnStack, Listing, On, Distinct
    <3>5. Coming(V, O)'
      BY <1>1, <1>7, <3>1, <3>2, <3>3 DEF Ahead, Coming, On
    <3>6. Ahead(V, O)'
      BY <3>4, <3>5 DEF Ahead
    <3>. QED BY <3>1, <3>6
  <2>. QED BY <2>1, <2>2 DEF DoneInv
<1>. QED BY <1>5, <1>6, <1>7 DEF VisitEntry

(* The prune loop removes only directories that were listed, and one that is  *)
(* empty and stays is one it has failed to remove.                            *)
LEMMA RemoveDirDone ==
    ASSUME Inv, DoneInv, RemoveDir
    PROVE  DoneInv'
<1>0. remover = "rmdir" /\ phase = "tasks" /\ remover' = "hasFile" /\ dir' = Parent[dir]
      /\ RemoveOrLeave
      /\ UNCHANGED <<before, dirsMade, pathMap, phase, stack, entries, removeFailed>>
  BY DEF RemoveDir, unchangedByRemover, RemoverAt
<1>1. dir \in Paths /\ fs[dir] = "dir"
  BY <1>0 DEF Inv, PruneInv, TypeOK, Dirs
<1>2. PICK d \in Paths : d = dir
  BY <1>1
<1>3. fs \in [Paths -> Kinds] /\ stack \in Seq(Dirs)
  BY DEF Inv, TypeOK
<1>4. /\ dirsLeft \subseteq dirsLeft'
      /\ \/ fs' = fs /\ (In(d) = {} => d \in dirsLeft')
         \/ In(d) = {} /\ fs'[d] = "none" /\ \A q \in Paths : q # d => fs'[q] = fs[q]
  BY <1>0, <1>1, <1>2, <1>3 DEF RemoveOrLeave, CanRemove, Removed
<1>5. IdleInv'
  BY <1>0 DEF IdleInv
<1>6. EmptiedInv'
  <2>. SUFFICES ASSUME NEW c \in Paths, c \notin dirsMade, c \notin dirsLeft', Emptied(c)', c # Parent[d]
                PROVE  FALSE
    BY <1>0, <1>2 DEF EmptiedInv
  <2>1. Emptied(c)
    BY <1>0, <1>4 DEF Emptied
  <2>2. c = d
    BY <1>2, <1>4, <2>1 DEF DoneInv, EmptiedInv
  <2>3. In(c) = {} /\ fs'[c] = "dir"
    BY <2>1 DEF Emptied, In
  <2>. QED BY <1>4, <2>2, <2>3
<1>7. AheadInv'
  <2>. SUFFICES ASSUME ~removeFailed'
                PROVE  \E V \in SUBSET Dirs, O \in SUBSET Paths : Ahead(V, O)'
    BY DEF AheadInv
  <2>1. PICK V \in SUBSET Dirs, O \in SUBSET Paths : Ahead(V, O)
    BY <1>0 DEF DoneInv, AheadInv
  <2>2. d \in V /\ Parent[d] \in V /\ d \notin On(stack)
    BY <1>0, <1>2, <2>1 DEF Ahead, Visited, OnStack
  <2>3. On(stack)' = On(stack)
    BY <1>0 DEF On
  <2>4. PICK S \in SUBSET O : S = O \ {q \in {d} : fs'[q] # fs[q]}
    OBVIOUS
  <2>5. \A q \in S : fs'[q] = fs[q] /\ q \in O
    BY <1>4, <2>1, <2>4
  <2>6. Kept(S)'
    <3>1. \A q \in S : Parent[q] = Base \/ Parent[q] \in S
      <4>. SUFFICES ASSUME NEW q \in S, Parent[q] # Base PROVE Parent[q] \in S
        OBVIOUS
      <4>1. Parent[q] \in O /\ fs[q] # "none" /\ q \in Paths
        BY <2>1, <2>5 DEF Ahead, Kept
      <4>2. Parent[q] = d => In(d) # {}
        BY <4>1 DEF In
      <4>3. Parent[q] = d => fs' = fs
        BY <1>4, <4>2
      <4>. QED BY <2>4, <4>1, <4>3
    <3>2. \A q \in Paths \ pathMap : fs'[q] = "file" => q \in S
      BY <1>1, <1>2, <1>4, <2>1, <2>4 DEF Ahead, Kept
    <3>3. \A q \in S : fs'[q] # "none"
      BY <2>1, <2>5 DEF Ahead, Kept
    <3>. QED BY <1>0, <3>1, <3>2, <3>3 DEF Kept
  <2>7. Visited(V, S)'
    BY <1>0, <1>2, <2>1, <2>2, <2>3, <2>5 DEF Ahead, Visited
  <2>8. \A q \in Paths : q \notin V => fs'[q] = fs[q]
    BY <1>4, <2>2
  <2>9. OnStack(V)'
    <3>1. \A c \in On(stack) : c # Base => c \in Paths
      BY <1>3, ElementOfSeq DEF On, Dirs
    <3>. QED BY <1>0, <2>1, <2>3, <2>8, <3>1 DEF Ahead, OnStack, Distinct
  <2>10. Listing(V)'
    BY <1>0, <2>1, <2>3, <2>8 DEF Ahead, Listing
  <2>11. Coming(V, S)'
    BY <1>0, <2>1, <2>3, <2>5 DEF Ahead, Coming
  <2>12. Ahead(V, S)'
    BY <2>6, <2>7, <2>9, <2>10, <2>11 DEF Ahead
  <2>. QED BY <2>1, <2>12
<1>. QED BY <1>5, <1>6, <1>7 DEF DoneInv

LEMMA InitDone == Init => DoneInv
BY DEF Init, DoneInv, AheadInv, EmptiedInv, Emptied, IdleInv

LEMMA NextDone == Inv /\ DoneInv /\ [Next]_vars => DoneInv'
<1>. SUFFICES ASSUME Inv, DoneInv, [Next]_vars PROVE DoneInv'
  OBVIOUS
<1>1. CASE FileListCheck
  BY <1>1, CheckDone
<1>2. ASSUME NEW f \in Paths, RebuildFile(f) PROVE DoneInv'
  <2>1. Grows
    BY <1>2, RebuildGrows
  <2>2. phase' = phase /\ phase = "tasks"
    BY <1>2 DEF RebuildFile, Lstat, MkdirAllUp, MkdirAllDown, OpenFile, WriteFile, RebuildAt,
                unchangedByRebuild
  <2>. QED BY <2>1, <2>2, GrowsKeeps DEF Inv, DoneInv, IdleInv, Grows
<1>3. CASE TasksDone \/ UNCHANGED vars
  <2>1. Grows
    BY <1>3 DEF TasksDone, vars, removeVars, historyVars, Grows
  <2>2. IdleInv'
    BY <1>3, <2>1 DEF DoneInv, IdleInv, TasksDone, vars, Grows
  <2>. QED BY <2>1, <2>2, GrowsKeeps DEF Inv, DoneInv
<1>4. CASE RemoveFiles
  BY <1>4, NextDirDone, ListingDoneDone, HasFileDone, RemoveDirDone, VisitEntryDone DEF RemoveFiles
<1>. QED BY <1>1, <1>2, <1>3, <1>4 DEF Next, Finished

LEMMA DoneHolds == Spec => [](Inv /\ DoneInv)
<1>1. (Inv /\ DoneInv) /\ [Next]_vars => (Inv /\ DoneInv)'
  BY NextInv, NextDone
<1>. QED BY InitInv, InitDone, <1>1, PTL DEF Spec

(* With the Delete flag, when RemoveFiles is through and nothing has failed,  *)
(* every file on the receiver's disk is one of the sender's, in any tree and  *)
(* whatever directories come and go under the walk (removefile.go:29-76).     *)
THEOREM ExtrasAreRemoved == Spec => []ExtrasRemoved
<1>1. Inv /\ DoneInv => ExtrasRemoved
  <2>. SUFFICES ASSUME Inv, DoneInv, remover = "done", ~removeFailed,
                       NEW f \in Paths, fs[f] = "file", f \notin pathMap
                PROVE  FALSE
    BY DEF ExtrasRemoved, FilesIn
  <2>1. PICK V \in SUBSET Dirs, O \in SUBSET Paths : Ahead(V, O)
    BY DEF DoneInv, AheadInv
  <2>. DEFINE Missed == {p \in O : p \notin V /\ ~(p \in pathMap /\ fs[p] = "file")}
  <2>2. On(stack) = {} /\ entries = {} /\ Base \in V
    BY <2>1 DEF Ahead, Listing, Visited
  <2>3. \A p \in Missed : Parent[p] \notin V
    BY <2>1, <2>2 DEF Ahead, Coming
  <2>4. \A p \in Missed : Parent[p] \in Missed
    <3>. SUFFICES ASSUME NEW p \in Missed PROVE Parent[p] \in Missed
      OBVIOUS
    <3>1. Parent[p] \notin V /\ Parent[p] # Base
      BY <2>2, <2>3
    <3>2. Parent[p] \in O /\ fs[p] # "none" /\ p \in Paths
      BY <2>1, <3>1 DEF Ahead, Kept
    <3>3. fs[Parent[p]] = "dir"
      BY <3>1, <3>2 DEF Inv, TypeOK, IsTree
    <3>. QED BY <3>1, <3>2, <3>3
  <2>5. f \in Missed
    <3>1. f \in O
      BY <2>1 DEF Ahead, Kept
    <3>2. f \notin V
      BY <2>1, <3>1 DEF Ahead, Visited
    <3>. QED BY <3>1, <3>2
  <2>6. Missed \in SUBSET Paths
    OBVIOUS
  <2>. HIDE DEF Missed
  <2>. QED BY <2>4, <2>5, <2>6, TreeAssumption
<1>. QED BY <1>1, DoneHolds, PTL

(* The prune goes on until it meets a directory with a file in it, whatever   *)
(* fails on the way (removefile.go:57-71): one that the walk leaves empty was *)
(* empty before, or RebuildFile has made it, or it is itself one that         *)
(* os.Remove has failed to remove (removefile.go:70).                         *)
THEOREM EmptyDirsAreExplained == Spec => []EmptyDirsExplained
<1>1. Inv /\ DoneInv => EmptyDirsExplained
  BY DEF Inv, TypeOK, DoneInv, EmptiedInv, Emptied, EmptyDirsExplained, In
<1>. QED BY <1>1, DoneHolds, PTL
=============================================================================
