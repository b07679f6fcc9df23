----------------------------- MODULE ReceiverFS -----------------------------
(***************************************************************************)
(* The receiver's directory tree under its goroutines.  FileListCheck      *)
(* (receiver.go) looks every listed path up once; then the RebuildFile     *)
(* goroutines make missing directories and open their files while          *)
(* RemoveFiles (removefile.go) walks the tree, deletes the files that are  *)
(* not listed and prunes the directories that this leaves without files.   *)
(* They share nothing but the file system: one system call is one step,    *)
(* and each decides by what it saw in an earlier one.                      *)
(*                                                                         *)
(* A path is "none", a "file" (anything but a directory) or a "dir".       *)
(***************************************************************************)
EXTENDS Integers, Sequences

CONSTANTS
    Paths,      (* the paths below basePath that matter                        *)
    Base,       (* basePath itself, which exists                               *)
    Parent      (* path.Dir                                                    *)

ASSUME FSAssumption ==
    /\ Base \notin Paths
    /\ Parent \in [Paths -> Paths \cup {Base}]

(* Every path leads up to basePath.                                           *)
ASSUME TreeAssumption ==
    \A P \in SUBSET Paths : P # {} => \E p \in P : Parent[p] \notin P

VARIABLES
    phase,      (* "check", then "tasks" until all have ended, then "over"     *)
    fs,         (* the receiver's disk                                         *)
    pathMap,    (* the paths of the sender's files                             *)
    requested,  (* the files to be transferred                                 *)
    rebuild,    (* per path, where its RebuildFile goroutine is                *)
    at, missing,    (* per path, its MkdirAll: the directory it is at, and the *)
                    (* directories above that it found missing, topmost first  *)
    remover,    (* where the RemoveFiles goroutine is                          *)
    stack, entries, (* its stack, and what is left of the listing it is in     *)
    dir,        (* the directory the prune loop has come to                    *)
    removedList,
    before, dirsMade,   (* history: the disk at the check; what Mkdir has made;*)
    removeFailed,       (* the walk failed to read a directory or to remove a  *)
                        (* file that was there                                 *)
    dirsLeft            (* the empty directories that the prune failed to remove *)

rebuildVars == <<rebuild, at, missing>>
removeVars  == <<remover, stack, entries, dir, removedList>>
historyVars == <<before, dirsMade, removeFailed, dirsLeft>>
vars == <<phase, fs, pathMap, requested, rebuildVars, removeVars, historyVars>>

Dirs == Paths \cup {Base}
Kinds == {"none", "file", "dir"}
RebuildPcs == {"idle", "up", "down", "open", "write", "ok", "failed"}
RemoverPcs == {"idle", "next", "entries", "hasFile", "rmdir", "done"}

Above[p \in Paths] ==
    IF Parent[p] = Base THEN {} ELSE {Parent[p]} \cup Above[Parent[p]]

IsDir(p) == IF p = Base THEN TRUE ELSE fs[p] = "dir"
In(d) == {p \in Paths : Parent[p] = d /\ fs[p] # "none"}
FilesIn(disk) == {p \in Paths : disk[p] = "file"}
IsTree(disk) ==
    \A p \in Paths : disk[p] # "none" => Parent[p] = Base \/ disk[Parent[p]] = "dir"

TypeOK ==
    /\ phase \in {"check", "tasks", "over"}
    /\ fs \in [Paths -> Kinds] /\ IsTree(fs)
    /\ pathMap \in SUBSET Paths /\ requested \in SUBSET pathMap
    /\ rebuild \in [Paths -> RebuildPcs]
    /\ at \in [Paths -> Dirs] /\ missing \in [Paths -> Seq(Paths)]
    /\ remover \in RemoverPcs
    /\ stack \in Seq(Dirs) /\ entries \in SUBSET (Paths \X {"file", "dir"})
    /\ dir \in Dirs
    /\ removedList \in SUBSET Paths
    /\ before \in [Paths -> Kinds] /\ dirsMade \in SUBSET Paths
    /\ removeFailed \in BOOLEAN /\ dirsLeft \in SUBSET Paths

(* The sender's files lie in directories of the sender.                       *)
Init ==
    /\ phase = "check"
    /\ fs \in {disk \in [Paths -> Kinds] : IsTree(disk)}
    /\ pathMap \in {L \in SUBSET Paths : \A f \in L : Above[f] \cap L = {}}
    /\ requested = {}
    /\ rebuild = [p \in Paths |-> "idle"]
    /\ at = [p \in Paths |-> Base] /\ missing = [p \in Paths |-> <<>>]
    /\ remover = "idle" /\ stack = <<>> /\ entries = {} /\ dir = Base
    /\ removedList = {}
    /\ before = fs /\ dirsMade = {} /\ removeFailed = FALSE /\ dirsLeft = {}

-----------------------------------------------------------------------------
(* os.Stat fails with another error than not-exist when a file is where the   *)
(* path needs a directory: FileListCheck skips such a path.                   *)
Obstructed(f, disk) == disk[f] = "none" /\ \E a \in Above[f] : disk[a] = "file"

(* FileListCheck, before any other goroutine runs: a path that is not there   *)
(* is requested, one that is there if its mtime or size differs.  With the    *)
(* Delete flag RemoveFiles starts.                                            *)
FileListCheck ==
    /\ phase = "check" /\ phase' = "tasks"
    /\ \E differs \in SUBSET {f \in pathMap : fs[f] # "none"} :
          requested' = differs \cup {f \in pathMap : fs[f] = "none" /\ ~Obstructed(f, fs)}
    /\ \E delete \in BOOLEAN : IF delete THEN remover' = "next" /\ stack' = <<Base>>
                                         ELSE UNCHANGED <<remover, stack>>
    /\ UNCHANGED <<fs, pathMap, rebuildVars, entries, dir, removedList, historyVars>>

-----------------------------------------------------------------------------
RebuildAt(f, pc) == phase = "tasks" /\ rebuild[f] = pc
Goto(f, pc) == rebuild' = [rebuild EXCEPT ![f] = pc]
unchangedByRebuild == <<phase, pathMap, requested, removeVars, before, removeFailed, dirsLeft>>

(* RebuildFile begins: Lstat, and with an error of it the directories.        *)
Lstat(f) ==
    /\ f \in requested /\ RebuildAt(f, "idle")
    /\ IF fs[f] = "none" THEN Goto(f, "up") /\ at' = [at EXCEPT ![f] = Parent[f]]
                         ELSE Goto(f, "open") /\ UNCHANGED at
    /\ UNCHANGED <<unchangedByRebuild, fs, missing, dirsMade>>

(* os.Stat(dirPath), then MkdirAll on its way up: look at each directory      *)
(* until one is there.  Its error, a file in the way, is dropped.             *)
MkdirAllUp(f) ==
    /\ RebuildAt(f, "up")
    /\ IF IsDir(at[f]) THEN Goto(f, "down") /\ UNCHANGED <<at, missing>>
       ELSE IF fs[at[f]] = "file" THEN Goto(f, "open") /\ UNCHANGED <<at, missing>>
       ELSE /\ missing' = [missing EXCEPT ![f] = <<at[f]>> \o @]
            /\ at' = [at EXCEPT ![f] = Parent[@]]
            /\ UNCHANGED rebuild
    /\ UNCHANGED <<unchangedByRebuild, fs, dirsMade>>

(* And on its way down: make each that was missing.  One that has appeared    *)
(* since is as good; any other error, and Mkdir may fail where nothing is in  *)
(* its way, ends MkdirAll and is dropped.                                     *)
MkdirAllDown(f) ==
    /\ RebuildAt(f, "down")
    /\ IF missing[f] = <<>> THEN Goto(f, "open") /\ UNCHANGED <<missing, fs, dirsMade>>
       ELSE LET d == Head(missing[f]) IN
            /\ missing' = [missing EXCEPT ![f] = Tail(@)]
            /\ \/ /\ fs[d] = "none" /\ IsDir(Parent[d])
                  /\ fs' = [fs EXCEPT ![d] = "dir"] /\ dirsMade' = dirsMade \cup {d}
                  /\ UNCHANGED rebuild
               \/ /\ IF fs[d] = "dir" THEN UNCHANGED rebuild ELSE Goto(f, "open")
                  /\ UNCHANGED <<fs, dirsMade>>
    /\ UNCHANGED <<unchangedByRebuild, at>>

(* OpenFile with O_CREATE fails on a directory in its place, or with none to  *)
(* put it in, and may fail in any case: the file is recorded as failed.       *)
ErrorDropped == "ok"
AfterError == "failed"

OpenFile(f) ==
    /\ RebuildAt(f, "open")
    /\ \/ /\ fs[f] # "dir" /\ IsDir(Parent[f])
          /\ fs' = [fs EXCEPT ![f] = "file"] /\ Goto(f, "write")
       \/ Goto(f, AfterError) /\ UNCHANGED fs
    /\ UNCHANGED <<unchangedByRebuild, at, missing, dirsMade>>

(* The rest of RebuildFile, which module Session has in detail.               *)
WriteFile(f) ==
    /\ RebuildAt(f, "write")
    /\ Goto(f, "ok") \/ Goto(f, AfterError)
    /\ UNCHANGED <<unchangedByRebuild, fs, at, missing, dirsMade>>

-----------------------------------------------------------------------------
RemoverAt(pc) == phase = "tasks" /\ remover = pc
unchangedByRemover == <<phase, pathMap, requested, rebuildVars, before, dirsMade>>

(* os.Remove removes a file or an empty directory.                            *)
CanRemoveAll(p) == fs[p] # "none"
CanRemove(p) == fs[p] = "file" \/ (fs[p] = "dir" /\ In(p) = {})
Removed(p) == [fs EXCEPT ![p] = "none"]

(* The next directory of the walk; one that cannot be read ends RemoveFiles.  *)
NextDir ==
    /\ RemoverAt("next")
    /\ IF stack = <<>> THEN remover' = "done" /\ UNCHANGED <<stack, entries, removeFailed>>
       ELSE LET current == stack[Len(stack)] IN
            /\ stack' = SubSeq(stack, 1, Len(stack) - 1)
            /\ \/ /\ IsDir(current)
                  /\ remover' = "entries"
                  /\ entries' = {<<p, fs[p]>> : p \in In(current)}
                  /\ UNCHANGED removeFailed
               \/ /\ remover' = "done" /\ removeFailed' = (removeFailed \/ IsDir(current))
                  /\ UNCHANGED entries
    /\ UNCHANGED <<unchangedByRemover, fs, dir, removedList, dirsLeft>>

(* One entry of the listing: a directory is put on the stack, a file that is  *)
(* not in pathMap is deleted and its directory looked at.                     *)
AnyFile(p) == TRUE
NotListed(p) == p \notin pathMap

VisitEntry(p, kind) ==
    /\ RemoverAt("entries") /\ <<p, kind>> \in entries
    /\ entries' = entries \ {<<p, kind>>}
    /\ IF kind = "dir"
       THEN /\ stack' = Append(stack, p)
            /\ UNCHANGED <<remover, fs, dir, removedList, removeFailed>>
       ELSE /\ UNCHANGED stack
            /\ \/ /\ NotListed(p) /\ CanRemove(p)
                  /\ fs' = Removed(p) /\ removedList' = removedList \cup {p}
                  /\ remover' = "hasFile" /\ dir' = Parent[p]
                  /\ UNCHANGED removeFailed
               \/ /\ removeFailed' = (removeFailed \/ (NotListed(p) /\ CanRemove(p)))
                  /\ UNCHANGED <<remover, fs, dir, removedList>>
    /\ UNCHANGED <<unchangedByRemover, dirsLeft>>

ReturnAfterListing ==
    /\ RemoverAt("entries") /\ entries = {}
    /\ remover' = "done"
    /\ UNCHANGED <<unchangedByRemover, fs, stack, entries, dir, removedList, removeFailed,
                   dirsLeft>>

ListingDone ==
    /\ RemoverAt("entries") /\ entries = {}
    /\ remover' = "next"
    /\ UNCHANGED <<unchangedByRemover, fs, stack, entries, dir, removedList, removeFailed,
                   dirsLeft>>

(* The prune loop: stop at basePath or at a directory with a file in it.  The *)
(* error of ReadDir is dropped, and a directory that cannot be read looks as  *)
(* if it had none ...                                                         *)
HasFile ==
    /\ RemoverAt("hasFile")
    /\ \/ /\ dir = Base \/ \E p \in In(dir) : fs[p] = "file"
          /\ remover' = "entries"
       \/ dir # Base /\ remover' = "rmdir"
    /\ UNCHANGED <<unchangedByRemover, fs, stack, entries, dir, removedList, removeFailed,
                   dirsLeft>>

(* ... and remove any other.  That fails if something is in it, and may fail  *)
(* if nothing is; the error is dropped.  Either way go on with the one above. *)
RemoveOrLeave ==
    \/ CanRemove(dir) /\ fs' = Removed(dir) /\ UNCHANGED dirsLeft
    \/ fs' = fs /\ dirsLeft' = dirsLeft \cup {d \in {dir} : CanRemove(d)}

RemoveOneDir ==
    /\ RemoverAt("rmdir")
    /\ remover' = "entries" /\ RemoveOrLeave
    /\ UNCHANGED <<unchangedByRemover, stack, entries, dir, removedList, removeFailed>>

RemoveDir ==
    /\ RemoverAt("rmdir")
    /\ remover' = "hasFile" /\ dir' = Parent[dir] /\ RemoveOrLeave
    /\ UNCHANGED <<unchangedByRemover, stack, entries, removedList, removeFailed>>

-----------------------------------------------------------------------------
(* taskWaitGroup.Wait() returns: every patch has come and been dealt with.    *)
TasksDone ==
    /\ phase = "tasks"
    /\ \A f \in requested : rebuild[f] \in {"ok", "failed"}
    /\ remover \in {"idle", "done"}
    /\ phase' = "over"
    /\ UNCHANGED <<fs, pathMap, requested, rebuildVars, removeVars, historyVars>>

Finished == phase = "over" /\ UNCHANGED vars

RebuildFile(f) ==
    Lstat(f) \/ MkdirAllUp(f) \/ MkdirAllDown(f) \/ OpenFile(f) \/ WriteFile(f)

RemoveFiles ==
    \/ NextDir \/ ListingDone \/ HasFile \/ RemoveDir
    \/ \E p \in Paths, kind \in {"file", "dir"} : VisitEntry(p, kind)

Next ==
    \/ FileListCheck
    \/ \E f \in Paths : RebuildFile(f)
    \/ RemoveFiles
    \/ TasksDone \/ Finished

Spec == Init /\ [][Next]_vars

-----------------------------------------------------------------------------
(* A listed file, once it is there, is there for good: RemoveFiles deletes    *)
(* what is not listed, and its prune, which removes by name whatever it finds *)
(* under the name of a directory it looked at a step before, never finds a    *)
(* file a RebuildFile goroutine has put there.                                *)
ListedNeverRemoved ==
    [][\A f \in pathMap : fs[f] = "file" => fs'[f] = "file"]_vars

(* Every file that was requested and not reported as failed is there in the   *)
(* end, however its directory was pruned and made again in between.  A listed *)
(* file that is nowhere and in no list is one that Stat could not look up, as *)
(* a file stood where the sender has a directory (receiver.go:308), or one    *)
(* whose name was a directory that passed for it: the quick check compares    *)
(* mtime and size and not the kind (receiver.go:314).                         *)
AbsentIsReported ==
    phase = "over" =>
        \A f \in pathMap : fs[f] = "none" =>
            \/ rebuild[f] = "failed"
            \/ f \notin requested /\ (Obstructed(f, before) \/ before[f] = "dir")

(* RemovedList is exact: the files that are gone are the files it names.      *)
RemovedListExact == FilesIn(before) \ FilesIn(fs) = removedList

(* With the Delete flag, and unless the walk could not read a directory or    *)
(* remove a file, no file outlives the session that the sender does not have. *)
ExtrasRemoved == remover = "done" /\ ~removeFailed => FilesIn(fs) \subseteq pathMap

(* Prune is complete, whatever else fails and wherever the walk ends: a       *)
(* directory that RemoveFiles leaves empty was empty before, or has been made *)
(* by a RebuildFile goroutine, or is one that could not be removed itself     *)
(* (removefile.go:70).  No failure excuses another directory, and above one   *)
(* that stays the prune goes on.                                              *)
EmptyDirsExplained ==
    remover = "done" =>
        \A d \in Paths : fs[d] = "dir" /\ In(d) = {} =>
            \/ d \in dirsMade \cup dirsLeft
            \/ \A p \in Paths : Parent[p] = d => before[p] = "none"
=============================================================================
