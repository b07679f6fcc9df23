------------------------------ MODULE TreeWalk ------------------------------
(***************************************************************************)
(* The two walks over one tree.  The sender's ReadDirInfo (sender.go) pops *)
(* directories from a stack, lists them, numbers their files and remembers *)
(* the path of every number.  The DirStruct tree it makes, with names but  *)
(* without paths, is sent as DIR_INFO.  The receiver's FileListCheck       *)
(* (receiver.go) walks that tree with a stack of its own and puts each     *)
(* file's path together from a second stack, pathStack, from which it      *)
(* drops a directory once all its children have been visited.  All that    *)
(* follows goes by number: the two sides must mean the same file.          *)
(*                                                                         *)
(* A directory is the number of its DirStruct in order of allocation and   *)
(* is its own name; so is a file its fid.  A path is the sequence of names *)
(* from the root, each of which the code follows with a separator.  The    *)
(* sender's files may change under the walk: every ReadDir lists anything. *)
(***************************************************************************)
EXTENDS Integers, Sequences

CONSTANTS
    MaxDirs,   (* bound: directories the sender finds, with the root           *)
    MaxFiles   (* bound: files in one directory                                *)

ASSUME TreeAssumption == MaxDirs \in Nat \ {0} /\ MaxFiles \in Nat

VARIABLES
    phase,      (* "walk", "aborted", "check" or "checked"                     *)
    made,       (* the DirStructs allocated so far are 1..made                 *)
    dirList, fileList,   (* the fields DirList and FileList, per DirStruct     *)
    stack, path,         (* ReadDirInfo's stack, and the path of each DNode    *)
    fid,        (* the next number to give to a file                           *)
    fidPathMap, (* the sender's: the pairs of a fid and a path                 *)
    unread,     (* history: directories whose ReadDir failed                   *)
    rStack, visitedMap, pathStack,  (* FileListCheck's locals                  *)
    checked     (* the receiver's fidPathMap: the pairs it has worked out      *)

senderVars   == <<made, dirList, fileList, stack, path, fid, fidPathMap, unread>>
receiverVars == <<rStack, visitedMap, pathStack, checked>>
vars == <<phase, senderVars, receiverVars>>

Dirs == 1..MaxDirs
Root == 1
(* 0 is no fid: it is what a field decodes to that was not set.               *)
FromZero == 0
FirstFid == 1
Paths == Seq(Nat)

Top(s) == s[Len(s)]
Pop(s) == SubSeq(s, 1, Len(s) - 1)
Children(d) == {dirList[d][j] : j \in 1..Len(dirList[d])}
(* The directory of a fileList is the path its files have behind it.          *)
Named(p, fs) == {<<f, Append(p, f)>> : f \in fs}

TypeOK ==
    /\ phase \in {"walk", "aborted", "check", "checked"}
    /\ made \in Dirs
    /\ dirList \in [Dirs -> Seq(Dirs)] /\ fileList \in [Dirs -> SUBSET (Nat \ {0})]
    /\ stack \in Seq(Dirs) /\ path \in [Dirs -> Seq(Dirs)]
    /\ fid \in Nat \ {0}
    /\ fidPathMap \in SUBSET (Nat \X Paths) /\ checked \in SUBSET (Nat \X Paths)
    /\ unread \in SUBSET Dirs
    /\ rStack \in Seq(Dirs) /\ visitedMap \in SUBSET Dirs /\ pathStack \in Seq(Dirs)

Init ==
    /\ phase = "walk"
    /\ made = 1
    /\ dirList = [d \in Dirs |-> <<>>] /\ fileList = [d \in Dirs |-> {}]
    /\ stack = <<Root>> /\ path = [d \in Dirs |-> <<Root>>]
    /\ fid = FirstFid /\ fidPathMap = {} /\ unread = {}
    /\ rStack = <<>> /\ visitedMap = {} /\ pathStack = <<>> /\ checked = {}

-----------------------------------------------------------------------------
(* One turn of ReadDirInfo's loop: the directory on top of the stack has k    *)
(* subdirectories and n files.                                                *)
ReadDir(k, n) ==
    /\ phase = "walk" /\ stack # <<>>
    /\ LET current == Top(stack)
           found   == [j \in 1..k |-> made + j]
           files   == fid..(fid + n - 1)
       IN  /\ stack' = Pop(stack) \o found
           /\ dirList' = [dirList EXCEPT ![current] = found]
           /\ fileList' = [fileList EXCEPT ![current] = files]
           /\ path' = [d \in Dirs |-> IF d \in (made + 1)..(made + k)
                                      THEN Append(path[current], d) ELSE path[d]]
           /\ fidPathMap' = fidPathMap \cup Named(path[current], files)
    /\ made' = made + k
    /\ fid' = fid + n
    /\ UNCHANGED <<phase, unread, receiverVars>>

(* A directory that cannot be read, or is gone since its parent was listed,   *)
(* ends the walk and with it DoSync: nothing is sent.                         *)
ReadDirSkips ==
    /\ phase = "walk" /\ stack # <<>>
    /\ stack' = Pop(stack)
    /\ unread' = unread \cup {Top(stack)}
    /\ UNCHANGED <<phase, made, dirList, fileList, path, fid, fidPathMap, receiverVars>>

ReadDirFails ==
    /\ phase = "walk" /\ stack # <<>>
    /\ phase' = "aborted"
    /\ unread' = unread \cup {Top(stack)}
    /\ UNCHANGED <<made, dirList, fileList, stack, path, fid, fidPathMap, receiverVars>>

(* The whole tree is marshalled and sent, FileListCheck begins.               *)
SendDirInfo ==
    /\ phase = "walk" /\ stack = <<>>
    /\ phase' = "check"
    /\ rStack' = <<Root>>
    /\ UNCHANGED <<senderVars, visitedMap, pathStack, checked>>

-----------------------------------------------------------------------------
(* The loop over pathStack from its back: a directory goes when every child   *)
(* of it is in visited, and the first that stays ends the loop.               *)
HasUnvisited(d, visited) == \E c \in Children(d) : c \notin visited
Waiting(s, visited) == {j \in 1..Len(s) : HasUnvisited(s[j], visited)}
Last(I) == CHOOSE j \in I : \A other \in I : other <= j

DropLeafOnly(s, visited) == Pop(s)
DropVisited(s, visited) ==
    IF Waiting(s, visited) = {} THEN <<>> ELSE SubSeq(s, 1, Last(Waiting(s, visited)))

(* One turn of FileListCheck's loop.                                          *)
CheckDir ==
    /\ phase = "check" /\ rStack # <<>>
    /\ LET ds      == Top(rStack)
           entered == Append(pathStack, ds)
       IN  /\ visitedMap' = visitedMap \cup {ds}
           /\ checked' = checked \cup Named(entered, fileList[ds])
           /\ pathStack' = IF dirList[ds] = <<>> THEN DropVisited(entered, visitedMap')
                                                 ELSE entered
           /\ rStack' = Pop(rStack) \o dirList[ds]
    /\ UNCHANGED <<phase, senderVars>>

(* The list is complete: RemoveFiles and the reply may begin.                 *)
FileListChecked ==
    /\ phase = "check" /\ rStack = <<>>
    /\ phase' = "checked"
    /\ UNCHANGED <<senderVars, receiverVars>>

Stopped == phase \in {"aborted", "checked"}
Finished == Stopped /\ UNCHANGED vars

Next ==
    \/ \E k \in 0..(MaxDirs - made), n \in 0..MaxFiles : ReadDir(k, n)
    \/ ReadDirFails \/ SendDirInfo
    \/ CheckDir \/ FileListChecked
    \/ Finished

Spec == Init /\ [][Next]_vars

-----------------------------------------------------------------------------
(* A fid stands for one path, and both sides mean the same: the path that     *)
(* FileListCheck derives from pathStack is the one ReadDirInfo recorded,      *)
(* whatever the shape of the tree.  Otherwise one file is rebuilt from        *)
(* another's patches, and pathMap protects the wrong names from RemoveFiles.  *)
PathsAgree ==
    /\ checked \subseteq fidPathMap
    /\ \A x, y \in fidPathMap : x[1] = y[1] => x = y

(* RemoveFiles deletes what is not in the list.  When it may begin, the list  *)
(* has every file the sender found and every directory of it was read: a      *)
(* partial listing never reaches the receiver.                                *)
ListingIsWhole == phase = "checked" => checked = fidPathMap /\ unread = {}
=============================================================================
