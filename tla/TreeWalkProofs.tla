--------------------------- MODULE TreeWalkProofs ---------------------------
(***************************************************************************)
(* Theorems about TreeWalk for every tree.                                 *)
(*                                                                         *)
(* The pop rule of FileListCheck looks at visited children only; that      *)
(* pathStack is nevertheless the path of the next directory follows from   *)
(* the order of rStack: depths do not decrease towards its top, so that    *)
(* the deepest directory of pathStack with a child still to come is the    *)
(* parent of that top.                                                     *)
(***************************************************************************)
EXTENDS TreeWalk, SequenceTheorems, FiniteSetTheorems, TLAPS

Made == 1..made
Elements(s) == {s[j] : j \in 1..Len(s)}
Distinct(s) == \A a, b \in 1..Len(s) : s[a] = s[b] => a = b

Depth(c) == Len(path[c])

(* ReadDirInfo has made a tree: a DirStruct is listed once, under one parent, *)
(* and its path is its parent's with its own name behind it.                  *)
ListedOnce ==
    /\ \A d \in Dirs \ Made : dirList[d] = <<>> /\ fileList[d] = {}
    /\ \A d \in Dirs : Distinct(dirList[d])
    /\ \A d, e \in Dirs : Children(d) \cap Children(e) # {} => d = e

PathsLeadDown ==
    /\ Depth(Root) = 1
    /\ \A d \in Made :
           /\ path[d] # <<>> /\ path[d][1] = Root /\ path[d][Depth(d)] = d
           /\ \A j \in 1..(Depth(d) - 1) : path[d][j + 1] \in Children(path[d][j])
    /\ \A d \in Dirs : \A c \in Children(d) :
           /\ c \in (d + 1)..made
           /\ Depth(c) = Depth(d) + 1
           /\ \A m \in 1..Depth(d) : path[c][m] = path[d][m]

TreeInv == ListedOnce /\ PathsLeadDown

StackInv ==
    /\ \A j \in 1..Len(stack) :
           stack[j] \in Made /\ dirList[stack[j]] = <<>> /\ fileList[stack[j]] = {}
    /\ Distinct(stack)

(* The sender's table has the files of the tree, under their numbers.         *)
FidInv ==
    /\ \A d \in Dirs : Named(path[d], fileList[d]) \subseteq fidPathMap
    /\ \A x \in fidPathMap : x[1] < fid
                             /\ \E d \in Made : x \in Named(path[d], fileList[d])
    /\ \A x, y \in fidPathMap : x[1] = y[1] => x = y

(* FileListCheck has not begun.                                               *)
NotBegun ==
    rStack = <<>> /\ visitedMap = {} /\ pathStack = <<>> /\ checked = {}

(* pathStack is a chain from the root.                                        *)
ChainInv ==
    \A n \in 1..Len(pathStack) :
        /\ pathStack[n] \in visitedMap /\ Depth(pathStack[n]) = n
        /\ \A m \in 1..n : path[pathStack[n]][m] = pathStack[m]

(* Each directory that is still to come is a child of one on pathStack, the   *)
(* deepest come first, and the next one is a child of the last.               *)
PendingInv ==
    /\ \A j \in 1..Len(rStack) :
           /\ rStack[j] \in Made \ visitedMap
           /\ Depth(rStack[j]) <= Len(pathStack) + 1
           /\ \A m \in 1..(Depth(rStack[j]) - 1) : path[rStack[j]][m] = pathStack[m]
    /\ \A a, b \in 1..Len(rStack) : a <= b => Depth(rStack[a]) <= Depth(rStack[b])
    /\ Distinct(rStack)
    /\ rStack # <<>> => Depth(Top(rStack)) = Len(pathStack) + 1

(* What has been visited and what is still to come: nothing is forgotten.     *)
VisitInv ==
    /\ visitedMap \subseteq Made
    /\ Root \in visitedMap \/ rStack = <<Root>>
    /\ \A d \in Dirs : \A c \in Children(d) :
           IF d \in visitedMap THEN c \in visitedMap \cup Elements(rStack)
                               ELSE c \notin visitedMap \cup Elements(rStack)
    /\ \A c \in Made \ visitedMap : Elements(path[c]) \cap Elements(rStack) # {}

CheckedInv ==
    /\ \A d \in visitedMap : Named(path[d], fileList[d]) \subseteq checked
    /\ checked \subseteq fidPathMap

PhaseInv ==
    /\ phase \in {"walk", "aborted"} => NotBegun
    /\ phase \in {"check", "checked"} => ChainInv /\ PendingInv /\ VisitInv
                                     /\ CheckedInv /\ unread = {}
    /\ phase = "walk" => unread = {}
    /\ phase = "checked" => rStack = <<>>

Inv == TypeOK /\ TreeInv /\ StackInv /\ FidInv /\ PhaseInv

-----------------------------------------------------------------------------
LEMMA InitInv == Init => Inv
<1> SUFFICES ASSUME Init PROVE Inv
    OBVIOUS
<1> USE TreeAssumption DEF Init, FirstFid
<1>1. TypeOK
    BY DEF TypeOK, Dirs, Root, Paths
<1>2. TreeInv
    BY DEF TreeInv, ListedOnce, PathsLeadDown, Dirs, Root, Made, Depth, Children, Distinct
<1>3. StackInv
    BY DEF StackInv, Dirs, Root, Made, Distinct
<1>4. FidInv
    BY DEF FidInv, Named, Dirs
<1>5. PhaseInv
    BY DEF PhaseInv, NotBegun
<1>6. QED
    BY <1>1, <1>2, <1>3, <1>4, <1>5 DEF Inv

(* A beginning of a sequence, and a sequence with one more at its end.        *)
LEMMA Prefix ==
    ASSUME NEW S, NEW s \in Seq(S), NEW n \in 0..Len(s)
    PROVE  /\ SubSeq(s, 1, n) \in Seq(S) /\ Len(SubSeq(s, 1, n)) = n
           /\ \A i \in 1..n : SubSeq(s, 1, n)[i] = s[i]
<1>1. Len(s) \in Nat /\ \A i \in 1..Len(s) : s[i] \in S
    OBVIOUS
<1>2. 1 \in Int /\ n \in Int /\ n \in Nat /\ \A i \in 1..n : s[i] \in S
    BY <1>1
<1>3. /\ SubSeq(s, 1, n) \in Seq(S)
      /\ Len(SubSeq(s, 1, n)) = IF 1 <= n THEN n - 1 + 1 ELSE 0
      /\ \A i \in 1..(n - 1 + 1) : SubSeq(s, 1, n)[i] = s[1 + i - 1]
    BY ONLY <1>2, SubSeqProperties
<1>4. QED
    BY <1>2, <1>3

LEMMA Joined ==
    ASSUME NEW S, NEW s \in Seq(S), NEW t \in Seq(S)
    PROVE  /\ s \o t \in Seq(S) /\ Len(s \o t) = Len(s) + Len(t)
           /\ \A j \in 1..Len(s) : (s \o t)[j] = s[j]
           /\ \A j \in 1..Len(t) : (s \o t)[Len(s) + j] = t[j]
           /\ \A j \in 1..Len(s \o t) : j \in 1..Len(s) \/ j - Len(s) \in 1..Len(t)
           /\ Elements(s \o t) = Elements(s) \cup Elements(t)
           /\ Distinct(s) /\ Distinct(t) /\ Elements(s) \cap Elements(t) = {} => Distinct(s \o t)
<1> DEFINE r == s \o t
<1>1. Len(s) \in Nat /\ Len(t) \in Nat
    OBVIOUS
<1>2. /\ r \in Seq(S) /\ Len(r) = Len(s) + Len(t)
      /\ \A j \in 1..(Len(s) + Len(t)) :
             r[j] = IF j <= Len(s) THEN s[j] ELSE t[j - Len(s)]
    BY ONLY s \in Seq(S), t \in Seq(S), ConcatProperties
<1> HIDE DEF r
<1>4. \A j \in 1..Len(t) : Len(s) + j \in 1..Len(r)
    BY <1>1, <1>2
<1>3. /\ \A j \in 1..Len(s) : r[j] = s[j]
      /\ \A j \in 1..Len(t) : r[Len(s) + j] = t[j]
      /\ \A j \in 1..Len(r) : j \in 1..Len(s) \/ j - Len(s) \in 1..Len(t)
    <2>1. \A j \in 1..Len(s) : r[j] = s[j]
        BY <1>1, <1>2
    <2>2. ASSUME NEW j \in 1..Len(t) PROVE r[Len(s) + j] = t[j]
        <3>1. /\ Len(s) + j \in 1..(Len(s) + Len(t)) /\ ~(Len(s) + j <= Len(s))
              /\ Len(s) + j - Len(s) = j
            BY <1>1
        <3>2. QED
            BY <3>1, <1>2
    <2>3. \A j \in 1..Len(r) : j \in 1..Len(s) \/ j - Len(s) \in 1..Len(t)
        BY <1>1, <1>2
    <2>4. QED
        BY <2>1, <2>2, <2>3
<1>5. Elements(r) = Elements(s) \cup Elements(t)
    <2>1. Elements(r) \subseteq Elements(s) \cup Elements(t)
        <3> SUFFICES ASSUME NEW j \in 1..Len(r) PROVE r[j] \in Elements(s) \cup Elements(t)
            BY DEF Elements
        <3>1. CASE j <= Len(s)
            BY <3>1, <1>1, <1>2 DEF Elements
        <3>2. CASE ~(j <= Len(s))
            <4>1. j - Len(s) \in 1..Len(t) /\ r[j] = t[j - Len(s)]
                BY <3>2, <1>1, <1>2
            <4>2. QED
                BY <4>1 DEF Elements
        <3>3. QED
            BY <3>1, <3>2
    <2>2. Elements(s) \subseteq Elements(r)
        BY <1>1, <1>2, <1>3 DEF Elements
    <2>3. Elements(t) \subseteq Elements(r)
        <3> SUFFICES ASSUME NEW j \in 1..Len(t) PROVE t[j] \in Elements(r)
            BY DEF Elements
        <3>1. Len(s) + j \in 1..Len(r) /\ r[Len(s) + j] = t[j]
            BY <1>3, <1>4
        <3>2. QED
            BY <3>1 DEF Elements
    <2>4. QED
        BY <2>1, <2>2, <2>3
<1>6. ASSUME Distinct(s), Distinct(t), Elements(s) \cap Elements(t) = {}
      PROVE  Distinct(r)
    <2> SUFFICES ASSUME NEW a \in 1..Len(r), NEW b \in 1..Len(r), r[a] = r[b] PROVE a = b
        BY DEF Distinct
    <2>1. a \in Int /\ b \in Int
        BY <1>1, <1>2
    <2>2. CASE a \in 1..Len(s) /\ b \in 1..Len(s)
        BY <2>2, <1>3, <1>6 DEF Distinct
    <2>3. ASSUME NEW x \in 1..Len(r), x \notin 1..Len(s)
          PROVE  x - Len(s) \in 1..Len(t) /\ r[x] = t[x - Len(s)] /\ r[x] \in Elements(t)
        <3>1. x - Len(s) \in 1..Len(t) /\ x \in 1..(Len(s) + Len(t)) /\ ~(x <= Len(s))
            BY <2>3, <1>1, <1>2
        <3>2. r[x] = t[x - Len(s)]
            BY <3>1, <1>2
        <3>3. QED
            BY <3>1, <3>2 DEF Elements
    <2>4. ASSUME NEW x \in 1..Len(s) PROVE r[x] \in Elements(s)
        BY <1>3 DEF Elements
    <2>5. CASE a \notin 1..Len(s) /\ b \notin 1..Len(s)
        <3>1. /\ a - Len(s) \in 1..Len(t) /\ b - Len(s) \in 1..Len(t)
              /\ t[a - Len(s)] = t[b - Len(s)]
            BY <2>3, <2>5
        <3>2. a - Len(s) = b - Len(s)
            BY <3>1, <1>6 DEF Distinct
        <3>3. QED
            BY <3>2, <2>1, <1>1
    <2>6. QED
        BY <2>2, <2>3, <2>4, <2>5, <1>6
<1>7. QED
    BY <1>2, <1>3, <1>5, <1>6 DEF r

(* The stack of either walk: its top is taken off.                            *)
LEMMA Popped ==
    ASSUME NEW s \in Seq(Dirs), s # <<>>
    PROVE  /\ Len(s) - 1 \in Nat /\ Len(s) \in 1..Len(s) /\ Top(s) \in Dirs
           /\ Pop(s) \in Seq(Dirs) /\ Len(Pop(s)) = Len(s) - 1
           /\ \A j \in 1..(Len(s) - 1) : Pop(s)[j] = s[j]
           /\ Elements(s) = Elements(Pop(s)) \cup {Top(s)}
           /\ Distinct(s) => Distinct(Pop(s)) /\ Top(s) \notin Elements(Pop(s))
<1> DEFINE p == Pop(s)
<1>1. Len(s) \in Nat \ {0} /\ Len(s) \in 1..Len(s) /\ Top(s) \in Dirs
    BY EmptySeq, ElementOfSeq DEF Top
<1>2. Len(s) - 1 \in 0..Len(s) /\ Len(s) - 1 \in Nat
    BY <1>1
<1>3. p \in Seq(Dirs) /\ Len(p) = Len(s) - 1 /\ \A j \in 1..(Len(s) - 1) : p[j] = s[j]
    BY ONLY <1>2, s \in Seq(Dirs), Prefix DEF Pop
<1> HIDE DEF p
<1>4. Elements(s) = Elements(p) \cup {Top(s)}
    BY <1>1, <1>3 DEF Elements, Top
<1>5. Distinct(s) => Distinct(p) /\ Top(s) \notin Elements(p)
    BY <1>1, <1>3 DEF Elements, Distinct, Top
<1>6. QED
    BY <1>1, <1>2, <1>3, <1>4, <1>5 DEF p

-----------------------------------------------------------------------------
(* A turn of ReadDirInfo's loop.                                              *)
LEMMA ReadDirInv ==
    ASSUME Inv, NEW k \in 0..(MaxDirs - made), NEW n \in 0..MaxFiles, ReadDir(k, n)
    PROVE  Inv'
<1> DEFINE d0    == Top(stack)
           found == [j \in 1..k |-> made + j]
           files == fid..(fid + n - 1)
           new   == (made + 1)..(made + k)
           ch(d) == {dirList'[d][j] : j \in 1..Len(dirList'[d])}
<1>t. TypeOK /\ TreeInv /\ StackInv /\ FidInv /\ PhaseInv
    BY DEF Inv
<1>0. /\ MaxDirs \in Nat \ {0} /\ MaxFiles \in Nat /\ made \in 1..MaxDirs /\ fid \in Nat \ {0}
      /\ k \in Nat /\ n \in Nat /\ made + k \in 1..MaxDirs
    BY <1>t, TreeAssumption DEF TypeOK, Dirs
<1>1. /\ phase = "walk" /\ phase' = "walk" /\ stack # <<>> /\ stack \in Seq(Dirs)
      /\ NotBegun /\ unread = {}
    BY <1>t DEF ReadDir, PhaseInv, TypeOK
<1>2. /\ stack' = Pop(stack) \o found
      /\ dirList' = [dirList EXCEPT ![d0] = found]
      /\ fileList' = [fileList EXCEPT ![d0] = files]
      /\ path' = [d \in Dirs |-> IF d \in new THEN Append(path[d0], d) ELSE path[d]]
      /\ fidPathMap' = fidPathMap \cup Named(path[d0], files)
      /\ made' = made + k /\ fid' = fid + n
      /\ UNCHANGED <<unread, receiverVars>>
    BY DEF ReadDir
<1>3. /\ found \in Seq(Dirs) /\ Len(found) = k /\ \A j \in 1..k : found[j] = made + j
      /\ Elements(found) = new /\ Distinct(found)
    <2>1. \A j \in 1..k : made + j \in Dirs
        BY <1>0 DEF Dirs
    <2>2. found \in Seq(Dirs) /\ Len(found) = k /\ \A j \in 1..k : found[j] = made + j
        BY <2>1, <1>0
    <2>3. \A x \in new : x - made \in 1..k /\ made + (x - made) = x
        BY <1>0
    <2>4. Elements(found) = new
        <3> HIDE DEF found
        <3> QED
            BY <2>2, <2>3, <1>0 DEF Elements
    <2>5. Distinct(found)
        BY <2>2, <1>0 DEF Distinct
    <2>6. QED
        BY <2>2, <2>4, <2>5
<1> HIDE DEF found
<1>4. /\ Len(stack) - 1 \in Nat /\ d0 \in Dirs
      /\ Pop(stack) \in Seq(Dirs) /\ Elements(stack) = Elements(Pop(stack)) \cup {d0}
      /\ Distinct(Pop(stack)) /\ d0 \notin Elements(Pop(stack)) /\ Distinct(stack)
    BY <1>1, <1>t, Popped DEF StackInv
<1>5. Elements(stack) \subseteq Made
      /\ \A x \in Elements(stack) : dirList[x] = <<>> /\ fileList[x] = {}
    BY <1>t DEF StackInv, Elements
<1>6. d0 \in Made /\ dirList[d0] = <<>> /\ fileList[d0] = {} /\ Children(d0) = {}
    BY <1>4, <1>5 DEF Children
<1>7. Made' = Made \cup new /\ Made \cap new = {} /\ Made \subseteq Dirs /\ new \subseteq Dirs
      /\ Made' = 1..(made + k)
    BY <1>0, <1>2 DEF Made, Dirs
<1>8. /\ \A d \in Dirs : dirList'[d] = IF d = d0 THEN found ELSE dirList[d]
      /\ \A d \in Dirs : fileList'[d] = IF d = d0 THEN files ELSE fileList[d]
      /\ \A d \in Dirs : path'[d] = IF d \in new THEN Append(path[d0], d) ELSE path[d]
    BY <1>2, <1>4, <1>t DEF TypeOK
<1>9. \A d \in Dirs : ch(d) = IF d = d0 THEN new ELSE Children(d)
    BY <1>3, <1>8 DEF Children, Elements
<1> HIDE DEF ch
<1>10. /\ \A d \in Dirs : path[d] \in Seq(Dirs) /\ Depth(d) \in Nat
       /\ Depth(d0) \in Nat \ {0}
    <2>1. \A d \in Dirs : path[d] \in Seq(Dirs) /\ Depth(d) \in Nat
        BY <1>t DEF TypeOK, Depth
    <2>2. path[d0] # <<>>
        BY <1>6, <1>t DEF TreeInv, PathsLeadDown
    <2>3. QED
        BY <2>1, <2>2, <1>4, EmptySeq DEF Depth
<1>11. /\ \A d \in Dirs \ new : path'[d] = path[d] /\ Depth(d)' = Depth(d)
       /\ \A d \in new : /\ path'[d] \in Seq(Dirs) /\ Depth(d)' = Depth(d0) + 1
                         /\ path'[d][Depth(d0) + 1] = d
                         /\ \A m \in 1..Depth(d0) : path'[d][m] = path[d0][m]
    <2>1. \A d \in Dirs \ new : path'[d] = path[d] /\ Depth(d)' = Depth(d)
        BY <1>8 DEF Depth
    <2>2. ASSUME NEW d \in new
          PROVE  /\ path'[d] \in Seq(Dirs) /\ Depth(d)' = Depth(d0) + 1
                 /\ path'[d][Depth(d0) + 1] = d
                 /\ \A m \in 1..Depth(d0) : path'[d][m] = path[d0][m]
        <3>1. d \in Dirs /\ path'[d] = Append(path[d0], d) /\ path[d0] \in Seq(Dirs)
            BY <1>7, <1>8, <1>10, <1>4
        <3>2. /\ Append(path[d0], d) \in Seq(Dirs)
              /\ Len(Append(path[d0], d)) = Len(path[d0]) + 1
              /\ Append(path[d0], d)[Len(path[d0]) + 1] = d
              /\ \A m \in 1..Len(path[d0]) : Append(path[d0], d)[m] = path[d0][m]
            BY <3>1
        <3>3. QED
            BY <3>1, <3>2 DEF Depth
    <2>3. QED
        BY <2>1, <2>2
<1>12. files \subseteq Nat \ {0}
    BY <1>0
<1>13. stack' \in Seq(Dirs) /\ Elements(stack') = Elements(Pop(stack)) \cup new /\ Distinct(stack')
    <2>1. Elements(Pop(stack)) \cap Elements(found) = {}
        BY <1>3, <1>4, <1>5, <1>7
    <2>2. QED
        <3>1. Pop(stack) \in Seq(Dirs) /\ found \in Seq(Dirs)
            BY <1>3, <1>4
        <3>2. LET r == Pop(stack) \o found IN
                /\ r \in Seq(Dirs) /\ Elements(r) = Elements(Pop(stack)) \cup Elements(found)
                /\ Distinct(Pop(stack)) /\ Distinct(found)
                   /\ Elements(Pop(stack)) \cap Elements(found) = {} => Distinct(r)
            BY ONLY <3>1, Joined
        <3>3. QED
            BY <3>2, <2>1, <1>2, <1>3, <1>4
<1>a. TypeOK'
    <2>1. dirList' \in [Dirs -> Seq(Dirs)] /\ fileList' \in [Dirs -> SUBSET (Nat \ {0})]
        BY <1>2, <1>3, <1>4, <1>12, <1>t DEF TypeOK
    <2>2. path' \in [Dirs -> Seq(Dirs)]
        BY <1>2, <1>8, <1>10, <1>11
    <2>3. path[d0] \in Paths
        <3>1. path[d0] \in Seq(Dirs) /\ Dirs \subseteq Nat
            BY <1>10, <1>4 DEF Dirs
        <3>2. QED
            BY <3>1, SeqMonotonic DEF Paths
    <2>4. \A f \in files : Append(path[d0], f) \in Paths
        BY <2>3, <1>12 DEF Paths
    <2>5. fidPathMap' \in SUBSET (Nat \X Paths)
        <3>1. fidPathMap \subseteq Nat \X Paths
            BY <1>t DEF TypeOK
        <3>2. Named(path[d0], files) \subseteq Nat \X Paths
            <4>1. \A f \in files : f \in Nat /\ Append(path[d0], f) \in Paths
                BY <1>12, <2>4
            <4>2. SUFFICES ASSUME NEW x \in Named(path[d0], files) PROVE x \in Nat \X Paths
                OBVIOUS
            <4>3. PICK f \in files : x = <<f, Append(path[d0], f)>>
                BY DEF Named
            <4>4. QED
                BY <4>1, <4>3
        <3>3. QED
            BY <3>1, <3>2, <1>2
    <2>6. made' \in Dirs /\ fid' \in Nat \ {0}
        BY <1>0, <1>2 DEF Dirs
    <2>7. QED
        BY <1>1, <1>2, <1>13, <2>1, <2>2, <2>5, <2>6, <1>t DEF TypeOK, receiverVars
<1>b. ListedOnce'
    <2>0. ListedOnce
        BY <1>t DEF TreeInv
    <2>1. \A d \in Dirs \ Made' : dirList'[d] = <<>> /\ fileList'[d] = {}
        BY <2>0, <1>6, <1>7, <1>8 DEF ListedOnce
    <2>2. \A d \in Dirs : Distinct(dirList'[d])
        BY <2>0, <1>3, <1>8 DEF ListedOnce
    <2>3. \A d \in Dirs : Children(d) \subseteq Made
        BY <1>t, <1>0 DEF TreeInv, PathsLeadDown, Made, Dirs
    <2>4. \A d, e \in Dirs : ch(d) \cap ch(e) # {} => d = e
        <3>1. \A d, e \in Dirs : Children(d) \cap Children(e) # {} => d = e
            BY <2>0 DEF ListedOnce
        <3>2. \A d \in Dirs : Children(d) \cap new = {}
            BY <2>3, <1>7
        <3> HIDE DEF new
        <3>3. QED
            BY <3>1, <3>2, <1>9
    <2>5. QED
        BY <2>1, <2>2, <2>4 DEF ListedOnce, Children, ch
<1>c. PathsLeadDown'
    <2>0. PathsLeadDown
        BY <1>t DEF TreeInv
    <2>1. Depth(Root)' = 1
        <3>1. Root \in Dirs \ new
            BY <1>0 DEF Root, Dirs
        <3>2. Depth(Root)' = Depth(Root)
            BY <3>1, <1>11
        <3>3. QED
            BY <3>2, <2>0 DEF PathsLeadDown
    <2>2. ASSUME NEW d \in Made'
          PROVE  /\ path'[d] # <<>> /\ path'[d][1] = Root /\ path'[d][Depth(d)'] = d
                 /\ \A j \in 1..(Depth(d)' - 1) : path'[d][j + 1] \in ch(path'[d][j])
        <3>1. CASE d \in Made
            <4>1. path'[d] = path[d] /\ Depth(d)' = Depth(d) /\ d \in Dirs
                BY <3>1, <1>7, <1>11
            <4>2. ASSUME NEW j \in 1..(Depth(d) - 1)
                  PROVE  path'[d][j + 1] \in ch(path'[d][j])
                <5>1. path[d][j] \in Dirs /\ path[d][j + 1] \in Children(path[d][j])
                    BY <4>1, <3>1, <2>0, <1>10 DEF PathsLeadDown, Depth
                <5>2. QED
                    BY <5>1, <4>1, <1>6, <1>9
            <4>3. QED
                BY <4>1, <4>2, <3>1, <2>0 DEF PathsLeadDown
        <3>2. CASE d \in new
            <4>1. /\ path'[d] \in Seq(Dirs) /\ Depth(d)' = Depth(d0) + 1
                  /\ path'[d][Depth(d0) + 1] = d
                  /\ \A m \in 1..Depth(d0) : path'[d][m] = path[d0][m]
                BY <3>2, <1>11
            <4>2. path'[d] # <<>>
                BY <4>1, <1>10 DEF Depth
            <4>3. path'[d][1] = Root
                BY <4>1, <1>10, <1>6, <2>0 DEF PathsLeadDown
            <4>4. ASSUME NEW j \in 1..Depth(d0)
                  PROVE  path'[d][j + 1] \in ch(path'[d][j])
                <5>1. path[d0][j] \in Dirs /\ path'[d][j] = path[d0][j]
                    BY <4>1, <1>10, <1>4 DEF Depth
                <5>2. CASE j = Depth(d0)
                    <6>1. path[d0][j] = d0 /\ path'[d][j + 1] = d
                        BY <5>2, <4>1, <1>6, <2>0 DEF PathsLeadDown
                    <6>2. QED
                        BY <6>1, <5>1, <3>2, <1>9
                <5>3. CASE j # Depth(d0)
                    <6>1. j \in 1..(Depth(d0) - 1) /\ j + 1 \in 1..Depth(d0)
                        BY <5>3, <1>10
                    <6>2. path[d0][j + 1] \in Children(path[d0][j])
                        BY <6>1, <1>6, <2>0 DEF PathsLeadDown
                    <6>3. path'[d][j + 1] = path[d0][j + 1]
                        BY <6>1, <4>1
                    <6>4. path[d0][j] # d0
                        BY <6>2, <1>6
                    <6>5. QED
                        BY <6>2, <6>3, <6>4, <5>1, <1>9
                <5>4. QED
                    BY <5>2, <5>3
            <4>5. Depth(d)' - 1 = Depth(d0)
                BY <4>1, <1>10
            <4>6. QED
                BY <4>1, <4>2, <4>3, <4>4, <4>5
        <3>3. QED
            BY <3>1, <3>2, <1>7
    <2>3. ASSUME NEW d \in Dirs, NEW c \in ch(d)
          PROVE  /\ c \in (d + 1)..made' /\ Depth(c)' = Depth(d)' + 1
                 /\ \A m \in 1..Depth(d)' : path'[c][m] = path'[d][m]
        <3>1. CASE d = d0
            <4>1. c \in new /\ d \in Made /\ d \notin new
                BY <3>1, <1>6, <1>7, <1>9
            <4>2. c \in (d + 1)..made'
                BY <4>1, <1>0, <1>2 DEF Made
            <4>3. QED
                BY <3>1, <4>1, <4>2, <1>7, <1>11
        <3>2. CASE d # d0
            <4>1. /\ c \in Children(d) /\ c \in (d + 1)..made /\ Depth(c) = Depth(d) + 1
                  /\ \A m \in 1..Depth(d) : path[c][m] = path[d][m]
                BY <3>2, <1>9, <2>0 DEF PathsLeadDown
            <4>2. c \in Made /\ c \in (d + 1)..made' /\ d \in Made
                BY <4>1, <1>0, <1>2 DEF Made, Dirs
            <4>3. QED
                BY <4>1, <4>2, <1>7, <1>11
        <3>3. QED
            BY <3>1, <3>2
    <2>4. QED
        BY <2>1, <2>2, <2>3 DEF PathsLeadDown, Children, ch
<1>d. StackInv'
    <2>1. \A x \in Elements(stack') : x \in Made' /\ dirList'[x] = <<>> /\ fileList'[x] = {}
        <3>1. ASSUME NEW x \in Elements(Pop(stack))
              PROVE  x \in Made' /\ dirList'[x] = <<>> /\ fileList'[x] = {}
            BY <1>4, <1>5, <1>7, <1>8
        <3>2. ASSUME NEW x \in new
              PROVE  x \in Made' /\ dirList'[x] = <<>> /\ fileList'[x] = {}
            BY <1>t, <1>6, <1>7, <1>8 DEF TreeInv, ListedOnce
        <3>3. QED
            BY <3>1, <3>2, <1>13
    <2>2. QED
        BY <2>1, <1>13 DEF StackInv, Elements
<1>e. FidInv'
    <2>0. FidInv
        BY <1>t
    <2>1. \A d \in Made : path'[d] = path[d]
        BY <1>7, <1>11
    <2>2. \A d \in Dirs : Named(path[d], fileList[d])' =
                IF d = d0 THEN Named(path[d0], files)
                ELSE IF d \in Made THEN Named(path[d], fileList[d]) ELSE {}
        <3>1. \A d \in Dirs \ Made : d # d0 => fileList'[d] = {}
            BY <1>t, <1>6, <1>8 DEF TreeInv, ListedOnce
        <3>2. ASSUME NEW d \in Dirs
              PROVE  Named(path[d], fileList[d])' =
                         IF d = d0 THEN Named(path[d0], files)
                         ELSE IF d \in Made THEN Named(path[d], fileList[d]) ELSE {}
            <4>1. Named(path[d], fileList[d])' = Named(path'[d], fileList'[d])
                BY DEF Named
            <4>2. CASE d = d0
                BY <4>1, <4>2, <2>1, <1>6, <1>8
            <4>3. CASE d # d0 /\ d \in Made
                BY <4>1, <4>3, <2>1, <1>8
            <4>4. CASE d # d0 /\ d \notin Made
                <5>1. fileList'[d] = {}
                    BY <4>4, <3>1
                <5>2. QED
                    BY <4>1, <4>4, <5>1 DEF Named
            <4>5. QED
                BY <4>2, <4>3, <4>4
        <3>3. QED
            BY <3>2
    <2>3. \A d \in Dirs : Named(path[d], fileList[d])' \subseteq fidPathMap'
        BY <2>0, <2>2, <1>2 DEF FidInv
    <2>4. \A x \in Named(path[d0], files) : x[1] \in files
        BY DEF Named
    <2>5. ASSUME NEW x \in fidPathMap'
          PROVE  x[1] < fid' /\ \E d \in Made' : x \in Named(path[d], fileList[d])'
        <3>1. CASE x \in fidPathMap
            <4>1. x[1] \in Nat /\ x[1] < fid
                BY <3>1, <2>0, <1>t DEF TypeOK, FidInv
            <4>2. PICK d \in Made : x \in Named(path[d], fileList[d])
                BY <3>1, <2>0 DEF FidInv
            <4>3. d # d0
                BY <4>2, <1>6 DEF Named
            <4>4. QED
                BY <4>1, <4>2, <4>3, <2>2, <1>0, <1>2, <1>7
        <3>2. CASE x \in Named(path[d0], files)
            <4>1. x[1] < fid'
                BY <3>2, <2>4, <1>0, <1>2
            <4>2. QED
                BY <3>2, <4>1, <2>2, <1>6, <1>7
        <3>3. QED
            BY <3>1, <3>2, <1>2
    <2>6. ASSUME NEW x \in fidPathMap', NEW y \in fidPathMap', x[1] = y[1]
          PROVE  x = y
        <3>1. CASE x \in fidPathMap /\ y \in fidPathMap
            BY <3>1, <2>6, <2>0 DEF FidInv
        <3>2. CASE x \in Named(path[d0], files) /\ y \in Named(path[d0], files)
            <4>1. \A z \in Named(path[d0], files) : z = <<z[1], Append(path[d0], z[1])>>
                BY DEF Named
            <4>2. QED
                BY <4>1, <3>2, <2>6
        <3>3. \A z \in fidPathMap : z[1] \in Nat /\ z[1] < fid
            BY <2>0, <1>t DEF TypeOK, FidInv
        <3>4. \A z \in Named(path[d0], files) : z[1] \in Int /\ z[1] >= fid
            BY <2>4, <1>0
        <3>5. QED
            BY <3>1, <3>2, <3>3, <3>4, <2>6, <1>0, <1>2
    <2>7. QED
        BY <2>3, <2>5, <2>6 DEF FidInv
<1>f. PhaseInv'
    BY <1>1, <1>2 DEF PhaseInv, NotBegun, receiverVars
<1>g. QED
    BY <1>a, <1>b, <1>c, <1>d, <1>e, <1>f DEF Inv, TreeInv

-----------------------------------------------------------------------------
(* The phases of the sync.                                                    *)
LEMMA TreeStays ==
    ASSUME TreeInv, made' = made, dirList' = dirList, fileList' = fileList, path' = path
    PROVE  TreeInv'
<1> DEFINE ch(d) == {dirList'[d][j] : j \in 1..Len(dirList'[d])}
<1>1. \A d : ch(d) = Children(d)
    BY DEF Children
<1> HIDE DEF ch
<1>2. Made' = Made
    BY DEF Made
<1>3. ListedOnce'
    <2>1. \A d, e \in Dirs : ch(d) \cap ch(e) # {} => d = e
        BY <1>1 DEF TreeInv, ListedOnce
    <2>2. QED
        BY <2>1, <1>2 DEF TreeInv, ListedOnce, Children, ch
<1>4. PathsLeadDown'
    <2>1. Depth(Root)' = 1
        BY DEF TreeInv, PathsLeadDown, Depth
    <2>2. ASSUME NEW d \in Made'
          PROVE  /\ path'[d] # <<>> /\ path'[d][1] = Root /\ path'[d][Depth(d)'] = d
                 /\ \A j \in 1..(Depth(d)' - 1) : path'[d][j + 1] \in ch(path'[d][j])
        BY <1>1, <1>2 DEF TreeInv, PathsLeadDown, Depth
    <2>3. ASSUME NEW d \in Dirs, NEW c \in ch(d)
          PROVE  /\ c \in (d + 1)..made' /\ Depth(c)' = Depth(d)' + 1
                 /\ \A m \in 1..Depth(d)' : path'[c][m] = path'[d][m]
        BY <1>1 DEF TreeInv, PathsLeadDown, Depth
    <2>4. QED
        BY <2>1, <2>2, <2>3 DEF PathsLeadDown, Children, ch
<1>5. QED
    BY <1>3, <1>4 DEF TreeInv

LEMMA WalkStays ==
    ASSUME StackInv, FidInv, made' = made, dirList' = dirList, fileList' = fileList,
           path' = path, stack' = stack, fid' = fid, fidPathMap' = fidPathMap
    PROVE  StackInv' /\ FidInv'
<1>1. Made' = Made
    BY DEF Made
<1>2. StackInv'
    BY <1>1 DEF StackInv
<1>3. \A d : Named(path[d], fileList[d])' = Named(path[d], fileList[d])
    BY DEF Named
<1>4. FidInv'
    <2>1. \A d \in Dirs : Named(path[d], fileList[d])' \subseteq fidPathMap'
        BY <1>3 DEF FidInv
    <2>2. \A x \in fidPathMap' : x[1] < fid'
                                 /\ \E d \in Made' : x \in Named(path[d], fileList[d])'
        BY <1>1, <1>3 DEF FidInv
    <2>3. \A x, y \in fidPathMap' : x[1] = y[1] => x = y
        BY DEF FidInv
    <2>4. QED
        BY <2>1, <2>2, <2>3 DEF FidInv
<1>5. QED
    BY <1>2, <1>4

LEMMA ReadDirFailsInv == Inv /\ ReadDirFails => Inv'
<1> SUFFICES ASSUME Inv, ReadDirFails PROVE Inv'
    OBVIOUS
<1>1. /\ phase = "walk" /\ phase' = "aborted" /\ stack # <<>>
      /\ unread' = unread \cup {Top(stack)}
      /\ UNCHANGED <<made, dirList, fileList, stack, path, fid, fidPathMap, receiverVars>>
    BY DEF ReadDirFails
<1>2. Top(stack) \in Dirs
    BY <1>1, Popped DEF Inv, TypeOK
<1>3. TypeOK'
    BY <1>1, <1>2 DEF Inv, TypeOK, receiverVars
<1>4. TreeInv'
    BY <1>1, TreeStays DEF Inv
<1>5. StackInv' /\ FidInv'
    BY <1>1, WalkStays DEF Inv
<1>6. PhaseInv'
    BY <1>1 DEF Inv, PhaseInv, NotBegun, receiverVars
<1>7. QED
    BY <1>3, <1>4, <1>5, <1>6 DEF Inv

LEMMA SendDirInfoInv == Inv /\ SendDirInfo => Inv'
<1> SUFFICES ASSUME Inv, SendDirInfo PROVE Inv'
    OBVIOUS
<1>1. /\ phase = "walk" /\ phase' = "check" /\ rStack' = <<Root>>
      /\ UNCHANGED <<senderVars, visitedMap, pathStack, checked>>
      /\ NotBegun /\ unread = {} /\ made \in Dirs /\ MaxDirs \in Nat \ {0}
    BY TreeAssumption DEF SendDirInfo, Inv, PhaseInv, TypeOK
<1>2. Root \in Dirs /\ Root \in Made
    BY <1>1 DEF Dirs, Root, Made
<1>3. /\ visitedMap' = {} /\ pathStack' = <<>> /\ checked' = {} /\ rStack' = <<Root>>
      /\ Made' = Made /\ path' = path /\ unread' = {}
      /\ \A d \in Dirs : Children(d)' = Children(d) /\ Depth(d)' = Depth(d)
    BY <1>1 DEF NotBegun, senderVars, Made, Children, Depth
<1>4. TypeOK'
    BY <1>1, <1>2 DEF Inv, TypeOK, senderVars
<1>5. TreeInv'
    BY <1>1, TreeStays DEF Inv, senderVars
<1>6. StackInv' /\ FidInv'
    BY <1>1, WalkStays DEF Inv, senderVars
<1>7. ChainInv' /\ CheckedInv'
    BY <1>3 DEF ChainInv, CheckedInv
<1>8. PathsLeadDown
    BY DEF Inv, TreeInv
<1>9. Len(<<Root>>) = 1 /\ <<Root>>[1] = Root /\ Top(<<Root>>) = Root
    BY DEF Top
<1>10. PendingInv'
    <2>1. Depth(Root)' = 1
        BY <1>2, <1>3, <1>8 DEF PathsLeadDown
    <2>2. QED
        BY <2>1, <1>2, <1>3, <1>9 DEF PendingInv, Distinct
<1>11. VisitInv'
    <2>1. Elements(<<Root>>) = {Root}
        BY <1>9 DEF Elements
    <2>2. \A d \in Dirs : \A c \in Children(d) : c # Root
        BY <1>8 DEF PathsLeadDown, Dirs, Root
    <2>3. ASSUME NEW c \in Made PROVE Root \in Elements(path[c])
        <3>1. path[c] \in Seq(Dirs) /\ path[c] # <<>> /\ path[c][1] = Root
            BY <1>1, <1>8 DEF PathsLeadDown, Made, Dirs, Inv, TypeOK
        <3>2. 1 \in 1..Len(path[c])
            BY <3>1, EmptySeq
        <3>3. QED
            BY <3>1, <3>2 DEF Elements
    <2>4. QED
        BY <2>1, <2>2, <2>3, <1>3 DEF VisitInv, Elements
<1>12. PhaseInv'
    BY <1>1, <1>3, <1>7, <1>10, <1>11 DEF PhaseInv
<1>13. QED
    BY <1>4, <1>5, <1>6, <1>12 DEF Inv

LEMMA FileListCheckedInv == Inv /\ FileListChecked => Inv'
<1> SUFFICES ASSUME Inv, FileListChecked PROVE Inv'
    OBVIOUS
<1>1. /\ phase = "check" /\ phase' = "checked" /\ rStack = <<>>
      /\ UNCHANGED <<senderVars, receiverVars>>
    BY DEF FileListChecked
<1>2. TypeOK'
    BY <1>1 DEF Inv, TypeOK, senderVars, receiverVars
<1>3. TreeInv'
    BY <1>1, TreeStays DEF Inv, senderVars
<1>4. StackInv' /\ FidInv'
    BY <1>1, WalkStays DEF Inv, senderVars
<1>5. ChainInv /\ PendingInv /\ VisitInv /\ CheckedInv /\ unread = {}
    BY <1>1 DEF Inv, PhaseInv
<1>6. ChainInv' /\ CheckedInv' /\ unread' = {}
    BY <1>1, <1>5 DEF ChainInv, CheckedInv, Depth, Named, senderVars, receiverVars
<1>7. PendingInv'
    BY <1>1, <1>5 DEF PendingInv, Depth, Made, senderVars, receiverVars
<1>8. VisitInv'
    BY <1>1, <1>5 DEF VisitInv, Children, Made, senderVars, receiverVars
<1>9. PhaseInv'
    BY <1>1, <1>6, <1>7, <1>8 DEF PhaseInv, receiverVars
<1>10. QED
    BY <1>2, <1>3, <1>4, <1>9 DEF Inv

LEMMA StutterInv == Inv /\ UNCHANGED vars => Inv'
<1> SUFFICES ASSUME Inv, UNCHANGED vars PROVE Inv'
    OBVIOUS
<1>1. TypeOK'
    BY DEF Inv, TypeOK, vars, senderVars, receiverVars
<1>2. TreeInv'
    BY TreeStays DEF Inv, vars, senderVars
<1>3. StackInv' /\ FidInv'
    BY WalkStays DEF Inv, vars, senderVars
<1>4. NotBegun => NotBegun'
    BY DEF NotBegun, vars, receiverVars
<1>5. ChainInv => ChainInv'
    BY DEF ChainInv, Depth, vars, senderVars, receiverVars
<1>6. CheckedInv => CheckedInv'
    BY DEF CheckedInv, Named, vars, senderVars, receiverVars
<1>7. PendingInv => PendingInv'
    BY DEF PendingInv, Depth, Made, vars, senderVars, receiverVars
<1>8. VisitInv => VisitInv'
    BY DEF VisitInv, Children, Made, vars, senderVars, receiverVars
<1>9. PhaseInv'
    BY <1>4, <1>5, <1>6, <1>7, <1>8 DEF Inv, PhaseInv, vars, senderVars, receiverVars
<1>10. QED
    BY <1>1, <1>2, <1>3, <1>9 DEF Inv

-----------------------------------------------------------------------------
(* A turn of FileListCheck's loop.                                            *)
LEMMA CheckDirInv == Inv /\ CheckDir => Inv'
<1> SUFFICES ASSUME Inv, CheckDir PROVE Inv'
    OBVIOUS
<1> DEFINE ds      == Top(rStack)
           entered == Append(pathStack, ds)
           rest    == Pop(rStack)
           kids    == dirList[ds]
           P       == pathStack
           seen    == visitedMap \cup {ds}
<1>t. TypeOK /\ TreeInv /\ StackInv /\ FidInv /\ PhaseInv /\ ListedOnce /\ PathsLeadDown
    BY DEF Inv, TreeInv
<1>1. /\ phase = "check" /\ phase' = "check" /\ rStack # <<>>
      /\ visitedMap' = seen /\ checked' = checked \cup Named(entered, fileList[ds])
      /\ pathStack' = IF kids = <<>> THEN DropVisited(entered, visitedMap') ELSE entered
      /\ rStack' = rest \o kids
      /\ UNCHANGED senderVars
    BY DEF CheckDir
<1>2. ChainInv /\ PendingInv /\ VisitInv /\ CheckedInv /\ unread = {}
    BY <1>1, <1>t DEF PhaseInv
<1>3. /\ Made' = Made /\ path' = path /\ dirList' = dirList /\ fileList' = fileList
      /\ fidPathMap' = fidPathMap /\ unread' = {}
      /\ made \in Nat /\ Made \subseteq Dirs
    <2>1. made \in 1..MaxDirs /\ MaxDirs \in Nat \ {0}
        BY <1>t, TreeAssumption DEF TypeOK, Dirs
    <2>2. made \in Nat /\ Made \subseteq Dirs
        BY <2>1 DEF Made, Dirs
    <2>3. QED
        BY <2>2, <1>1, <1>2 DEF senderVars, Made
<1>4. TreeInv' /\ StackInv' /\ FidInv'
    BY <1>1, <1>t, TreeStays, WalkStays DEF senderVars
<1>5. /\ Len(rStack) - 1 \in Nat /\ Len(rStack) \in 1..Len(rStack) /\ ds \in Dirs
      /\ rest \in Seq(Dirs) /\ Len(rest) = Len(rStack) - 1
      /\ \A j \in 1..Len(rest) : rest[j] = rStack[j]
      /\ Elements(rStack) = Elements(rest) \cup {ds}
      /\ Distinct(rest) /\ ds \notin Elements(rest) /\ rStack \in Seq(Dirs)
    BY <1>1, <1>2, <1>t, Popped DEF TypeOK, PendingInv
<1>6. ds = rStack[Len(rStack)] /\ ds \in Made \ visitedMap
    BY <1>2, <1>5 DEF Top, PendingInv
<1>7. P \in Seq(Dirs) /\ Len(P) \in Nat /\ visitedMap \subseteq Made /\ kids \in Seq(Dirs)
    BY <1>2, <1>5, <1>t DEF TypeOK, VisitInv
<1>8. /\ \A d \in Dirs : path[d] \in Seq(Dirs) /\ Depth(d) \in Nat
      /\ \A d \in Made : Depth(d) \in Nat \ {0}
    <2>1. \A d \in Dirs : path[d] \in Seq(Dirs) /\ Depth(d) \in Nat
        BY <1>t DEF TypeOK, Depth
    <2>2. \A d \in Made : path[d] # <<>>
        BY <1>t DEF PathsLeadDown
    <2>3. QED
        BY <2>1, <2>2, <1>3, EmptySeq DEF Depth
<1>9. /\ entered \in Seq(Dirs) /\ Len(entered) = Len(P) + 1 /\ entered[Len(P) + 1] = ds
      /\ \A m \in 1..Len(P) : entered[m] = P[m]
    BY <1>5, <1>7
<1> HIDE DEF entered, rest, ds, kids
<1>10. Depth(ds) = Len(P) + 1 /\ \A m \in 1..Len(P) : path[ds][m] = P[m]
    <2>1. Depth(ds) = Len(P) + 1
        BY <1>1, <1>2 DEF PendingInv, ds
    <2>2. \A m \in 1..(Depth(ds) - 1) : path[ds][m] = P[m]
        BY <1>2, <1>5, <1>6 DEF PendingInv
    <2>3. QED
        BY <2>1, <2>2, <1>7
(* The heart of it: the path worked out is the path of the directory.         *)
<1>11. entered = path[ds]
    <2>1. path[ds] \in Seq(Dirs) /\ Len(path[ds]) = Len(P) + 1 /\ path[ds][Len(P) + 1] = ds
        BY <1>3, <1>6, <1>8, <1>10, <1>t DEF PathsLeadDown, Depth
    <2>2. \A m \in 1..Len(entered) : entered[m] = path[ds][m]
        BY <2>1, <1>7, <1>9, <1>10
    <2>3. Len(entered) = Len(path[ds])
        BY <2>1, <1>9
    <2>4. QED
        BY ONLY <2>1, <2>2, <2>3, <1>9, SeqEqual
<1>12. /\ rStack' \in Seq(Dirs) /\ Len(rStack') = Len(rest) + Len(kids)
       /\ \A j \in 1..Len(rest) : rStack'[j] = rest[j]
       /\ \A j \in 1..Len(kids) : rStack'[Len(rest) + j] = kids[j]
       /\ \A j \in 1..Len(rStack') : j \in 1..Len(rest) \/ j - Len(rest) \in 1..Len(kids)
       /\ Elements(rStack') = Elements(rest) \cup Children(ds)
       /\ Distinct(rStack')
    <2>1. rest \in Seq(Dirs) /\ kids \in Seq(Dirs)
        BY <1>5, <1>7
    <2>2. LET r == rest \o kids IN
            /\ r \in Seq(Dirs) /\ Len(r) = Len(rest) + Len(kids)
            /\ \A j \in 1..Len(rest) : r[j] = rest[j]
            /\ \A j \in 1..Len(kids) : r[Len(rest) + j] = kids[j]
            /\ \A j \in 1..Len(r) : j \in 1..Len(rest) \/ j - Len(rest) \in 1..Len(kids)
            /\ Elements(r) = Elements(rest) \cup Elements(kids)
            /\ Distinct(rest) /\ Distinct(kids) /\ Elements(rest) \cap Elements(kids) = {}
                  => Distinct(r)
        BY ONLY <2>1, Joined
    <2>3. Elements(kids) = Children(ds)
        BY DEF Elements, Children, kids
    <2>4. Children(ds) \cap Elements(rStack) = {}
        BY <1>2, <1>5, <1>6 DEF VisitInv
    <2>5. Elements(rest) \cap Elements(kids) = {}
        BY <2>3, <2>4, <1>5
    <2>6. Distinct(kids)
        BY <1>5, <1>t DEF ListedOnce, kids
    <2>7. QED
        BY <2>2, <2>3, <2>5, <2>6, <1>1, <1>5
<1>13. \A j \in 1..Len(rest) :
           /\ rest[j] \in Made \ seen /\ Depth(rest[j]) <= Len(P) + 1
           /\ \A m \in 1..(Depth(rest[j]) - 1) : path[rest[j]][m] = P[m]
    <2> SUFFICES ASSUME NEW j \in 1..Len(rest)
                 PROVE  /\ rest[j] \in Made \ seen /\ Depth(rest[j]) <= Len(P) + 1
                        /\ \A m \in 1..(Depth(rest[j]) - 1) : path[rest[j]][m] = P[m]
        OBVIOUS
    <2>1. j \in 1..Len(rStack) /\ rest[j] = rStack[j]
        BY <1>5
    <2>2. rest[j] # ds
        BY <1>5 DEF Elements
    <2>3. QED
        BY <2>1, <2>2, <1>2 DEF PendingInv
<1>14. \A a, b \in 1..Len(rest) : a <= b => Depth(rest[a]) <= Depth(rest[b])
    BY <1>2, <1>5 DEF PendingInv
<1>15. \A c \in Children(ds) :
           /\ c \in Made \ seen /\ Depth(c) = Len(P) + 2
           /\ \A m \in 1..(Len(P) + 1) : path[c][m] = entered[m]
    <2> SUFFICES ASSUME NEW c \in Children(ds)
                 PROVE  /\ c \in Made \ seen /\ Depth(c) = Len(P) + 2
                        /\ \A m \in 1..(Len(P) + 1) : path[c][m] = entered[m]
        OBVIOUS
    <2>1. /\ c \in (ds + 1)..made /\ Depth(c) = Depth(ds) + 1
          /\ \A m \in 1..Depth(ds) : path[c][m] = path[ds][m]
        BY <1>5, <1>t DEF PathsLeadDown
    <2>2. c \in Made /\ c # ds
        BY <2>1, <1>3, <1>5 DEF Dirs, Made
    <2>3. c \notin visitedMap
        BY <1>2, <1>5, <1>6 DEF VisitInv
    <2>4. QED
        BY <2>1, <2>2, <2>3, <1>7, <1>10, <1>11
<1>16. \A n \in 1..Len(entered) :
           /\ entered[n] \in seen /\ Depth(entered[n]) = n
           /\ \A m \in 1..n : path[entered[n]][m] = entered[m]
    <2> SUFFICES ASSUME NEW n \in 1..Len(entered)
                 PROVE  /\ entered[n] \in seen /\ Depth(entered[n]) = n
                        /\ \A m \in 1..n : path[entered[n]][m] = entered[m]
        OBVIOUS
    <2>1. CASE n <= Len(P)
        BY <2>1, <1>2, <1>7, <1>9 DEF ChainInv
    <2>2. CASE n = Len(P) + 1
        BY <2>2, <1>9, <1>10, <1>11
    <2>3. QED
        BY <2>1, <2>2, <1>7, <1>9
<1>r. Root \in seen
    <2>1. CASE rStack = <<Root>>
        BY <2>1, <1>6
    <2>2. QED
        BY <2>1, <1>2 DEF VisitInv
<1>v. \A d \in seen : \A c \in Children(d) : c \in seen \cup Elements(rest) \cup Children(ds)
    <2> SUFFICES ASSUME NEW d \in seen, NEW c \in Children(d)
                 PROVE  c \in seen \cup Elements(rest) \cup Children(ds)
        OBVIOUS
    <2>1. CASE d \in visitedMap
        BY <2>1, <1>2, <1>3, <1>5, <1>7 DEF VisitInv
    <2>2. QED
        BY <2>1
<1>17. VisitInv'
    <2>2. ASSUME NEW d \in Dirs, NEW c \in Children(d)
          PROVE  IF d \in seen THEN c \in seen \cup Elements(rStack')
                               ELSE c \notin seen \cup Elements(rStack')
        <3>1. CASE d \in seen
            BY <3>1, <1>v, <1>12
        <3>3. CASE d \notin seen
            <4>1. c \notin visitedMap \cup Elements(rStack)
                BY <3>3, <1>2 DEF VisitInv
            <4>2. c \notin Children(ds)
                BY <3>3, <1>5, <1>t DEF ListedOnce
            <4>3. QED
                BY <3>3, <4>1, <4>2, <1>5, <1>12
        <3>4. QED
            BY <3>1, <3>3
    <2>3. ASSUME NEW c \in Made \ seen
          PROVE  Elements(path[c]) \cap Elements(rStack') # {}
        <3>1. PICK x : x \in Elements(path[c]) /\ x \in Elements(rStack)
            BY <1>2 DEF VisitInv
        <3>2. CASE x \in Elements(rest)
            BY <3>1, <3>2, <1>12
        <3>3. CASE x = ds
            <4>1. PICK j \in 1..Len(path[c]) : path[c][j] = ds
                BY <3>1, <3>3 DEF Elements
            <4>2. path[c][Len(path[c])] = c /\ c # ds /\ Len(path[c]) \in Nat
                BY <1>3, <1>8, <1>t DEF PathsLeadDown, Depth
            <4>3. j \in 1..(Depth(c) - 1) /\ j + 1 \in 1..Len(path[c])
                BY <4>1, <4>2 DEF Depth
            <4>4. path[c][j + 1] \in Children(ds)
                BY <4>1, <4>3, <1>t DEF PathsLeadDown
            <4>5. path[c][j + 1] \in Elements(path[c])
                BY <4>3 DEF Elements
            <4>6. QED
                BY <4>4, <4>5, <1>12
        <3>4. QED
            BY <3>1, <3>2, <3>3, <1>5
    <2>4. seen \subseteq Made
        BY <1>6, <1>7
    <2>5. \A d \in Dirs : Children(d)' = Children(d)
        BY <1>3 DEF Children
    <2>6. \A d \in Dirs : \A c \in Children(d)' :
              IF d \in seen THEN c \in seen \cup Elements(rStack')
                            ELSE c \notin seen \cup Elements(rStack')
        BY <2>2, <2>5
    <2>7. /\ Elements(rStack)' = Elements(rStack')
          /\ \A c : Elements(path[c])' = Elements(path[c])
        BY <1>3 DEF Elements
    <2>8. QED
        BY <2>3, <2>4, <2>6, <2>7, <1>r, <1>1, <1>3 DEF VisitInv
<1>18. CheckedInv'
    <2>1. Named(entered, fileList[ds]) \subseteq fidPathMap
        BY <1>5, <1>11, <1>t DEF FidInv
    <2>2. \A d \in seen : Named(path[d], fileList[d]) \subseteq checked'
        BY <1>1, <1>2, <1>11 DEF CheckedInv
    <2>3. \A d : Named(path[d], fileList[d])' = Named(path[d], fileList[d])
        BY <1>3 DEF Named
    <2>4. QED
        BY <2>1, <2>2, <2>3, <1>1, <1>2, <1>3 DEF CheckedInv
<1>19. checked' \in SUBSET (Nat \X Paths)
    BY <1>3, <1>18, <1>t DEF CheckedInv, TypeOK
(* The directory has children: they come next.                                *)
<1>20. CASE kids # <<>>
    <2>1. pathStack' = entered /\ Len(kids) \in Nat \ {0}
        BY <1>20, <1>1, <1>7, EmptySeq
    <2>2. ChainInv'
        BY <2>1, <1>1, <1>3, <1>16 DEF ChainInv, Depth
    <2>3. \A j \in 1..Len(rest) :
             \A m \in 1..(Depth(rest[j]) - 1) : path[rest[j]][m] = entered[m]
        <3> SUFFICES ASSUME NEW j \in 1..Len(rest), NEW m \in 1..(Depth(rest[j]) - 1)
                     PROVE  path[rest[j]][m] = entered[m]
            OBVIOUS
        <3>1. Depth(rest[j]) \in Nat /\ path[rest[j]][m] = P[m] /\ Depth(rest[j]) <= Len(P) + 1
            BY <1>3, <1>8, <1>13
        <3>2. m \in 1..Len(P)
            BY <3>1, <1>7
        <3>3. QED
            BY <3>1, <3>2, <1>9
    <2>4. ASSUME NEW j \in 1..Len(rStack')
          PROVE  \/ j \in 1..Len(rest) /\ rStack'[j] = rest[j]
                 \/ /\ j - Len(rest) \in 1..Len(kids) /\ rStack'[j] \in Children(ds)
        <3>1. CASE j \in 1..Len(rest)
            BY <3>1, <1>12
        <3>2. CASE j - Len(rest) \in 1..Len(kids)
            <4>1. Len(rest) + (j - Len(rest)) = j
                BY <1>5, <1>12
            <4>2. rStack'[j] = kids[j - Len(rest)]
                BY <3>2, <4>1, <1>12
            <4>3. QED
                BY <3>2, <4>2 DEF Children, kids
        <3>3. QED
            BY <3>1, <3>2, <1>12
    <2>5. ASSUME NEW j \in 1..Len(rStack')
          PROVE  /\ rStack'[j] \in Made \ seen /\ Depth(rStack'[j]) <= Len(entered) + 1
                 /\ \A m \in 1..(Depth(rStack'[j]) - 1) : path[rStack'[j]][m] = entered[m]
        <3>1. CASE j \in 1..Len(rest) /\ rStack'[j] = rest[j]
            <4>1. Depth(rest[j]) \in Nat
                BY <3>1, <1>3, <1>8, <1>13
            <4>2. QED
                BY <3>1, <4>1, <2>3, <1>7, <1>9, <1>13
        <3>2. CASE rStack'[j] \in Children(ds)
            BY <3>2, <1>7, <1>9, <1>15
        <3>3. QED
            BY <2>4, <3>1, <3>2
    <2>6. ASSUME NEW a \in 1..Len(rStack'), NEW b \in 1..Len(rStack'), a <= b
          PROVE  Depth(rStack'[a]) <= Depth(rStack'[b])
        <3>1. CASE b \in 1..Len(rest)
            <4>1. a \in 1..Len(rest)
                BY <3>1, <2>6, <1>5, <1>12
            <4>2. QED
                BY <3>1, <4>1, <2>6, <1>12, <1>14
        <3>2. CASE b - Len(rest) \in 1..Len(kids)
            <4>1. rStack'[b] \in Children(ds)
                BY <3>2, <2>4, <1>5, <1>7
            <4>2. Depth(rStack'[b]) = Len(P) + 2
                BY <4>1, <1>15
            <4>3. Depth(rStack'[a]) <= Len(P) + 2
                BY <2>5, <1>9, <1>7
            <4>4. QED
                BY <4>2, <4>3
        <3>3. QED
            BY <3>1, <3>2, <1>12
    <2>7. Depth(Top(rStack')) = Len(entered) + 1
        <3>1. Len(rStack') \in 1..Len(rStack') /\ Len(rStack') - Len(rest) \in 1..Len(kids)
            BY <2>1, <1>5, <1>12
        <3>2. Len(rStack') \notin 1..Len(rest)
            BY <2>1, <1>5, <1>12
        <3>3. rStack'[Len(rStack')] \in Children(ds)
            BY <3>1, <3>2, <2>4
        <3>4. QED
            BY <3>3, <1>7, <1>9, <1>15 DEF Top
    <2>8. PendingInv'
        <3>1. Distinct(rStack)' /\ Top(rStack)' = Top(rStack')
            BY <1>12 DEF Distinct, Top
        <3>2. \A j \in 1..Len(rStack') :
                 /\ rStack'[j] \in Made \ seen /\ Depth(rStack'[j]) <= Len(entered) + 1
                 /\ \A m \in 1..(Depth(rStack'[j]) - 1) : path[rStack'[j]][m] = entered[m]
            BY <2>5
        <3>3. \A a, b \in 1..Len(rStack') : a <= b => Depth(rStack'[a]) <= Depth(rStack'[b])
            BY <2>6
        <3>4. \A j \in 1..Len(rStack') :
                 /\ rStack'[j] \in Made \ seen /\ Depth(rStack'[j]) <= Len(pathStack') + 1
                 /\ \A m \in 1..(Depth(rStack'[j]) - 1) : path[rStack'[j]][m] = pathStack'[m]
            BY <3>2, <2>1
        <3>5. Depth(Top(rStack')) = Len(pathStack') + 1
            BY <2>1, <2>7
        <3>6. QED
            BY <3>1, <3>3, <3>4, <3>5, <1>1, <1>3 DEF PendingInv, Depth
    <2>9. TypeOK'
        BY <2>1, <1>1, <1>9, <1>12, <1>17, <1>19, <1>3, <1>t DEF TypeOK, VisitInv, senderVars
    <2>10. QED
        BY <2>2, <2>8, <2>9, <1>1, <1>3, <1>4, <1>17, <1>18 DEF Inv, PhaseInv
(* It has none: pathStack is cut back to the parent of the next directory.    *)
<1>21. CASE kids = <<>>
    <2> DEFINE W == Waiting(entered, seen)
    <2>1. pathStack' = DropVisited(entered, seen) /\ Len(kids) = 0 /\ Children(ds) = {}
        BY <1>21, <1>1 DEF Children, kids
    <2>2. /\ Len(rStack') = Len(rest) /\ Elements(rStack') = Elements(rest)
          /\ \A j \in 1..Len(rest) : rStack'[j] = rest[j]
        BY <2>1, <1>5, <1>12
    <2>3. \A n \in 0..Len(entered) :
             /\ SubSeq(entered, 1, n) \in Seq(Dirs) /\ Len(SubSeq(entered, 1, n)) = n
             /\ \A m \in 1..n : SubSeq(entered, 1, n)[m] = entered[m]
        BY <1>9, Prefix
    <2>4. SUFFICES ASSUME NEW n \in 0..Len(entered), Len(pathStack') = n,
                          pathStack' \in Seq(Dirs),
                          \A m \in 1..n : pathStack'[m] = entered[m],
                          rest # <<>> => Depth(rest[Len(rest)]) = n + 1
                   PROVE  Inv'
        <3>1. CASE rest = <<>>
            <4>1. CASE W = {}
                BY <3>1, <4>1, <2>1, <2>4, <1>7, <1>9 DEF DropVisited
            <4>2. CASE W # {}
                <5>1. FALSE
                    <6>1. PICK j \in 1..Len(entered) : HasUnvisited(entered[j], seen)
                        BY <4>2 DEF Waiting
                    <6>2. PICK c \in Children(entered[j]) : c \notin seen
                        BY <6>1 DEF HasUnvisited
                    <6>3. entered[j] \in seen /\ entered[j] \in Dirs
                        BY <1>9, <1>16
                    <6>5. c \in Elements(rest)
                        BY <6>2, <6>3, <1>v, <2>1
                    <6>6. Elements(rest) = {}
                        BY <3>1 DEF Elements
                    <6>7. QED
                        BY <6>5, <6>6
                <5>2. QED
                    BY <5>1
            <4>3. QED
                BY <4>1, <4>2
        <3>2. CASE rest # <<>>
            <4> DEFINE next == rest[Len(rest)]
                       n    == Depth(next) - 1
            <4>1. Len(rest) \in 1..Len(rest) /\ Len(rest) \in Nat
                BY <3>2, <1>5, EmptySeq
            <4>2. /\ next \in Made \ seen /\ Depth(next) <= Len(P) + 1 /\ next \in Dirs
                  /\ \A m \in 1..(Depth(next) - 1) : path[next][m] = P[m]
                  /\ Depth(next) \in Nat \ {0}
                BY <4>1, <1>3, <1>8, <1>13
            <4> HIDE DEF next
            <4>3. /\ path[next][1] = Root /\ path[next][Depth(next)] = next
                  /\ \A j \in 1..(Depth(next) - 1) : path[next][j + 1] \in Children(path[next][j])
                BY <4>2, <1>t DEF PathsLeadDown
            <4>4. Root \in seen
                BY <1>r
            <4>5. n \in 1..Len(P)
                <5>1. Depth(next) # 1
                    BY <4>2, <4>3, <4>4
                <5>2. QED
                    BY <5>1, <4>2, <1>7
            <4>6. n \in W
                <5>1. path[next][n + 1] \in Children(path[next][n]) /\ n + 1 = Depth(next)
                    BY <4>2, <4>3, <4>5, <1>7
                <5>2. path[next][n] = P[n] /\ P[n] = entered[n]
                    BY <4>2, <4>5, <1>9
                <5>3. next \in Children(entered[n]) /\ n \in 1..Len(entered)
                    BY <5>1, <5>2, <4>3, <4>5, <1>7, <1>9
                <5>4. QED
                    BY <5>3, <4>2 DEF Waiting, HasUnvisited
            <4>7. ASSUME NEW j \in W PROVE j <= n
                <5>1. j \in 1..Len(entered) /\ HasUnvisited(entered[j], seen)
                    BY DEF Waiting
                <5>2. PICK c \in Children(entered[j]) : c \notin seen
                    BY <5>1 DEF HasUnvisited
                <5>3. entered[j] \in seen /\ entered[j] \in Dirs /\ Depth(entered[j]) = j
                    BY <5>1, <1>9, <1>16
                <5>5. c \in Elements(rest)
                    BY <5>2, <5>3, <1>v, <2>1
                <5>6. PICK b \in 1..Len(rest) : c = rest[b]
                    BY <5>5 DEF Elements
                <5>7. b <= Len(rest)
                    BY <4>1
                <5>8. Depth(c) <= Depth(next)
                    BY <5>6, <5>7, <4>1, <1>14 DEF next
                <5>9. Depth(c) = j + 1
                    BY <5>2, <5>3, <1>t DEF PathsLeadDown
                <5>10. QED
                    BY <5>1, <5>8, <5>9, <4>2, <1>7, <1>9
            <4>8. \A j \in W : j \in Int
                BY <1>7, <1>9 DEF Waiting
            <4>9. Last(W) = n
                <5>1. Last(W) \in W /\ \A other \in W : other <= Last(W)
                    BY <4>6, <4>7 DEF Last
                <5> HIDE DEF W, n
                <5>2. QED
                    BY <5>1, <4>6, <4>7, <4>8
            <4>10. pathStack' = SubSeq(entered, 1, n)
                BY <2>1, <4>6, <4>9 DEF DropVisited
            <4>11. n \in 0..Len(entered) /\ Depth(next) = n + 1
                BY <4>2, <4>5, <1>7, <1>9
            <4>12. Len(pathStack') = n /\ pathStack' \in Seq(Dirs)
                   /\ \A m \in 1..n : pathStack'[m] = entered[m]
                BY <4>10, <4>11, <2>3
            <4>13. rest # <<>> => Depth(rest[Len(rest)]) = n + 1
                BY <4>11 DEF next
            <4> HIDE DEF n
            <4>14. QED
                BY <4>11, <4>12, <4>13, <2>4
        <3>3. QED
            BY <3>1, <3>2
    <2>5. ChainInv'
        <3>1. ASSUME NEW j \in 1..n
              PROVE  /\ pathStack'[j] \in seen /\ Depth(pathStack'[j]) = j
                     /\ \A m \in 1..j : path[pathStack'[j]][m] = pathStack'[m]
            <4>1. j \in 1..Len(entered) /\ \A m \in 1..j : m \in 1..n
                BY <1>7, <1>9
            <4>2. QED
                BY <4>1, <2>4, <1>16
        <3>2. QED
            BY <3>1, <2>4, <1>1, <1>3 DEF ChainInv, Depth
    <2>6. PendingInv'
        <3>1. ASSUME NEW j \in 1..Len(rest) PROVE Depth(rest[j]) <= n + 1
            <4>1. /\ Len(rest) \in 1..Len(rest) /\ j <= Len(rest) /\ rest # <<>>
                BY <1>5
            <4>2. Depth(rest[j]) <= Depth(rest[Len(rest)])
                BY <4>1, <1>14
            <4>3. QED
                BY <4>1, <4>2, <2>4
        <3>2. ASSUME NEW j \in 1..Len(rest), NEW m \in 1..(Depth(rest[j]) - 1)
              PROVE  path[rest[j]][m] = pathStack'[m]
            <4>1. /\ Depth(rest[j]) \in Nat /\ path[rest[j]][m] = P[m]
                  /\ Depth(rest[j]) <= Len(P) + 1
                BY <1>3, <1>8, <1>13
            <4>2. m \in 1..n /\ m \in 1..Len(P)
                BY <4>1, <3>1, <1>7, <1>9
            <4>3. QED
                BY <4>1, <4>2, <2>4, <1>9
        <3>3. rStack' # <<>> => Depth(Top(rStack')) = n + 1
            <4>1. ASSUME rStack' # <<>> PROVE Depth(Top(rStack')) = n + 1
                <5>1. Len(rest) \in 1..Len(rest) /\ rest # <<>>
                    BY <4>1, <2>2, <1>5, <1>12, EmptySeq
                <5>2. QED
                    BY <5>1, <2>2, <2>4 DEF Top
            <4>2. QED
                BY <4>1
        <3>4. \A j \in 1..Len(rStack') :
                 /\ rStack'[j] \in Made \ seen /\ Depth(rStack'[j]) <= n + 1
                 /\ \A m \in 1..(Depth(rStack'[j]) - 1) : path[rStack'[j]][m] = pathStack'[m]
            BY <3>1, <3>2, <2>2, <1>13
        <3>5. \A a, b \in 1..Len(rStack') : a <= b => Depth(rStack'[a]) <= Depth(rStack'[b])
            BY <2>2, <1>14
        <3>6. QED
            <4>1. Distinct(rStack)' /\ Top(rStack)' = Top(rStack')
                BY <1>12 DEF Distinct, Top
            <4>2. QED
                BY <3>3, <3>4, <3>5, <4>1, <2>4, <1>1, <1>3 DEF PendingInv, Depth
    <2>7. TypeOK'
        BY <2>4, <1>1, <1>12, <1>17, <1>19, <1>3, <1>t DEF TypeOK, VisitInv, senderVars
    <2>8. QED
        BY <2>5, <2>6, <2>7, <1>1, <1>3, <1>4, <1>17, <1>18 DEF Inv, PhaseInv
<1>22. QED
    BY <1>20, <1>21

-----------------------------------------------------------------------------
LEMMA InvHolds == Spec => []Inv
<1>1. Inv /\ [Next]_vars => Inv'
    <2> SUFFICES ASSUME Inv, [Next]_vars PROVE Inv'
        OBVIOUS
    <2>1. CASE \E k \in 0..(MaxDirs - made), n \in 0..MaxFiles : ReadDir(k, n)
        BY <2>1, ReadDirInv
    <2>2. QED
        BY <2>1, ReadDirFailsInv, SendDirInfoInv, CheckDirInv, FileListCheckedInv, StutterInv
           DEF Next, Finished
<1>2. QED
    BY <1>1, InitInv, PTL DEF Spec

(* Every variable of the two walks keeps its type.                            *)
THEOREM TypeCorrect == Spec => []TypeOK
<1>1. Inv => TypeOK
    BY DEF Inv
<1>2. QED
    BY <1>1, InvHolds, PTL

(* Whatever the tree, FileListCheck gives each file the path under which      *)
(* ReadDirInfo numbered it, and no two files have one number.                 *)
THEOREM TheWalksAgree == Spec => []PathsAgree
<1>1. Inv => PathsAgree
    <2> SUFFICES ASSUME Inv PROVE PathsAgree
        OBVIOUS
    <2>1. \A x, y \in fidPathMap : x[1] = y[1] => x = y
        BY DEF Inv, FidInv
    <2>2. checked \subseteq fidPathMap
        BY DEF Inv, PhaseInv, TypeOK, NotBegun, CheckedInv
    <2>3. QED
        BY <2>1, <2>2 DEF PathsAgree
<1>2. QED
    BY <1>1, InvHolds, PTL

(* Whatever the tree, a list that FileListCheck has finished with has every   *)
(* file of it, and no directory was left unread.                              *)
THEOREM NothingIsForgotten == Spec => []ListingIsWhole
<1>1. Inv => ListingIsWhole
    <2> SUFFICES ASSUME Inv, phase = "checked" PROVE checked = fidPathMap /\ unread = {}
        BY DEF ListingIsWhole
    <2>1. VisitInv /\ CheckedInv /\ unread = {} /\ rStack = <<>> /\ FidInv
        BY DEF Inv, PhaseInv
    <2>2. Elements(rStack) = {}
        BY <2>1 DEF Elements
    <2>3. Made \subseteq visitedMap
        BY <2>1, <2>2 DEF VisitInv
    <2>4. fidPathMap \subseteq checked
        BY <2>1, <2>3 DEF FidInv, CheckedInv
    <2>5. QED
        BY <2>1, <2>4 DEF CheckedInv
<1>2. QED
    BY <1>1, InvHolds, PTL
=============================================================================
