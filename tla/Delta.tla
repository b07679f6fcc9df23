------------------------------- MODULE Delta -------------------------------
(***************************************************************************)
(* The transfer of one file's content: the receiver sums the blocks of the *)
(* file it has (receiver/sumlist.go), the sender scans its own file for    *)
(* those blocks and writes a patch list (sender/patch.go), the receiver    *)
(* puts the new content together from the patches and compares its md5     *)
(* with the sender's (receiver.go, RebuildFile).  One action per turn of a *)
(* loop.  Offsets count from 0 as in the code; a file is a sequence.       *)
(***************************************************************************)
EXTENDS Integers, Sequences

CONSTANTS
    Byte,           (* the values of a byte                                    *)
    step,           (* the block size                                          *)
    MaxLen,         (* bound: the length of a file                             *)
    PosLimit,       (* 2^31 in the code: the first value an int32 cannot hold  *)
    ChangeMax,      (* bound: the length up to which the receiver's file may   *)
                    (* change after it is summed                               *)
    Alder32Sum(_),  (* the weak checksum                                       *)
    md5sum(_)       (* the strong hash                                         *)

ASSUME DeltaAssumption ==
    /\ step \in Nat \ {0}
    /\ MaxLen \in Nat
    /\ PosLimit \in Nat \ {0} /\ step < PosLimit
    /\ ChangeMax \in Nat

VARIABLES
    pc,
    old,        (* the receiver's file when MakeSumList reads it               *)
    base,       (* the receiver's file when RebuildFile reads it               *)
    data,       (* the sender's file                                           *)
    sumList,    (* the sums of the blocks of old; "at" keeps their order in a bucket *)
    i, bufA, bufB, patchList,     (* MakePatch's locals                        *)
    starts,     (* history: the offset in data where each patch begins         *)
    k, buf,     (* RebuildFile's loop                                          *)
    verdict     (* "none", "ok", "failed" or "panic"                           *)

scanVars  == <<i, bufA, bufB, patchList, starts>>
applyVars == <<k, buf, verdict>>
vars == <<pc, old, base, data, sumList, scanVars, applyVars>>

Contents == UNION {[1..n -> Byte] : n \in 0..MaxLen}

(* d[a:b] of the code.                                                        *)
Slice(d, a, b) == SubSeq(d, a + 1, b)
Block(d, p) == Slice(d, p, p + step)

(* The conversion int32(n) of an offset.                                      *)
NotConverted(n) == n
Int32(n) == IF n \in 0..(PosLimit - 1) THEN n
            ELSE ((n + PosLimit) % (2 * PosLimit)) - PosLimit

Literal(d) == [pos |-> -1, len |-> 0, data |-> d]
Copy(p)    == [pos |-> p, len |-> step, data |-> <<>>]

Init ==
    /\ pc = "sum"
    /\ old \in Contents /\ data \in Contents
    /\ \/ base = old
       \/ Len(old) <= ChangeMax /\ base \in {d \in Contents : Len(d) <= ChangeMax}
    /\ sumList = {}
    /\ i = 0 /\ bufA = -1 /\ bufB = -1 /\ patchList = <<>> /\ starts = <<>>
    /\ k = 1 /\ buf = <<>> /\ verdict = "none"

-----------------------------------------------------------------------------
LastBlockMissed(d) == {p \in 0..(Len(d) - step - 1) : p % step = 0}
BlockStarts(d) == {p \in 0..(Len(d) - step) : p % step = 0}

(* MakeSumList: the sums of every whole block, none of a shorter file.        *)
MakeSumList ==
    /\ pc = "sum"
    /\ sumList' = {[sum1 |-> Alder32Sum(Block(old, p)), sum2 |-> md5sum(Block(old, p)),
                    pos |-> Int32(p), at |-> p] : p \in BlockStarts(old)}
    /\ pc' = "patch"
    /\ UNCHANGED <<old, base, data, scanVars, applyVars>>

(* No sums: the whole file is one literal.                                    *)
WholeFile ==
    /\ pc = "patch" /\ sumList = {}
    /\ patchList' = <<Literal(data)>> /\ starts' = <<0>>
    /\ pc' = "apply"
    /\ UNCHANGED <<old, base, data, sumList, i, bufA, bufB, applyVars>>

(* The entries both of whose sums are those of the window at i; the scan      *)
(* takes the first of the bucket, and finds nothing if its offset is negative. *)
WeakHits == {e \in sumList : e.sum1 = Alder32Sum(Block(data, i))}
Hits == {e \in sumList : e.sum1 = Alder32Sum(Block(data, i)) /\ e.sum2 = md5sum(Block(data, i))}
Found(e) == e \in Hits /\ (\A other \in Hits : e.at <= other.at) /\ e.pos > -1
InWindow == pc = "patch" /\ sumList # {} /\ i + step <= Len(data)

BackIsLiteral == patchList # <<>> /\ patchList[Len(patchList)].pos = -1
WithData(patches, d) == [patches EXCEPT ![Len(patches)].data = @ \o d]
WithBlock(patches) == [patches EXCEPT ![Len(patches)].len = Int32(@ + step)]

(* The patches with the pending bytes data[bufA:bufB] written to the last.    *)
DroppedPending == patchList
Flushed == IF bufA = -1 THEN patchList ELSE WithData(patchList, Slice(data, bufA, bufB))

ContinuesAnywhere(p) == patchList # <<>> /\ ~BackIsLiteral
Continues(p) ==
    /\ patchList # <<>> /\ ~BackIsLiteral
    /\ p = Int32(patchList[Len(patchList)].pos + patchList[Len(patchList)].len)

(* The window is a block of the receiver's file: extend the last copy or      *)
(* begin another, and go on behind the window.                                *)
MatchBlock ==
    /\ InWindow
    /\ \E e \in sumList :
          /\ Found(e)
          /\ IF Continues(e.pos)
             THEN patchList' = WithBlock(patchList) /\ UNCHANGED starts
             ELSE patchList' = Append(Flushed, Copy(e.pos)) /\ starts' = Append(starts, i)
    /\ bufA' = -1 /\ bufB' = -1
    /\ i' = i + step
    /\ UNCHANGED <<pc, old, base, data, sumList, applyVars>>

(* It is not: one more pending byte, in a literal of its own.                 *)
DiffByte ==
    /\ InWindow /\ ~\E e \in sumList : Found(e)
    /\ IF BackIsLiteral
       THEN UNCHANGED <<patchList, starts>>
       ELSE patchList' = Append(patchList, Literal(<<>>)) /\ starts' = Append(starts, i)
    /\ IF bufA = -1 THEN bufA' = i /\ bufB' = i + 1 ELSE bufA' = bufA /\ bufB' = bufB + 1
    /\ i' = i + 1
    /\ UNCHANGED <<pc, old, base, data, sumList, applyVars>>

Rest == Slice(data, i, Len(data))

(* Less than a block is left: write what is pending and the rest.             *)
FinishPatch ==
    /\ pc = "patch" /\ sumList # {} /\ i + step > Len(data)
    /\ IF BackIsLiteral
       THEN patchList' = WithData(Flushed, Rest) /\ UNCHANGED starts
       ELSE patchList' = Append(Flushed, Literal(Rest)) /\ starts' = Append(starts, i)
    /\ pc' = "apply"
    /\ UNCHANGED <<old, base, data, sumList, i, bufA, bufB, applyVars>>

-----------------------------------------------------------------------------
Patch == patchList[k]
(* patch.Pos+patch.Len is an int32 addition; a bad slice panics.              *)
PatchEnd == Int32(Patch.pos + Patch.len)
InRange == 0 <= Patch.pos /\ Patch.pos <= PatchEnd /\ PatchEnd <= Len(base)

ApplyPatch ==
    /\ pc = "apply" /\ k <= Len(patchList)
    /\ IF Patch.pos = -1
       THEN buf' = buf \o Patch.data /\ k' = k + 1 /\ UNCHANGED <<pc, verdict>>
       ELSE IF InRange
       THEN buf' = buf \o Slice(base, Patch.pos, PatchEnd) /\ k' = k + 1
            /\ UNCHANGED <<pc, verdict>>
       ELSE verdict' = "panic" /\ pc' = "done" /\ UNCHANGED <<k, buf>>
    /\ UNCHANGED <<old, base, data, sumList, scanVars>>

(* newHash against patchList.Hash, which is the md5 of the sender's file.     *)
Verify ==
    /\ pc = "apply" /\ k > Len(patchList)
    /\ verdict' = IF md5sum(buf) = md5sum(data) THEN "ok" ELSE "failed"
    /\ pc' = "done"
    /\ UNCHANGED <<old, base, data, sumList, scanVars, k, buf>>

Done == pc = "done" /\ UNCHANGED vars

Scan == WholeFile \/ MatchBlock \/ DiffByte \/ FinishPatch
Next == MakeSumList \/ Scan \/ ApplyPatch \/ Verify \/ Done

Spec == Init /\ [][Next]_vars

Int32s == -PosLimit..(PosLimit - 1)
Patches == [pos : Int32s, len : Int32s, data : Seq(Byte)]

TypeOK ==
    /\ pc \in {"sum", "patch", "apply", "done"}
    /\ old \in Seq(Byte) /\ base \in Seq(Byte) /\ data \in Seq(Byte)
    /\ i \in Nat /\ bufA \in Nat \cup {-1} /\ bufB \in Nat \cup {-1}
    /\ patchList \in Seq(Patches)
    /\ starts \in Seq(Nat) /\ Len(starts) = Len(patchList)
    /\ k \in Nat \ {0} /\ buf \in Seq(Byte)
    /\ verdict \in {"none", "ok", "failed", "panic"}

-----------------------------------------------------------------------------
IsCopy(j) == patchList[j].pos # -1
CopyEnd(j) == patchList[j].pos + patchList[j].len
Copies == {j \in DOMAIN patchList : IsCopy(j)}

(* int32 can hold every offset of the receiver's file.                        *)
Fits == Len(old) < PosLimit

(* No window of the sender's file is taken for a block it is not.             *)
NoCollision ==
    \A e \in sumList : \A w \in 0..(Len(data) - step) :
        e.sum1 = Alder32Sum(Block(data, w)) /\ e.sum2 = md5sum(Block(data, w))
            => Block(old, e.at) = Block(data, w)

(* The bytes that the patches copy are still where they were summed.          *)
BlocksKept ==
    \A j \in Copies : /\ CopyEnd(j) <= Len(base)
                      /\ Slice(base, patchList[j].pos, CopyEnd(j))
                           = Slice(old, patchList[j].pos, CopyEnd(j))

(* RebuildFile never slices out of range (receiver.go:204) when the file is   *)
(* at least as long as when its blocks were summed and was under 2 GiB then,  *)
(* whatever has been written to it since and whatever the two checksums take  *)
(* for equal.                                                                 *)
NoPanic == Len(base) >= Len(old) /\ Fits => verdict # "panic"

(* The rebuilt file is the sender's, byte for byte, and is accepted, whenever *)
(* the copied blocks have stayed in place and no checksum lied: the pending   *)
(* literal is flushed in time, copies are merged only where they adjoin, and  *)
(* the tail is sent once.                                                     *)
Rebuilds ==
    pc = "done" /\ Fits /\ BlocksKept /\ NoCollision => verdict = "ok" /\ buf = data

(* A file that only grew is not sent again: no literal begins within the      *)
(* whole blocks the receiver has, even if the checksums collide.              *)
GrowthSendsTail ==
    Fits /\ Len(old) <= Len(data) /\ Slice(data, 0, Len(old)) = old =>
        \A j \in DOMAIN patchList : IsCopy(j) \/ starts[j] + step > Len(old)

(* Between 2 and 4 GiB an offset is negative as an int32 and its block is     *)
(* never found, and a copy that grows past 2 GiB panics: the receiver crashes *)
(* or gets the right bytes, it does not put wrong ones together.              *)
BigFileOkOrPanic ==
    pc = "done" /\ base = old /\ Len(old) <= 2 * PosLimit /\ NoCollision => verdict # "failed"
=============================================================================
