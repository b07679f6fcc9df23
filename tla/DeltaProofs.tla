---------------------------- MODULE DeltaProofs ----------------------------
(***************************************************************************)
(* Theorems about Delta for every block size, alphabet, file length, int32 *)
(* limit and pair of checksums: its types, that RebuildFile does not       *)
(* panic; in the second part, that it rebuilds the sender's file, and what *)
(* becomes of a file beyond the int32 limit; in the third, that the scan   *)
(* finds every block of a file that only grew.                             *)
(***************************************************************************)
EXTENDS Delta, SequenceTheorems, WellFoundedInduction, TLAPS

(* The pending bytes are the ones just before the scan, behind a literal.     *)
ScanInv ==
    /\ i \in 0..Len(data)
    /\ bufA = -1 \/ (bufA \in 0..i /\ bufB = i /\ BackIsLiteral)

(* Every entry of the sum list is of a whole block of the receiver's file.    *)
SumsInv == \A e \in sumList : e.at \in 0..(Len(old) - step) /\ e.pos = Int32(e.at)

(* An offset as an int32 is still that of one block only.                     *)
Indexable == Len(old) <= 2 * PosLimit

(* Every copy lies inside the receiver's file as it was summed, its last      *)
(* block below the int32 limit, or its length has gone beyond the limit.      *)
InOld(pos, len) ==
    pos = -1 \/ (pos >= 0 /\ len >= 0 /\ pos + len <= Len(old) /\ pos + len < PosLimit + step)
Wrapped(pos, len) ==
    pos >= 0 /\ len < 0 /\ pos + len + 2 * PosLimit <= Len(old) /\ pos + len < step - PosLimit
InOldOrWrapped(p) == InOld(p.pos, p.len) \/ Wrapped(p.pos, p.len)
CopiesInv == Indexable => \A j \in 1..Len(patchList) : InOldOrWrapped(patchList[j])

IInv == TypeOK /\ ScanInv /\ SumsInv /\ CopiesInv /\ NoPanic

-----------------------------------------------------------------------------
LEMMA Constants ==
    /\ step \in Nat /\ step > 0 /\ PosLimit \in Nat /\ step < PosLimit /\ MaxLen \in Nat
    /\ -1 \in Int32s /\ 0 \in Int32s /\ step \in Int32s
BY DeltaAssumption DEF DeltaAssumption, Int32s

(* The conversion always yields an int32, and is the identity on what fits.   *)
LEMMA Int32Type == ASSUME NEW n \in Int PROVE Int32(n) \in Int32s
<1>1. CASE n \in 0..(PosLimit - 1)
  BY <1>1, Constants DEF Int32, Int32s
<1>2. CASE n \notin 0..(PosLimit - 1)
  <2> DEFINE m == (n + PosLimit) % (2 * PosLimit)
  <2>1. m \in 0..(2 * PosLimit - 1)
    BY Constants
  <2>2. Int32(n) = m - PosLimit
    BY <1>2 DEF Int32
  <2>. HIDE DEF m
  <2>. QED BY <2>1, <2>2, Constants DEF Int32s
<1>. QED BY <1>1, <1>2

LEMMA Int32Fits == ASSUME NEW n \in 0..(PosLimit - 1) PROVE Int32(n) = n
BY DEF Int32

(* What fits in 33 bits comes out negative from the limit on.                 *)
LEMMA Int32Wraps == ASSUME NEW n \in PosLimit..(2 * PosLimit - 1) PROVE Int32(n) = n - 2 * PosLimit
<1>1. (n + PosLimit) % (2 * PosLimit) = n - PosLimit
  BY Constants
<1>. QED BY <1>1, Constants DEF Int32

LEMMA Int32Negative == ASSUME NEW n \in -PosLimit..-1 PROVE Int32(n) = n
<1>1. (n + PosLimit) % (2 * PosLimit) = n + PosLimit
  BY Constants
<1>. QED BY <1>1, Constants DEF Int32

LEMMA FitsIsIndexable == ASSUME old \in Seq(Byte), Fits PROVE Indexable
BY LenProperties, Constants DEF Fits, Indexable

LEMMA SliceType ==
    ASSUME NEW d \in Seq(Byte), NEW a \in Nat, NEW b \in Nat, a <= b, b <= Len(d)
    PROVE  Slice(d, a, b) \in Seq(Byte)
BY SubSeqProperties DEF Slice

(* Appending bytes to the data of the last patch leaves everything else.      *)
LEMMA ExtendData ==
    ASSUME NEW L \in Seq(Patches), L # <<>>, NEW d \in Seq(Byte)
    PROVE  /\ WithData(L, d) \in Seq(Patches) /\ Len(WithData(L, d)) = Len(L)
           /\ \A j \in 1..Len(L) : /\ WithData(L, d)[j].pos = L[j].pos
                                    /\ WithData(L, d)[j].len = L[j].len
<1>1. Len(L) \in 1..Len(L) /\ L[Len(L)] \in Patches
  BY EmptySeq, LenProperties, ElementOfSeq
<1>2. [L[Len(L)] EXCEPT !.data = @ \o d] \in Patches
  BY <1>1, ConcatProperties DEF Patches
<1>. QED BY <1>1, <1>2, LenProperties DEF Patches, WithData

(* Making the last copy one block longer leaves everything else.              *)
LEMMA ExtendLen ==
    ASSUME NEW L \in Seq(Patches), L # <<>>
    PROVE  /\ WithBlock(L) \in Seq(Patches) /\ Len(WithBlock(L)) = Len(L)
           /\ \A j \in 1..Len(L) : WithBlock(L)[j].pos = L[j].pos
           /\ \A j \in 1..Len(L) :
                 WithBlock(L)[j].len = IF j = Len(L) THEN Int32(L[j].len + step) ELSE L[j].len
<1>1. Len(L) \in 1..Len(L) /\ L[Len(L)] \in Patches
  BY EmptySeq, LenProperties, ElementOfSeq
<1>2. Int32(L[Len(L)].len + step) \in Int32s
  <2>1. L[Len(L)].len + step \in Int
    BY <1>1, Constants DEF Patches, Int32s
  <2>. QED BY <2>1, Int32Type
<1>3. [L[Len(L)] EXCEPT !.len = Int32(@ + step)] \in Patches
  BY <1>1, <1>2 DEF Patches
<1>. QED BY <1>1, <1>3, LenProperties DEF Patches, WithBlock

(* What the scan invariant says of Flushed: the same patches, but for data.   *)
LEMMA FlushedLikePatchList ==
    ASSUME TypeOK, ScanInv
    PROVE  /\ Flushed \in Seq(Patches) /\ Len(Flushed) = Len(patchList)
           /\ \A j \in 1..Len(patchList) : /\ Flushed[j].pos = patchList[j].pos
                                           /\ Flushed[j].len = patchList[j].len
<1>1. CASE bufA = -1
  BY <1>1 DEF Flushed, TypeOK
<1>2. CASE bufA # -1
  <2>1. Slice(data, bufA, bufB) \in Seq(Byte)
    BY <1>2, SliceType DEF ScanInv, TypeOK
  <2>2. patchList # <<>> /\ patchList \in Seq(Patches)
    BY <1>2 DEF ScanInv, BackIsLiteral, TypeOK
  <2>3. Flushed = WithData(patchList, Slice(data, bufA, bufB))
    BY <1>2 DEF Flushed
  <2>. QED BY ONLY <2>1, <2>2, <2>3, ExtendData
<1>. QED BY <1>1, <1>2

LEMMA NewPatchType ==
    /\ \A d \in Seq(Byte) : Literal(d) \in Patches
    /\ \A p \in Int32s : Copy(p) \in Patches
    /\ \A p : Literal(p).pos = -1 /\ Copy(p).pos = p /\ Copy(p).len = step
BY Constants, EmptySeq DEF Literal, Copy, Patches

-----------------------------------------------------------------------------
LEMMA InitInv == Init => IInv
<1>. SUFFICES ASSUME Init PROVE IInv
  OBVIOUS
<1>1. old \in Seq(Byte) /\ data \in Seq(Byte) /\ base \in Seq(Byte)
  BY DEF Init, Contents
<1>2. TypeOK
  BY <1>1, EmptySeq DEF Init, TypeOK
<1>3. ScanInv /\ SumsInv /\ CopiesInv /\ NoPanic
  BY <1>1, LenProperties, EmptySeq DEF Init, ScanInv, SumsInv, CopiesInv, NoPanic
<1>. QED BY <1>2, <1>3 DEF IInv

(* MakeSumList puts in entries of whole blocks only.                          *)
LEMMA MakeSumListInv == IInv /\ MakeSumList => IInv'
<1>. SUFFICES ASSUME IInv, MakeSumList PROVE IInv'
  OBVIOUS
<1>. USE DEF IInv, MakeSumList, scanVars, applyVars
<1>1. TypeOK'
  BY DEF TypeOK
<1>2. ScanInv'
  BY DEF ScanInv, BackIsLiteral
<1>3. SumsInv'
  BY DEF SumsInv, BlockStarts
<1>4. CopiesInv' /\ NoPanic'
  BY DEF CopiesInv, Indexable, InOldOrWrapped, InOld, Wrapped, Fits, NoPanic
<1>. QED BY <1>1, <1>2, <1>3, <1>4

LEMMA WholeFileInv == IInv /\ WholeFile => IInv'
<1>. SUFFICES ASSUME IInv, WholeFile PROVE IInv'
  OBVIOUS
<1>. USE DEF IInv, WholeFile, applyVars
<1>1. Literal(data) \in Patches /\ Literal(data).pos = -1
  BY NewPatchType DEF TypeOK
<1>2. <<Literal(data)>> \in Seq(Patches) /\ Len(<<Literal(data)>>) = 1
      /\ <<Literal(data)>>[1] = Literal(data)
  BY <1>1
<1>3. TypeOK'
  BY <1>2 DEF TypeOK
<1>4. ScanInv'
  BY <1>1, <1>2 DEF ScanInv, BackIsLiteral
<1>5. CopiesInv'
  BY <1>1, <1>2 DEF CopiesInv, Indexable, InOldOrWrapped, InOld, Wrapped
<1>6. SumsInv' /\ NoPanic'
  BY DEF SumsInv, Fits, NoPanic
<1>. QED BY <1>3, <1>4, <1>5, <1>6

(* A block that is found lies inside the old file, where the sum list says.   *)
LEMMA FoundInOld ==
    ASSUME IInv, NEW e \in sumList, Found(e)
    PROVE  /\ e.pos \in Int32s /\ e.pos >= 0 /\ e.pos < PosLimit
           /\ Indexable => e.pos = e.at /\ e.pos + step <= Len(old)
<1>1. e.at \in 0..(Len(old) - step) /\ e.pos = Int32(e.at) /\ Len(old) \in Nat
  BY LenProperties DEF IInv, SumsInv, TypeOK
<1>2. e.pos \in Int32s
  BY <1>1, Constants, Int32Type
<1>3. e.pos >= 0
  BY <1>2, Constants DEF Found, Int32s
<1>4. ASSUME Indexable PROVE e.pos = e.at /\ e.at + step <= Len(old)
  <2>1. e.at \in 0..(2 * PosLimit - 1)
    BY <1>1, <1>4, Constants DEF Indexable
  <2>2. CASE e.at < PosLimit
    BY <1>1, <2>1, <2>2, Constants, Int32Fits
  <2>3. CASE e.at >= PosLimit
    BY <1>1, <1>3, <2>1, <2>3, Constants, Int32Wraps
  <2>. QED BY <1>1, <2>1, <2>2, <2>3, Constants
<1>. QED BY <1>2, <1>3, <1>4, Constants DEF Int32s

(* A copy that a found block continues ends where that block begins.  One     *)
(* block longer it is still in the file, or its length has wrapped.           *)
LEMMA GrownCopy ==
    ASSUME old \in Seq(Byte), Indexable, NEW p \in Int32s, NEW l \in Int32s, p # -1,
           InOld(p, l) \/ Wrapped(p, l),
           NEW q \in 0..(PosLimit - 1), q = Int32(p + l), q + step <= Len(old)
    PROVE  /\ p \in Nat /\ l \in Nat /\ q = p + l
           /\ \/ Int32(l + step) = l + step /\ InOld(p, l + step)
              \/ Wrapped(p, Int32(l + step))
<1>. PICK P \in Nat, S \in Nat, L \in Nat : P = PosLimit /\ S = step /\ L = Len(old)
  BY Constants, LenProperties
<1>1. S > 0 /\ S < P /\ L <= 2 * P /\ p \in -P..(P - 1) /\ l \in -P..(P - 1)
  BY Constants DEF Indexable, Int32s
<1>2. p >= 0 /\ ~Wrapped(p, l)
  <2>1. p >= 0
    BY DEF InOld, Wrapped
  <2>2. ASSUME Wrapped(p, l) PROVE FALSE
    <3>1. p + l \in -P..-1
      BY <1>1, <2>1, <2>2 DEF Wrapped
    <3>2. Int32(p + l) = p + l
      BY <3>1, Int32Negative
    <3>. QED BY <3>1, <3>2
  <2>. QED BY <2>1, <2>2
<1>3. l >= 0 /\ p + l < P + S
  BY <1>2 DEF InOld
<1>4. p + l < P
  <2>1. ASSUME p + l >= P PROVE FALSE
    <3>1. p + l \in P..(2 * P - 1)
      BY <1>1, <1>3, <2>1
    <3>2. Int32(p + l) = p + l - 2 * P
      BY <3>1, Int32Wraps
    <3>. QED BY <1>1, <3>1, <3>2
  <2>. QED BY <1>1, <2>1
<1>5. q = p + l
  BY <1>1, <1>2, <1>3, <1>4, Int32Fits
<1>6. CASE l + S < P
  <2>1. Int32(l + step) = l + step
    <3>1. l + S \in 0..(P - 1)
      BY <1>1, <1>3, <1>6
    <3>. QED BY <3>1, Int32Fits
  <2>2. InOld(p, l + step)
    BY <1>1, <1>2, <1>3, <1>4, <1>5 DEF InOld
  <2>. QED BY <1>1, <1>2, <1>3, <1>5, <2>1, <2>2
<1>7. CASE l + S >= P
  <2>1. Int32(l + step) = l + S - 2 * P
    <3>1. PICK m \in PosLimit..(2 * PosLimit - 1) : m = l + step
      BY <1>1, <1>2, <1>4, <1>7
    <3>2. Int32(m) = m - 2 * PosLimit
      BY Int32Wraps
    <3>. QED BY <1>1, <3>1, <3>2
  <2>2. Wrapped(p, l + S - 2 * P)
    BY <1>1, <1>2, <1>3, <1>4, <1>5 DEF Wrapped
  <2>. QED BY <1>1, <1>2, <1>3, <1>5, <2>1, <2>2
<1>. QED BY <1>1, <1>6, <1>7

(* Found at i: the last copy grows up to where the found block ends, or the   *)
(* block begins a copy of its own behind the flushed literal.                 *)
LEMMA MatchBlockInv == IInv /\ MatchBlock => IInv'
<1>. SUFFICES ASSUME IInv, MatchBlock PROVE IInv'
  OBVIOUS
<1>1. PICK e \in sumList :
        /\ Found(e)
        /\ IF Continues(e.pos)
           THEN patchList' = WithBlock(patchList) /\ UNCHANGED starts
           ELSE patchList' = Append(Flushed, Copy(e.pos)) /\ starts' = Append(starts, i)
  BY DEF MatchBlock
<1>2. /\ bufA' = -1 /\ bufB' = -1 /\ i' = i + step /\ i + step <= Len(data)
      /\ UNCHANGED <<pc, old, base, data, sumList, k, buf, verdict>>
  BY DEF MatchBlock, InWindow, applyVars
<1>3. /\ e.pos \in Int32s /\ e.pos >= 0 /\ e.pos < PosLimit
      /\ Indexable => e.pos + step <= Len(old)
  BY <1>1, FoundInOld
<1>4. i' \in 0..Len(data)' /\ i \in Nat /\ Len(data) \in Nat
  BY <1>2, Constants, LenProperties DEF IInv, ScanInv, TypeOK
<1>5. /\ patchList' \in Seq(Patches) /\ Len(starts') = Len(patchList') /\ starts' \in Seq(Nat)
      /\ CopiesInv'
  <2>1. CASE Continues(e.pos)
    <3> DEFINE n == Len(patchList)  back == patchList[n]
    <3>1. patchList \in Seq(Patches) /\ patchList # <<>> /\ n \in 1..n
      BY <2>1, EmptySeq, LenProperties DEF Continues, IInv, TypeOK
    <3>2. back \in Patches /\ back.pos # -1 /\ e.pos = Int32(back.pos + back.len)
      BY <2>1, <3>1, ElementOfSeq DEF Continues, BackIsLiteral
    <3>3. /\ patchList' \in Seq(Patches) /\ Len(patchList') = n
          /\ \A j \in 1..n : /\ patchList'[j].pos = patchList[j].pos
                            /\ patchList'[j].len = IF j = n THEN Int32(back.len + step)
                                                           ELSE patchList[j].len
      BY <1>1, <2>1, <3>1, ExtendLen
    <3>4. ASSUME Indexable PROVE InOldOrWrapped(patchList'[n])
      <4>1. InOld(back.pos, back.len) \/ Wrapped(back.pos, back.len)
        BY <3>1, <3>4 DEF IInv, CopiesInv, InOldOrWrapped
      <4>2. back.pos \in Int32s /\ back.len \in Int32s /\ old \in Seq(Byte)
        BY <3>2 DEF Patches, IInv, TypeOK
      <4>3. e.pos \in 0..(PosLimit - 1) /\ e.pos + step <= Len(old)
        BY <1>3, <3>4, Constants DEF Int32s
      <4>4. InOld(back.pos, Int32(back.len + step)) \/ Wrapped(back.pos, Int32(back.len + step))
        BY <3>2, <3>4, <4>1, <4>2, <4>3, GrownCopy
      <4>. QED BY <3>1, <3>3, <4>4 DEF InOldOrWrapped
    <3>5. CopiesInv'
      <4>1. SUFFICES ASSUME Indexable, NEW j \in 1..n PROVE InOldOrWrapped(patchList'[j])
        BY <1>2, <3>3 DEF CopiesInv, Indexable, InOldOrWrapped, InOld, Wrapped
      <4>. QED BY <3>3, <3>4, <4>1 DEF IInv, CopiesInv, InOldOrWrapped
    <3>6. Len(starts') = Len(patchList') /\ starts' \in Seq(Nat)
      BY <1>1, <2>1, <3>3 DEF IInv, TypeOK
    <3>. QED BY <3>3, <3>5, <3>6
  <2>2. CASE ~Continues(e.pos)
    <3>1. Copy(e.pos) \in Patches /\ Copy(e.pos).pos = e.pos /\ Copy(e.pos).len = step
      BY <1>3, NewPatchType DEF Copy
    <3>2. /\ Flushed \in Seq(Patches) /\ Len(Flushed) = Len(patchList)
          /\ \A j \in 1..Len(patchList) : /\ Flushed[j].pos = patchList[j].pos
                                          /\ Flushed[j].len = patchList[j].len
      BY FlushedLikePatchList DEF IInv
    <3>3. patchList' = Append(Flushed, Copy(e.pos)) /\ starts' = Append(starts, i)
      BY <1>1, <2>2
    <3>4. /\ patchList' \in Seq(Patches) /\ Len(patchList') = Len(patchList) + 1
          /\ \A j \in 1..Len(patchList) : patchList'[j] = Flushed[j]
          /\ patchList'[Len(patchList) + 1] = Copy(e.pos)
      BY <3>1, <3>2, <3>3, AppendProperties
    <3>5. Len(starts') = Len(patchList') /\ starts' \in Seq(Nat)
      BY <1>4, <3>3, <3>4, AppendProperties DEF IInv, TypeOK
    <3>6. CopiesInv'
      <4>1. SUFFICES ASSUME Indexable, NEW j \in 1..(Len(patchList) + 1)
                     PROVE  InOldOrWrapped(patchList'[j])
        BY <1>2, <3>4 DEF CopiesInv, Indexable, InOldOrWrapped, InOld, Wrapped
      <4>2. Len(patchList) \in Nat
        BY LenProperties DEF IInv, TypeOK
      <4>3. CASE j \in 1..Len(patchList)
        BY <3>2, <3>4, <4>1, <4>3 DEF IInv, CopiesInv, InOldOrWrapped
      <4>4. CASE j = Len(patchList) + 1
        <5>1. e.pos \in Int
          BY <1>3, Constants DEF Int32s
        <5>2. InOld(e.pos, step)
          BY <1>3, <4>1, <5>1, Constants DEF InOld
        <5>. QED BY <3>1, <3>4, <4>4, <5>2 DEF InOldOrWrapped
      <4>. QED BY <4>1, <4>2, <4>3, <4>4
    <3>. QED BY <3>4, <3>5, <3>6
  <2>. QED BY <2>1, <2>2
<1>6. TypeOK'
  BY <1>2, <1>4, <1>5 DEF IInv, TypeOK
<1>7. ScanInv' /\ SumsInv' /\ NoPanic'
  BY <1>2, <1>4 DEF IInv, ScanInv, SumsInv, Fits, NoPanic
<1>. QED BY <1>5, <1>6, <1>7 DEF IInv

(* A differing byte joins the literal at the end or begins one.               *)
LEMMA DiffByteInv == IInv /\ DiffByte => IInv'
<1>. SUFFICES ASSUME IInv, DiffByte PROVE IInv'
  OBVIOUS
<1>1. /\ i + step <= Len(data) /\ i' = i + 1
      /\ IF BackIsLiteral THEN UNCHANGED <<patchList, starts>>
         ELSE patchList' = Append(patchList, Literal(<<>>)) /\ starts' = Append(starts, i)
      /\ IF bufA = -1 THEN bufA' = i /\ bufB' = i + 1 ELSE bufA' = bufA /\ bufB' = bufB + 1
      /\ UNCHANGED <<pc, old, base, data, sumList, k, buf, verdict>>
  BY DEF DiffByte, InWindow, applyVars
<1>2. i \in Nat /\ Len(data) \in Nat /\ i' \in 0..Len(data) /\ patchList \in Seq(Patches)
  BY <1>1, Constants, LenProperties DEF IInv, TypeOK
<1>3. /\ patchList' \in Seq(Patches) /\ Len(starts') = Len(patchList') /\ starts' \in Seq(Nat)
      /\ BackIsLiteral' /\ CopiesInv'
  <2>1. CASE BackIsLiteral
    BY <1>1, <2>1 DEF BackIsLiteral, CopiesInv, Indexable, InOldOrWrapped, InOld, Wrapped,
         IInv, TypeOK
  <2>2. CASE ~BackIsLiteral
    <3>0. patchList' = Append(patchList, Literal(<<>>)) /\ starts' = Append(starts, i)
      BY <1>1, <2>2
    <3>1. Literal(<<>>) \in Patches /\ Literal(<<>>).pos = -1
      BY NewPatchType, EmptySeq
    <3>2. /\ patchList' \in Seq(Patches) /\ Len(patchList') = Len(patchList) + 1
          /\ \A j \in 1..Len(patchList) : patchList'[j] = patchList[j]
          /\ patchList'[Len(patchList) + 1] = Literal(<<>>) /\ patchList' # <<>>
      BY <1>2, <3>0, <3>1, AppendProperties
    <3>3. Len(starts') = Len(patchList') /\ starts' \in Seq(Nat)
      BY <1>2, <3>0, <3>2, AppendProperties DEF IInv, TypeOK
    <3>4. CopiesInv'
      <4>1. SUFFICES ASSUME Indexable, NEW j \in 1..(Len(patchList) + 1)
                     PROVE  InOldOrWrapped(patchList'[j])
        BY <1>1, <3>2 DEF CopiesInv, Indexable, InOldOrWrapped, InOld, Wrapped
      <4>2. j \in 1..Len(patchList) \/ j = Len(patchList) + 1
        BY <1>2, LenProperties
      <4>. QED BY <3>1, <3>2, <4>1, <4>2 DEF IInv, CopiesInv, InOldOrWrapped, InOld
    <3>. QED BY <3>1, <3>2, <3>3, <3>4 DEF BackIsLiteral
  <2>. QED BY <2>1, <2>2
<1>4. ScanInv' /\ TypeOK'
  BY <1>1, <1>2, <1>3 DEF IInv, ScanInv, TypeOK
<1>5. SumsInv' /\ NoPanic'
  BY <1>1 DEF IInv, SumsInv, Fits, NoPanic
<1>. QED BY <1>3, <1>4, <1>5 DEF IInv

(* The rest goes into the literal at the end or into one of its own.          *)
LEMMA FinishPatchInv == IInv /\ FinishPatch => IInv'
<1>. SUFFICES ASSUME IInv, FinishPatch PROVE IInv'
  OBVIOUS
<1>1. /\ IF BackIsLiteral THEN patchList' = WithData(Flushed, Rest) /\ UNCHANGED starts
         ELSE patchList' = Append(Flushed, Literal(Rest)) /\ starts' = Append(starts, i)
      /\ pc' = "apply" /\ UNCHANGED <<old, base, data, sumList, i, bufA, bufB, k, buf, verdict>>
  BY DEF FinishPatch, applyVars
<1>2. Rest \in Seq(Byte) /\ i \in Nat /\ patchList \in Seq(Patches) /\ Len(patchList) \in Nat
  BY SliceType, LenProperties DEF Rest, IInv, ScanInv, TypeOK
<1>3. /\ Flushed \in Seq(Patches) /\ Len(Flushed) = Len(patchList)
      /\ \A j \in 1..Len(patchList) : /\ Flushed[j].pos = patchList[j].pos
                                      /\ Flushed[j].len = patchList[j].len
  BY FlushedLikePatchList DEF IInv
<1>4. /\ patchList' \in Seq(Patches) /\ Len(starts') = Len(patchList') /\ starts' \in Seq(Nat)
      /\ BackIsLiteral' /\ CopiesInv'
  <2>1. CASE BackIsLiteral
    <3>0. patchList' = WithData(Flushed, Rest) /\ starts' = starts
      BY <1>1, <2>1
    <3>1. Len(patchList) \in 1..Len(patchList) /\ Flushed # <<>>
      BY <1>2, <1>3, <2>1, EmptySeq, LenProperties DEF BackIsLiteral
    <3>2. /\ patchList' \in Seq(Patches) /\ Len(patchList') = Len(patchList)
          /\ \A j \in 1..Len(patchList) : /\ patchList'[j].pos = patchList[j].pos
                                          /\ patchList'[j].len = patchList[j].len
      BY <1>2, <1>3, <3>0, <3>1, ExtendData
    <3>3. BackIsLiteral'
      BY <2>1, <3>1, <3>2, EmptySeq DEF BackIsLiteral
    <3>4. CopiesInv'
      BY <1>1, <3>2 DEF CopiesInv, Indexable, InOldOrWrapped, InOld, Wrapped, IInv
    <3>. QED BY <3>0, <3>2, <3>3, <3>4 DEF IInv, TypeOK
  <2>2. CASE ~BackIsLiteral
    <3>0. patchList' = Append(Flushed, Literal(Rest)) /\ starts' = Append(starts, i)
      BY <1>1, <2>2
    <3>1. Literal(Rest) \in Patches /\ Literal(Rest).pos = -1
      BY <1>2, NewPatchType
    <3>2. /\ patchList' \in Seq(Patches) /\ Len(patchList') = Len(patchList) + 1
          /\ \A j \in 1..Len(patchList) : patchList'[j] = Flushed[j]
          /\ patchList'[Len(patchList) + 1] = Literal(Rest) /\ patchList' # <<>>
      <4>1. /\ Append(Flushed, Literal(Rest)) \in Seq(Patches)
            /\ Append(Flushed, Literal(Rest)) # <<>>
            /\ Len(Append(Flushed, Literal(Rest))) = Len(Flushed) + 1
            /\ \A j \in 1..Len(Flushed) : Append(Flushed, Literal(Rest))[j] = Flushed[j]
            /\ Append(Flushed, Literal(Rest))[Len(Flushed) + 1] = Literal(Rest)
        BY <1>3, <3>1, AppendProperties
      <4>. QED BY <1>3, <3>0, <4>1
    <3>3. Len(starts') = Len(patchList') /\ starts' \in Seq(Nat)
      BY <1>2, <3>0, <3>2, AppendProperties DEF IInv, TypeOK
    <3>4. CopiesInv'
      BY <1>1, <1>2, <1>3, <3>1, <3>2, SMTT(30)
         DEF CopiesInv, Indexable, InOldOrWrapped, InOld, Wrapped, IInv
    <3>. QED BY <3>1, <3>2, <3>3, <3>4 DEF BackIsLiteral
  <2>. QED BY <2>1, <2>2
<1>5. TypeOK' /\ ScanInv'
  BY <1>1, <1>4 DEF IInv, ScanInv, TypeOK
<1>6. SumsInv' /\ NoPanic'
  BY <1>1 DEF IInv, SumsInv, Fits, NoPanic
<1>. QED BY <1>4, <1>5, <1>6 DEF IInv

(* A copy that lies inside the old file is in range of a base as long.        *)
LEMMA ApplyPatchInv == IInv /\ ApplyPatch => IInv'
<1>. SUFFICES ASSUME IInv, ApplyPatch PROVE IInv'
  OBVIOUS
<1>1. /\ k <= Len(patchList)
      /\ UNCHANGED <<old, base, data, sumList, i, bufA, bufB, patchList, starts>>
      /\ IF Patch.pos = -1
         THEN buf' = buf \o Patch.data /\ k' = k + 1 /\ UNCHANGED <<pc, verdict>>
         ELSE IF InRange
         THEN buf' = buf \o Slice(base, Patch.pos, PatchEnd) /\ k' = k + 1
              /\ UNCHANGED <<pc, verdict>>
         ELSE verdict' = "panic" /\ pc' = "done" /\ UNCHANGED <<k, buf>>
  BY DEF ApplyPatch, scanVars
<1>2. k \in 1..Len(patchList) /\ Patch \in Patches
  BY <1>1, LenProperties, ElementOfSeq DEF IInv, TypeOK, Patch
<1>3. TypeOK'
  <2>1. CASE Patch.pos = -1
    <3>1. buf \o Patch.data \in Seq(Byte)
      BY <1>2, ConcatProperties DEF IInv, TypeOK, Patches
    <3>2. buf' = buf \o Patch.data /\ k' = k + 1 /\ pc' = pc /\ verdict' = verdict
      BY <1>1, <2>1
    <3>. QED BY <1>1, <3>1, <3>2 DEF IInv, TypeOK
  <2>2. CASE Patch.pos # -1 /\ InRange
    <3>1. PatchEnd \in Int /\ Patch.pos \in Int
      <4>1. Patch.pos \in Int /\ Patch.len \in Int
        BY <1>2, Constants DEF Patches, Int32s
      <4>2. PatchEnd \in Int32s
        BY <4>1, Int32Type DEF PatchEnd
      <4>. QED BY <4>1, <4>2, Constants DEF Int32s
    <3>2. Slice(base, Patch.pos, PatchEnd) \in Seq(Byte)
      BY <2>2, <3>1, SliceType, LenProperties, SMTT(30) DEF InRange, IInv, TypeOK
    <3>3. buf \o Slice(base, Patch.pos, PatchEnd) \in Seq(Byte)
      BY <3>2, ConcatProperties DEF IInv, TypeOK
    <3>4. /\ buf' = buf \o Slice(base, Patch.pos, PatchEnd) /\ k' = k + 1
          /\ pc' = pc /\ verdict' = verdict
      BY <1>1, <2>2
    <3>. QED BY <1>1, <3>3, <3>4 DEF IInv, TypeOK
  <2>3. CASE Patch.pos # -1 /\ ~InRange
    BY <1>1, <2>3 DEF IInv, TypeOK
  <2>. QED BY <2>1, <2>2, <2>3
<1>4. NoPanic'
  <2>1. SUFFICES ASSUME Len(base) >= Len(old), Fits, Patch.pos # -1 PROVE InRange
    BY <1>1 DEF NoPanic, Fits, IInv
  <2>2. /\ Patch.pos \in Int /\ Patch.len \in Int /\ Patch.len >= -PosLimit
        /\ Len(old) \in Nat /\ Len(base) \in Nat
    BY <1>2, LenProperties, Constants DEF Patches, Int32s, IInv, TypeOK
  <2>3. Patch.pos >= 0 /\ Patch.len >= 0 /\ Patch.pos + Patch.len <= Len(old)
    <3>1. InOldOrWrapped(Patch)
      BY <1>2, <2>1, FitsIsIndexable DEF IInv, TypeOK, CopiesInv, Patch
    <3>. QED BY <2>1, <2>2, <3>1, Constants DEF InOldOrWrapped, InOld, Wrapped, Fits
  <2>4. PatchEnd = Patch.pos + Patch.len
    <3>1. Patch.pos + Patch.len \in 0..(PosLimit - 1)
      BY <2>1, <2>2, <2>3, Constants DEF Fits
    <3>. QED BY <3>1, Int32Fits DEF PatchEnd
  <2>. QED BY <2>1, <2>2, <2>3, <2>4 DEF InRange
<1>5. ScanInv' /\ SumsInv' /\ CopiesInv'
  BY <1>1 DEF IInv, ScanInv, BackIsLiteral, SumsInv, CopiesInv, Indexable, InOldOrWrapped,
       InOld, Wrapped
<1>. QED BY <1>3, <1>4, <1>5 DEF IInv

LEMMA NextInv == IInv /\ [Next]_vars => IInv'
<1>. SUFFICES ASSUME IInv, [Next]_vars PROVE IInv'
  OBVIOUS
<1>1. CASE Verify
  BY <1>1 DEF Verify, scanVars, IInv, TypeOK, ScanInv, BackIsLiteral, SumsInv, CopiesInv, Fits,
              Indexable, InOldOrWrapped, InOld, Wrapped, NoPanic
<1>2. CASE UNCHANGED vars
  BY <1>2 DEF vars, scanVars, applyVars, IInv, TypeOK, ScanInv, BackIsLiteral, SumsInv, CopiesInv,
              Fits, Indexable, InOldOrWrapped, InOld, Wrapped, NoPanic
<1>. QED BY <1>1, <1>2, MakeSumListInv, WholeFileInv, MatchBlockInv, DiffByteInv, FinishPatchInv,
            ApplyPatchInv DEF Next, Scan, Done

-----------------------------------------------------------------------------
(* Types hold throughout a transfer; above all, every offset and length that  *)
(* goes into a message is an int32 (patch.go:105-111, sumlist.go:31).         *)
THEOREM TypeCorrect == Spec => []TypeOK
<1>1. IInv => TypeOK
  BY DEF IInv
<1>. QED BY <1>1, InitInv, NextInv, PTL DEF Spec

(* RebuildFile never slices out of range (receiver.go:204) when the file has  *)
(* not shrunk since it was summed and was shorter than the int32 limit then,  *)
(* whatever it holds by now, for every block size and whatever the checksums  *)
(* take for equal.                                                            *)
THEOREM RebuildNeverPanics == Spec => []NoPanic
<1>1. IInv => NoPanic
  BY DEF IInv
<1>. QED BY <1>1, InitInv, NextInv, PTL DEF Spec

-----------------------------------------------------------------------------
(* The delta transfer rebuilds the sender's file: for every block size,       *)
(* alphabet, pair of files and pair of checksums, the patches tile the        *)
(* sender's file, each literal holds the bytes of its tile, and each copy     *)
(* names a stretch of the receiver's file with the same bytes.                *)

(* Where the patches made so far end, and where patch j ends.                 *)
ScanEnd == IF pc \in {"sum", "patch"} THEN i ELSE Len(data)
Edge(j) == IF j = Len(starts) THEN ScanEnd ELSE starts[j + 1]

(* The patches are one behind the other, from the beginning of the file.      *)
TilesInv ==
    /\ patchList = <<>> => ScanEnd = 0 /\ pc \in {"sum", "patch"}
    /\ pc = "sum" => patchList = <<>>
    /\ patchList # <<>> => starts[1] = 0
    /\ \A j \in 1..Len(starts) : starts[j] \in 0..Edge(j) /\ Edge(j) <= Len(data)

(* The literal at the end is empty until its pending bytes, all since its     *)
(* start, are flushed; every other literal holds its tile.                    *)
PendingInv ==
    pc = "patch" /\ BackIsLiteral =>
        bufA = starts[Len(starts)] /\ patchList[Len(patchList)].data = <<>>
SameLiteral(j) == patchList[j].data = Slice(data, starts[j], Edge(j))
LiteralsInv ==
    \A j \in 1..Len(patchList) :
        ~IsCopy(j) /\ (pc # "patch" \/ j < Len(patchList)) => SameLiteral(j)

(* A copy is as long as its tile and has its bytes.                           *)
SameCopy(j) == /\ starts[j] + patchList[j].len = Edge(j)
               /\ Slice(old, patchList[j].pos, CopyEnd(j)) = Slice(data, starts[j], Edge(j))
WrappedCopy(j) == Wrapped(patchList[j].pos, patchList[j].len)
CopiesSame ==
    Indexable /\ NoCollision =>
        \A j \in 1..Len(patchList) : IsCopy(j) => WrappedCopy(j) \/ SameCopy(j)

(* RebuildFile has put together the tiles of the patches before the k-th.     *)
Intact == NoCollision /\ ((Fits /\ BlocksKept) \/ (Indexable /\ base = old))
BuiltTo == IF k = Len(starts) + 1 THEN Len(data) ELSE starts[k]
BuiltInv ==
    /\ pc \in {"sum", "patch"} => k = 1 /\ buf = <<>>
    /\ pc = "apply" => k \in 1..(Len(patchList) + 1)
    /\ pc = "apply" /\ Intact => buf = Slice(data, 0, BuiltTo)

TileInv == TilesInv /\ PendingInv /\ LiteralsInv /\ CopiesSame
Outcome == Rebuilds /\ BigFileOkOrPanic
RInv == IInv /\ TileInv /\ BuiltInv /\ Outcome

-----------------------------------------------------------------------------
(* Two adjoining slices are one.                                              *)
LEMMA SlicesJoin ==
    ASSUME NEW d \in Seq(Byte), NEW a \in Nat, NEW b \in Nat, NEW c \in Nat,
           a <= b, b <= c, c <= Len(d)
    PROVE  Slice(d, a, b) \o Slice(d, b, c) = Slice(d, a, c)
<1>1. Len(d) \in Nat
  BY LenProperties
<1>2. a + 1 \in 1..Len(d) + 1 /\ b \in (a + 1) - 1..Len(d) /\ c \in b..Len(d)
  BY <1>1
<1>. QED BY <1>2, ConcatAdjacentSubSeq DEF Slice

LEMMA SliceOfNothing == ASSUME NEW d, NEW a \in Nat PROVE Slice(d, a, a) = <<>>
BY SubSeqEmpty DEF Slice

LEMMA SliceOfAll == ASSUME NEW d \in Seq(Byte) PROVE Slice(d, 0, Len(d)) = d
BY SubSeqFull DEF Slice

LEMMA Types ==
    ASSUME IInv
    PROVE  /\ patchList \in Seq(Patches) /\ starts \in Seq(Nat) /\ Len(starts) = Len(patchList)
           /\ Len(patchList) \in Nat /\ i \in Nat /\ i <= Len(data)
           /\ data \in Seq(Byte) /\ old \in Seq(Byte) /\ base \in Seq(Byte)
           /\ Len(data) \in Nat /\ Len(old) \in Nat /\ Len(base) \in Nat
           /\ step \in Nat /\ step > 0
           /\ \A j \in 1..Len(patchList) :
                 starts[j] \in Nat /\ patchList[j] \in Patches
                 /\ patchList[j].pos \in Int /\ patchList[j].len \in Int
<1>1. patchList \in Seq(Patches) /\ starts \in Seq(Nat) /\ Len(starts) = Len(patchList)
  BY DEF IInv, TypeOK
<1>2. \A j \in 1..Len(patchList) : starts[j] \in Nat /\ patchList[j] \in Patches
  BY <1>1, ElementOfSeq
<1>3. \A j \in 1..Len(patchList) : patchList[j].pos \in Int /\ patchList[j].len \in Int
  BY <1>2, Constants DEF Patches, Int32s
<1>. QED BY <1>1, <1>2, <1>3, LenProperties, Constants DEF IInv, TypeOK, ScanInv

(* Every copy of a file that fits is a stretch of it.                         *)
LEMMA CopyInOld ==
    ASSUME IInv, Fits, NEW j \in 1..Len(patchList), IsCopy(j)
    PROVE  /\ patchList[j].pos \in Nat /\ patchList[j].len \in Nat
           /\ CopyEnd(j) \in Nat /\ CopyEnd(j) <= Len(old)
           /\ Int32(CopyEnd(j)) = CopyEnd(j)
<1>1. patchList[j].pos >= 0 /\ patchList[j].len >= 0 /\ CopyEnd(j) <= Len(old)
  <2>1. InOldOrWrapped(patchList[j])
    BY Types, FitsIsIndexable DEF IInv, CopiesInv
  <2>2. PICK p \in -PosLimit..(PosLimit - 1), l \in -PosLimit..(PosLimit - 1) :
            p = patchList[j].pos /\ l = patchList[j].len
    BY Types DEF Patches, Int32s
  <2>3. InOld(p, l) \/ Wrapped(p, l)
    BY <2>1, <2>2 DEF InOldOrWrapped
  <2>4. Len(old) \in Nat /\ Len(old) < PosLimit /\ PosLimit \in Nat
    BY Types, Constants DEF Fits
  <2>5. ~Wrapped(p, l)
    BY <2>4 DEF Wrapped
  <2>6. p # -1
    BY <2>2 DEF IsCopy
  <2>. QED BY <2>2, <2>3, <2>5, <2>6 DEF InOld, CopyEnd
<1>2. patchList[j].pos \in Nat /\ patchList[j].len \in Nat /\ Len(old) \in Nat
  BY <1>1, Types
<1>3. CopyEnd(j) \in 0..(PosLimit - 1)
  BY <1>1, <1>2, Constants DEF CopyEnd, Fits
<1>. QED BY <1>1, <1>2, <1>3, Int32Fits, Constants

(* The last patch with more data: all others stay.                            *)
LEMMA WithDataPatches ==
    ASSUME NEW L \in Seq(Patches), L # <<>>, NEW d
    PROVE  /\ WithData(L, d)[Len(L)].data = L[Len(L)].data \o d
           /\ \A j \in 1..Len(L) : j # Len(L) => WithData(L, d)[j] = L[j]
<1>1. Len(L) \in 1..Len(L) /\ L[Len(L)] \in Patches /\ DOMAIN L = 1..Len(L)
  BY EmptySeq, LenProperties, ElementOfSeq
<1>. QED BY <1>1 DEF WithData, Patches

(* Flushed completes the literal at the end.                                  *)
LEMMA FlushedTiles ==
    ASSUME IInv, TileInv, pc = "patch"
    PROVE  /\ Flushed \in Seq(Patches) /\ Len(Flushed) = Len(patchList)
           /\ \A j \in 1..Len(patchList) :
                 /\ Flushed[j].pos = patchList[j].pos /\ Flushed[j].len = patchList[j].len
                 /\ ~IsCopy(j) => Flushed[j].data = Slice(data, starts[j], Edge(j))
<1>. DEFINE n == Len(patchList)
<1>1. /\ Flushed \in Seq(Patches) /\ Len(Flushed) = n
      /\ \A j \in 1..n : Flushed[j].pos = patchList[j].pos /\ Flushed[j].len = patchList[j].len
  BY FlushedLikePatchList DEF IInv
<1>2. \A j \in 1..n : ~IsCopy(j) /\ j < n => patchList[j].data = Slice(data, starts[j], Edge(j))
  BY DEF TileInv, LiteralsInv, SameLiteral
<1>3. CASE BackIsLiteral
  <2>1. n \in 1..n /\ patchList # <<>> /\ n \in Nat
    BY <1>3, Types, EmptySeq, LenProperties DEF BackIsLiteral
  <2>2. bufA = starts[n] /\ patchList[n].data = <<>> /\ starts[n] \in Nat
    BY <1>3, <2>1, Types DEF TileInv, PendingInv
  <2>3. bufB = i /\ bufA <= i /\ Edge(n) = i
    BY <2>2, Types DEF IInv, ScanInv, Edge, ScanEnd
  <2>4. Flushed = WithData(patchList, Slice(data, starts[n], Edge(n)))
    BY <2>2, <2>3 DEF Flushed
  <2>5. Slice(data, starts[n], Edge(n)) \in Seq(Byte)
    BY <2>2, <2>3, Types, SliceType
  <2>6. <<>> \o Slice(data, starts[n], Edge(n)) = Slice(data, starts[n], Edge(n))
    BY <2>5, ConcatEmptySeq
  <2>7. /\ Flushed[n].data = Slice(data, starts[n], Edge(n))
        /\ \A j \in 1..n : j # n => Flushed[j] = patchList[j]
    BY <2>1, <2>2, <2>4, <2>6, Types, WithDataPatches, ZenonT(30)
  <2>. QED BY <1>1, <1>2, <2>1, <2>7
<1>4. CASE ~BackIsLiteral
  <2>1. bufA = -1 /\ Flushed = patchList
    BY <1>4 DEF IInv, ScanInv, Flushed
  <2>2. \A j \in 1..n : ~IsCopy(j) => j < n
    BY <1>4, Types, EmptySeq DEF BackIsLiteral, IsCopy
  <2>. QED BY <1>1, <1>2, <2>1, <2>2
<1>. QED BY <1>3, <1>4

(* The edges while the scan goes on.                                          *)
LEMMA Edges ==
    ASSUME IInv, TilesInv, pc = "patch"
    PROVE  /\ \A j \in 1..Len(patchList) : /\ starts[j] \in Nat /\ Edge(j) \in Nat
                                           /\ starts[j] <= Edge(j) /\ Edge(j) <= Len(data)
           /\ \A j \in 1..Len(patchList) :
                 Edge(j) = IF j = Len(patchList) THEN i ELSE starts[j + 1]
<1>. SUFFICES ASSUME NEW j \in 1..Len(patchList)
              PROVE  /\ starts[j] \in Nat /\ Edge(j) \in Nat
                     /\ starts[j] <= Edge(j) /\ Edge(j) <= Len(data)
                     /\ Edge(j) = IF j = Len(patchList) THEN i ELSE starts[j + 1]
  OBVIOUS
<1>1. Edge(j) = IF j = Len(patchList) THEN i ELSE starts[j + 1]
  BY Types DEF Edge, ScanEnd
<1>2. Edge(j) \in Nat
  <2>1. j = Len(patchList) \/ j + 1 \in 1..Len(patchList)
    BY Types
  <2>. QED BY <1>1, <2>1, Types
<1>3. starts[j] \in 0..Edge(j) /\ Edge(j) <= Len(data)
  BY Types DEF TilesInv
<1>. QED BY <1>1, <1>2, <1>3

(* A block that is found has the bytes of the window, if no checksum lied.    *)
LEMMA FoundSame ==
    ASSUME IInv, InWindow, NEW e \in sumList, Found(e), Indexable, NoCollision
    PROVE  /\ e.pos \in 0..(PosLimit - 1) /\ e.pos + step <= Len(old)
           /\ Slice(old, e.pos, e.pos + step) = Slice(data, i, i + step)
<1>1. /\ e.pos \in Int32s /\ e.pos >= 0 /\ e.pos < PosLimit
      /\ e.pos = e.at /\ e.pos + step <= Len(old)
  BY FoundInOld
<1>2. i \in 0..(Len(data) - step)
  BY Types DEF InWindow
<1>3. Block(old, e.at) = Block(data, i)
  BY <1>2 DEF NoCollision, Found, Hits
<1>. QED BY <1>1, <1>3, Constants DEF Block, Int32s

-----------------------------------------------------------------------------
LEMMA TileInvInit == Init => TileInv /\ BuiltInv /\ Outcome
<1>. SUFFICES ASSUME Init PROVE TileInv /\ BuiltInv /\ Outcome
  OBVIOUS
<1>1. TilesInv /\ PendingInv /\ LiteralsInv /\ CopiesSame
  BY EmptySeq, LenProperties DEF Init, TilesInv, PendingInv, LiteralsInv, CopiesSame,
       BackIsLiteral,
     ScanEnd
<1>2. BuiltInv /\ Outcome
  BY DEF Init, BuiltInv, Outcome, Rebuilds, BigFileOkOrPanic
<1>. QED BY <1>1, <1>2 DEF TileInv

(* The sums are made before there is a patch.                                 *)
LEMMA MakeSumListTiles == RInv /\ MakeSumList => TileInv' /\ BuiltInv' /\ Outcome'
<1>. SUFFICES ASSUME RInv, MakeSumList PROVE TileInv' /\ BuiltInv' /\ Outcome'
  OBVIOUS
<1>1. /\ pc = "sum" /\ pc' = "patch"
      /\ UNCHANGED <<i, starts, patchList, data, k, buf>>
  BY DEF MakeSumList, scanVars, applyVars
<1>2. patchList = <<>> /\ Len(patchList) = 0 /\ Len(starts) = 0 /\ i = 0
  BY <1>1, Types, EmptySeq DEF RInv, TileInv, TilesInv, ScanEnd
<1>3. TilesInv'
  BY <1>1, <1>2 DEF TilesInv, ScanEnd
<1>4. PendingInv' /\ LiteralsInv' /\ CopiesSame'
  BY <1>1, <1>2 DEF PendingInv, BackIsLiteral, LiteralsInv, CopiesSame
<1>5. BuiltInv' /\ Outcome'
  BY <1>1 DEF RInv, BuiltInv, Outcome, Rebuilds, BigFileOkOrPanic
<1>. QED BY <1>3, <1>4, <1>5 DEF TileInv

(* One literal is the whole file.                                             *)
LEMMA WholeFileTiles == RInv /\ WholeFile => TileInv' /\ BuiltInv' /\ Outcome'
<1>. SUFFICES ASSUME RInv, WholeFile PROVE TileInv' /\ BuiltInv' /\ Outcome'
  OBVIOUS
<1>1. /\ pc = "patch" /\ pc' = "apply" /\ patchList' = <<Literal(data)>> /\ starts' = <<0>>
      /\ UNCHANGED <<data, k, buf>>
  BY DEF WholeFile, applyVars
<1>2. /\ Len(patchList') = 1 /\ Len(starts') = 1 /\ starts'[1] = 0 /\ patchList' # <<>>
      /\ patchList'[1].pos = -1 /\ patchList'[1].data = data
  BY <1>1 DEF Literal
<1>3. Edge(1)' = Len(data) /\ Slice(data, 0, Len(data)) = data /\ Len(data) \in Nat
  BY <1>1, <1>2, Types, SliceOfAll DEF RInv, Edge, ScanEnd
<1>4. TilesInv' /\ PendingInv'
  BY <1>1, <1>2, <1>3 DEF TilesInv, PendingInv
<1>5. LiteralsInv'
  BY <1>1, <1>2, <1>3 DEF LiteralsInv, SameLiteral
<1>6. CopiesSame'
  BY <1>2 DEF CopiesSame, IsCopy
<1>7. BuiltInv' /\ Outcome'
  <2>1. k' = 1 /\ buf' = <<>> /\ BuiltTo' = 0
    BY <1>1, <1>2 DEF RInv, BuiltInv, BuiltTo
  <2>2. Slice(data', 0, 0) = <<>>
    BY SliceOfNothing
  <2>. QED BY <1>1, <1>2, <2>1, <2>2 DEF BuiltInv, Outcome, Rebuilds, BigFileOkOrPanic
<1>. QED BY <1>4, <1>5, <1>6, <1>7 DEF TileInv

(* Not at the end of the scan: the verdict is far off.                        *)
LEMMA ScanKeepsBuilt ==
    ASSUME RInv, pc = "patch", pc' = "patch", UNCHANGED <<k, buf>> PROVE BuiltInv' /\ Outcome'
BY DEF RInv, BuiltInv, Outcome, Rebuilds, BigFileOkOrPanic

(* The last copy grows by the window.                                         *)
LEMMA MatchBlockGrows ==
    ASSUME RInv, InWindow, NEW e \in sumList, Found(e), Continues(e.pos),
           patchList' = WithBlock(patchList), bufA' = -1, i' = i + step,
           UNCHANGED <<pc, starts, old, data, sumList>>
    PROVE  TileInv'
<1>0. PICK n \in Nat : n = Len(patchList)
  BY Types DEF RInv
<1>ty. /\ i \in Nat /\ step \in Nat /\ Len(data) \in Nat /\ Len(starts) = n
       /\ old \in Seq(Byte) /\ data \in Seq(Byte)
  BY <1>0, Types DEF RInv
<1>1. /\ pc = "patch" /\ i + step <= Len(data) /\ patchList # <<>> /\ n \in 1..n /\ n \in Nat
      /\ patchList[n].pos # -1 /\ e.pos = Int32(patchList[n].pos + patchList[n].len)
  BY <1>0, Types, EmptySeq, LenProperties DEF RInv, InWindow, Continues, BackIsLiteral
<1>2. /\ patchList' \in Seq(Patches) /\ Len(patchList') = n /\ patchList' # <<>>
      /\ \A j \in 1..n : patchList'[j].pos = patchList[j].pos
      /\ \A j \in 1..n : patchList'[j].len = IF j = n THEN Int32(patchList[j].len + step)
                                                      ELSE patchList[j].len
      /\ \A j \in 1..n : j # n => patchList'[j] = patchList[j]
  <2>1. /\ patchList' \in Seq(Patches) /\ Len(patchList') = n
        /\ \A j \in 1..n : patchList'[j].pos = patchList[j].pos
        /\ \A j \in 1..n : patchList'[j].len = IF j = n THEN Int32(patchList[j].len + step)
                                                        ELSE patchList[j].len
    BY <1>0, <1>1, Types, ExtendLen DEF RInv
  <2>2. \A j \in 1..n : j # n => patchList'[j] = patchList[j]
    BY <1>0, <1>1, Types, LenProperties DEF RInv, WithBlock
  <2>3. patchList' # <<>>
    BY <1>1, <2>1, EmptySeq
  <2>. QED BY <2>1, <2>2, <2>3
<1>3. /\ Edge(n) = i /\ Edge(n)' = i + step /\ Len(starts) = n
      /\ \A j \in 1..n : j # n => Edge(j)' = Edge(j)
      /\ \A j \in 1..n : starts[j] \in Nat /\ starts[j] <= Edge(j) /\ Edge(j) <= Len(data)
                         /\ Edge(j) \in Nat
  <2>1. /\ \A j \in 1..n : /\ starts[j] \in Nat /\ Edge(j) \in Nat
                            /\ starts[j] <= Edge(j) /\ Edge(j) <= Len(data)
        /\ \A j \in 1..n : Edge(j) = IF j = n THEN i ELSE starts[j + 1]
    BY <1>0, <1>1, Edges DEF RInv, TileInv
  <2>2. Len(starts) = n
    BY <1>0, Types DEF RInv
  <2>3. \A j \in 1..n : Edge(j)' = IF j = n THEN i + step ELSE starts[j + 1]
    BY <1>1, <2>2 DEF Edge, ScanEnd
  <2>. QED BY <1>1, <2>1, <2>2, <2>3
<1>4. TilesInv'
  <2>1. \A j \in 1..n : starts[j] \in 0..Edge(j)' /\ Edge(j)' <= Len(data)
    BY <1>1, <1>3, <1>ty
  <2>. QED BY <1>0, <1>1, <1>2, <1>3, <2>1, Types DEF RInv, TileInv, TilesInv
<1>5. PendingInv'
  BY <1>0, <1>1, <1>2 DEF PendingInv, BackIsLiteral
<1>6. LiteralsInv'
  <2>1. SUFFICES ASSUME NEW j \in 1..n, ~IsCopy(j), j < n
                 PROVE  patchList[j].data = Slice(data, starts[j], Edge(j))
    BY <1>0, <1>1, <1>2, <1>3 DEF LiteralsInv, SameLiteral, IsCopy
  <2>. QED BY <1>0, <2>1 DEF RInv, TileInv, LiteralsInv, SameLiteral
<1>7. CopiesSame'
  <2>1. SUFFICES ASSUME Indexable, NoCollision, NEW j \in 1..n, IsCopy(j)
                 PROVE  WrappedCopy(j)' \/ SameCopy(j)'
    BY <1>2 DEF CopiesSame, Indexable, NoCollision, IsCopy, WrappedCopy, Wrapped
  <2>2. WrappedCopy(j) \/ SameCopy(j)
    BY <1>0, <2>1 DEF RInv, TileInv, CopiesSame
  <2>3. CASE j # n
    BY <1>2, <1>3, <2>2, <2>3 DEF SameCopy, CopyEnd, WrappedCopy, Wrapped
  <2>4. CASE j = n
    <3>2. /\ e.pos \in 0..(PosLimit - 1) /\ e.pos + step <= Len(old)
          /\ Slice(old, e.pos, e.pos + step) = Slice(data, i, i + step)
      BY <1>0, <2>1, FoundSame DEF RInv
    <3>1. /\ patchList[n].pos \in Nat /\ patchList[n].len \in Nat
          /\ e.pos = patchList[n].pos + patchList[n].len
          /\ \/ Int32(patchList[n].len + step) = patchList[n].len + step
             \/ Wrapped(patchList[n].pos, Int32(patchList[n].len + step))
      <4>1. patchList[n].pos \in Int32s /\ patchList[n].len \in Int32s
        BY <1>0, <1>1, Types DEF RInv, Patches
      <4>2. InOld(patchList[n].pos, patchList[n].len) \/ Wrapped(patchList[n].pos, patchList[n].len)
        BY <1>0, <1>1, <2>1 DEF RInv, IInv, CopiesInv, InOldOrWrapped
      <4>. QED BY <1>1, <1>ty, <2>1, <3>2, <4>1, <4>2, GrownCopy
    <3>. SUFFICES ASSUME ~WrappedCopy(n)' PROVE SameCopy(n)'
      BY <2>4
    <3>3. Int32(patchList[n].len + step) = patchList[n].len + step
      BY <1>1, <1>2, <3>1 DEF WrappedCopy, Wrapped
    <3>4. /\ starts[n] + patchList[n].len = i
          /\ Slice(old, patchList[n].pos, e.pos) = Slice(data, starts[n], i)
      BY <1>3, <2>2, <2>4, <3>1 DEF SameCopy, CopyEnd, WrappedCopy, Wrapped
    <3>5. Slice(old, patchList[n].pos, e.pos) \o Slice(old, e.pos, e.pos + step)
            = Slice(old, patchList[n].pos, e.pos + step)
      <4>1. /\ patchList[n].pos \in Nat /\ e.pos \in Nat /\ e.pos + step \in Nat
            /\ patchList[n].pos <= e.pos /\ e.pos <= e.pos + step /\ old \in Seq(Byte)
        <5>1. e.pos \in Nat /\ step \in Nat
          BY <3>2, Constants
        <5>2. /\ patchList[n].pos \in Nat /\ patchList[n].len \in Nat
              /\ e.pos = patchList[n].pos + patchList[n].len
          BY <3>1
        <5>3. patchList[n].pos <= e.pos
          BY ONLY <5>2
        <5>. QED BY <5>1, <5>2, <5>3, <1>ty
      <4>. QED BY <3>2, <4>1, SlicesJoin
    <3>6. Slice(data, starts[n], i) \o Slice(data, i, i + step) = Slice(data, starts[n], i + step)
      <4>1. /\ starts[n] \in Nat /\ i \in Nat /\ i + step \in Nat /\ starts[n] <= i
            /\ i <= i + step /\ data \in Seq(Byte)
        BY <1>1, <1>3, <1>ty
      <4>. QED BY <1>1, <4>1, SlicesJoin
    <3>7. /\ patchList'[n].pos = patchList[n].pos /\ CopyEnd(n)' = e.pos + step
          /\ starts[n] + patchList'[n].len = i + step
      <4>1. /\ patchList'[n].pos = patchList[n].pos
            /\ patchList'[n].len = patchList[n].len + step
        BY <1>1, <1>2, <3>3
      <4>2. CopyEnd(n)' = patchList[n].pos + (patchList[n].len + step)
        BY <4>1 DEF CopyEnd
      <4>3. CopyEnd(n)' = e.pos + step
        BY <3>1, <4>2, <1>ty
      <4>4. starts[n] + patchList'[n].len = i + step
        <5>1. starts[n] \in Nat /\ patchList[n].len \in Nat
          BY <1>1, <1>3, <3>1
        <5>2. starts[n] + patchList[n].len = i
          BY <3>4
        <5>3. patchList'[n].len = patchList[n].len + step
          BY <4>1
        <5>4. starts[n] + (patchList[n].len + step) = (starts[n] + patchList[n].len) + step
          BY <5>1, Constants
        <5>. QED BY ONLY <5>2, <5>3, <5>4
      <4>. QED BY <4>1, <4>3, <4>4
    <3>. QED BY <1>3, <2>4, <3>2, <3>4, <3>5, <3>6, <3>7 DEF SameCopy
  <2>. QED BY <2>3, <2>4
<1>. QED BY <1>4, <1>5, <1>6, <1>7 DEF TileInv

(* The window is a copy of its own, behind the flushed patches.               *)
LEMMA MatchBlockAppends ==
    ASSUME RInv, InWindow, NEW e \in sumList, Found(e),
           patchList' = Append(Flushed, Copy(e.pos)), starts' = Append(starts, i),
           bufA' = -1, i' = i + step, UNCHANGED <<pc, old, data, sumList>>
    PROVE  TileInv'
<1>0. PICK n \in Nat : n = Len(patchList)
  BY Types DEF RInv
<1>ty. /\ i \in Nat /\ step \in Nat /\ Len(data) \in Nat /\ Len(starts) = n
       /\ old \in Seq(Byte) /\ data \in Seq(Byte)
  BY <1>0, Types DEF RInv
<1>1. pc = "patch" /\ i + step <= Len(data) /\ n \in Nat
  BY <1>0, Types DEF RInv, InWindow
<1>2. /\ Flushed \in Seq(Patches) /\ Len(Flushed) = n
      /\ \A j \in 1..n :
            /\ Flushed[j].pos = patchList[j].pos /\ Flushed[j].len = patchList[j].len
            /\ ~IsCopy(j) => Flushed[j].data = Slice(data, starts[j], Edge(j))
  BY <1>0, <1>1, FlushedTiles DEF RInv
<1>3. e.pos \in Int32s /\ e.pos >= 0
  BY <1>0, FoundInOld DEF RInv
<1>4. /\ Len(patchList') = n + 1 /\ patchList' # <<>>
      /\ \A j \in 1..n : patchList'[j] = Flushed[j]
      /\ patchList'[n + 1] = Copy(e.pos) /\ Copy(e.pos).pos = e.pos /\ Copy(e.pos).len = step
  BY <1>2, <1>3, NewPatchType, AppendProperties, SMTT(30)
<1>5. /\ Len(starts') = n + 1 /\ starts'[n + 1] = i
      /\ \A j \in 1..n : starts'[j] = starts[j]
  BY <1>0, Types, AppendProperties DEF RInv
<1>6. /\ Edge(n + 1)' = i + step
      /\ \A j \in 1..n : Edge(j)' = Edge(j)
      /\ \A j \in 1..n : starts[j] \in Nat /\ starts[j] <= Edge(j) /\ Edge(j) <= Len(data)
                         /\ Edge(j) \in Nat
  <2>1. /\ \A j \in 1..n : /\ starts[j] \in Nat /\ Edge(j) \in Nat
                            /\ starts[j] <= Edge(j) /\ Edge(j) <= Len(data)
        /\ \A j \in 1..n : Edge(j) = IF j = n THEN i ELSE starts[j + 1]
    BY <1>0, <1>1, Edges DEF RInv, TileInv
  <2>2. \A j \in 1..n : Edge(j)' = IF j = n THEN i ELSE starts[j + 1]
    <3>1. SUFFICES ASSUME NEW j \in 1..n PROVE Edge(j)' = IF j = n THEN i ELSE starts[j + 1]
      OBVIOUS
    <3>2. j # n + 1 /\ (j = n \/ j + 1 \in 1..n)
      BY <1>1
    <3>. QED BY <1>1, <1>5, <3>2 DEF Edge
  <2>3. Edge(n + 1)' = i + step
    BY <1>1, <1>5 DEF Edge, ScanEnd
  <2>. QED BY <2>1, <2>2, <2>3
<1>7. TilesInv'
  <2>1. \A j \in 1..(n + 1) : starts'[j] \in 0..Edge(j)' /\ Edge(j)' <= Len(data)
    <3>1. starts'[n + 1] \in 0..Edge(n + 1)' /\ Edge(n + 1)' <= Len(data)
      BY <1>0, <1>1, <1>5, <1>6, Types DEF RInv
    <3>2. \A j \in 1..n : starts'[j] \in 0..Edge(j)' /\ Edge(j)' <= Len(data)
      BY <1>5, <1>6
    <3>3. \A j \in 1..(n + 1) : j \in 1..n \/ j = n + 1
      BY <1>0
    <3>. QED BY <3>1, <3>2, <3>3
  <2>2. starts'[1] = 0
    <3>1. CASE n = 0
      <4>1. patchList = <<>>
        BY <1>0, <3>1, Types, EmptySeq DEF RInv
      <4>2. i = 0
        BY <1>1, <4>1 DEF RInv, TileInv, TilesInv, ScanEnd
      <4>. QED BY <1>5, <3>1, <4>2
    <3>2. CASE n # 0
      BY <1>0, <1>1, <1>5, <3>2, Types, EmptySeq DEF RInv, TileInv, TilesInv
    <3>. QED BY <3>1, <3>2
  <2>. QED BY <1>0, <1>1, <1>4, <1>5, <2>1, <2>2 DEF TilesInv
<1>8. PendingInv'
  BY <1>0, <1>1, <1>3, <1>4, Constants DEF PendingInv, BackIsLiteral
<1>9. LiteralsInv'
  <2>1. SUFFICES ASSUME NEW j \in 1..n, patchList'[j].pos = -1
                 PROVE  patchList'[j].data = Slice(data, starts'[j], Edge(j)')
    <3>1. \A j \in 1..(n + 1) : j < n + 1 => j \in 1..n
      BY <1>0
    <3>. QED BY <1>1, <1>4, <3>1 DEF LiteralsInv, SameLiteral, IsCopy
  <2>. QED BY <1>2, <1>4, <1>5, <1>6, <2>1, ZenonT(30) DEF IsCopy
<1>10. CopiesSame'
  <2>1. SUFFICES ASSUME Indexable, NoCollision, NEW j \in 1..(n + 1), IsCopy(j)'
                 PROVE  WrappedCopy(j)' \/ SameCopy(j)'
    BY <1>4 DEF CopiesSame, Indexable, NoCollision
  <2>2. CASE j \in 1..n
    <3>1. WrappedCopy(j) \/ SameCopy(j)
      BY <1>0, <1>2, <1>4, <2>1, <2>2 DEF RInv, TileInv, CopiesSame, IsCopy
    <3>. QED BY <1>2, <1>4, <1>5, <1>6, <2>2, <3>1 DEF SameCopy, CopyEnd, WrappedCopy, Wrapped
  <2>3. CASE j = n + 1
    <3>1. Slice(old, e.pos, e.pos + step) = Slice(data, i, i + step)
      BY <1>0, <2>1, FoundSame DEF RInv
    <3>2. CopyEnd(n + 1)' = e.pos + step /\ patchList'[n + 1].pos = e.pos
          /\ patchList'[n + 1].len = step
      BY <1>4 DEF CopyEnd
    <3>. QED BY <1>5, <1>6, <2>3, <3>1, <3>2 DEF SameCopy
  <2>. QED BY <1>1, <2>1, <2>2, <2>3
<1>. QED BY <1>7, <1>8, <1>9, <1>10 DEF TileInv

LEMMA MatchBlockTiles == RInv /\ MatchBlock => TileInv' /\ BuiltInv' /\ Outcome'
<1>. SUFFICES ASSUME RInv, MatchBlock PROVE TileInv' /\ BuiltInv' /\ Outcome'
  OBVIOUS
<1>1. PICK e \in sumList :
        /\ Found(e)
        /\ IF Continues(e.pos)
           THEN patchList' = WithBlock(patchList) /\ UNCHANGED starts
           ELSE patchList' = Append(Flushed, Copy(e.pos)) /\ starts' = Append(starts, i)
  BY DEF MatchBlock
<1>2. /\ InWindow /\ pc = "patch" /\ bufA' = -1 /\ i' = i + step
      /\ UNCHANGED <<pc, old, data, sumList, k, buf>>
  BY DEF MatchBlock, InWindow, applyVars
<1>3. CASE Continues(e.pos)
  BY <1>1, <1>2, <1>3, MatchBlockGrows, ScanKeepsBuilt
<1>4. CASE ~Continues(e.pos)
  BY <1>1, <1>2, <1>4, MatchBlockAppends, ScanKeepsBuilt
<1>. QED BY <1>3, <1>4

(* A differing byte is pending in the literal at the end, which it may begin. *)
LEMMA DiffByteTiles == RInv /\ DiffByte => TileInv' /\ BuiltInv' /\ Outcome'
<1>. SUFFICES ASSUME RInv, DiffByte PROVE TileInv' /\ BuiltInv' /\ Outcome'
  OBVIOUS
<1>0. PICK n \in Nat : n = Len(patchList)
  BY Types DEF RInv
<1>ty. /\ i \in Nat /\ step \in Nat /\ step > 0 /\ Len(data) \in Nat /\ Len(starts) = n
       /\ patchList \in Seq(Patches) /\ starts \in Seq(Nat)
  BY <1>0, Types DEF RInv
<1>1. /\ pc = "patch" /\ i + step <= Len(data) /\ i' = i + 1
      /\ IF BackIsLiteral THEN UNCHANGED <<patchList, starts>>
         ELSE patchList' = Append(patchList, Literal(<<>>)) /\ starts' = Append(starts, i)
      /\ IF bufA = -1 THEN bufA' = i /\ bufB' = i + 1 ELSE bufA' = bufA /\ bufB' = bufB + 1
      /\ UNCHANGED <<pc, old, data, sumList, k, buf>>
  BY DEF DiffByte, InWindow, applyVars
<1>2. /\ \A j \in 1..n : /\ starts[j] \in Nat /\ Edge(j) \in Nat
                         /\ starts[j] <= Edge(j) /\ Edge(j) <= Len(data)
      /\ \A j \in 1..n : Edge(j) = IF j = n THEN i ELSE starts[j + 1]
  BY <1>0, <1>1, Edges DEF RInv, TileInv
<1>3. CASE BackIsLiteral
  <2>1. /\ patchList # <<>> /\ n \in 1..n /\ ~IsCopy(n)
        /\ patchList' = patchList /\ starts' = starts
    BY <1>0, <1>1, <1>3, <1>ty, EmptySeq DEF BackIsLiteral, IsCopy
  <2>2. bufA = starts[n] /\ patchList[n].data = <<>>
    BY <1>0, <1>1, <1>3, <1>ty DEF RInv, TileInv, PendingInv
  <2>3. bufA' = bufA
    BY <1>1, <1>2, <2>1, <2>2
  <2>4. \A j \in 1..n : Edge(j)' = IF j = n THEN i + 1 ELSE Edge(j)
    BY <1>1, <1>2, <1>ty, <2>1 DEF Edge, ScanEnd
  <2>5. TilesInv'
    <3>1. \A j \in 1..n : starts[j] \in 0..Edge(j)' /\ Edge(j)' <= Len(data)
      <4>1. SUFFICES ASSUME NEW j \in 1..n
                     PROVE  starts[j] \in 0..Edge(j)' /\ Edge(j)' <= Len(data)
        OBVIOUS
      <4>2. i + 1 <= Len(data)
        BY <1>1, <1>ty
      <4>3. CASE j = n
        BY <1>2, <1>ty, <2>4, <4>2, <4>3
      <4>4. CASE j # n
        BY <1>2, <2>4, <4>4
      <4>. QED BY <4>3, <4>4
    <3>. QED BY <1>1, <1>ty, <2>1, <3>1 DEF RInv, TileInv, TilesInv
  <2>6. PendingInv'
    BY <1>0, <1>ty, <2>1, <2>2, <2>3 DEF PendingInv
  <2>7. LiteralsInv'
    <3>1. SUFFICES ASSUME NEW j \in 1..n, ~IsCopy(j), j < n
                   PROVE  patchList[j].data = Slice(data, starts[j], Edge(j)')
      BY <1>0, <1>1, <2>1 DEF LiteralsInv, SameLiteral, IsCopy
    <3>2. patchList[j].data = Slice(data, starts[j], Edge(j))
      BY <1>0, <3>1 DEF RInv, TileInv, LiteralsInv, SameLiteral
    <3>. QED BY <2>4, <3>1, <3>2
  <2>8. CopiesSame'
    <3>1. SUFFICES ASSUME Indexable, NoCollision, NEW j \in 1..n, IsCopy(j)
                   PROVE  WrappedCopy(j)' \/ SameCopy(j)'
      BY <1>0, <1>1, <2>1 DEF CopiesSame, Indexable, NoCollision, IsCopy, WrappedCopy, Wrapped
    <3>2. (WrappedCopy(j) \/ SameCopy(j)) /\ j # n
      BY <1>0, <2>1, <3>1 DEF RInv, TileInv, CopiesSame
    <3>. QED BY <1>1, <2>1, <2>4, <3>2 DEF SameCopy, CopyEnd, WrappedCopy, Wrapped
  <2>. QED BY <1>1, <2>5, <2>6, <2>7, <2>8, ScanKeepsBuilt DEF TileInv
<1>4. CASE ~BackIsLiteral
  <2>1. bufA' = i /\ patchList' = Append(patchList, Literal(<<>>)) /\ starts' = Append(starts, i)
    BY <1>1, <1>4 DEF RInv, IInv, ScanInv
  <2>2. /\ Len(patchList') = n + 1 /\ patchList' # <<>>
        /\ \A j \in 1..n : patchList'[j] = patchList[j]
        /\ patchList'[n + 1].pos = -1 /\ patchList'[n + 1].data = <<>>
    <3>1. Literal(<<>>) \in Patches /\ Literal(<<>>).pos = -1 /\ Literal(<<>>).data = <<>>
      BY NewPatchType, EmptySeq DEF Literal
    <3>. QED BY <1>0, <1>ty, <2>1, <3>1, AppendProperties, SMTT(30)
  <2>3. /\ Len(starts') = n + 1 /\ starts'[n + 1] = i
        /\ \A j \in 1..n : starts'[j] = starts[j]
    BY <1>ty, <2>1, AppendProperties
  <2>4. \A j \in 1..n : Edge(j)' = Edge(j)
    <3>1. SUFFICES ASSUME NEW j \in 1..n PROVE Edge(j)' = IF j = n THEN i ELSE starts[j + 1]
      BY <1>2
    <3>2. j # n + 1 /\ (j = n \/ j + 1 \in 1..n)
      BY <1>0
    <3>. QED BY <2>3, <3>2 DEF Edge
  <2>5. Edge(n + 1)' = i + 1
    BY <1>1, <2>3 DEF Edge, ScanEnd
  <2>6. \A j \in 1..(n + 1) : j \in 1..n \/ j = n + 1
    BY <1>0
  <2>7. TilesInv'
    <3>1. \A j \in 1..(n + 1) : starts'[j] \in 0..Edge(j)' /\ Edge(j)' <= Len(data)
      <4>1. starts'[n + 1] \in 0..Edge(n + 1)' /\ Edge(n + 1)' <= Len(data)
        BY <1>1, <1>ty, <2>3, <2>5
      <4>2. \A j \in 1..n : starts'[j] \in 0..Edge(j)' /\ Edge(j)' <= Len(data)
        BY <1>2, <2>3, <2>4
      <4>. QED BY <2>6, <4>1, <4>2
    <3>2. starts'[1] = 0
      <4>1. CASE n = 0
        <5>1. patchList = <<>>
          BY <1>0, <1>ty, <4>1, EmptySeq
        <5>2. i = 0
          BY <1>1, <5>1 DEF RInv, TileInv, TilesInv, ScanEnd
        <5>. QED BY <2>3, <4>1, <5>2
      <4>2. CASE n # 0
        BY <1>0, <1>ty, <2>3, <4>2, EmptySeq DEF RInv, TileInv, TilesInv
      <4>. QED BY <4>1, <4>2
    <3>. QED BY <1>1, <2>2, <2>3, <3>1, <3>2 DEF TilesInv
  <2>8. PendingInv'
    BY <2>1, <2>2, <2>3 DEF PendingInv
  <2>9. LiteralsInv'
    <3>1. SUFFICES ASSUME NEW j \in 1..n, patchList'[j].pos = -1
                   PROVE  patchList'[j].data = Slice(data, starts'[j], Edge(j)')
      <4>1. \A j \in 1..(n + 1) : j < n + 1 => j \in 1..n
        BY <1>0
      <4>. QED BY <1>1, <2>2, <4>1 DEF LiteralsInv, SameLiteral, IsCopy
    <3>2. ~IsCopy(j) /\ j < n
      BY <1>0, <1>4, <1>ty, <2>2, <3>1, EmptySeq DEF IsCopy, BackIsLiteral
    <3>3. patchList[j].data = Slice(data, starts[j], Edge(j))
      BY <1>0, <3>2 DEF RInv, TileInv, LiteralsInv, SameLiteral
    <3>. QED BY <2>2, <2>3, <2>4, <3>3
  <2>10. CopiesSame'
    <3>1. SUFFICES ASSUME Indexable, NoCollision, NEW j \in 1..(n + 1), IsCopy(j)'
                   PROVE  WrappedCopy(j)' \/ SameCopy(j)'
      BY <1>1, <2>2 DEF CopiesSame, Indexable, NoCollision
    <3>2. j \in 1..n /\ IsCopy(j)
      BY <2>2, <2>6, <3>1 DEF IsCopy
    <3>3. WrappedCopy(j) \/ SameCopy(j)
      BY <1>0, <3>1, <3>2 DEF RInv, TileInv, CopiesSame
    <3>. QED BY <1>1, <2>2, <2>3, <2>4, <3>2, <3>3 DEF SameCopy, CopyEnd, WrappedCopy, Wrapped
  <2>. QED BY <1>1, <2>7, <2>8, <2>9, <2>10, ScanKeepsBuilt DEF TileInv
<1>. QED BY <1>3, <1>4

(* The rest of the file completes the literal at the end or is one.           *)
LEMMA FinishPatchTiles == RInv /\ FinishPatch => TileInv' /\ BuiltInv' /\ Outcome'
<1>. SUFFICES ASSUME RInv, FinishPatch PROVE TileInv' /\ BuiltInv' /\ Outcome'
  OBVIOUS
<1>0. PICK n \in Nat : n = Len(patchList)
  BY Types DEF RInv
<1>ty. /\ i \in Nat /\ i <= Len(data) /\ Len(data) \in Nat /\ Len(starts) = n
       /\ patchList \in Seq(Patches) /\ starts \in Seq(Nat) /\ data \in Seq(Byte)
  BY <1>0, Types DEF RInv
<1>1. /\ pc = "patch" /\ pc' = "apply"
      /\ IF BackIsLiteral THEN patchList' = WithData(Flushed, Rest) /\ UNCHANGED starts
         ELSE patchList' = Append(Flushed, Literal(Rest)) /\ starts' = Append(starts, i)
      /\ UNCHANGED <<old, data, sumList, k, buf>>
  BY DEF FinishPatch, applyVars
<1>2. /\ \A j \in 1..n : /\ starts[j] \in Nat /\ Edge(j) \in Nat
                         /\ starts[j] <= Edge(j) /\ Edge(j) <= Len(data)
      /\ \A j \in 1..n : Edge(j) = IF j = n THEN i ELSE starts[j + 1]
  BY <1>0, <1>1, Edges DEF RInv, TileInv
<1>3. /\ Flushed \in Seq(Patches) /\ Len(Flushed) = n
      /\ \A j \in 1..n :
            /\ Flushed[j].pos = patchList[j].pos /\ Flushed[j].len = patchList[j].len
            /\ ~IsCopy(j) => Flushed[j].data = Slice(data, starts[j], Edge(j))
  BY <1>0, <1>1, FlushedTiles DEF RInv
<1>4. Rest = Slice(data, i, Len(data)) /\ Rest \in Seq(Byte)
  BY <1>ty, SliceType DEF Rest
<1>5. TileInv' /\ patchList' # <<>>
  <2>1. CASE BackIsLiteral
    <3>1. /\ n \in 1..n /\ ~IsCopy(n) /\ patchList # <<>>
          /\ patchList' = WithData(Flushed, Rest) /\ starts' = starts
      BY <1>0, <1>1, <1>ty, <2>1, EmptySeq DEF BackIsLiteral, IsCopy
    <3>2. Flushed # <<>>
      BY <1>3, <3>1, EmptySeq
    <3>3. /\ Len(patchList') = n /\ patchList' # <<>>
          /\ \A j \in 1..n : /\ patchList'[j].pos = patchList[j].pos
                            /\ patchList'[j].len = patchList[j].len
          /\ \A j \in 1..n : j # n => patchList'[j] = Flushed[j]
          /\ patchList'[n].data = Flushed[n].data \o Rest
      <4>1. /\ patchList' \in Seq(Patches) /\ Len(patchList') = n
            /\ \A j \in 1..n : /\ patchList'[j].pos = Flushed[j].pos
                              /\ patchList'[j].len = Flushed[j].len
        BY <1>3, <1>4, <3>1, <3>2, ExtendData
      <4>2. /\ \A j \in 1..n : j # n => patchList'[j] = Flushed[j]
            /\ patchList'[n].data = Flushed[n].data \o Rest
        BY <1>3, <3>1, <3>2, WithDataPatches
      <4>3. patchList' # <<>>
        BY <3>1, <4>1, EmptySeq
      <4>. QED BY <1>3, <4>1, <4>2, <4>3
    <3>4. \A j \in 1..n : Edge(j)' = IF j = n THEN Len(data) ELSE Edge(j)
      BY <1>1, <1>2, <1>ty, <3>1 DEF Edge, ScanEnd
    <3>5. TilesInv'
      <4>1. SUFFICES ASSUME NEW j \in 1..n
                     PROVE  starts[j] \in 0..Edge(j)' /\ Edge(j)' <= Len(data)
        BY <1>1, <1>ty, <3>1, <3>3 DEF RInv, TileInv, TilesInv
      <4>2. CASE j = n
        <5>1. starts[j] \in Nat /\ starts[j] <= i /\ Edge(j)' = Len(data)
          BY <1>2, <3>4, <4>2
        <5>. QED BY <1>ty, <5>1
      <4>3. CASE j # n
        BY <1>2, <3>4, <4>3
      <4>. QED BY <4>2, <4>3
    <3>6. PendingInv'
      BY <1>1 DEF PendingInv
    <3>7. LiteralsInv'
      <4>1. SUFFICES ASSUME NEW j \in 1..n, ~IsCopy(j)
                     PROVE  patchList'[j].data = Slice(data, starts[j], Edge(j)')
        BY <1>1, <3>1, <3>3 DEF LiteralsInv, SameLiteral, IsCopy
      <4>2. CASE j # n
        BY <1>3, <3>3, <3>4, <4>1, <4>2
      <4>3. CASE j = n
        <5>1. /\ Flushed[n].data = Slice(data, starts[n], i)
              /\ starts[n] \in Nat /\ starts[n] <= i
          BY <1>2, <1>3, <3>1
        <5>2. Slice(data, starts[n], i) \o Slice(data, i, Len(data))
                = Slice(data, starts[n], Len(data))
          <6>1. Len(data) <= Len(data)
            BY <1>ty
          <6>. QED BY <1>ty, <5>1, <6>1, SlicesJoin, ZenonT(30)
        <5>. QED BY <1>4, <3>1, <3>3, <3>4, <4>3, <5>1, <5>2
      <4>. QED BY <4>2, <4>3
    <3>8. CopiesSame'
      <4>1. SUFFICES ASSUME Indexable, NoCollision, NEW j \in 1..n, IsCopy(j)
                     PROVE  WrappedCopy(j)' \/ SameCopy(j)'
        BY <1>1, <3>1, <3>3 DEF CopiesSame, Indexable, NoCollision, IsCopy, WrappedCopy, Wrapped
      <4>2. (WrappedCopy(j) \/ SameCopy(j)) /\ j # n
        BY <1>0, <3>1, <4>1 DEF RInv, TileInv, CopiesSame
      <4>. QED BY <1>1, <3>1, <3>3, <3>4, <4>2 DEF SameCopy, CopyEnd, WrappedCopy, Wrapped
    <3>. QED BY <3>3, <3>5, <3>6, <3>7, <3>8 DEF TileInv
  <2>2. CASE ~BackIsLiteral
    <3>1. patchList' = Append(Flushed, Literal(Rest)) /\ starts' = Append(starts, i)
      BY <1>1, <2>2
    <3>2. /\ Len(patchList') = n + 1 /\ patchList' # <<>>
          /\ \A j \in 1..n : patchList'[j] = Flushed[j]
          /\ patchList'[n + 1].pos = -1 /\ patchList'[n + 1].data = Rest
      <4>1. Literal(Rest) \in Patches /\ Literal(Rest).pos = -1 /\ Literal(Rest).data = Rest
        BY <1>4, NewPatchType DEF Literal
      <4>. QED BY <1>3, <3>1, <4>1, AppendProperties
    <3>3. /\ Len(starts') = n + 1 /\ starts'[n + 1] = i
          /\ \A j \in 1..n : starts'[j] = starts[j]
      BY <1>ty, <3>1, AppendProperties
    <3>4. \A j \in 1..n : Edge(j)' = Edge(j)
      <4>1. SUFFICES ASSUME NEW j \in 1..n PROVE Edge(j)' = IF j = n THEN i ELSE starts[j + 1]
        BY <1>2
      <4>2. j # n + 1 /\ (j = n \/ j + 1 \in 1..n)
        BY <1>0
      <4>. QED BY <3>3, <4>2 DEF Edge
    <3>5. Edge(n + 1)' = Len(data)
      BY <1>1, <3>3 DEF Edge, ScanEnd
    <3>6. \A j \in 1..(n + 1) : j \in 1..n \/ j = n + 1
      BY <1>0
    <3>7. TilesInv'
      <4>1. \A j \in 1..(n + 1) : starts'[j] \in 0..Edge(j)' /\ Edge(j)' <= Len(data)
        <5>1. starts'[n + 1] \in 0..Edge(n + 1)' /\ Edge(n + 1)' <= Len(data)
          BY <1>ty, <3>3, <3>5
        <5>2. \A j \in 1..n : starts'[j] \in 0..Edge(j)' /\ Edge(j)' <= Len(data)
          BY <1>2, <3>3, <3>4
        <5>. QED BY <3>6, <5>1, <5>2
      <4>2. starts'[1] = 0
        <5>1. CASE n = 0
          <6>1. patchList = <<>>
            BY <1>0, <1>ty, <5>1, EmptySeq
          <6>2. i = 0
            BY <1>1, <6>1 DEF RInv, TileInv, TilesInv, ScanEnd
          <6>. QED BY <3>3, <5>1, <6>2
        <5>2. CASE n # 0
          BY <1>0, <1>ty, <3>3, <5>2, EmptySeq DEF RInv, TileInv, TilesInv
        <5>. QED BY <5>1, <5>2
      <4>. QED BY <1>1, <3>2, <3>3, <4>1, <4>2 DEF TilesInv
    <3>8. PendingInv'
      BY <1>1 DEF PendingInv
    <3>9. LiteralsInv'
      <4>1. SUFFICES ASSUME NEW j \in 1..(n + 1), patchList'[j].pos = -1
                     PROVE  patchList'[j].data = Slice(data, starts'[j], Edge(j)')
        BY <1>1, <3>2 DEF LiteralsInv, SameLiteral, IsCopy
      <4>2. CASE j \in 1..n
        BY <1>3, <3>2, <3>3, <3>4, <4>1, <4>2 DEF IsCopy
      <4>3. CASE j = n + 1
        BY <1>4, <3>2, <3>3, <3>5, <4>3
      <4>. QED BY <3>6, <4>2, <4>3
    <3>10. CopiesSame'
      <4>1. SUFFICES ASSUME Indexable, NoCollision, NEW j \in 1..(n + 1), IsCopy(j)'
                     PROVE  WrappedCopy(j)' \/ SameCopy(j)'
        BY <1>1, <3>2 DEF CopiesSame, Indexable, NoCollision
      <4>2. j \in 1..n /\ IsCopy(j)
        BY <1>3, <3>2, <3>6, <4>1 DEF IsCopy
      <4>3. WrappedCopy(j) \/ SameCopy(j)
        BY <1>0, <4>1, <4>2 DEF RInv, TileInv, CopiesSame
      <4>. QED BY <1>1, <1>3, <3>2, <3>3, <3>4, <4>2, <4>3 DEF SameCopy, CopyEnd, WrappedCopy,
           Wrapped
    <3>. QED BY <3>2, <3>7, <3>8, <3>9, <3>10 DEF TileInv
  <2>. QED BY <2>1, <2>2
<1>6. BuiltInv' /\ Outcome'
  <2>1. /\ k' = 1 /\ buf' = <<>> /\ starts'[1] = 0 /\ Len(patchList') = Len(starts')
        /\ Len(patchList') \in Nat /\ Len(patchList') # 0
    <3>1. IInv'
      BY FinishPatchInv DEF RInv
    <3>2. /\ Len(patchList') = Len(starts') /\ Len(patchList') \in Nat
          /\ patchList' \in Seq(Patches)
      BY <3>1, LenProperties DEF IInv, TypeOK
    <3>. QED BY <1>1, <1>5, <3>2, EmptySeq DEF RInv, BuiltInv, TileInv, TilesInv
  <2>2. BuiltTo' = 0
    BY <2>1 DEF BuiltTo
  <2>3. Slice(data', 0, 0) = <<>>
    BY SliceOfNothing
  <2>4. k' \in 1..(Len(patchList') + 1)
    BY <2>1
  <2>. QED BY <1>1, <2>1, <2>2, <2>3, <2>4 DEF BuiltInv, Outcome, Rebuilds, BigFileOkOrPanic
<1>. QED BY <1>5, <1>6

(* What RebuildFile does copy has not wrapped.                                *)
LEMMA InRangeUnwrapped ==
    ASSUME old \in Seq(Byte), Indexable, InOldOrWrapped(Patch), InRange, Patch.pos # -1,
           Patch.pos \in Int32s, Patch.len \in Int32s
    PROVE  PatchEnd = Patch.pos + Patch.len /\ ~Wrapped(Patch.pos, Patch.len)
<1>. PICK P \in Nat, S \in Nat, L \in Nat : P = PosLimit /\ S = step /\ L = Len(old)
  BY Constants, LenProperties
<1>. PICK x \in Int32s, l \in Int32s : x = Patch.pos /\ l = Patch.len
  OBVIOUS
<1>1. S > 0 /\ S < P /\ x \in -P..(P - 1) /\ l \in -P..(P - 1) /\ PatchEnd = Int32(x + l)
  BY Constants DEF Int32s, PatchEnd
<1>2. x >= 0 /\ PatchEnd >= 0
  <2>1. PICK m \in Int : m = x + l
    BY <1>1
  <2>2. Int32(m) \in Int
    BY Int32Type, Constants DEF Int32s
  <2>. QED BY <1>1, <2>1, <2>2 DEF InRange
<1>3. CASE Wrapped(x, l)
  <2>1. PICK m \in -PosLimit..-1 : m = x + l
    BY <1>1, <1>2, <1>3 DEF Wrapped
  <2>2. Int32(m) = m
    BY Int32Negative
  <2>. QED BY <1>1, <1>2, <2>1, <2>2
<1>4. CASE InOld(x, l) /\ x + l >= P
  <2>1. PICK m \in PosLimit..(2 * PosLimit - 1) : m = x + l
    BY <1>1, <1>2, <1>4 DEF InOld
  <2>2. Int32(m) = m - 2 * PosLimit
    BY Int32Wraps
  <2>. QED BY <1>1, <1>2, <2>1, <2>2
<1>5. CASE InOld(x, l) /\ x + l < P
  <2>1. PICK m \in 0..(PosLimit - 1) : m = x + l
    BY <1>1, <1>2, <1>5 DEF InOld
  <2>2. Int32(m) = m
    BY Int32Fits
  <2>. QED BY <1>1, <1>2, <1>5, <2>1, <2>2 DEF InOld, Wrapped
<1>. QED BY <1>1, <1>3, <1>4, <1>5 DEF InOldOrWrapped

(* A patch adds its tile; an intact block is in range.                        *)
LEMMA ApplyPatchTiles == RInv /\ ApplyPatch => TileInv' /\ BuiltInv' /\ Outcome'
<1>. SUFFICES ASSUME RInv, ApplyPatch PROVE TileInv' /\ BuiltInv' /\ Outcome'
  OBVIOUS
<1>0. PICK n \in Nat : n = Len(patchList)
  BY Types DEF RInv
<1>ty. /\ Len(starts) = n /\ Len(data) \in Nat /\ data \in Seq(Byte)
       /\ \A j \in 1..n : starts[j] \in Nat
       /\ \A j \in 1..n : patchList[j].pos \in Int
  BY <1>0, Types DEF RInv
<1>1. /\ pc = "apply" /\ k <= n /\ pc' \in {"apply", "done"}
      /\ UNCHANGED <<old, base, data, sumList, i, bufA, bufB, patchList, starts>>
      /\ IF Patch.pos = -1
         THEN buf' = buf \o Patch.data /\ k' = k + 1 /\ UNCHANGED <<pc, verdict>>
         ELSE IF InRange
         THEN buf' = buf \o Slice(base, Patch.pos, PatchEnd) /\ k' = k + 1
              /\ UNCHANGED <<pc, verdict>>
         ELSE verdict' = "panic" /\ pc' = "done" /\ UNCHANGED <<k, buf>>
  BY <1>0 DEF ApplyPatch, scanVars
<1>2. TileInv'
  <2>1. \A j : Edge(j)' = Edge(j)
    BY <1>1 DEF Edge, ScanEnd
  <2>2. TilesInv' /\ PendingInv' /\ LiteralsInv'
    BY <1>1, <2>1 DEF RInv, TileInv, TilesInv, ScanEnd, PendingInv, LiteralsInv, SameLiteral,
         IsCopy
  <2>3. CopiesSame'
    BY <1>1, <2>1 DEF RInv, TileInv, CopiesSame, SameCopy,
         CopyEnd, IsCopy, WrappedCopy, Wrapped, Indexable, NoCollision
  <2>. QED BY <2>2, <2>3 DEF TileInv
<1>3. k \in 1..n /\ k \in Nat
  BY <1>0, <1>1 DEF RInv, BuiltInv
<1>4. /\ starts[k] \in Nat /\ Edge(k) \in Nat /\ starts[k] <= Edge(k) /\ Edge(k) <= Len(data)
      /\ Edge(k) = IF k = n THEN Len(data) ELSE starts[k + 1]
  <2>1. Edge(k) = IF k = n THEN Len(data) ELSE starts[k + 1]
    BY <1>1, <1>ty DEF Edge, ScanEnd
  <2>2. k = n \/ k + 1 \in 1..n
    BY <1>3
  <2>3. Edge(k) \in Nat
    BY <1>ty, <2>1, <2>2
  <2>4. starts[k] \in 0..Edge(k) /\ Edge(k) <= Len(data)
    BY <1>3, <1>ty DEF RInv, TileInv, TilesInv
  <2>. QED BY <2>1, <2>3, <2>4
<1>5. ASSUME k' = k + 1 PROVE BuiltTo' = Edge(k) /\ k' \in 1..(n + 1)
  <2>1. k + 1 = n + 1 <=> k = n
    BY <1>3
  <2>2. k + 1 \in 1..(n + 1)
    BY <1>3
  <2>. QED BY <1>1, <1>4, <1>5, <1>ty, <2>1, <2>2 DEF BuiltTo
<1>6. ASSUME Intact
      PROVE  /\ buf = Slice(data, 0, starts[k])
             /\ Patch.pos # -1 /\ InRange => Slice(base, Patch.pos, PatchEnd)
                                              = Slice(data, starts[k], Edge(k))
             /\ Patch.pos # -1 /\ Fits /\ BlocksKept => InRange
             /\ Patch.pos = -1 => Patch.data = Slice(data, starts[k], Edge(k))
  <2>1. buf = Slice(data, 0, starts[k])
    <3>1. k # n + 1
      BY <1>3
    <3>. QED BY <1>1, <1>6, <1>ty, <3>1 DEF RInv, BuiltInv, BuiltTo
  <2>2. ASSUME Patch.pos = -1 PROVE Patch.data = Slice(data, starts[k], Edge(k))
    BY <1>0, <1>1, <1>3, <2>2 DEF RInv, TileInv, LiteralsInv, SameLiteral, IsCopy, Patch
  <2>3. ASSUME Patch.pos # -1, Fits, BlocksKept
        PROVE  InRange /\ Slice(base, Patch.pos, PatchEnd) = Slice(data, starts[k], Edge(k))
    <3>1. IsCopy(k) /\ k \in 1..Len(patchList)
      BY <1>0, <1>3, <2>3 DEF IsCopy, Patch
    <3>2. /\ patchList[k].pos \in Nat /\ patchList[k].len \in Nat /\ CopyEnd(k) \in Nat
          /\ Int32(CopyEnd(k)) = CopyEnd(k)
      BY <2>3, <3>1, CopyInOld DEF RInv
    <3>3. PatchEnd = CopyEnd(k) /\ Patch.pos = patchList[k].pos
      BY <3>2 DEF PatchEnd, Patch, CopyEnd
    <3>4. /\ CopyEnd(k) <= Len(base)
          /\ Slice(base, patchList[k].pos, CopyEnd(k)) = Slice(old, patchList[k].pos, CopyEnd(k))
      <4>1. k \in Copies
        BY <3>1, Types, LenProperties DEF Copies, RInv
      <4>. QED BY <2>3, <4>1 DEF BlocksKept
    <3>5. Slice(old, patchList[k].pos, CopyEnd(k)) = Slice(data, starts[k], Edge(k))
      <4>1. Indexable
        BY <2>3, Types, FitsIsIndexable DEF RInv
      <4>. QED BY <1>6, <3>1, <3>2, <4>1
               DEF Intact, RInv, TileInv, CopiesSame, SameCopy, WrappedCopy, Wrapped
    <3>6. InRange
      BY <3>2, <3>3, <3>4 DEF InRange, CopyEnd
    <3>. QED BY <3>3, <3>4, <3>5, <3>6
  <2>4. ASSUME Patch.pos # -1, Indexable, base = old, InRange
        PROVE  Slice(base, Patch.pos, PatchEnd) = Slice(data, starts[k], Edge(k))
    <3>1. /\ IsCopy(k) /\ InOldOrWrapped(Patch) /\ Patch = patchList[k]
          /\ Patch.pos \in Int32s /\ Patch.len \in Int32s
      BY <1>0, <1>3, <2>4, Types DEF RInv, IInv, CopiesInv, IsCopy, Patch, Patches
    <3>2. PatchEnd = CopyEnd(k) /\ ~WrappedCopy(k)
      BY <3>1, <2>4, InRangeUnwrapped, Types DEF WrappedCopy, CopyEnd, RInv
    <3>3. SameCopy(k)
      BY <1>0, <1>3, <1>6, <2>4, <3>1, <3>2 DEF Intact, RInv, TileInv, CopiesSame
    <3>. QED BY <2>4, <3>1, <3>2, <3>3 DEF SameCopy
  <2>. QED BY <1>6, <2>1, <2>2, <2>3, <2>4 DEF Intact
<1>7. /\ Intact /\ pc' = "apply" => k' = k + 1 /\ buf' = Slice(data, 0, Edge(k))
      /\ Intact /\ Fits /\ BlocksKept => pc' = "apply"
      /\ pc' = "done" => verdict' = "panic"
  <2>1. Slice(data, 0, starts[k]) \o Slice(data, starts[k], Edge(k)) = Slice(data, 0, Edge(k))
    <3>1. 0 \in Nat /\ 0 <= starts[k]
      BY <1>4
    <3>. QED BY <1>4, <1>ty, <3>1, SlicesJoin, ZenonT(30)
  <2>. QED BY <1>1, <1>6, <2>1
<1>8. pc' = "apply" => k' = k + 1
  BY <1>1
<1>9. /\ Fits' = Fits /\ BlocksKept' = BlocksKept /\ NoCollision' = NoCollision
      /\ Intact' = Intact
  BY <1>1 DEF Fits, BlocksKept, NoCollision, Copies, CopyEnd, IsCopy, Intact, Indexable
<1>10. BuiltInv'
  BY <1>0, <1>1, <1>5, <1>7, <1>8, <1>9 DEF BuiltInv
<1>11. Outcome'
  <2>1. Rebuilds'
    <3>1. Fits' /\ BlocksKept' /\ NoCollision' => Fits /\ BlocksKept /\ NoCollision
      BY <1>9
    <3>2. Fits /\ BlocksKept /\ NoCollision => Intact
      BY DEF Intact
    <3>. QED BY <1>7, <3>1, <3>2 DEF Rebuilds
  <2>2. BigFileOkOrPanic'
    BY <1>1, <1>7 DEF BigFileOkOrPanic
  <2>. QED BY <2>1, <2>2 DEF Outcome
<1>. QED BY <1>2, <1>10, <1>11

LEMMA VerifyTiles == RInv /\ Verify => TileInv' /\ BuiltInv' /\ Outcome'
<1>. SUFFICES ASSUME RInv, Verify PROVE TileInv' /\ BuiltInv' /\ Outcome'
  OBVIOUS
<1>1. /\ pc = "apply" /\ k > Len(patchList) /\ pc' = "done"
      /\ verdict' = IF md5sum(buf) = md5sum(data) THEN "ok" ELSE "failed"
      /\ UNCHANGED <<old, base, data, sumList, i, bufA, bufB, patchList, starts, k, buf>>
  BY DEF Verify, scanVars
<1>2. TileInv'
  <2>1. \A j : Edge(j)' = Edge(j)
    BY <1>1 DEF Edge, ScanEnd
  <2>2. TilesInv' /\ PendingInv' /\ LiteralsInv'
    BY <1>1, <2>1 DEF RInv, TileInv, TilesInv, ScanEnd, PendingInv, LiteralsInv, SameLiteral,
         IsCopy
  <2>3. CopiesSame'
    BY <1>1, <2>1 DEF RInv, TileInv, CopiesSame, SameCopy,
         CopyEnd, IsCopy, WrappedCopy, Wrapped, Indexable, NoCollision
  <2>. QED BY <2>2, <2>3 DEF TileInv
<1>3. /\ Fits' = Fits /\ BlocksKept' = BlocksKept /\ NoCollision' = NoCollision
      /\ Intact' = Intact
  BY <1>1 DEF Fits, BlocksKept, NoCollision, Copies, CopyEnd, IsCopy, Intact, Indexable
<1>4. ASSUME Intact PROVE buf = data
  <2>1. k = Len(starts) + 1
    BY <1>1, Types DEF RInv, BuiltInv
  <2>2. buf = Slice(data, 0, Len(data))
    BY <1>1, <1>4, <2>1 DEF RInv, BuiltInv, BuiltTo
  <2>. QED BY <2>2, Types, SliceOfAll DEF RInv
<1>5. BuiltInv' /\ Outcome'
  <2>1. Rebuilds'
    <3>1. Fits' /\ BlocksKept' /\ NoCollision' => Fits /\ BlocksKept /\ NoCollision
      BY <1>3
    <3>2. Fits /\ BlocksKept /\ NoCollision => Intact
      BY DEF Intact
    <3>. QED BY <1>1, <1>4, <3>1, <3>2 DEF Rebuilds
  <2>2. BigFileOkOrPanic'
    BY <1>1, <1>3, <1>4 DEF BigFileOkOrPanic, Intact, Indexable
  <2>. QED BY <1>1, <2>1, <2>2 DEF BuiltInv, Outcome
<1>. QED BY <1>2, <1>5

LEMMA RInvNext == RInv /\ [Next]_vars => RInv'
<1>. SUFFICES ASSUME RInv, [Next]_vars PROVE RInv'
  OBVIOUS
<1>1. IInv'
  BY NextInv DEF RInv
<1>2. TileInv' /\ BuiltInv' /\ Outcome'
  <2>1. CASE UNCHANGED vars
    <3>1. \A j : Edge(j)' = Edge(j)
      BY <2>1 DEF vars, scanVars, applyVars, Edge, ScanEnd
    <3>2. TilesInv' /\ PendingInv' /\ LiteralsInv'
      BY <2>1, <3>1 DEF vars, scanVars, applyVars, RInv, TileInv, TilesInv, ScanEnd, PendingInv,
         LiteralsInv, SameLiteral, IsCopy, BackIsLiteral
    <3>3. CopiesSame'
      BY <2>1, <3>1 DEF vars, scanVars, applyVars, RInv, TileInv, CopiesSame, SameCopy, CopyEnd,
         IsCopy, WrappedCopy, Wrapped, Indexable, NoCollision
    <3>4. BuiltInv' /\ Outcome'
      BY <2>1 DEF vars, scanVars, applyVars, RInv, BuiltInv, BuiltTo, Outcome, Rebuilds,
         BigFileOkOrPanic, Intact, Indexable, Fits, BlocksKept,
         NoCollision, Copies, CopyEnd, IsCopy
    <3>. QED BY <3>2, <3>3, <3>4 DEF TileInv
  <2>. QED BY <2>1, MakeSumListTiles, WholeFileTiles, MatchBlockTiles, DiffByteTiles,
              FinishPatchTiles, ApplyPatchTiles, VerifyTiles DEF Next, Scan, Done
<1>. QED BY <1>1, <1>2 DEF RInv

-----------------------------------------------------------------------------
(* Whatever the two files are, RebuildFile ends with the sender's bytes and   *)
(* accepts them, if the blocks it copies were kept, the file is under the     *)
(* int32 limit and no checksum took one block for another (patch.go:34-153,   *)
(* receiver.go:194-235).                                                      *)
THEOREM TransferRebuilds == Spec => []Rebuilds
<1>1. Init => RInv
  BY InitInv, TileInvInit DEF RInv
<1>2. RInv => Rebuilds
  BY DEF RInv, Outcome
<1>. QED BY <1>1, <1>2, RInvNext, PTL DEF Spec

(* Beyond 2 GiB a copy that is needed is not found or ends in a panic: up to  *)
(* 4 GiB RebuildFile never puts together bytes that it must then refuse       *)
(* (patch.go:93-111, receiver.go:203-206).                                    *)
THEOREM BigFilesPanicOrArrive == Spec => []BigFileOkOrPanic
<1>1. Init => RInv
  BY InitInv, TileInvInit DEF RInv
<1>2. RInv => BigFileOkOrPanic
  BY DEF RInv, Outcome
<1>. QED BY <1>1, <1>2, RInvNext, PTL DEF Spec

-----------------------------------------------------------------------------
(* A file that only grew: as long as the scan is in what the receiver has, it *)
(* finds a block at every turn, and goes on by whole blocks.                  *)
Grown == Fits /\ Len(old) <= Len(data) /\ Slice(data, 0, Len(old)) = old

SumOf(e, p) == e.at = p /\ e.sum1 = Alder32Sum(Block(old, p)) /\ e.sum2 = md5sum(Block(old, p))
SumsComplete == pc # "sum" => \A p \in BlockStarts(old) : \E e \in sumList : SumOf(e, p)

Aligned == i % step = 0 \/ i + step > Len(old)
AlignedInv == Grown /\ pc \in {"sum", "patch"} => Aligned

LiteralsBehind == \A j \in 1..Len(patchList) : IsCopy(j) \/ starts[j] + step > Len(old)
BehindInv == Grown => LiteralsBehind

GInv == SumsComplete /\ AlignedInv /\ BehindInv

-----------------------------------------------------------------------------
LEMMA LeastNumber ==
    ASSUME NEW T \in SUBSET Nat, T # {}
    PROVE  \E m \in T : \A n \in T : m <= n
<1>1. IsWellFoundedOn(OpToRel(<, Nat), Nat)
  BY NatLessThanWellFounded, Zenon
<1>2. PICK m \in T : \A n \in T : ~(<<n, m>> \in OpToRel(<, Nat))
  BY <1>1, WFMin, Zenon
<1>3. \A n \in T : ~(n < m)
  BY <1>2, Zenon DEF OpToRel
<1>. QED BY <1>3

LEMMA DivMod ==
    ASSUME NEW M \in Nat \ {0}, NEW x \in Int
    PROVE  x % M \in 0..(M - 1) /\ x = (M * (x \div M)) + (x % M)
BY SMT

LEMMA ModUnique ==
    ASSUME NEW M \in Nat \ {0}, NEW x \in Int, NEW q \in Int, NEW r \in 0..(M - 1),
           x = (M * q) + r
    PROVE  x % M = r
BY SMT

LEMMA NextBlockAligned == ASSUME NEW n \in Nat, n % step = 0 PROVE (n + step) % step = 0
<1>. PICK M \in Nat \ {0} : M = step
  BY Constants
<1>1. PICK q \in Int : n = M * q
  <2>1. n = (M * (n \div M)) + (n % M) /\ n \div M \in Int
    BY DivMod
  <2>. QED BY <2>1
<1>2. PICK p \in Int : p = q + 1
  OBVIOUS
<1>3. n + M = (M * p) + 0
  BY <1>1, <1>2
<1>4. n + M \in Int /\ 0 \in 0..(M - 1)
  OBVIOUS
<1>. QED BY <1>3, <1>4, ModUnique

(* In a file that grew, every window inside the old file is that block of it. *)
LEMMA GrownWindow ==
    ASSUME IInv, Grown, i + step <= Len(old)
    PROVE  Block(old, i) = Block(data, i)
<1>1. i \in Nat /\ step \in Nat /\ step > 0 /\ Len(old) \in Nat /\ data \in Seq(Byte)
  BY Types
<1>2. old = SubSeq(data, 1, Len(old))
  BY DEF Grown, Slice
<1>3. SubSeq(SubSeq(data, 1, Len(old)), i + 1, i + step) = SubSeq(data, i + 1, i + step)
  <2>. DEFINE a == SubSeq(SubSeq(data, 1, Len(old)), i + 1, i + step)
              b == SubSeq(data, i + 1, i + step)
  <2>1. \A j \in 1..Len(data) : data[j] \in Byte
    BY <1>1, ElementOfSeq
  <2>2. Len(old) <= Len(data) /\ Len(data) \in Nat
    BY Types DEF Grown
  <2>3. \A j \in 1..Len(old) : old[j] = data[j] /\ old[j] \in Byte
    BY <1>1, <1>2, <2>1, <2>2, SubSeqProperties
  <2>4. /\ a \in Seq(Byte) /\ Len(a) = step
        /\ \A j \in 1..step : a[j] = old[i + j]
    <3>1. \A j \in (i + 1)..(i + step) : old[j] \in Byte
      BY <1>1, <2>3
    <3>2. /\ SubSeq(old, i + 1, i + step) \in Seq(Byte)
          /\ Len(SubSeq(old, i + 1, i + step))
               = IF i + 1 <= i + step THEN (i + step) - (i + 1) + 1 ELSE 0
          /\ \A j \in 1..((i + step) - (i + 1) + 1) :
                SubSeq(old, i + 1, i + step)[j] = old[(i + 1) + j - 1]
      BY <1>1, <3>1, SubSeqProperties
    <3>3. \A j \in 1..step : (i + 1) + j - 1 = i + j
      BY <1>1
    <3>. QED BY <1>1, <1>2, <3>2, <3>3
  <2>5. /\ b \in Seq(Byte) /\ Len(b) = step
        /\ \A j \in 1..step : b[j] = data[i + j]
    <3>1. \A j \in (i + 1)..(i + step) : data[j] \in Byte
      BY <1>1, <2>1, <2>2
    <3>2. /\ SubSeq(data, i + 1, i + step) \in Seq(Byte)
          /\ Len(SubSeq(data, i + 1, i + step))
               = IF i + 1 <= i + step THEN (i + step) - (i + 1) + 1 ELSE 0
          /\ \A j \in 1..((i + step) - (i + 1) + 1) :
                SubSeq(data, i + 1, i + step)[j] = data[(i + 1) + j - 1]
      BY <1>1, <3>1, SubSeqProperties
    <3>3. \A j \in 1..step : (i + 1) + j - 1 = i + j
      BY <1>1
    <3>. QED BY <1>1, <3>2, <3>3, SMTT(30)
  <2>6. \A j \in 1..step : a[j] = b[j]
    BY <1>1, <2>3, <2>4, <2>5
  <2>. HIDE DEF a, b
  <2>7. a = b
    BY <2>4, <2>5, <2>6, SeqEqual
  <2>. QED BY <2>7 DEF a, b
<1>. QED BY <1>2, <1>3 DEF Block, Slice

(* So the scan finds one of the entries of its bucket, the first that agrees. *)
LEMMA GrownFinds ==
    ASSUME IInv, GInv, Grown, pc = "patch", i % step = 0, i + step <= Len(old)
    PROVE  \E e \in sumList : Found(e)
<1>1. i \in Nat /\ step \in Nat /\ step > 0 /\ Len(old) \in Nat
  BY Types
<1>2. PICK own \in sumList : SumOf(own, i)
  <2>1. i \in BlockStarts(old)
    BY <1>1 DEF BlockStarts
  <2>. QED BY <2>1 DEF GInv, SumsComplete
<1>3. own \in Hits
  BY <1>2, GrownWindow DEF Hits, SumOf
<1>. DEFINE T == {e.at : e \in Hits}
<1>4. T \in SUBSET Nat /\ T # {}
  BY <1>1, <1>3 DEF Hits, IInv, SumsInv
<1>5. PICK m \in T : \A n \in T : m <= n
  BY <1>4, LeastNumber
<1>6. PICK e \in Hits : e.at = m
  BY <1>5
<1>7. e \in sumList /\ e.at \in 0..(Len(old) - step) /\ e.pos = Int32(e.at)
  BY <1>6 DEF Hits, IInv, SumsInv
<1>8. e.pos > -1
  <2>1. e.at \in 0..(PosLimit - 1)
    BY <1>1, <1>7, Constants DEF Grown, Fits
  <2>. QED BY <1>7, <2>1, Int32Fits
<1>9. \A other \in Hits : e.at <= other.at
  BY <1>5, <1>6
<1>. QED BY <1>6, <1>7, <1>8, <1>9 DEF Found

-----------------------------------------------------------------------------
LEMMA GInvInit == Init => GInv
<1>. SUFFICES ASSUME Init PROVE GInv
  OBVIOUS
<1>1. patchList = <<>> /\ i = 0 /\ pc = "sum"
  BY DEF Init
<1>2. Len(patchList) = 0
  BY <1>1, EmptySeq
<1>3. 0 % step = 0
  BY Constants
<1>. QED BY <1>1, <1>2, <1>3 DEF GInv, SumsComplete, AlignedInv, Aligned, BehindInv,
     LiteralsBehind

LEMMA MakeSumListGrown == IInv /\ GInv /\ MakeSumList => GInv'
<1>. SUFFICES ASSUME IInv, GInv, MakeSumList PROVE GInv'
  OBVIOUS
<1>1. /\ pc = "sum" /\ pc' = "patch" /\ UNCHANGED <<old, base, data, scanVars, applyVars>>
      /\ sumList' = {[sum1 |-> Alder32Sum(Block(old, p)), sum2 |-> md5sum(Block(old, p)),
                      pos |-> Int32(p), at |-> p] : p \in BlockStarts(old)}
  BY DEF MakeSumList
<1>2. SumsComplete'
  <2>1. BlockStarts(old)' = BlockStarts(old) /\ (\A p : Block(old, p)' = Block(old, p))
    BY <1>1 DEF BlockStarts, Block, Slice
  <2>2. SUFFICES ASSUME NEW p \in BlockStarts(old) PROVE \E e \in sumList' : SumOf(e, p)'
    BY <1>1, <2>1 DEF SumsComplete
  <2> DEFINE sum == [sum1 |-> Alder32Sum(Block(old, p)), sum2 |-> md5sum(Block(old, p)),
                     pos |-> Int32(p), at |-> p]
  <2>3. PICK e \in sumList' : e = sum
    BY <1>1
  <2>. QED BY <2>1, <2>3 DEF SumOf
<1>3. AlignedInv' /\ BehindInv'
  BY <1>1 DEF GInv, AlignedInv, Aligned, BehindInv, LiteralsBehind, Grown, Fits, Slice, IsCopy,
       scanVars
<1>. QED BY <1>2, <1>3 DEF GInv

(* No sums, and so no whole block in the receiver's file.                     *)
LEMMA WholeFileGrown == IInv /\ GInv /\ WholeFile => GInv'
<1>. SUFFICES ASSUME IInv, GInv, WholeFile PROVE GInv'
  OBVIOUS
<1>1. /\ pc = "patch" /\ pc' = "apply" /\ sumList = {}
      /\ patchList' = <<Literal(data)>> /\ starts' = <<0>>
      /\ UNCHANGED <<old, base, data, sumList>>
  BY DEF WholeFile
<1>2. Len(old) < step
  <2>1. SUFFICES ASSUME Len(old) >= step PROVE 0 \in BlockStarts(old)
    BY <1>1, Types DEF GInv, SumsComplete
  <2>2. 0 % step = 0
    BY Constants
  <2>. QED BY <2>1, <2>2, Types DEF BlockStarts
<1>3. SumsComplete' /\ AlignedInv'
  BY <1>1 DEF GInv, SumsComplete, SumOf, BlockStarts, Block, Slice, AlignedInv
<1>4. BehindInv'
  <2>1. Len(patchList') = 1 /\ starts'[1] = 0
    BY <1>1
  <2>. QED BY <1>1, <1>2, <2>1, Types DEF BehindInv, LiteralsBehind
<1>. QED BY <1>3, <1>4 DEF GInv

(* A copy more, and a block on.                                               *)
LEMMA MatchBlockGrown == IInv /\ GInv /\ MatchBlock => GInv'
<1>. SUFFICES ASSUME IInv, GInv, MatchBlock PROVE GInv'
  OBVIOUS
<1>0. PICK n \in Nat : n = Len(patchList)
  BY Types
<1>1. PICK e \in sumList :
        /\ Found(e)
        /\ IF Continues(e.pos)
           THEN patchList' = WithBlock(patchList) /\ UNCHANGED starts
           ELSE patchList' = Append(Flushed, Copy(e.pos)) /\ starts' = Append(starts, i)
  BY DEF MatchBlock
<1>2. pc = "patch" /\ pc' = "patch" /\ i' = i + step /\ UNCHANGED <<old, data, sumList>>
  BY DEF MatchBlock, InWindow
<1>3. SumsComplete'
  BY <1>2 DEF GInv, SumsComplete, SumOf, BlockStarts, Block, Slice
<1>4. AlignedInv'
  <2>1. SUFFICES ASSUME Grown PROVE Aligned'
    BY <1>2 DEF AlignedInv, Grown, Fits
  <2>2. Aligned
    BY <1>2, <2>1 DEF GInv, AlignedInv
  <2>3. i % step = 0 => (i + step) % step = 0
    BY Types, NextBlockAligned
  <2>. QED BY <1>2, <2>2, <2>3, Types DEF Aligned
<1>5. BehindInv'
  <2>1. SUFFICES ASSUME LiteralsBehind PROVE LiteralsBehind'
    BY <1>2 DEF GInv, BehindInv, Grown, Fits
  <2>2. CASE Continues(e.pos)
    <3>1. patchList # <<>> /\ patchList' = WithBlock(patchList) /\ starts' = starts
      BY <1>1, <2>2 DEF Continues
    <3>2. Len(patchList') = n /\ \A j \in 1..n : patchList'[j].pos = patchList[j].pos
      BY <1>0, <3>1, Types, ExtendLen
    <3>. QED BY <1>0, <1>2, <2>1, <3>1, <3>2 DEF LiteralsBehind, IsCopy
  <2>3. CASE ~Continues(e.pos)
    <3>1. e.pos >= 0 /\ Copy(e.pos) \in Patches /\ Copy(e.pos).pos = e.pos
      BY <1>1, FoundInOld, NewPatchType
    <3>2. /\ Flushed \in Seq(Patches) /\ Len(Flushed) = n
          /\ \A j \in 1..n : Flushed[j].pos = patchList[j].pos
      BY <1>0, FlushedLikePatchList DEF IInv
    <3>3. patchList' = Append(Flushed, Copy(e.pos)) /\ starts' = Append(starts, i)
      BY <1>1, <2>3
    <3>4. /\ Len(patchList') = n + 1 /\ patchList'[n + 1] = Copy(e.pos)
          /\ \A j \in 1..n : patchList'[j] = Flushed[j]
      BY <3>1, <3>2, <3>3, AppendProperties
    <3>5. \A j \in 1..n : starts'[j] = starts[j]
      BY <1>0, <3>3, Types, AppendProperties
    <3>6. \A j \in 1..(n + 1) : j \in 1..n \/ j = n + 1
      BY <1>0
    <3>. QED BY <1>0, <1>2, <2>1, <3>1, <3>2, <3>4, <3>5, <3>6 DEF LiteralsBehind, IsCopy
  <2>. QED BY <2>2, <2>3
<1>. QED BY <1>3, <1>4, <1>5 DEF GInv

(* A byte that differs is behind what the receiver has.                       *)
LEMMA DiffByteGrown == IInv /\ GInv /\ DiffByte => GInv'
<1>. SUFFICES ASSUME IInv, GInv, DiffByte PROVE GInv'
  OBVIOUS
<1>0. PICK n \in Nat : n = Len(patchList)
  BY Types
<1>1. /\ pc = "patch" /\ pc' = "patch" /\ i' = i + 1 /\ UNCHANGED <<old, data, sumList>>
      /\ ~\E e \in sumList : Found(e)
      /\ IF BackIsLiteral THEN UNCHANGED <<patchList, starts>>
         ELSE patchList' = Append(patchList, Literal(<<>>)) /\ starts' = Append(starts, i)
  BY DEF DiffByte, InWindow
<1>2. SumsComplete'
  BY <1>1 DEF GInv, SumsComplete, SumOf, BlockStarts, Block, Slice
<1>3. ASSUME Grown PROVE i + step > Len(old)
  <2>1. Aligned
    BY <1>1, <1>3 DEF GInv, AlignedInv
  <2>. QED BY <1>1, <1>3, <2>1, GrownFinds, Types DEF Aligned
<1>4. AlignedInv'
  BY <1>1, <1>3, Types DEF AlignedInv, Aligned, Grown, Fits
<1>5. BehindInv'
  <2>1. SUFFICES ASSUME Grown, LiteralsBehind PROVE LiteralsBehind'
    BY <1>1 DEF GInv, BehindInv, Grown, Fits
  <2>2. CASE BackIsLiteral
    BY <1>1, <2>1, <2>2 DEF LiteralsBehind, IsCopy
  <2>3. CASE ~BackIsLiteral
    <3>1. patchList' = Append(patchList, Literal(<<>>)) /\ starts' = Append(starts, i)
      BY <1>1, <2>3
    <3>2. /\ Len(patchList') = n + 1 /\ \A j \in 1..n : patchList'[j] = patchList[j]
      BY <1>0, <3>1, Types, NewPatchType, EmptySeq, AppendProperties
    <3>3. starts'[n + 1] = i /\ \A j \in 1..n : starts'[j] = starts[j]
      BY <1>0, <3>1, Types, AppendProperties
    <3>4. \A j \in 1..(n + 1) : j \in 1..n \/ j = n + 1
      BY <1>0
    <3>. QED BY <1>0, <1>1, <1>3, <2>1, <3>2, <3>3, <3>4 DEF LiteralsBehind, IsCopy
  <2>. QED BY <2>2, <2>3
<1>. QED BY <1>2, <1>4, <1>5 DEF GInv

(* Neither is the rest, which is shorter than a block.                        *)
LEMMA FinishPatchGrown == IInv /\ GInv /\ FinishPatch => GInv'
<1>. SUFFICES ASSUME IInv, GInv, FinishPatch PROVE GInv'
  OBVIOUS
<1>0. PICK n \in Nat : n = Len(patchList)
  BY Types
<1>1. /\ pc = "patch" /\ pc' = "apply" /\ i + step > Len(data) /\ UNCHANGED <<old, data, sumList>>
      /\ IF BackIsLiteral THEN patchList' = WithData(Flushed, Rest) /\ UNCHANGED starts
         ELSE patchList' = Append(Flushed, Literal(Rest)) /\ starts' = Append(starts, i)
  BY DEF FinishPatch
<1>2. SumsComplete' /\ AlignedInv'
  BY <1>1 DEF GInv, SumsComplete, SumOf, BlockStarts, Block, Slice, AlignedInv
<1>3. /\ Flushed \in Seq(Patches) /\ Len(Flushed) = n
      /\ \A j \in 1..n : Flushed[j].pos = patchList[j].pos
  BY <1>0, FlushedLikePatchList DEF IInv
<1>4. Rest \in Seq(Byte)
  BY Types, SliceType DEF Rest
<1>5. BehindInv'
  <2>1. SUFFICES ASSUME Grown, LiteralsBehind PROVE LiteralsBehind'
    BY <1>1 DEF GInv, BehindInv, Grown, Fits
  <2>2. i + step > Len(old)
    BY <1>1, <2>1, Types DEF Grown
  <2>3. CASE BackIsLiteral
    <3>1. Flushed # <<>>
      BY <1>0, <1>3, <2>3, Types, EmptySeq DEF BackIsLiteral
    <3>2. Len(patchList') = n /\ \A j \in 1..n : patchList'[j].pos = patchList[j].pos
      BY <1>1, <1>3, <1>4, <2>3, <3>1, ExtendData
    <3>. QED BY <1>0, <1>1, <2>1, <2>3, <3>2 DEF LiteralsBehind, IsCopy
  <2>4. CASE ~BackIsLiteral
    <3>1. patchList' = Append(Flushed, Literal(Rest)) /\ starts' = Append(starts, i)
      BY <1>1, <2>4
    <3>2. Len(patchList') = n + 1 /\ \A j \in 1..n : patchList'[j] = Flushed[j]
      BY <1>3, <1>4, <3>1, NewPatchType, AppendProperties
    <3>3. starts'[n + 1] = i /\ \A j \in 1..n : starts'[j] = starts[j]
      BY <1>0, <3>1, Types, AppendProperties
    <3>4. \A j \in 1..(n + 1) : j \in 1..n \/ j = n + 1
      BY <1>0
    <3>. QED BY <1>0, <1>1, <1>3, <2>1, <2>2, <3>2, <3>3, <3>4 DEF LiteralsBehind, IsCopy
  <2>. QED BY <2>3, <2>4
<1>. QED BY <1>2, <1>5 DEF GInv

LEMMA GInvNext == IInv /\ GInv /\ [Next]_vars => GInv'
<1>. SUFFICES ASSUME IInv, GInv, [Next]_vars PROVE GInv'
  OBVIOUS
<1>1. CASE ApplyPatch \/ Verify \/ UNCHANGED vars
  <2>1. /\ UNCHANGED <<old, data, sumList, i, patchList, starts>>
     /\ (pc' = pc \/ pc' = "done") /\ (pc = "sum" => pc' = pc)
    BY <1>1 DEF ApplyPatch, Verify, vars, scanVars, applyVars
  <2>. QED BY <2>1 DEF GInv, SumsComplete, SumOf, BlockStarts, Block, Slice, AlignedInv, Aligned,
              BehindInv, LiteralsBehind, IsCopy, Grown, Fits
<1>. QED BY <1>1, MakeSumListGrown, WholeFileGrown, MatchBlockGrown, DiffByteGrown, FinishPatchGrown
            DEF Next, Scan, Done

(* Appending to a file never makes the sender send again a block that the     *)
(* receiver has, whatever else is in the bucket (patch.go:82-114).            *)
THEOREM OnlyTheTailIsSent == Spec => []GrowthSendsTail
<1>1. Init => IInv /\ GInv
  BY InitInv, GInvInit
<1>2. IInv /\ GInv /\ [Next]_vars => (IInv /\ GInv)'
  BY NextInv, GInvNext
<1>3. IInv /\ GInv => GrowthSendsTail
  <2>. SUFFICES ASSUME IInv, GInv, Grown PROVE LiteralsBehind
    BY LenProperties DEF GrowthSendsTail, Grown, LiteralsBehind, IInv, TypeOK
  <2>. QED BY DEF GInv, BehindInv
<1>. QED BY <1>1, <1>2, <1>3, PTL DEF Spec
=============================================================================
