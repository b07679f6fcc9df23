----------------------------- MODULE WireProofs -----------------------------
(***************************************************************************)
(* Theorems about Wire for any number of goroutines and frames, payloads   *)
(* of any length, and any header.                                          *)
(*                                                                         *)
(* What is on its way is in three places: the part that Recv has taken,    *)
(* the pipe and the bufio.Writer.  As long as the reader is in step, each  *)
(* byte of them that belongs to a clean frame is in its place, counted     *)
(* from where the reader is; and what a Send has flushed is not behind.    *)
(***************************************************************************)
EXTENDS Wire, SequenceTheorems, FiniteSetTheorems, TLAPS

(* The frames lie one behind the other in the stream.                         *)
FrameEnd(k) == IF k = 0 THEN 0 ELSE start[k] + HeaderLen + length[k]
Layout ==
    /\ \A k \in 1..Len(start) : start[k] = FrameEnd(k - 1)
    /\ \A j, k \in 1..Len(start) : j < k => FrameEnd(j) <= start[k]

(* Until two Sends overlap there is at most one, and it has the last frame.   *)
SendInv ==
    /\ \A g \in Inside : sending[g] \in Frames
    /\ clean = Len(start) => \A g, h \in Inside : g = h /\ sending[g] = Len(start)

(* The reader is where a clean frame has its header or its payload.           *)
Good(k) == k <= clean /\ \A j \in 1..k : Fits(j)
Got     == Len(received)
InStep  == recvPc # "ended" /\ Good(Got) /\ (recvPc = "payload" => Good(Got + 1))

(* Where in the stream the three places begin and end.                        *)
PartAt    == IF recvPc = "header" THEN FrameEnd(Got) ELSE start[Got + 1] + HeaderLen
PipeAt    == PartAt + Len(part)
BufAt     == PipeAt + Len(pipe)
StreamEnd == BufAt + Len(wBuf)

(* The bytes s, read from place a on, are in their places up to e.            *)
Placed(s, a, e) == \A m \in 1..Len(s) : a + m <= e => s[m] = a + m
InPlace(s, a)   == Placed(s, a, FrameEnd(clean))

(* How far the writer has come, and what it has flushed.                      *)
Written ==
    IF \E g \in Senders : sendPc[g] = "header" THEN start[Len(start)]
    ELSE IF \E g \in Senders : sendPc[g] = "payload" THEN start[Len(start)] + HeaderLen
    ELSE NextStart
SafeTo ==
    IF clean < Len(start) THEN FrameEnd(clean)
    ELSE IF Inside = {} THEN NextStart ELSE start[Len(start)]

(* What a reader that is in step has before it.                               *)
Stream ==
    /\ InPlace(part, PartAt) /\ InPlace(pipe, PipeAt) /\ InPlace(wBuf, BufAt)
    /\ BufAt >= SafeTo
    /\ clean = Len(start) => StreamEnd <= NextStart
    /\ clean = Len(start) /\ up => StreamEnd = Written
StreamInv == InStep => Stream

ReaderInv ==
    /\ recvPc = "header" => Len(part) <= HeaderLen
    /\ InStep /\ recvPc = "payload" =>
           taken = Got + 1 /\ want = length[Got + 1] /\ Len(part) <= want
    /\ AllClean /\ recvPc # "ended" => Got <= Len(start)
    /\ AllClean /\ recvPc = "payload" => Got < Len(start)
    /\ AllClean /\ recvPc = "ended" => ~up /\ Got >= Len(start) - Cardinality(Inside)

Inv == TypeOK /\ Layout /\ SendInv /\ StreamInv /\ ReaderInv /\ InOrder

-----------------------------------------------------------------------------
LEMMA Constants ==
    /\ HeaderLen \in Nat /\ HeaderLen > 0 /\ LenLimit \in Nat /\ LenLimit > 0
    /\ MaxFrames \in Nat /\ IsFiniteSet(Senders) /\ \A l \in Lengths : l \in Nat
BY WireAssumption

(* The conversion always yields an int32, and is the identity on what fits.   *)
LEMMA Int32Type == ASSUME NEW l \in Nat PROVE Int32(l) \in -LenLimit..LenLimit - 1
<1>. DEFINE q == 2 * LenLimit
           r == (l + LenLimit) % q
<1>1. q \in Nat /\ q > 0 /\ l + LenLimit \in Int
  BY Constants
<1>2. r \in 0..(q - 1)
  <2>. HIDE DEF q
  <2>. QED BY <1>1
<1>. HIDE DEF r
<1>3. r - LenLimit \in -LenLimit..LenLimit - 1
  BY <1>2, Constants
<1>. QED BY <1>3 DEF Int32, r

LEMMA Int32Fits == ASSUME NEW l \in Nat, l < LenLimit PROVE Int32(l) = l
<1>. DEFINE q == 2 * LenLimit
<1>1. q \in Nat /\ q > 0 /\ l + LenLimit \in 0..(q - 1)
  BY Constants
<1>. HIDE DEF q
<1>2. (l + LenLimit) % q = l + LenLimit
  BY <1>1
<1>. QED BY <1>2, Constants DEF Int32, q

LEMMA Types ==
    ASSUME TypeOK
    PROVE  /\ Len(start) \in Nat /\ Len(length) = Len(start) /\ Frames = 1..Len(start)
           /\ \A k \in 1..Len(start) : start[k] \in Nat /\ length[k] \in Lengths
                                       /\ length[k] \in Nat
           /\ Got \in Nat /\ clean \in 0..Len(start) /\ clean \in Nat
           /\ Len(part) \in Nat /\ Len(pipe) \in Nat /\ Len(wBuf) \in Nat
<1>1. start \in Seq(Nat) /\ length \in Seq(Lengths) /\ Len(length) = Len(start)
  BY DEF TypeOK
<1>2. Len(start) \in Nat /\ Frames = 1..Len(start)
  BY <1>1, LenProperties DEF Frames
<1>3. \A k \in 1..Len(start) : start[k] \in Nat /\ length[k] \in Lengths
  BY <1>1, ElementOfSeq
<1>4. Got \in Nat
  BY LenProperties DEF TypeOK, Got
<1>5. clean \in 0..Len(start)
  BY DEF TypeOK
<1>6. Len(part) \in Nat /\ Len(pipe) \in Nat /\ Len(wBuf) \in Nat
  BY LenProperties DEF TypeOK
<1>. QED BY <1>1, <1>2, <1>3, <1>4, <1>5, <1>6, Constants

LEMMA LayoutFacts ==
    ASSUME TypeOK, Layout
    PROVE  /\ NextStart = FrameEnd(Len(start)) /\ NextStart \in Nat
           /\ \A k \in 0..Len(start) : FrameEnd(k) \in Nat /\ FrameEnd(k) <= NextStart
           /\ \A j, k \in 0..Len(start) : j <= k => FrameEnd(j) <= FrameEnd(k)
           /\ \A k \in 1..Len(start) :
                 FrameEnd(k) = start[k] + HeaderLen + length[k] /\ start[k] = FrameEnd(k - 1)
           /\ \A j, k \in 1..Len(start) : start[j] = start[k] => j = k
<1>0. /\ Len(start) \in Nat
      /\ \A k \in 1..Len(start) : start[k] \in Nat /\ length[k] \in Nat
      /\ HeaderLen \in Nat /\ HeaderLen > 0
  BY Types, Constants
<1>1. start = <<>> <=> Len(start) = 0
  BY EmptySeq DEF TypeOK
<1>2. NextStart = FrameEnd(Len(start))
  BY <1>0, <1>1 DEF NextStart, FrameEnd
<1>3. \A k \in 0..Len(start) : FrameEnd(k) \in Nat
  BY <1>0 DEF FrameEnd
<1>4. \A k \in 1..Len(start) :
         FrameEnd(k) = start[k] + HeaderLen + length[k] /\ start[k] = FrameEnd(k - 1)
  BY <1>0 DEF FrameEnd, Layout
<1>5. \A j, k \in 1..Len(start) : j < k => FrameEnd(j) < FrameEnd(k) /\ start[j] < start[k]
  <2>. SUFFICES ASSUME NEW j \in 1..Len(start), NEW k \in 1..Len(start), j < k
                PROVE  FrameEnd(j) < FrameEnd(k) /\ start[j] < start[k]
    OBVIOUS
  <2>1. FrameEnd(j) <= start[k]
    BY DEF Layout
  <2>2. /\ FrameEnd(j) = start[j] + HeaderLen + length[j]
        /\ FrameEnd(k) = start[k] + HeaderLen + length[k]
    BY <1>4
  <2>3. start[j] \in Nat /\ start[k] \in Nat /\ length[j] \in Nat /\ length[k] \in Nat
    BY <1>0
  <2>4. start[j] < FrameEnd(j) /\ FrameEnd(j) \in Nat
    BY <1>0, <2>2, <2>3
  <2>5. start[k] < FrameEnd(k) /\ FrameEnd(k) \in Nat
    BY <1>0, <2>2, <2>3
  <2>. QED BY <2>1, <2>3, <2>4, <2>5
<1>6. \A j, k \in 0..Len(start) : j <= k => FrameEnd(j) <= FrameEnd(k)
  <2>. SUFFICES ASSUME NEW j \in 0..Len(start), NEW k \in 0..Len(start), j <= k
                PROVE  FrameEnd(j) <= FrameEnd(k)
    OBVIOUS
  <2>1. CASE j = 0
    BY <1>3, <2>1 DEF FrameEnd
  <2>2. CASE j = k
    BY <1>3, <2>2
  <2>3. CASE j # 0 /\ j < k
    <3>1. j \in 1..Len(start) /\ k \in 1..Len(start)
      BY <1>0, <2>3
    <3>2. FrameEnd(j) < FrameEnd(k)
      BY <1>5, <2>3, <3>1
    <3>. QED BY <1>3, <3>2
  <2>. QED BY <2>1, <2>2, <2>3
<1>7. \A j, k \in 1..Len(start) : start[j] = start[k] => j = k
  BY <1>0, <1>5
<1>8. \A k \in 0..Len(start) : FrameEnd(k) <= NextStart
  BY <1>0, <1>2, <1>6
<1>. QED BY <1>0, <1>2, <1>3, <1>4, <1>6, <1>7, <1>8

LEMMA InitInv == Init => Inv
<1>. SUFFICES ASSUME Init PROVE Inv
  OBVIOUS
<1>1. Len(<<>>) = 0 /\ \A S : <<>> \in Seq(S)
  BY EmptySeq
<1>2. Inside = {} /\ Cardinality({}) = 0
  BY FS_EmptySet DEF Init, Inside
<1>3. start = <<>> /\ length = <<>> /\ clean = 0 /\ received = <<>> /\ recvPc = "header"
      /\ part = <<>> /\ pipe = <<>> /\ wBuf = <<>> /\ up = TRUE
  BY DEF Init
<1>4. TypeOK
  BY <1>1, Constants DEF Init, TypeOK
<1>5. Layout /\ SendInv /\ InOrder
  BY <1>1, <1>2, <1>3 DEF Layout, SendInv, InOrder
<1>6. FrameEnd(0) = 0 /\ NextStart = 0 /\ Got = 0 /\ PartAt = 0
  BY <1>1, <1>3 DEF FrameEnd, NextStart, Got, PartAt
<1>7. StreamInv
  BY <1>1, <1>2, <1>3, <1>6
     DEF StreamInv, Stream, InPlace, Placed, PipeAt, BufAt, StreamEnd, SafeTo, Written, Init
<1>8. ReaderInv
  BY <1>1, <1>2, <1>3, <1>6, Constants DEF ReaderInv
<1>. QED BY <1>4, <1>5, <1>7, <1>8 DEF Inv

-----------------------------------------------------------------------------
(* Sequences of bytes in their place.                                         *)
LEMMA PlacedConcat ==
    ASSUME NEW s \in Seq(Nat), NEW u \in Seq(Nat), NEW a \in Nat, NEW e \in Nat,
           Placed(s, a, e), Placed(u, a + Len(s), e)
    PROVE  Placed(s \o u, a, e)
<1>. SUFFICES ASSUME NEW m \in 1..Len(s \o u), a + m <= e PROVE (s \o u)[m] = a + m
  BY DEF Placed
<1>1. Len(s) \in Nat /\ Len(u) \in Nat /\ Len(s \o u) = Len(s) + Len(u)
  BY LenProperties, ConcatProperties
<1>2. CASE m <= Len(s)
  <2>1. (s \o u)[m] = s[m] /\ m \in 1..Len(s)
    BY <1>1, <1>2, ConcatProperties
  <2>. QED BY <2>1 DEF Placed
<1>3. CASE m > Len(s)
  <2>. DEFINE i == m - Len(s)
  <2>1. (s \o u)[m] = u[i] /\ i \in 1..Len(u) /\ a + Len(s) + i = a + m
    BY <1>1, <1>3, ConcatProperties
  <2>2. a + Len(s) + i <= e => u[i] = a + Len(s) + i
    BY <2>1 DEF Placed
  <2>. QED BY <2>1, <2>2
<1>. QED BY <1>1, <1>2, <1>3

LEMMA PlacedSplit ==
    ASSUME NEW s \in Seq(Nat), NEW n \in 0..Len(s), NEW a \in Nat, NEW e \in Nat,
           Placed(s, a, e)
    PROVE  /\ SubSeq(s, 1, n) \in Seq(Nat) /\ Len(SubSeq(s, 1, n)) = n
           /\ SubSeq(s, n + 1, Len(s)) \in Seq(Nat)
           /\ Len(SubSeq(s, n + 1, Len(s))) = Len(s) - n
           /\ Placed(SubSeq(s, 1, n), a, e)
           /\ Placed(SubSeq(s, n + 1, Len(s)), a + n, e)
<1>0. Len(s) \in Nat /\ n \in Nat
  BY LenProperties
<1>1. SubSeq(s, 1, n) \in Seq(Nat) /\ Len(SubSeq(s, 1, n)) = n
      /\ \A m \in 1..n : SubSeq(s, 1, n)[m] = s[m]
  BY <1>0, SubSeqProperties
<1>2. SubSeq(s, n + 1, Len(s)) \in Seq(Nat) /\ Len(SubSeq(s, n + 1, Len(s))) = Len(s) - n
      /\ \A m \in 1..(Len(s) - n) : SubSeq(s, n + 1, Len(s))[m] = s[n + m]
  <2>. DEFINE b == n + 1
              l == Len(s)
              u == SubSeq(s, b, l)
  <2>1. b \in Int /\ l \in Int /\ l - b + 1 = Len(s) - n /\ (b <= l \/ l - b + 1 = 0)
    BY <1>0
  <2>0. \A m \in b..l : s[m] \in Nat
    BY <1>0, ElementOfSeq
  <2>. HIDE DEF b, l, u
  <2>2. u \in Seq(Nat) /\ Len(u) = l - b + 1 /\ \A m \in 1..(l - b + 1) : u[m] = s[b + m - 1]
    <3>1. u \in Seq(Nat)
      BY <2>0, <2>1, SubSeqProperties DEF u
    <3>2. Len(u) = l - b + 1
      BY <2>0, <2>1, SubSeqProperties DEF u
    <3>3. \A m \in 1..(l - b + 1) : u[m] = s[b + m - 1]
      BY <2>0, <2>1, SubSeqProperties DEF u
    <3>. QED BY <3>1, <3>2, <3>3
  <2>3. \A m \in 1..(Len(s) - n) : u[m] = s[n + m]
    <3>. SUFFICES ASSUME NEW m \in 1..(Len(s) - n) PROVE u[m] = s[n + m]
      OBVIOUS
    <3>1. b + m - 1 = n + m
      BY <1>0 DEF b
    <3>. QED BY <2>1, <2>2, <3>1
  <2>. QED BY <2>1, <2>2, <2>3 DEF b, l, u
<1>3. Placed(SubSeq(s, 1, n), a, e)
  BY <1>0, <1>1 DEF Placed
<1>4. Placed(SubSeq(s, n + 1, Len(s)), a + n, e)
  <2>. SUFFICES ASSUME NEW m \in 1..(Len(s) - n), a + n + m <= e
                PROVE  s[n + m] = a + n + m
    BY <1>2 DEF Placed
  <2>1. n + m \in 1..Len(s) /\ a + (n + m) <= e
    BY <1>0
  <2>2. s[n + m] = a + (n + m)
    BY <2>1 DEF Placed
  <2>. QED BY <2>2, <1>0
<1>. QED BY <1>1, <1>2, <1>3, <1>4

LEMMA BytesPlaced ==
    ASSUME NEW a \in Nat, NEW n \in Nat, NEW e \in Nat
    PROVE  Bytes(a, n) \in Seq(Nat) /\ Len(Bytes(a, n)) = n /\ Placed(Bytes(a, n), a, e)
<1>1. \A k \in 1..n : a + k \in Nat
  OBVIOUS
<1>2. Bytes(a, n) \in Seq(Nat)
  BY <1>1, IsASeq DEF Bytes
<1>3. Len(Bytes(a, n)) = n
  <2>1. DOMAIN Bytes(a, n) = 1..n
    BY DEF Bytes
  <2>. QED BY <1>2, <2>1, LenProperties
<1>. QED BY <1>2, <1>3 DEF Placed, Bytes

(* Bytes in their place before the end of the clean frames are known.         *)
LEMMA PlacedIsBytes ==
    ASSUME NEW s \in Seq(Nat), NEW a \in Nat, NEW e \in Nat,
           Placed(s, a, e), a + Len(s) <= e
    PROVE  s = Bytes(a, Len(s))
<1>1. Len(s) \in Nat /\ DOMAIN s = 1..Len(s) /\ s = [k \in 1..Len(s) |-> s[k]]
  BY LenProperties
<1>2. \A k \in 1..Len(s) : s[k] = a + k
  BY <1>1 DEF Placed
<1>. QED BY <1>1, <1>2 DEF Bytes

(* Bytes behind the clean frames are in place, whatever they are.             *)
LEMMA PlacedBehind ==
    ASSUME NEW s \in Seq(Nat), NEW a \in Nat, NEW e \in Nat, a >= e
    PROVE  Placed(s, a, e)
<1>1. Len(s) \in Nat
  BY LenProperties
<1>. QED BY <1>1 DEF Placed

-----------------------------------------------------------------------------
(* Where the reader is, when it is in step.                                   *)
LEMMA Places ==
    ASSUME TypeOK, Layout, InStep
    PROVE  /\ Got \in 0..Len(start) /\ Got <= clean
           /\ recvPc = "header" => PartAt = FrameEnd(Got)
           /\ recvPc = "payload" => /\ Got + 1 \in 1..Len(start) /\ Got + 1 <= clean
                                    /\ PartAt = start[Got + 1] + HeaderLen
           /\ PartAt \in Nat /\ PipeAt \in Nat /\ BufAt \in Nat /\ StreamEnd \in Nat
           /\ PipeAt = PartAt + Len(part) /\ BufAt = PipeAt + Len(pipe)
           /\ StreamEnd = BufAt + Len(wBuf)
           /\ FrameEnd(clean) \in Nat
<1>0. Len(start) \in Nat /\ Got \in Nat /\ clean \in 0..Len(start)
      /\ Len(part) \in Nat /\ Len(pipe) \in Nat /\ Len(wBuf) \in Nat
  BY Types
<1>1. Got \in 0..Len(start) /\ Got <= clean
  BY <1>0 DEF InStep, Good
<1>2. recvPc = "payload" => Got + 1 \in 1..Len(start) /\ Got + 1 <= clean
  BY <1>0 DEF InStep, Good
<1>3. recvPc = "header" \/ recvPc = "payload"
  BY DEF TypeOK, InStep
<1>4. FrameEnd(Got) \in Nat /\ FrameEnd(clean) \in Nat
  BY <1>0, <1>1, LayoutFacts
<1>5. recvPc = "payload" => start[Got + 1] + HeaderLen \in Nat
  BY <1>2, Types, Constants
<1>6. recvPc = "header" => PartAt = FrameEnd(Got)
  BY DEF PartAt
<1>7. recvPc = "payload" => PartAt = start[Got + 1] + HeaderLen
  BY DEF PartAt
<1>8. PartAt \in Nat
  BY <1>3, <1>4, <1>5, <1>6, <1>7
<1>. QED BY <1>0, <1>1, <1>2, <1>4, <1>6, <1>7, <1>8 DEF PipeAt, BufAt, StreamEnd

(* With clean frames only, the reader is in step as long as it goes on.       *)
LEMMA CleanInStep ==
    ASSUME TypeOK, ReaderInv, AllClean, recvPc # "ended"
    PROVE  InStep
<1>1. Len(start) \in Nat /\ Got \in Nat /\ Frames = 1..Len(start) /\ clean = Len(start)
  BY Types DEF AllClean
<1>2. \A j \in 1..Len(start) : Fits(j)
  BY <1>1 DEF AllClean
<1>3. Got <= Len(start) /\ (recvPc = "payload" => Got < Len(start))
  BY DEF ReaderInv
<1>. QED BY <1>1, <1>2, <1>3 DEF InStep, Good

-----------------------------------------------------------------------------
(* Steps of a Send under way: the frames and the reader stay as they are.     *)
SameFrames == start' = start /\ length' = length /\ clean' = clean
SameReader == /\ recvPc' = recvPc /\ part' = part /\ taken' = taken /\ want' = want
              /\ received' = received /\ TotalRecv' = TotalRecv

LEMMA FramesKeep ==
    ASSUME SameFrames
    PROVE  /\ NextStart' = NextStart /\ (AllClean' <=> AllClean)
           /\ (Layout' <=> Layout) /\ Frames' = Frames
           /\ \A k : FrameEnd(k)' = FrameEnd(k) /\ (Good(k)' <=> Good(k))
           /\ FrameEnd(clean)' = FrameEnd(clean)
BY DEF SameFrames, NextStart, AllClean, Fits, Frames, Layout, FrameEnd, Good

LEMMA ReaderKeeps ==
    ASSUME SameFrames, SameReader
    PROVE  /\ Got' = Got /\ (InStep' <=> InStep) /\ PartAt' = PartAt /\ PipeAt' = PipeAt
           /\ (InOrder <=> InOrder')
           /\ InPlace(part, PartAt)' <=> InPlace(part, PartAt)
<1>1. Got' = Got
  BY DEF Got, SameReader
<1>2. InStep' <=> InStep
  BY <1>1 DEF InStep, Good, Fits, SameFrames, SameReader, Got
<1>3. PartAt' = PartAt
  BY <1>1 DEF PartAt, FrameEnd, SameFrames, SameReader, Got
<1>4. PipeAt' = PipeAt
  BY <1>3 DEF PipeAt, SameReader
<1>5. InOrder <=> InOrder'
  BY DEF InOrder, Fits, SameFrames, SameReader
<1>6. InPlace(part, PartAt)' <=> InPlace(part, PartAt)
  BY <1>3, FramesKeep DEF InPlace, Placed, SameReader
<1>. QED BY <1>1, <1>2, <1>3, <1>4, <1>5, <1>6

(* While the writer is there, no reader of clean frames has ended.            *)
LEMMA SendReaderInv ==
    ASSUME Inv, up, SameFrames, SameReader
    PROVE  ReaderInv'
<1>1. Got' = Got /\ (InStep' <=> InStep) /\ (AllClean' <=> AllClean)
  BY FramesKeep, ReaderKeeps
<1>2. ReaderInv
  BY DEF Inv
<1>3. ~(AllClean /\ recvPc = "ended")
  BY <1>2 DEF ReaderInv
<1>. QED BY <1>1, <1>2, <1>3 DEF ReaderInv, SameFrames, SameReader

LEMMA LoneSend ==
    ASSUME TypeOK, SendInv, clean = Len(start), NEW g \in Senders, sendPc[g] # "out"
    PROVE  /\ Inside = {g} /\ sending[g] = Len(start)
           /\ Len(start) \in 1..Len(start) /\ start[Len(start)] \in Nat
           /\ length[Len(start)] \in Nat
           /\ NextStart = start[Len(start)] + HeaderLen + length[Len(start)]
           /\ \A h \in Senders : h # g => sendPc[h] = "out"
<1>1. g \in Inside
  BY DEF Inside
<1>2. Inside = {g} /\ sending[g] = Len(start) /\ sending[g] \in Frames
  BY <1>1 DEF SendInv
<1>3. \A h \in Senders : h # g => sendPc[h] = "out"
  BY <1>2 DEF Inside
<1>4. Len(start) \in 1..Len(start)
  BY <1>2, Types
<1>5. start # <<>>
  BY <1>4, EmptySeq
<1>. QED BY <1>2, <1>3, <1>4, <1>5, Types DEF NextStart

LEMMA FlushedFar ==
    ASSUME TypeOK, Layout
    PROVE  clean < Len(start) => SafeTo = FrameEnd(clean)
BY Types DEF SafeTo

LEMMA WriteStep ==
    ASSUME Inv, NEW g \in Senders, up, sendPc[g] # "out",
           NEW bytes \in Seq(Nat), NEW at \in Nat, Placed(bytes, at, FrameEnd(clean)),
           Write(g, bytes), SameFrames, SameReader, pipe' = pipe,
           Inside' = Inside, clean = Len(start) => at = Written,
           clean = Len(start) => Written' = at + Len(bytes),
           clean = Len(start) => at + Len(bytes) <= NextStart
    PROVE  StreamInv' /\ wBuf' \in Seq(Nat)
<1>0. TypeOK /\ Layout /\ SendInv /\ StreamInv
  BY DEF Inv
<1>1. wBuf \in Seq(Nat) /\ Len(bytes) \in Nat /\ Len(wBuf) \in Nat
      /\ clean \in 0..Len(start) /\ Len(start) \in Nat
  BY <1>0, Types, LenProperties DEF TypeOK
<1>2. wBuf' \in Seq(Nat)
  BY <1>1, ConcatProperties DEF Write
<1>3. SUFFICES ASSUME InStep' PROVE Stream'
  BY <1>2 DEF StreamInv
<1>4. InStep /\ PipeAt' = PipeAt /\ InPlace(part, PartAt)'
      /\ InPlace(part, PartAt) /\ InPlace(pipe, PipeAt) /\ InPlace(wBuf, BufAt)
      /\ BufAt >= SafeTo
  BY <1>0, <1>3, ReaderKeeps DEF StreamInv, Stream
<1>5. BufAt' = BufAt /\ BufAt \in Nat /\ FrameEnd(clean) \in Nat /\ SafeTo' = SafeTo
      /\ StreamEnd = BufAt + Len(wBuf) /\ FrameEnd(clean)' = FrameEnd(clean)
      /\ NextStart' = NextStart
  <2>1. BufAt' = BufAt
    BY <1>4 DEF BufAt
  <2>2. SafeTo' = SafeTo
    BY FramesKeep DEF SafeTo, SameFrames, FrameEnd
  <2>. QED BY <1>0, <1>4, <2>1, <2>2, Places, FramesKeep
<1>6. InPlace(pipe, PipeAt)'
  BY <1>4, <1>5 DEF InPlace, Placed
<1>7. StreamEnd' = BufAt + Len(wBuf')
  BY <1>5 DEF StreamEnd
<1>8. CASE clean < Len(start)
  <2>1. BufAt >= FrameEnd(clean)
    BY <1>0, <1>4, <1>8, FlushedFar
  <2>2. Placed(wBuf', BufAt, FrameEnd(clean))
    BY <1>2, <1>5, <2>1, PlacedBehind
  <2>3. InPlace(wBuf, BufAt)'
    BY <1>5, <2>2 DEF InPlace
  <2>4. clean' # Len(start')
    BY <1>1, <1>8 DEF SameFrames
  <2>. QED BY <1>4, <1>5, <1>6, <2>3, <2>4 DEF Stream, SameFrames
<1>9. CASE clean = Len(start)
  <2>1. Inside = {g}
    BY <1>0, <1>9, LoneSend
  <2>2. wBuf' = wBuf \o bytes /\ Len(wBuf') = Len(wBuf) + Len(bytes)
    BY <1>1, <2>1, ConcatProperties DEF Write
  <2>3. BufAt + Len(wBuf) = at
    BY <1>0, <1>4, <1>5, <1>9 DEF StreamInv, Stream
  <2>4. Placed(wBuf', BufAt, FrameEnd(clean))
    BY <1>1, <1>4, <1>5, <2>2, <2>3, PlacedConcat DEF InPlace
  <2>5. InPlace(wBuf, BufAt)'
    BY <1>5, <2>4 DEF InPlace
  <2>6. StreamEnd' = Written' /\ StreamEnd' <= NextStart'
    BY <1>1, <1>5, <1>7, <1>9, <2>2, <2>3
  <2>. QED BY <1>4, <1>5, <1>6, <2>5, <2>6 DEF Stream
<1>. QED BY <1>1, <1>8, <1>9

LEMMA WriteHeaderInv ==
    ASSUME Inv, NEW g \in Senders, WriteHeader(g)
    PROVE  Inv'
<1>0. TypeOK /\ Layout /\ SendInv /\ up /\ sendPc[g] = "header" /\ g \in Inside
  BY DEF Inv, WriteHeader, Inside
<1>1. SameFrames /\ SameReader /\ pipe' = pipe /\ up' = up /\ sending' = sending
      /\ TotalSend' = TotalSend
  BY DEF WriteHeader, recvVars, SameFrames, SameReader
<1>2. sendPc' = [sendPc EXCEPT ![g] = "payload"] /\ Write(g, HeaderOf(sending[g]))
      /\ sendPc' \in [Senders -> {"out", "header", "payload", "flush"}]
  BY <1>0 DEF WriteHeader, TypeOK
<1>3. Inside' = Inside /\ sendPc'[g] = "payload"
      /\ \A h \in Senders : h # g => sendPc'[h] = sendPc[h]
  BY <1>0, <1>2 DEF Inside, TypeOK
<1>. DEFINE at == start[sending[g]]
            bytes == HeaderOf(sending[g])
<1>4. at \in Nat /\ HeaderLen \in Nat /\ FrameEnd(clean) \in Nat
  <2>1. sending[g] \in 1..Len(start)
    BY <1>0, Types DEF SendInv
  <2>2. start[sending[g]] \in Nat /\ length[sending[g]] \in Nat
    BY <1>0, <2>1, Types
  <2>3. FrameEnd(clean) \in Nat
    BY <1>0, Types, LayoutFacts
  <2>. QED BY <2>2, <2>3, Constants
<1>5. bytes \in Seq(Nat) /\ Len(bytes) = HeaderLen /\ Placed(bytes, at, FrameEnd(clean))
  BY <1>4, BytesPlaced DEF HeaderOf
<1>6. ASSUME clean = Len(start)
      PROVE  at = Written /\ Written' = at + Len(bytes) /\ at + Len(bytes) <= NextStart
  <2>1. Inside = {g} /\ sending[g] = Len(start) /\ start[Len(start)] \in Nat
        /\ NextStart = start[Len(start)] + HeaderLen + length[Len(start)]
        /\ length[Len(start)] \in Nat
        /\ \A h \in Senders : h # g => sendPc[h] = "out"
    BY <1>0, <1>6, LoneSend
  <2>2. Written = start[Len(start)]
    BY <1>0 DEF Written
  <2>3. Written' = start[Len(start)] + HeaderLen
    BY <1>1, <1>3, <2>1 DEF Written, SameFrames
  <2>. QED BY <1>4, <1>5, <2>1, <2>2, <2>3
<1>. HIDE DEF at, bytes
<1>7. Write(g, bytes)
  BY <1>2 DEF bytes
<1>8. StreamInv' /\ wBuf' \in Seq(Nat)
  BY <1>0, <1>1, <1>3, <1>4, <1>5, <1>6, <1>7, WriteStep
<1>9. TypeOK'
  BY <1>0, <1>1, <1>2, <1>8, FramesKeep DEF TypeOK, SameFrames, SameReader
<1>10. SendInv'
  BY <1>0, <1>1, <1>3, FramesKeep DEF SendInv, SameFrames
<1>11. Layout' /\ ReaderInv' /\ InOrder'
  BY <1>0, <1>1, FramesKeep, ReaderKeeps, SendReaderInv DEF Inv
<1>. QED BY <1>8, <1>9, <1>10, <1>11 DEF Inv

LEMMA WritePayloadInv ==
    ASSUME Inv, NEW g \in Senders, WritePayload(g)
    PROVE  Inv'
<1>0. TypeOK /\ Layout /\ SendInv /\ up /\ sendPc[g] = "payload" /\ g \in Inside
  BY DEF Inv, WritePayload, Inside
<1>1. SameFrames /\ SameReader /\ pipe' = pipe /\ up' = up /\ sending' = sending
      /\ TotalSend' = TotalSend + length[sending[g]]
  BY DEF WritePayload, recvVars, SameFrames, SameReader
<1>2. sendPc' = [sendPc EXCEPT ![g] = "flush"] /\ Write(g, PayloadOf(sending[g]))
      /\ sendPc' \in [Senders -> {"out", "header", "payload", "flush"}]
  BY <1>0 DEF WritePayload, TypeOK
<1>3. Inside' = Inside /\ sendPc'[g] = "flush"
      /\ \A h \in Senders : h # g => sendPc'[h] = sendPc[h]
  BY <1>0, <1>2 DEF Inside, TypeOK
<1>. DEFINE at == start[sending[g]] + HeaderLen
            bytes == PayloadOf(sending[g])
<1>4. at \in Nat /\ length[sending[g]] \in Nat /\ FrameEnd(clean) \in Nat
  <2>1. sending[g] \in 1..Len(start)
    BY <1>0, Types DEF SendInv
  <2>2. start[sending[g]] \in Nat /\ length[sending[g]] \in Nat
    BY <1>0, <2>1, Types
  <2>3. FrameEnd(clean) \in Nat
    BY <1>0, Types, LayoutFacts
  <2>. QED BY <2>2, <2>3, Constants
<1>5. bytes \in Seq(Nat) /\ Len(bytes) = length[sending[g]]
      /\ Placed(bytes, at, FrameEnd(clean))
  BY <1>4, BytesPlaced DEF PayloadOf
<1>6. ASSUME clean = Len(start)
      PROVE  at = Written /\ Written' = at + Len(bytes) /\ at + Len(bytes) <= NextStart
  <2>1. Inside = {g} /\ sending[g] = Len(start) /\ start[Len(start)] \in Nat
        /\ NextStart = start[Len(start)] + HeaderLen + length[Len(start)]
        /\ length[Len(start)] \in Nat
        /\ \A h \in Senders : h # g => sendPc[h] = "out"
    BY <1>0, <1>6, LoneSend
  <2>2. Written = start[Len(start)] + HeaderLen
    BY <1>0, <2>1 DEF Written
  <2>3. Written' = NextStart'
    BY <1>3, <2>1 DEF Written
  <2>. QED BY <1>1, <1>4, <1>5, <2>1, <2>2, <2>3, FramesKeep
<1>. HIDE DEF at, bytes
<1>7. Write(g, bytes)
  BY <1>2 DEF bytes
<1>8. StreamInv' /\ wBuf' \in Seq(Nat)
  BY <1>0, <1>1, <1>3, <1>4, <1>5, <1>6, <1>7, WriteStep
<1>9. TypeOK'
  <2>1. TotalSend' \in Nat
    <3>1. TotalSend \in Nat
      BY <1>0 DEF TypeOK
    <3>. QED BY <1>1, <1>4, <3>1
  <2>2. Frames' = Frames
    BY <1>1, FramesKeep
  <2>. QED BY <1>0, <1>1, <1>2, <1>8, <2>1, <2>2 DEF TypeOK, SameFrames, SameReader
<1>10. SendInv'
  BY <1>0, <1>1, <1>3, FramesKeep DEF SendInv, SameFrames
<1>11. Layout' /\ ReaderInv' /\ InOrder'
  BY <1>0, <1>1, FramesKeep, ReaderKeeps, SendReaderInv DEF Inv
<1>. QED BY <1>8, <1>9, <1>10, <1>11 DEF Inv

(* Bytes that go from the buffer to the pipe.                                 *)
LEMMA MoveStep ==
    ASSUME TypeOK, Layout, Stream, InStep, SameFrames, SameReader,
           NEW n \in 0..Len(wBuf),
           pipe' = pipe \o SubSeq(wBuf, 1, n), wBuf' = SubSeq(wBuf, n + 1, Len(wBuf))
    PROVE  /\ InPlace(part, PartAt)' /\ InPlace(pipe, PipeAt)' /\ InPlace(wBuf, BufAt)'
           /\ BufAt' = BufAt + n /\ StreamEnd' = StreamEnd
<1>1. wBuf \in Seq(Nat) /\ pipe \in Seq(Nat) /\ Len(pipe) \in Nat /\ Len(wBuf) \in Nat
  BY LenProperties DEF TypeOK
<1>. DEFINE s == SubSeq(wBuf, 1, n)
            u == SubSeq(wBuf, n + 1, Len(wBuf))
            e == FrameEnd(clean)
<1>2. /\ PipeAt \in Nat /\ BufAt \in Nat /\ StreamEnd = BufAt + Len(wBuf) /\ e \in Nat
      /\ BufAt = PipeAt + Len(pipe) /\ PipeAt' = PipeAt /\ e' = e
      /\ InPlace(part, PartAt)'
  BY Places, ReaderKeeps, FramesKeep DEF Stream
<1>3. Placed(pipe, PipeAt, e) /\ Placed(wBuf, BufAt, e)
  BY DEF Stream, InPlace
<1>4. e' = FrameEnd(clean)'
  OBVIOUS
<1>. HIDE DEF e
<1>5. s \in Seq(Nat) /\ Len(s) = n /\ u \in Seq(Nat) /\ Len(u) = Len(wBuf) - n
      /\ Placed(s, BufAt, e) /\ Placed(u, BufAt + n, e)
  BY <1>1, <1>2, <1>3, PlacedSplit
<1>. HIDE DEF s, u
<1>6. pipe' = pipe \o s /\ wBuf' = u
  BY DEF s, u
<1>7. Placed(pipe', PipeAt, e) /\ Len(pipe') = Len(pipe) + n
  <2>1. Placed(pipe \o s, PipeAt, e)
    BY <1>1, <1>2, <1>3, <1>5, PlacedConcat
  <2>2. Len(pipe \o s) = Len(pipe) + Len(s)
    BY <1>1, <1>5, ConcatProperties
  <2>. QED BY <1>5, <1>6, <2>1, <2>2
<1>8. BufAt' = BufAt + n
  <2>1. BufAt' = PipeAt' + Len(pipe')
    BY DEF BufAt
  <2>2. n \in Nat
    BY <1>1
  <2>. QED BY <1>1, <1>2, <1>7, <2>1, <2>2
<1>9. StreamEnd' = StreamEnd
  <2>1. StreamEnd' = BufAt' + Len(wBuf')
    BY DEF StreamEnd
  <2>2. n \in Nat
    BY <1>1
  <2>. QED BY <1>1, <1>2, <1>5, <1>6, <1>8, <2>1, <2>2
<1>. QED BY <1>2, <1>4, <1>5, <1>6, <1>7, <1>8, <1>9 DEF InPlace

LEMMA FlushInv ==
    ASSUME Inv, NEW g \in Senders, Flush(g)
    PROVE  Inv'
<1>0. TypeOK /\ Layout /\ SendInv /\ StreamInv /\ up /\ sendPc[g] = "flush" /\ g \in Inside
  BY DEF Inv, Flush, Inside
<1>1. SameFrames /\ SameReader /\ up' = up /\ TotalSend' = TotalSend
      /\ wBuf' = <<>> /\ pipe' = pipe \o wBuf
  BY DEF Flush, Flushed, recvVars, SameFrames, SameReader
<1>2. /\ sendPc' = [sendPc EXCEPT ![g] = "out"] /\ sending' = [sending EXCEPT ![g] = 0]
      /\ sendPc' \in [Senders -> {"out", "header", "payload", "flush"}]
      /\ sending' \in [Senders -> Frames \cup {0}]
  BY DEF Flush, TypeOK, Inv
<1>3. Inside' = Inside \ {g} /\ sendPc'[g] = "out"
      /\ \A h \in Senders : h # g => sendPc'[h] = sendPc[h] /\ sending'[h] = sending[h]
  BY <1>0, <1>2 DEF Inside, TypeOK
<1>4. wBuf \in Seq(Nat) /\ pipe \in Seq(Nat) /\ Len(wBuf) \in Nat
      /\ clean \in 0..Len(start) /\ Len(start) \in Nat /\ Len(wBuf) \in 0..Len(wBuf)
  BY <1>0, Types, LenProperties DEF TypeOK
<1>5. wBuf' \in Seq(Nat) /\ pipe' \in Seq(Nat)
  BY <1>1, <1>4, ConcatProperties, EmptySeq
<1>6. pipe' = pipe \o SubSeq(wBuf, 1, Len(wBuf))
      /\ wBuf' = SubSeq(wBuf, Len(wBuf) + 1, Len(wBuf))
  <2>1. SubSeq(wBuf, 1, Len(wBuf)) = wBuf
    BY <1>4, SubSeqFull
  <2>2. SubSeq(wBuf, Len(wBuf) + 1, Len(wBuf)) = <<>>
    BY <1>4, SubSeqEmpty
  <2>. QED BY <1>1, <2>1, <2>2
<1>7. StreamInv'
  <2>. SUFFICES ASSUME InStep' PROVE Stream'
    BY DEF StreamInv
  <2>1. InStep /\ Stream
    BY <1>0, <1>1, ReaderKeeps DEF StreamInv
  <2>2. /\ InPlace(part, PartAt)' /\ InPlace(pipe, PipeAt)' /\ InPlace(wBuf, BufAt)'
        /\ BufAt' = BufAt + Len(wBuf) /\ StreamEnd' = StreamEnd
    BY <1>0, <1>1, <1>4, <1>6, <2>1, MoveStep
  <2>3. BufAt \in Nat /\ StreamEnd = BufAt + Len(wBuf)
    BY <1>0, <2>1, Places
  <2>4. CASE clean < Len(start)
    <3>1. BufAt >= FrameEnd(clean) /\ FrameEnd(clean) \in Nat
      BY <1>0, <1>4, <2>1, <2>4, FlushedFar, Places DEF Stream
    <3>2. SafeTo' = FrameEnd(clean) /\ clean' # Len(start')
      BY <1>1, <1>4, <2>4, FramesKeep DEF SafeTo, SameFrames
    <3>. QED BY <1>4, <2>2, <2>3, <3>1, <3>2 DEF Stream
  <2>5. CASE clean = Len(start)
    <3>1. Inside = {g} /\ \A h \in Senders : h # g => sendPc[h] = "out"
      BY <1>0, <2>5, LoneSend
    <3>2. Inside' = {}
      BY <1>3, <3>1
    <3>3. SafeTo' = NextStart' /\ Written = NextStart /\ Written' = NextStart'
      <4>1. SafeTo' = NextStart'
        BY <1>1, <1>4, <2>5, <3>2 DEF SafeTo, SameFrames
      <4>2. Written = NextStart
        BY <1>0, <3>1 DEF Written
      <4>3. Written' = NextStart'
        BY <1>3, <3>1 DEF Written
      <4>. QED BY <4>1, <4>2, <4>3
    <3>4. NextStart' = NextStart /\ NextStart \in Nat
      BY <1>0, <1>1, FramesKeep, LayoutFacts
    <3>5. StreamEnd = NextStart
      BY <1>0, <2>1, <2>5, <3>3 DEF Stream
    <3>. QED BY <2>2, <2>3, <3>3, <3>4, <3>5 DEF Stream
  <2>. QED BY <1>4, <2>4, <2>5
<1>8. TypeOK'
  BY <1>0, <1>1, <1>2, <1>5, FramesKeep DEF TypeOK, SameFrames, SameReader
<1>9. SendInv'
  BY <1>0, <1>1, <1>3, FramesKeep DEF SendInv, SameFrames, Inside
<1>10. Layout' /\ ReaderInv' /\ InOrder'
  BY <1>0, <1>1, FramesKeep, ReaderKeeps, SendReaderInv DEF Inv
<1>. QED BY <1>7, <1>8, <1>9, <1>10 DEF Inv

LEMMA DrainInv ==
    ASSUME Inv, Drain
    PROVE  Inv'
<1>0. TypeOK /\ Layout /\ SendInv /\ StreamInv /\ up
  BY DEF Inv, Drain
<1>1. SameFrames /\ SameReader /\ up' = up /\ TotalSend' = TotalSend
      /\ sendPc' = sendPc /\ sending' = sending
  BY DEF Drain, recvVars, SameFrames, SameReader
<1>2. PICK n \in 1..Len(wBuf) :
          pipe' = pipe \o SubSeq(wBuf, 1, n) /\ wBuf' = SubSeq(wBuf, n + 1, Len(wBuf))
  BY DEF Drain
<1>3. wBuf \in Seq(Nat) /\ pipe \in Seq(Nat) /\ Len(wBuf) \in Nat
      /\ clean \in 0..Len(start) /\ Len(start) \in Nat /\ n \in 0..Len(wBuf)
  BY <1>0, Types, LenProperties DEF TypeOK
<1>4. wBuf' \in Seq(Nat) /\ pipe' \in Seq(Nat)
  <2>1. Placed(wBuf, 1, 0)
    BY <1>3 DEF Placed
  <2>2. SubSeq(wBuf, 1, n) \in Seq(Nat) /\ SubSeq(wBuf, n + 1, Len(wBuf)) \in Seq(Nat)
    BY <1>3, <2>1, PlacedSplit
  <2>. QED BY <1>2, <1>3, <2>2, ConcatProperties
<1>5. StreamInv'
  <2>. SUFFICES ASSUME InStep' PROVE Stream'
    BY DEF StreamInv
  <2>1. InStep /\ Stream
    BY <1>0, <1>1, ReaderKeeps DEF StreamInv
  <2>2. /\ InPlace(part, PartAt)' /\ InPlace(pipe, PipeAt)' /\ InPlace(wBuf, BufAt)'
        /\ BufAt' = BufAt + n /\ StreamEnd' = StreamEnd
    BY <1>0, <1>1, <1>2, <1>3, <2>1, MoveStep
  <2>3. BufAt \in Nat
    BY <1>0, <2>1, Places
  <2>4. SafeTo' = SafeTo /\ Written' = Written /\ NextStart' = NextStart
    BY <1>1, FramesKeep DEF SafeTo, Written, Inside, SameFrames
  <2>5. SafeTo \in Nat
    <3>1. NextStart \in Nat /\ FrameEnd(clean) \in Nat
      BY <1>0, <1>3, LayoutFacts
    <3>2. Inside # {} => start[Len(start)] \in Nat \/ clean < Len(start)
      BY <1>0, <1>3, LoneSend DEF Inside
    <3>. QED BY <3>1, <3>2, <1>3 DEF SafeTo
  <2>. QED BY <1>1, <1>3, <2>1, <2>2, <2>3, <2>4, <2>5 DEF Stream, SameFrames
<1>6. TypeOK'
  BY <1>0, <1>1, <1>4, FramesKeep DEF TypeOK, SameFrames, SameReader
<1>7. SendInv'
  BY <1>0, <1>1, FramesKeep DEF SendInv, SameFrames, Inside
<1>8. Layout' /\ ReaderInv' /\ InOrder'
  BY <1>0, <1>1, FramesKeep, ReaderKeeps, SendReaderInv DEF Inv
<1>. QED BY <1>4, <1>5, <1>6, <1>7, <1>8 DEF Inv

LEMMA ExitInv ==
    ASSUME Inv, Exit
    PROVE  Inv'
<1>0. TypeOK /\ Layout /\ SendInv /\ StreamInv /\ up
  BY DEF Inv, Exit
<1>1. SameFrames /\ SameReader /\ up' = FALSE /\ TotalSend' = TotalSend
      /\ sendPc' = sendPc /\ sending' = sending /\ wBuf' = <<>> /\ pipe' = pipe
  BY DEF Exit, recvVars, SameFrames, SameReader
<1>2. wBuf' \in Seq(Nat) /\ Len(wBuf') = 0
  BY <1>1, EmptySeq
<1>3. StreamInv'
  <2>. SUFFICES ASSUME InStep' PROVE Stream'
    BY DEF StreamInv
  <2>1. InStep /\ Stream
    BY <1>0, <1>1, ReaderKeeps DEF StreamInv
  <2>2. /\ BufAt' = BufAt /\ BufAt \in Nat /\ StreamEnd = BufAt + Len(wBuf)
        /\ FrameEnd(clean)' = FrameEnd(clean) /\ Len(wBuf) \in Nat
        /\ PipeAt' = PipeAt /\ InPlace(part, PartAt)' /\ NextStart' = NextStart
        /\ NextStart \in Nat
    <3>1. PipeAt' = PipeAt
      BY <1>1, ReaderKeeps
    <3>2. BufAt' = BufAt
      BY <1>1, <3>1 DEF BufAt
    <3>. QED BY <1>0, <1>1, <2>1, <3>1, <3>2, Places, ReaderKeeps, FramesKeep,
                LayoutFacts, Types DEF Stream
  <2>3. InPlace(pipe, PipeAt)' /\ InPlace(wBuf, BufAt)'
    BY <1>1, <1>2, <2>1, <2>2 DEF Stream, InPlace, Placed
  <2>4. SafeTo' = SafeTo
    BY <1>1, <2>2 DEF SafeTo, SameFrames, Inside
  <2>5. StreamEnd' = BufAt
    BY <1>2, <2>2 DEF StreamEnd
  <2>. QED BY <1>1, <2>1, <2>2, <2>3, <2>4, <2>5 DEF Stream, SameFrames
<1>4. TypeOK'
  BY <1>0, <1>1, <1>2, FramesKeep DEF TypeOK, SameFrames, SameReader
<1>5. SendInv'
  BY <1>0, <1>1, FramesKeep DEF SendInv, SameFrames, Inside
<1>6. Layout' /\ ReaderInv' /\ InOrder'
  BY <1>0, <1>1, FramesKeep, ReaderKeeps, SendReaderInv DEF Inv
<1>. QED BY <1>3, <1>4, <1>5, <1>6 DEF Inv

-----------------------------------------------------------------------------
(* A Send that begins puts its frame behind the others.                       *)
LEMMA SeqWider ==
    ASSUME NEW S, NEW T, S \subseteq T, NEW s \in Seq(S)
    PROVE  s \in Seq(T)
<1>1. Len(s) \in Nat /\ s = [k \in 1..Len(s) |-> s[k]] /\ \A k \in 1..Len(s) : s[k] \in S
  BY LenProperties, ElementOfSeq
<1>2. \A k \in 1..Len(s) : s[k] \in T
  BY <1>1
<1>3. [k \in 1..Len(s) |-> s[k]] \in Seq(T)
  BY <1>1, <1>2, IsASeq
<1>. QED BY <1>1, <1>3

LEMMA CallFrames ==
    ASSUME TypeOK, Layout, NEW n \in Lengths,
           start' = Append(start, NextStart), length' = Append(length, n)
    PROVE  /\ start' \in Seq(Nat) /\ length' \in Seq(Lengths)
           /\ Len(start') = Len(start) + 1 /\ Len(length') = Len(start')
           /\ \A k \in 1..Len(start) : start'[k] = start[k] /\ length'[k] = length[k]
           /\ \A k \in 0..Len(start) : FrameEnd(k)' = FrameEnd(k)
           /\ start'[Len(start')] = NextStart /\ NextStart \in Nat
           /\ NextStart' = FrameEnd(Len(start))' /\ NextStart <= NextStart'
           /\ NextStart' \in Nat
           /\ Layout'
<1>. DEFINE l == Len(start)
<1>0. l \in Nat /\ Len(length) = l /\ n \in Nat /\ NextStart \in Nat
      /\ HeaderLen \in Nat /\ HeaderLen > 0
      /\ start \in Seq(Nat) /\ length \in Seq(Lengths)
  BY Types, Constants, LayoutFacts DEF TypeOK
<1>1. start' \in Seq(Nat) /\ Len(start') = l + 1 /\ start'[l + 1] = NextStart
      /\ \A k \in 1..l : start'[k] = start[k]
  BY <1>0, AppendProperties
<1>2. length' \in Seq(Lengths) /\ Len(length') = l + 1 /\ length'[l + 1] = n
      /\ \A k \in 1..l : length'[k] = length[k]
  BY <1>0, AppendProperties
<1>3. \A k \in 0..l : FrameEnd(k)' = FrameEnd(k)
  <2>. SUFFICES ASSUME NEW k \in 0..l PROVE FrameEnd(k)' = FrameEnd(k)
    OBVIOUS
  <2>1. CASE k = 0
    BY <2>1 DEF FrameEnd
  <2>2. CASE k # 0
    <3>1. k \in 1..l
      BY <1>0, <2>2
    <3>. QED BY <1>1, <1>2, <2>2, <3>1 DEF FrameEnd
  <2>. QED BY <2>1, <2>2
<1>4. FrameEnd(Len(start))' = NextStart + HeaderLen + n
  <2>1. FrameEnd(Len(start))' = IF Len(start') = 0 THEN 0
                                ELSE start'[Len(start')] + HeaderLen + length'[Len(start')]
    BY DEF FrameEnd
  <2>. QED BY <1>0, <1>1, <1>2, <2>1
<1>5. NextStart' = FrameEnd(Len(start))'
  <2>1. start' # <<>>
    BY <1>0, <1>1, EmptySeq
  <2>2. NextStart' = start'[Len(start')] + HeaderLen + length'[Len(start')]
    BY <2>1 DEF NextStart
  <2>. QED BY <1>0, <1>1, <1>2, <1>4, <2>2
<1>6. NextStart = FrameEnd(l) /\ \A k \in 0..l : FrameEnd(k) <= NextStart
  BY LayoutFacts
<1>7. \A k \in 1..(l + 1) : start'[k] = FrameEnd(k - 1)'
  <2>. SUFFICES ASSUME NEW k \in 1..(l + 1) PROVE start'[k] = FrameEnd(k - 1)'
    OBVIOUS
  <2>1. k - 1 \in 0..l /\ FrameEnd(k - 1)' = FrameEnd(k - 1)
    BY <1>0, <1>3
  <2>2. CASE k = l + 1
    BY <1>0, <1>1, <1>6, <2>1, <2>2
  <2>3. CASE k \in 1..l
    BY <1>1, <2>1, <2>3 DEF Layout
  <2>4. k = l + 1 \/ k \in 1..l
    BY <1>0
  <2>. QED BY <2>2, <2>3, <2>4
<1>8. \A j, k \in 1..(l + 1) : j < k => FrameEnd(j)' <= start'[k]
  <2>. SUFFICES ASSUME NEW j \in 1..(l + 1), NEW k \in 1..(l + 1), j < k
                PROVE  FrameEnd(j)' <= start'[k]
    OBVIOUS
  <2>1. j \in 1..l /\ j \in 0..l /\ FrameEnd(j)' = FrameEnd(j)
    BY <1>0, <1>3
  <2>2. CASE k = l + 1
    BY <1>1, <1>6, <2>1, <2>2
  <2>3. CASE k \in 1..l
    BY <1>1, <2>1, <2>3 DEF Layout
  <2>4. k = l + 1 \/ k \in 1..l
    BY <1>0
  <2>. QED BY <2>2, <2>3, <2>4
<1>9. Layout'
  BY <1>1, <1>7, <1>8 DEF Layout
<1>. QED BY <1>0, <1>1, <1>2, <1>3, <1>4, <1>5, <1>9

LEMMA CallInv ==
    ASSUME Inv, NEW g \in Senders, Call(g)
    PROVE  Inv'
<1>. DEFINE l == Len(start)
<1>0. TypeOK /\ Layout /\ SendInv /\ StreamInv /\ ReaderInv /\ InOrder /\ up
      /\ sendPc[g] = "out"
  BY DEF Inv, Call
<1>1. SameReader /\ up' = up /\ TotalSend' = TotalSend /\ wBuf' = wBuf /\ pipe' = pipe
  BY DEF Call, recvVars, SameReader
<1>2. PICK n \in Lengths : length' = Append(length, n)
  BY DEF Call
<1>3. start' = Append(start, NextStart)
      /\ sendPc' = [sendPc EXCEPT ![g] = "header"]
      /\ sending' = [sending EXCEPT ![g] = Len(start')]
      /\ clean' = IF clean < l THEN clean ELSE IF Inside = {} THEN clean + 1 ELSE clean - 1
  BY DEF Call
<1>4. /\ start' \in Seq(Nat) /\ length' \in Seq(Lengths)
      /\ Len(start') = l + 1 /\ Len(length') = Len(start')
      /\ \A k \in 1..l : start'[k] = start[k] /\ length'[k] = length[k]
      /\ \A k \in 0..l : FrameEnd(k)' = FrameEnd(k)
      /\ start'[Len(start')] = NextStart /\ NextStart \in Nat
      /\ NextStart' = FrameEnd(Len(start))' /\ NextStart <= NextStart'
      /\ NextStart' \in Nat
      /\ Layout'
  BY <1>0, <1>2, <1>3, CallFrames
<1>5. l \in Nat /\ Got \in Nat /\ clean \in 0..l /\ Frames = 1..l
  BY <1>0, Types
<1>6. Frames' = 1..(l + 1)
  BY <1>4, <1>5, LenProperties DEF Frames
<1>7. /\ sendPc' \in [Senders -> {"out", "header", "payload", "flush"}]
      /\ sendPc'[g] = "header" /\ sending'[g] = l + 1
      /\ \A h \in Senders : h # g => sendPc'[h] = sendPc[h] /\ sending'[h] = sending[h]
      /\ Inside' = Inside \cup {g} /\ sending' \in [Senders -> Frames' \cup {0}]
  <2>1. sendPc \in [Senders -> {"out", "header", "payload", "flush"}]
        /\ sending \in [Senders -> (1..l) \cup {0}]
    BY <1>0, <1>5 DEF TypeOK
  <2>2. (1..l) \cup {0} \subseteq Frames' \cup {0} /\ l + 1 \in Frames'
    BY <1>5, <1>6
  <2>3. sendPc' \in [Senders -> {"out", "header", "payload", "flush"}]
        /\ sendPc'[g] = "header" /\ \A h \in Senders : h # g => sendPc'[h] = sendPc[h]
    BY <1>3, <2>1
  <2>4. sending' = [sending EXCEPT ![g] = l + 1]
    BY <1>3, <1>4
  <2>5. sending' \in [Senders -> Frames' \cup {0}] /\ sending'[g] = l + 1
        /\ \A h \in Senders : h # g => sending'[h] = sending[h]
    BY <2>1, <2>2, <2>4
  <2>6. Inside' = Inside \cup {g}
    BY <1>0, <2>3 DEF Inside
  <2>. QED BY <2>3, <2>5, <2>6
(* The three ways in which the clean frames may change.                       *)
<1>8. \/ clean < l /\ clean' = clean
      \/ clean = l /\ Inside = {} /\ clean' = l + 1
      \/ clean = l /\ Inside # {} /\ clean' = l - 1 /\ l \in 1..l
  <2>1. Inside # {} /\ clean = l => l \in 1..l
    BY <1>0, LoneSend DEF Inside
  <2>. QED BY <1>3, <1>5, <2>1
<1>9. TypeOK'
  <2>1. clean' \in 0..Len(start')
    BY <1>4, <1>5, <1>8
  <2>2. Frames \subseteq Frames' /\ Frames \cup {0} \subseteq Frames' \cup {0}
    BY <1>5, <1>6
  <2>3. received' \in Seq(Frames' \cup {0}) /\ taken' \in Frames' \cup {0}
    <3>1. received \in Seq(Frames \cup {0}) /\ taken \in Frames \cup {0}
      BY <1>0 DEF TypeOK
    <3>2. received \in Seq(Frames' \cup {0})
      BY <2>2, <3>1, SeqWider
    <3>. QED BY <1>1, <2>2, <3>1, <3>2 DEF SameReader
  <2>. QED BY <1>0, <1>1, <1>4, <1>7, <2>1, <2>3 DEF TypeOK, SameReader
<1>10. SendInv'
  <2>1. \A h \in Inside' : sending'[h] \in Frames'
    <3>1. \A h \in Inside : sending[h] \in 1..l
      BY <1>0, <1>5 DEF SendInv
    <3>2. ASSUME NEW h \in Inside', h # g PROVE sending'[h] \in 1..(l + 1)
      <4>1. h \in Inside /\ sending'[h] = sending[h]
        BY <1>7, <3>2 DEF Inside
      <4>. QED BY <1>5, <3>1, <4>1
    <3>3. sending'[g] \in 1..(l + 1)
      BY <1>5, <1>7
    <3>. QED BY <1>6, <3>2, <3>3
  <2>2. ASSUME clean' = Len(start') PROVE Inside' = {g} /\ sending'[g] = Len(start')
    BY <1>4, <1>5, <1>7, <1>8, <2>2
  <2>. QED BY <2>1, <2>2 DEF SendInv
(* What the reader has had was sent before.                                   *)
<1>11. \A k \in 1..l : Fits(k)' <=> Fits(k)
  BY <1>4 DEF Fits
<1>12. clean' = l + 1 /\ (\A j \in 1..l : Fits(j)) =>
          /\ AllClean /\ recvPc # "ended" /\ Got <= l /\ InStep
          /\ recvPc = "payload" => Got < l
  <2>. SUFFICES ASSUME clean' = l + 1, \A j \in 1..l : Fits(j)
                PROVE  AllClean /\ recvPc # "ended" /\ Got <= l /\ InStep
                       /\ (recvPc = "payload" => Got < l)
    OBVIOUS
  <2>1. AllClean
    BY <1>5, <1>8 DEF AllClean
  <2>2. recvPc # "ended"
    BY <1>0, <2>1 DEF ReaderInv
  <2>3. InStep
    BY <1>0, <2>1, <2>2, CleanInStep
  <2>. QED BY <1>0, <2>1, <2>2, <2>3 DEF ReaderInv
<1>. DEFINE Later(k) == k <= clean' /\ \A j \in 1..k : Fits(j)'
<1>13. \A k \in Nat : k <= l /\ Later(k) => Good(k)
  <2>. SUFFICES ASSUME NEW k \in Nat, k <= l, Later(k) PROVE Good(k)
    OBVIOUS
  <2>1. \A j \in 1..k : j \in 1..l
    BY <1>5
  <2>2. \A j \in 1..k : Fits(j)
    BY <1>11, <2>1
  <2>3. k <= clean
    BY <1>5, <1>8
  <2>. QED BY <2>2, <2>3 DEF Good
<1>14. Got' = Got
  BY <1>1 DEF Got, SameReader
<1>15. \A k \in Nat : k > l /\ Later(k) =>
          clean' = l + 1 /\ k = l + 1 /\ \A j \in 1..l : Fits(j)
  <2>. SUFFICES ASSUME NEW k \in Nat, k > l, Later(k)
                PROVE  clean' = l + 1 /\ k = l + 1 /\ \A j \in 1..l : Fits(j)
    OBVIOUS
  <2>1. clean' = l + 1 /\ k = l + 1
    BY <1>5, <1>8
  <2>2. \A j \in 1..l : j \in 1..k
    BY <1>5, <2>1
  <2>. QED BY <1>11, <2>1, <2>2
<1>16. InStep' => InStep
  <2>. SUFFICES ASSUME InStep' PROVE InStep
    OBVIOUS
  <2>1. recvPc # "ended" /\ Later(Got) /\ (recvPc = "payload" => Later(Got + 1))
    BY <1>1, <1>14 DEF InStep, Good, SameReader
  <2>. HIDE DEF Later
  <2>2. Good(Got)
    <3>1. CASE Got <= l
      BY <1>5, <1>13, <2>1, <3>1
    <3>2. CASE Got > l
      BY <1>5, <1>12, <1>15, <2>1, <3>2
    <3>. QED BY <1>5, <3>1, <3>2
  <2>3. ASSUME recvPc = "payload" PROVE Good(Got + 1)
    <3>1. Later(Got + 1) /\ Got + 1 \in Nat
      BY <1>5, <2>1, <2>3
    <3>2. CASE Got + 1 <= l
      BY <1>13, <3>1, <3>2
    <3>3. CASE Got + 1 > l
      <4>1. clean' = l + 1 /\ \A j \in 1..l : Fits(j)
        BY <1>15, <3>1, <3>3
      <4>2. Got < l
        BY <1>12, <2>3, <4>1
      <4>. QED BY <1>5, <3>3, <4>2
    <3>. QED BY <1>5, <3>2, <3>3
  <2>. QED BY <2>1, <2>2, <2>3 DEF InStep
<1>. HIDE DEF Later
<1>17. StreamInv'
  <2>. SUFFICES ASSUME InStep' PROVE Stream'
    BY DEF StreamInv
  <2>1. InStep /\ Stream
    BY <1>0, <1>16 DEF StreamInv
  <2>2. /\ PartAt \in Nat /\ PipeAt \in Nat /\ BufAt \in Nat /\ StreamEnd \in Nat
        /\ PipeAt = PartAt + Len(part) /\ BufAt = PipeAt + Len(pipe)
        /\ StreamEnd = BufAt + Len(wBuf)
        /\ Len(part) \in Nat /\ Len(pipe) \in Nat /\ Len(wBuf) \in Nat
        /\ Got \in 0..l /\ (recvPc = "payload" => Got + 1 \in 1..l)
        /\ recvPc \in {"header", "payload"}
    BY <1>0, <2>1, Places, Types DEF InStep, TypeOK
  <2>3. PartAt' = PartAt
    <3>1. CASE recvPc = "header"
      <4>1. PartAt' = FrameEnd(Got)'
        BY <1>1, <3>1 DEF PartAt, SameReader
      <4>2. FrameEnd(Got)' = FrameEnd(Got)
        <5>1. \A k \in 0..l : (IF k = 0 THEN 0 ELSE start'[k] + HeaderLen + length'[k])
                 = (IF k = 0 THEN 0 ELSE start[k] + HeaderLen + length[k])
          BY <1>4 DEF FrameEnd
        <5>. QED BY <1>14, <2>2, <5>1 DEF FrameEnd
      <4>. QED BY <3>1, <4>1, <4>2 DEF PartAt
    <3>2. CASE recvPc = "payload"
      <4>1. PartAt' = start'[Got + 1] + HeaderLen
        BY <1>1, <1>14, <3>2 DEF PartAt, SameReader
      <4>. QED BY <1>4, <2>2, <3>2, <4>1 DEF PartAt
    <3>. QED BY <2>2, <3>1, <3>2
  <2>4. PipeAt' = PipeAt /\ BufAt' = BufAt /\ StreamEnd' = StreamEnd
    <3>1. PipeAt' = PipeAt
      BY <1>1, <2>3 DEF PipeAt, SameReader
    <3>2. BufAt' = BufAt
      BY <1>1, <3>1 DEF BufAt
    <3>3. StreamEnd' = BufAt' + Len(wBuf') /\ StreamEnd = BufAt + Len(wBuf)
      BY DEF StreamEnd
    <3>. QED BY <1>1, <3>1, <3>2, <3>3
(* New clean bytes are only those of the frame of which nothing is written.   *)
  <2>5. \A a \in Nat : a <= StreamEnd /\ a <= FrameEnd(clean)' => a <= FrameEnd(clean)
    <3>. SUFFICES ASSUME NEW a \in Nat, a <= StreamEnd, a <= FrameEnd(clean)'
                  PROVE  a <= FrameEnd(clean)
      OBVIOUS
    <3>0. FrameEnd(clean)' = IF clean' = 0 THEN 0
                             ELSE start'[clean'] + HeaderLen + length'[clean']
      BY DEF FrameEnd
    <3>1. clean' \in 0..l => FrameEnd(clean)' = FrameEnd(clean')
      BY <1>4, <3>0 DEF FrameEnd
    <3>2. \A j, k \in 0..l : j <= k => FrameEnd(j) <= FrameEnd(k)
          /\ FrameEnd(j) \in Nat /\ FrameEnd(k) \in Nat
      BY <1>0, LayoutFacts
    <3>3. CASE clean' \in 0..l /\ clean' <= clean
      BY <1>5, <3>1, <3>2, <3>3
    <3>4. CASE clean = l /\ Inside = {} /\ clean' = l + 1
      <4>1. StreamEnd <= NextStart /\ NextStart = FrameEnd(clean)
        BY <1>0, <2>1, <3>4, LayoutFacts DEF Stream
      <4>. QED BY <1>4, <2>2, <4>1
    <3>5. (clean' \in 0..l /\ clean' <= clean) \/ (clean = l /\ Inside = {} /\ clean' = l + 1)
      BY <1>5, <1>8
    <3>. QED BY <3>3, <3>4, <3>5
  <2>6. ASSUME NEW s \in Seq(Nat), NEW a \in Nat, a + Len(s) <= StreamEnd,
               Placed(s, a, FrameEnd(clean))
        PROVE  Placed(s, a, FrameEnd(clean)')
    <3>. SUFFICES ASSUME NEW m \in 1..Len(s), a + m <= FrameEnd(clean)' PROVE s[m] = a + m
      BY DEF Placed
    <3>1. Len(s) \in Nat
      BY LenProperties
    <3>2. a + m \in Nat /\ a + m <= StreamEnd
      BY <2>2, <2>6, <3>1
    <3>3. a + m <= FrameEnd(clean)
      BY <2>5, <3>2
    <3>. QED BY <2>6, <3>3 DEF Placed
  <2>7. InPlace(part, PartAt)' /\ InPlace(pipe, PipeAt)' /\ InPlace(wBuf, BufAt)'
    <3>1. part \in Seq(Nat) /\ pipe \in Seq(Nat) /\ wBuf \in Seq(Nat)
      BY <1>0 DEF TypeOK
    <3>2. Placed(part, PartAt, FrameEnd(clean)) /\ Placed(pipe, PipeAt, FrameEnd(clean))
          /\ Placed(wBuf, BufAt, FrameEnd(clean))
      BY <2>1 DEF Stream, InPlace
    <3>3. PartAt + Len(part) <= StreamEnd /\ PipeAt + Len(pipe) <= StreamEnd
          /\ BufAt + Len(wBuf) <= StreamEnd
      BY <2>2
    <3>4. Placed(part, PartAt, FrameEnd(clean)') /\ Placed(pipe, PipeAt, FrameEnd(clean)')
          /\ Placed(wBuf, BufAt, FrameEnd(clean)')
      BY <2>2, <2>6, <3>1, <3>2, <3>3
    <3>. QED BY <1>1, <2>3, <2>4, <3>4 DEF InPlace, SameReader
  <2>8. BufAt' >= SafeTo'
    <3>1. CASE clean < l /\ clean' = clean
      <4>1. SafeTo = FrameEnd(clean) /\ BufAt >= SafeTo
        BY <2>1, <3>1 DEF SafeTo, Stream
      <4>2. SafeTo' = FrameEnd(clean)'
        BY <1>4, <1>5, <3>1 DEF SafeTo
      <4>3. FrameEnd(clean)' = FrameEnd(clean)
        BY <1>4, <1>5, <3>1 DEF FrameEnd
      <4>. QED BY <2>4, <4>1, <4>2, <4>3
    <3>2. CASE clean = l /\ Inside = {} /\ clean' = l + 1
      <4>1. SafeTo = NextStart /\ BufAt >= SafeTo
        BY <1>5, <2>1, <3>2 DEF SafeTo, Stream
      <4>2. SafeTo' = start'[Len(start')]
        BY <1>4, <1>5, <1>7, <3>2 DEF SafeTo
      <4>. QED BY <1>4, <2>4, <4>1, <4>2
    <3>3. CASE clean = l /\ Inside # {} /\ clean' = l - 1 /\ l \in 1..l
      <4>1. SafeTo = start[l] /\ BufAt >= SafeTo
        BY <1>5, <2>1, <3>3 DEF SafeTo, Stream
      <4>2. SafeTo' = FrameEnd(clean)'
        BY <1>4, <1>5, <3>3 DEF SafeTo
      <4>3. FrameEnd(clean)' = FrameEnd(l - 1)
        <5>1. l - 1 \in 0..l
          BY <1>5, <3>3
        <5>. QED BY <1>4, <3>3, <5>1 DEF FrameEnd
      <4>4. start[l] = FrameEnd(l - 1)
        BY <3>3, <1>0, LayoutFacts
      <4>. QED BY <2>4, <4>1, <4>2, <4>3, <4>4
    <3>. QED BY <1>8, <3>1, <3>2, <3>3
  <2>9. ASSUME clean' = Len(start')
        PROVE  StreamEnd' <= NextStart' /\ StreamEnd' = Written'
    <3>1. clean = l /\ Inside = {} /\ clean' = l + 1
      BY <1>4, <1>5, <1>8, <2>9
    <3>2. Written = NextStart
      BY <3>1 DEF Written, Inside
    <3>3. StreamEnd = NextStart
      BY <1>0, <2>1, <3>1, <3>2 DEF Stream
    <3>4. Written' = start'[Len(start')]
      BY <1>7 DEF Written
    <3>. QED BY <1>4, <2>4, <3>3, <3>4
  <2>. QED BY <2>7, <2>8, <2>9 DEF Stream
<1>18. AllClean' => AllClean /\ recvPc # "ended" /\ Got <= l
                    /\ (recvPc = "payload" => Got < l)
  <2>. SUFFICES ASSUME AllClean'
                PROVE  AllClean /\ recvPc # "ended" /\ Got <= l
                       /\ (recvPc = "payload" => Got < l)
    OBVIOUS
  <2>1. clean' = Len(start') /\ \A j \in Frames' : Fits(j)'
    BY DEF AllClean
  <2>2. clean' = l + 1
    BY <1>4, <2>1
  <2>3. \A j \in 1..l : Fits(j)
    BY <1>5, <1>6, <1>11, <2>1
  <2>. QED BY <1>12, <2>2, <2>3
<1>19. ReaderInv'
  <2>1. recvPc' = "header" => Len(part') <= HeaderLen
    BY <1>0, <1>1 DEF ReaderInv, SameReader
  <2>2. InStep' /\ recvPc' = "payload" =>
           taken' = Got' + 1 /\ want' = length'[Got' + 1] /\ Len(part') <= want'
    <3>. SUFFICES ASSUME InStep', recvPc' = "payload"
                  PROVE  taken' = Got' + 1 /\ want' = length'[Got' + 1] /\ Len(part') <= want'
      OBVIOUS
    <3>1. InStep /\ recvPc = "payload"
      BY <1>1, <1>16 DEF SameReader
    <3>2. taken = Got + 1 /\ want = length[Got + 1] /\ Len(part) <= want
      BY <1>0, <3>1 DEF ReaderInv
    <3>3. Got + 1 \in 1..l
      BY <1>0, <3>1, Places
    <3>. QED BY <1>1, <1>4, <1>14, <3>2, <3>3 DEF SameReader
  <2>. QED BY <1>1, <1>4, <1>5, <1>14, <1>18, <2>1, <2>2 DEF ReaderInv, SameReader
<1>20. InOrder'
  <2>. SUFFICES ASSUME NEW k \in DOMAIN received', k <= clean', \A j \in 1..k : Fits(j)'
                PROVE  received'[k] = k
    BY DEF InOrder
  <2>1. received' = received /\ DOMAIN received = 1..Got /\ k \in Nat /\ k <= Got
    <3>1. received \in Seq(Frames \cup {0}) /\ received' = received
      BY <1>0, <1>1 DEF TypeOK, SameReader
    <3>. QED BY <1>5, <3>1, LenProperties DEF Got
  <2>2. Later(k)
    BY DEF Later
  <2>3. CASE k <= l
    <3>1. Good(k)
      BY <1>13, <2>1, <2>2, <2>3
    <3>. QED BY <1>0, <2>1, <3>1 DEF InOrder, Good
  <2>4. CASE k > l
    BY <1>5, <1>12, <1>15, <2>1, <2>2, <2>4
  <2>. QED BY <1>5, <2>1, <2>3, <2>4
<1>. QED BY <1>4, <1>9, <1>10, <1>17, <1>19, <1>20 DEF Inv

-----------------------------------------------------------------------------
(* Steps of Recv: the sender stays as it is.                                  *)
SameSender == /\ start' = start /\ length' = length /\ sendPc' = sendPc
              /\ sending' = sending /\ wBuf' = wBuf /\ TotalSend' = TotalSend
              /\ clean' = clean /\ up' = up

LEMMA SenderKeeps ==
    ASSUME SameSender, SendInv, Layout
    PROVE  /\ SameFrames /\ Layout' /\ SendInv' /\ Inside' = Inside /\ (AllClean' <=> AllClean)
           /\ NextStart' = NextStart /\ SafeTo' = SafeTo /\ Written' = Written
           /\ FrameEnd(clean)' = FrameEnd(clean) /\ Frames' = Frames
           /\ \A k : FrameEnd(k)' = FrameEnd(k)
<1>1. SameFrames
  BY DEF SameSender, SameFrames
<1>2. Inside' = Inside
  BY DEF SameSender, Inside
<1>3. SendInv'
  BY <1>1, <1>2, FramesKeep DEF SendInv, SameSender
<1>4. SafeTo' = SafeTo /\ Written' = Written
  BY <1>1, <1>2, FramesKeep DEF SameSender, SafeTo, Written
<1>. QED BY <1>1, <1>2, <1>3, <1>4, FramesKeep

(* A step that only hands on bytes, or drops the first frame of them.         *)
LEMMA SameStream ==
    ASSUME TypeOK, Layout, SendInv, Stream, SameSender,
           InPlace(part, PartAt)', InPlace(pipe, PipeAt)', BufAt' = BufAt
    PROVE  Stream'
<1>1. InPlace(wBuf, BufAt)'
  BY SenderKeeps DEF Stream, InPlace, Placed, SameSender
<1>2. StreamEnd' = StreamEnd
  <2>1. StreamEnd' = BufAt' + Len(wBuf') /\ StreamEnd = BufAt + Len(wBuf)
    BY DEF StreamEnd
  <2>. QED BY <2>1 DEF SameSender
<1>. QED BY <1>1, <1>2, SenderKeeps DEF Stream, SameSender

LEMMA TakeBytesInv ==
    ASSUME Inv, TakeBytes
    PROVE  Inv'
<1>. DEFINE n == IF Missing <= Len(pipe) THEN Missing ELSE Len(pipe)
<1>0. TypeOK /\ Layout /\ SendInv /\ StreamInv /\ ReaderInv /\ InOrder /\ Waits
  BY DEF Inv, TakeBytes
<1>1. SameSender /\ recvPc' = recvPc /\ taken' = taken /\ want' = want
      /\ received' = received /\ TotalRecv' = TotalRecv
      /\ part' = part \o SubSeq(pipe, 1, n) /\ pipe' = SubSeq(pipe, n + 1, Len(pipe))
  BY DEF TakeBytes, sendVars, SameSender
<1>2. part \in Seq(Nat) /\ pipe \in Seq(Nat) /\ Len(part) \in Nat /\ Len(pipe) \in Nat
      /\ want \in Int /\ HeaderLen \in Nat
  BY <1>0, Types, Constants DEF TypeOK
<1>3. /\ Missing \in Nat
      /\ recvPc = "header" => Missing = HeaderLen - Len(part)
      /\ recvPc = "payload" => Missing = want - Len(part)
      /\ recvPc \in {"header", "payload"}
  BY <1>0, <1>2 DEF Missing, Waits, HasHeader, HasPayload, ReaderInv
<1>4. n \in Nat /\ n <= Missing /\ n \in 0..Len(pipe)
  BY <1>2, <1>3
<1>. HIDE DEF n
<1>5. ASSUME NEW a \in Nat, NEW e \in Nat, Placed(pipe, a, e)
      PROVE  /\ SubSeq(pipe, 1, n) \in Seq(Nat) /\ Len(SubSeq(pipe, 1, n)) = n
             /\ pipe' \in Seq(Nat) /\ Len(pipe') = Len(pipe) - n
             /\ Placed(SubSeq(pipe, 1, n), a, e) /\ Placed(pipe', a + n, e)
  BY <1>1, <1>2, <1>4, <1>5, PlacedSplit
<1>6. SubSeq(pipe, 1, n) \in Seq(Nat) /\ Len(SubSeq(pipe, 1, n)) = n
      /\ pipe' \in Seq(Nat) /\ Len(pipe') = Len(pipe) - n
  <2>1. Placed(pipe, 1, 0)
    BY <1>2 DEF Placed
  <2>. QED BY <1>5, <2>1
<1>7. part' \in Seq(Nat) /\ Len(part') = Len(part) + n
  BY <1>1, <1>2, <1>6, ConcatProperties
<1>8. SameFrames /\ Layout' /\ SendInv' /\ Inside' = Inside /\ (AllClean' <=> AllClean)
  BY <1>0, <1>1, SenderKeeps
<1>9. Got' = Got
  BY <1>1 DEF Got
<1>10. InStep' <=> InStep
  BY <1>1, <1>9 DEF InStep, Good, Fits, SameSender
<1>11. StreamInv'
  <2>. SUFFICES ASSUME InStep' PROVE Stream'
    BY DEF StreamInv
  <2>1. InStep /\ Stream
    BY <1>0, <1>10 DEF StreamInv
  <2>. DEFINE e == FrameEnd(clean)
  <2>2. PartAt \in Nat /\ PipeAt \in Nat /\ PipeAt = PartAt + Len(part)
        /\ BufAt = PipeAt + Len(pipe) /\ e \in Nat
    BY <1>0, <2>1, Places
  <2>3. Placed(part, PartAt, e) /\ Placed(pipe, PipeAt, e)
    BY <2>1 DEF Stream, InPlace
  <2>4. e' = e
    BY <1>8, FramesKeep
  <2>5. PartAt' = PartAt
    BY <1>1, <1>9 DEF PartAt, FrameEnd, SameSender
  <2>6. PipeAt' = PipeAt + n
    <3>1. PipeAt' = PartAt' + Len(part')
      BY DEF PipeAt
    <3>. QED BY <1>2, <1>4, <1>7, <2>2, <2>5, <3>1
  <2>7. BufAt' = BufAt
    <3>1. BufAt' = PipeAt' + Len(pipe')
      BY DEF BufAt
    <3>. QED BY <1>2, <1>4, <1>6, <2>2, <2>6, <3>1
  <2>. HIDE DEF e
  <2>8. Placed(SubSeq(pipe, 1, n), PartAt + Len(part), e) /\ Placed(pipe', PipeAt + n, e)
    BY <1>5, <2>2, <2>3
  <2>9. Placed(part', PartAt, e)
    BY <1>1, <1>2, <1>6, <2>2, <2>3, <2>8, PlacedConcat
  <2>10. InPlace(part, PartAt)' /\ InPlace(pipe, PipeAt)'
    BY <2>4, <2>5, <2>6, <2>8, <2>9 DEF InPlace, e
  <2>. QED BY <1>0, <1>1, <2>1, <2>7, <2>10, SameStream
<1>12. TypeOK'
  BY <1>0, <1>1, <1>6, <1>7, <1>8, FramesKeep DEF TypeOK, SameSender
<1>13. ReaderInv'
  <2>1. recvPc' = "header" => Len(part') <= HeaderLen
    BY <1>1, <1>2, <1>3, <1>4, <1>7
  <2>2. recvPc' = "payload" => Len(part') <= want'
    BY <1>1, <1>2, <1>3, <1>4, <1>7
  <2>. QED BY <1>0, <1>1, <1>8, <1>9, <1>10, <2>1, <2>2 DEF ReaderInv, SameSender
<1>14. InOrder'
  BY <1>0, <1>1 DEF InOrder, Fits, SameSender
<1>. QED BY <1>8, <1>11, <1>12, <1>13, <1>14 DEF Inv

LEMMA DecodeHeaderInv ==
    ASSUME Inv, DecodeHeader
    PROVE  Inv'
<1>0. TypeOK /\ Layout /\ SendInv /\ StreamInv /\ ReaderInv /\ InOrder
      /\ recvPc = "header" /\ Len(part) = HeaderLen
  BY DEF Inv, DecodeHeader, HasHeader
<1>1. SameSender /\ pipe' = pipe /\ received' = received /\ TotalRecv' = TotalRecv
      /\ recvPc' = "payload" /\ part' = <<>>
  BY DEF DecodeHeader, sendVars, SameSender
<1>2. \/ \E j \in Frames : part = HeaderOf(j) /\ taken' = j /\ want' = Int32(length[j])
      \/ /\ \A j \in Frames : part # HeaderOf(j)
         /\ taken' = 0 /\ want' \in {Int32(m) : m \in Lengths}
  BY DEF DecodeHeader
<1>3. SameFrames /\ Layout' /\ SendInv' /\ Inside' = Inside /\ (AllClean' <=> AllClean)
      /\ Frames' = Frames
  BY <1>0, <1>1, SenderKeeps
<1>4. Len(start) \in Nat /\ Got \in Nat /\ Frames = 1..Len(start) /\ clean \in 0..Len(start)
      /\ part \in Seq(Nat) /\ pipe \in Seq(Nat) /\ Len(pipe) \in Nat /\ Len(wBuf) \in Nat
      /\ HeaderLen \in Nat /\ HeaderLen > 0
      /\ \A k \in 1..Len(start) : start[k] \in Nat /\ length[k] \in Nat
  BY <1>0, Types, Constants DEF TypeOK
<1>5. taken' \in Frames \cup {0} /\ want' \in -LenLimit..LenLimit - 1
  BY <1>2, <1>4, Int32Type, Constants
<1>6. part' \in Seq(Nat) /\ Len(part') = 0
  BY <1>1, EmptySeq
<1>7. TypeOK'
  BY <1>0, <1>1, <1>3, <1>5, <1>6 DEF TypeOK, SameSender
<1>8. Got' = Got
  BY <1>1 DEF Got
<1>9. InOrder'
  BY <1>0, <1>1 DEF InOrder, Fits, SameSender
(* In step, what is taken for a header is the next one.                       *)
<1>10. ASSUME InStep'
       PROVE  /\ InStep /\ Stream /\ Got + 1 \in 1..Len(start) /\ Got + 1 <= clean
              /\ taken' = Got + 1 /\ want' = length[Got + 1] /\ want' >= 0
              /\ PartAt = start[Got + 1]
  <2>1. Good(Got) /\ Good(Got + 1)
    BY <1>1, <1>8, <1>10 DEF InStep, Good, Fits, SameSender
  <2>2. InStep /\ Stream
    BY <1>0, <2>1 DEF InStep, StreamInv
  <2>3. Got + 1 \in 1..Len(start) /\ Got + 1 <= clean /\ Fits(Got + 1)
    BY <1>4, <2>1 DEF Good
  <2>4. PartAt = FrameEnd(Got) /\ PartAt \in Nat /\ FrameEnd(clean) \in Nat
    BY <1>0, <2>2, Places
  <2>5. start[Got + 1] = FrameEnd(Got)
    <3>1. start[Got + 1] = FrameEnd((Got + 1) - 1)
      BY <1>0, <2>3, LayoutFacts
    <3>. QED BY <1>4, <3>1
  <2>6. FrameEnd(Got + 1) <= FrameEnd(clean)
        /\ FrameEnd(Got + 1) = start[Got + 1] + HeaderLen + length[Got + 1]
    BY <1>0, <1>4, <2>3, LayoutFacts
  <2>7. PartAt + Len(part) <= FrameEnd(clean)
    <3>1. PartAt = start[Got + 1] /\ start[Got + 1] \in Nat /\ length[Got + 1] \in Nat
          /\ Len(part) = HeaderLen /\ HeaderLen \in Nat
      BY <1>0, <1>4, <2>3, <2>4, <2>5
    <3>. DEFINE b == start[Got + 1]
                m == length[Got + 1]
                e == FrameEnd(Got + 1)
                f == FrameEnd(clean)
    <3>2. e = b + HeaderLen + m /\ e <= f /\ f \in Nat /\ b \in Nat /\ m \in Nat
      BY <2>4, <2>6, <3>1
    <3>. HIDE DEF b, m, e, f
    <3>3. b + HeaderLen <= f
      BY <3>1, <3>2
    <3>. QED BY <3>1, <3>3 DEF b, f
  <2>8. part = HeaderOf(Got + 1)
    <3>1. Placed(part, PartAt, FrameEnd(clean))
      BY <2>2 DEF Stream, InPlace
    <3>. QED BY <1>0, <1>4, <2>4, <2>5, <2>7, <3>1, PlacedIsBytes DEF HeaderOf
  <2>9. PICK j \in Frames : part = HeaderOf(j) /\ taken' = j /\ want' = Int32(length[j])
    BY <1>2, <1>4, <2>3, <2>8
  <2>10. start[j] = start[Got + 1]
    <3>1. HeaderOf(j)[1] = start[j] + 1 /\ HeaderOf(Got + 1)[1] = start[Got + 1] + 1
      BY <1>4 DEF HeaderOf, Bytes
    <3>. QED BY <1>4, <2>3, <2>8, <2>9, <3>1
  <2>11. j = Got + 1
    BY <1>0, <1>4, <2>3, <2>10, LayoutFacts
  <2>12. Int32(length[Got + 1]) = length[Got + 1]
    BY <1>4, <2>3, Int32Fits DEF Fits
  <2>. QED BY <1>4, <2>2, <2>3, <2>4, <2>5, <2>9, <2>11, <2>12
<1>11. StreamInv'
  <2>. SUFFICES ASSUME InStep' PROVE Stream'
    BY DEF StreamInv
  <2>1. InStep /\ Stream /\ Got + 1 \in 1..Len(start) /\ PartAt = start[Got + 1]
    BY <1>10
  <2>2. PartAt \in Nat /\ PipeAt \in Nat /\ PipeAt = PartAt + Len(part)
        /\ BufAt = PipeAt + Len(pipe)
    BY <1>0, <2>1, Places
  <2>3. PartAt' = start[Got + 1] + HeaderLen
    BY <1>1, <1>8 DEF PartAt, SameSender
  <2>4. PipeAt' = PipeAt
    <3>1. PipeAt' = PartAt' + Len(part')
      BY DEF PipeAt
    <3>. QED BY <1>0, <1>4, <1>6, <2>1, <2>2, <2>3, <3>1
  <2>5. BufAt' = BufAt
    BY <1>1, <2>4 DEF BufAt
  <2>6. InPlace(part, PartAt)'
    BY <1>6 DEF InPlace, Placed
  <2>7. InPlace(pipe, PipeAt)'
    BY <1>1, <1>3, <2>1, <2>4, FramesKeep DEF Stream, InPlace, Placed
  <2>. QED BY <1>0, <1>1, <2>1, <2>5, <2>6, <2>7, SameStream
<1>12. AllClean => Got < Len(start)
  <2>. SUFFICES ASSUME AllClean PROVE Got < Len(start)
    OBVIOUS
  <2>1. InStep /\ Got <= Len(start) /\ clean = Len(start)
    BY <1>0, CleanInStep DEF ReaderInv, AllClean
  <2>2. Stream
    BY <1>0, <2>1 DEF StreamInv
  <2>3. PartAt = FrameEnd(Got) /\ PartAt \in Nat /\ PipeAt = PartAt + Len(part)
        /\ BufAt = PipeAt + Len(pipe) /\ StreamEnd = BufAt + Len(wBuf)
    BY <1>0, <2>1, Places
  <2>4. StreamEnd <= NextStart /\ NextStart = FrameEnd(Len(start))
    BY <1>0, <2>1, <2>2, LayoutFacts DEF Stream
  <2>5. Got # Len(start)
    BY <1>0, <1>4, <2>3, <2>4
  <2>. QED BY <1>4, <2>1, <2>5
<1>13. ReaderInv'
  <2>1. InStep' => taken' = Got' + 1 /\ want' = length'[Got' + 1] /\ Len(part') <= want'
    BY <1>1, <1>4, <1>6, <1>8, <1>10 DEF SameSender
  <2>. QED BY <1>1, <1>3, <1>4, <1>8, <1>12, <2>1 DEF ReaderInv, SameSender
<1>. QED BY <1>3, <1>7, <1>9, <1>11, <1>13 DEF Inv

LEMMA DecodeInv ==
    ASSUME Inv, Decode
    PROVE  Inv'
<1>0. TypeOK /\ Layout /\ SendInv /\ StreamInv /\ ReaderInv /\ InOrder
      /\ recvPc = "payload" /\ Len(part) >= want
  BY DEF Inv, Decode, HasPayload
<1>1. SameSender /\ pipe' = pipe /\ part' = <<>> /\ taken' = 0 /\ want' = 0
      /\ TotalRecv' = TotalRecv + SizeofHeader + want
  BY DEF Decode, sendVars, SameSender
<1>2. IF taken # 0 /\ part = PayloadOf(taken)
      THEN received' = Append(received, taken) /\ recvPc' = "header"
      ELSE \/ received' = Append(received, 0) /\ recvPc' = "header"
           \/ received' = received /\ recvPc' = "ended"
  BY DEF Decode
<1>3. SameFrames /\ Layout' /\ SendInv' /\ Inside' = Inside /\ (AllClean' <=> AllClean)
      /\ Frames' = Frames
  BY <1>0, <1>1, SenderKeeps
<1>4. Len(start) \in Nat /\ Got \in Nat /\ Frames = 1..Len(start) /\ clean \in 0..Len(start)
      /\ part \in Seq(Nat) /\ pipe \in Seq(Nat) /\ Len(pipe) \in Nat /\ Len(part) \in Nat
      /\ HeaderLen \in Nat /\ want \in Int /\ TotalRecv \in Int
      /\ \A k \in 1..Len(start) : start[k] \in Nat /\ length[k] \in Nat
  BY <1>0, Types, Constants DEF TypeOK
<1>5. part' \in Seq(Nat) /\ Len(part') = 0
  BY <1>1, EmptySeq
<1>6. received \in Seq(Frames \cup {0}) /\ taken \in Frames \cup {0}
  BY <1>0 DEF TypeOK
<1>7. PICK f \in Frames \cup {0} :
          \/ received' = Append(received, f) /\ recvPc' = "header"
          \/ received' = received /\ recvPc' = "ended"
  BY <1>2, <1>6
<1>8. received' \in Seq(Frames \cup {0})
  BY <1>6, <1>7, AppendProperties
<1>9. TypeOK'
  <2>1. 0 \in -LenLimit..LenLimit - 1
    BY Constants
  <2>2. TotalRecv' \in Int
    BY <1>1, <1>4 DEF SizeofHeader
  <2>. QED BY <1>0, <1>1, <1>3, <1>5, <1>7, <1>8, <2>1, <2>2 DEF TypeOK, SameSender
(* In step, what is decoded is the payload of the next frame.                 *)
<1>10. ASSUME Good(Got), Good(Got + 1)
       PROVE  /\ InStep /\ Stream /\ Got + 1 \in 1..Len(start)
              /\ received' = Append(received, Got + 1) /\ recvPc' = "header"
              /\ PartAt = start[Got + 1] + HeaderLen /\ Len(part) = length[Got + 1]
  <2>1. InStep /\ Stream
    BY <1>0, <1>10 DEF InStep, StreamInv
  <2>2. Got + 1 \in 1..Len(start) /\ Got + 1 <= clean
        /\ PartAt = start[Got + 1] + HeaderLen /\ PartAt \in Nat /\ FrameEnd(clean) \in Nat
    BY <1>0, <2>1, Places
  <2>3. taken = Got + 1 /\ want = length[Got + 1] /\ Len(part) = want
    BY <1>0, <1>4, <2>1 DEF ReaderInv
  <2>4. FrameEnd(Got + 1) <= FrameEnd(clean)
        /\ FrameEnd(Got + 1) = start[Got + 1] + HeaderLen + length[Got + 1]
    BY <1>0, <1>4, <2>2, LayoutFacts
  <2>5. PartAt + Len(part) <= FrameEnd(clean)
    BY <1>4, <2>2, <2>3, <2>4
  <2>6. part = PayloadOf(Got + 1)
    <3>1. Placed(part, PartAt, FrameEnd(clean))
      BY <2>1 DEF Stream, InPlace
    <3>. QED BY <1>4, <2>2, <2>3, <2>5, <3>1, PlacedIsBytes DEF PayloadOf
  <2>7. taken # 0 /\ part = PayloadOf(taken)
    BY <1>4, <2>3, <2>6
  <2>. QED BY <1>2, <2>1, <2>2, <2>3, <2>7
<1>11. ASSUME NEW x, received' = Append(received, x)
       PROVE  /\ Got' = Got + 1 /\ received'[Got + 1] = x
              /\ \A k \in 1..Got : received'[k] = received[k]
  BY <1>4, <1>6, <1>11, AppendProperties DEF Got
<1>12. recvPc' = "header" => Got' = Got + 1
  BY <1>7, <1>11
<1>13. ASSUME InStep'
       PROVE  Good(Got) /\ Good(Got + 1)
  <2>1. recvPc' = "header"
    BY <1>7, <1>13 DEF InStep
  <2>2. Good(Got + 1)
    <3>1. Got' <= clean /\ \A j \in 1..Got' : Fits(j)
      BY <1>1, <1>13 DEF InStep, Good, Fits, SameSender
    <3>. QED BY <1>12, <2>1, <3>1 DEF Good
  <2>. QED BY <1>4, <2>2 DEF Good
<1>14. StreamInv'
  <2>. SUFFICES ASSUME InStep' PROVE Stream'
    BY DEF StreamInv
  <2>1. InStep /\ Stream /\ Got + 1 \in 1..Len(start) /\ recvPc' = "header"
        /\ PartAt = start[Got + 1] + HeaderLen /\ Len(part) = length[Got + 1]
        /\ Got' = Got + 1
    BY <1>10, <1>11, <1>13
  <2>2. PartAt \in Nat /\ PipeAt \in Nat /\ PipeAt = PartAt + Len(part)
        /\ BufAt = PipeAt + Len(pipe)
    BY <1>0, <2>1, Places
  <2>3. PartAt' = start[Got + 1] + HeaderLen + length[Got + 1]
    <3>1. PartAt' = FrameEnd(Got)'
      BY <2>1 DEF PartAt
    <3>2. FrameEnd(Got)' = FrameEnd(Got + 1)
      BY <1>1, <2>1 DEF FrameEnd, SameSender
    <3>. QED BY <1>0, <2>1, <3>1, <3>2, LayoutFacts
  <2>4. PipeAt' = PipeAt
    <3>1. PipeAt' = PartAt' + Len(part')
      BY DEF PipeAt
    <3>. QED BY <1>4, <1>5, <2>1, <2>2, <2>3, <3>1
  <2>5. BufAt' = BufAt
    BY <1>1, <2>4 DEF BufAt
  <2>6. InPlace(part, PartAt)'
    BY <1>5 DEF InPlace, Placed
  <2>7. InPlace(pipe, PipeAt)'
    BY <1>1, <1>3, <2>1, <2>4, FramesKeep DEF Stream, InPlace, Placed
  <2>. QED BY <1>0, <1>1, <2>1, <2>5, <2>6, <2>7, SameStream
<1>15. AllClean => recvPc' = "header" /\ Got + 1 <= Len(start)
  <2>. SUFFICES ASSUME AllClean PROVE recvPc' = "header" /\ Got + 1 <= Len(start)
    OBVIOUS
  <2>1. InStep
    BY <1>0, CleanInStep
  <2>2. Got < Len(start)
    BY <1>0 DEF ReaderInv
  <2>. QED BY <1>0, <1>4, <1>10, <2>1, <2>2 DEF InStep
<1>16. ReaderInv'
  <2>1. recvPc' # "payload"
    BY <1>7
  <2>2. recvPc' = "header" => Len(part') <= HeaderLen
    BY <1>4, <1>5
  <2>3. AllClean' => recvPc' = "header" /\ Got' <= Len(start')
    BY <1>1, <1>3, <1>12, <1>15 DEF SameSender
  <2>. QED BY <2>1, <2>2, <2>3 DEF ReaderInv
<1>17. InOrder'
  <2>. SUFFICES ASSUME NEW k \in DOMAIN received', k <= clean, \A j \in 1..k : Fits(j)
                PROVE  received'[k] = k
    BY <1>1 DEF InOrder, Fits, SameSender
  <2>1. DOMAIN received = 1..Got /\ DOMAIN received' = 1..Got'
        /\ (Got' = Got \/ Got' = Got + 1)
    <3>1. DOMAIN received = 1..Got /\ DOMAIN received' = 1..Got'
      BY <1>6, <1>8, LenProperties DEF Got
    <3>2. Got' = Got \/ Got' = Got + 1
      BY <1>7, <1>11 DEF Got
    <3>. QED BY <3>1, <3>2
  <2>2. CASE k \in 1..Got
    <3>1. received[k] = k
      BY <1>0, <2>1, <2>2 DEF InOrder
    <3>2. received'[k] = received[k]
      BY <1>7, <1>11, <2>2
    <3>. QED BY <3>1, <3>2
  <2>3. CASE k = Got + 1
    <3>1. Good(Got + 1) /\ Good(Got)
      BY <1>4, <2>3 DEF Good
    <3>. QED BY <1>10, <1>11, <2>3, <3>1
  <2>. QED BY <1>4, <2>1, <2>2, <2>3
<1>. QED BY <1>3, <1>9, <1>14, <1>16, <1>17 DEF Inv

(* A reader of clean frames that lacks bytes lacks no more than one frame.    *)
LEMMA Complete ==
    ASSUME TypeOK, Layout, SendInv, StreamInv, ReaderInv, AllClean, pipe = <<>>, Waits
    PROVE  Got >= Len(start) - Cardinality(Inside)
<1>1. recvPc # "ended" /\ recvPc \in {"header", "payload"}
  BY DEF Waits
<1>2. InStep /\ Stream
  BY <1>1, CleanInStep DEF StreamInv
<1>3. Len(start) \in Nat /\ Got \in 0..Len(start) /\ clean = Len(start)
      /\ Len(part) \in Nat /\ HeaderLen \in Nat /\ HeaderLen > 0
      /\ \A k \in 1..Len(start) : start[k] \in Nat /\ length[k] \in Nat
  BY <1>2, Types, Places, Constants DEF AllClean
<1>4. PartAt \in Nat /\ PipeAt = PartAt + Len(part) /\ BufAt = PipeAt + Len(pipe)
      /\ (recvPc = "header" => PartAt = FrameEnd(Got))
      /\ (recvPc = "payload" => PartAt = start[Got + 1] + HeaderLen)
      /\ (recvPc = "payload" => Got + 1 \in 1..Len(start))
  BY <1>2, Places
<1>5. Len(pipe) = 0
  BY EmptySeq
<1>6. BufAt = PartAt + Len(part)
  BY <1>3, <1>4, <1>5
(* The frame it is in has not come to its end.                                *)
<1>7. ASSUME Got < Len(start)
      PROVE  BufAt < FrameEnd(Got + 1)
  <2>1. Got + 1 \in 1..Len(start)
    BY <1>3, <1>7
  <2>2. FrameEnd(Got + 1) = start[Got + 1] + HeaderLen + length[Got + 1]
        /\ start[Got + 1] = FrameEnd((Got + 1) - 1) /\ (Got + 1) - 1 = Got
    BY <1>3, <2>1, LayoutFacts
  <2>3. CASE recvPc = "header"
    <3>1. Len(part) < HeaderLen
      BY <1>3, <2>3 DEF Waits, HasHeader, ReaderInv
    <3>2. PartAt = start[Got + 1]
      BY <1>4, <2>2, <2>3
    <3>. QED BY <1>3, <1>6, <2>1, <2>2, <3>1, <3>2
  <2>4. CASE recvPc = "payload"
    <3>1. Len(part) < length[Got + 1]
      BY <1>2, <1>3, <2>1, <2>4 DEF Waits, HasPayload, ReaderInv
    <3>. QED BY <1>3, <1>4, <1>6, <2>1, <2>2, <2>4, <3>1
  <2>. QED BY <1>1, <2>3, <2>4
<1>8. CASE Inside = {}
  <2>1. Cardinality(Inside) = 0
    BY <1>8, FS_EmptySet
  <2>2. BufAt >= NextStart
    BY <1>2, <1>3, <1>8 DEF Stream, SafeTo
  <2>3. ~(Got < Len(start))
    <3>. SUFFICES ASSUME Got < Len(start) PROVE FALSE
      OBVIOUS
    <3>1. BufAt < FrameEnd(Got + 1)
      BY <1>7
    <3>2. FrameEnd(Got + 1) <= NextStart /\ FrameEnd(Got + 1) \in Nat /\ NextStart \in Nat
      BY <1>3, LayoutFacts
    <3>. QED BY <1>3, <1>4, <1>6, <2>2, <3>1, <3>2
  <2>. QED BY <1>3, <2>1, <2>3
<1>9. CASE Inside # {}
  <2>1. Cardinality(Inside) \in Nat /\ Cardinality(Inside) >= 1
    <3>1. IsFiniteSet(Inside)
      BY Constants, FS_Subset DEF Inside
    <3>2. Cardinality(Inside) \in Nat /\ Cardinality(Inside) # 0
      BY <1>9, <3>1, FS_CardinalityType, FS_EmptySet
    <3>. QED BY <3>2
  <2>2. Len(start) \in 1..Len(start)
    BY <1>3, <1>9, LoneSend DEF Inside
  <2>3. BufAt >= start[Len(start)]
    BY <1>2, <1>3, <1>9 DEF Stream, SafeTo
  <2>4. ~(Got + 1 < Len(start))
    <3>. SUFFICES ASSUME Got + 1 < Len(start) PROVE FALSE
      OBVIOUS
    <3>1. BufAt < FrameEnd(Got + 1)
      BY <1>3, <1>7
    <3>2. Got + 1 \in 1..Len(start)
      BY <1>3
    <3>3. FrameEnd(Got + 1) <= start[Len(start)] /\ FrameEnd(Got + 1) \in Nat
      BY <1>3, <2>2, <3>2, LayoutFacts DEF Layout
    <3>. QED BY <1>3, <1>4, <1>6, <2>2, <2>3, <3>1, <3>3
  <2>. QED BY <1>3, <2>1, <2>2, <2>4
<1>. QED BY <1>8, <1>9

LEMMA EndOfFileInv ==
    ASSUME Inv, EndOfFile
    PROVE  Inv'
<1>0. TypeOK /\ Layout /\ SendInv /\ StreamInv /\ ReaderInv /\ InOrder
      /\ Waits /\ pipe = <<>> /\ ~up
  BY DEF Inv, EndOfFile
<1>1. SameSender /\ pipe' = pipe /\ part' = part /\ taken' = taken /\ want' = want
      /\ received' = received /\ TotalRecv' = TotalRecv /\ recvPc' = "ended"
  BY DEF EndOfFile, sendVars, SameSender
<1>2. SameFrames /\ Layout' /\ SendInv' /\ Inside' = Inside /\ (AllClean' <=> AllClean)
      /\ Frames' = Frames
  BY <1>0, <1>1, SenderKeeps
<1>3. Got' = Got
  BY <1>1 DEF Got
<1>4. TypeOK'
  BY <1>0, <1>1, <1>2 DEF TypeOK, SameSender
<1>5. StreamInv'
  BY <1>1 DEF StreamInv, InStep
<1>6. ReaderInv'
  BY <1>0, <1>1, <1>2, <1>3, Complete DEF ReaderInv, SameSender
<1>7. InOrder'
  BY <1>0, <1>1 DEF InOrder, Fits, SameSender
<1>. QED BY <1>2, <1>4, <1>5, <1>6, <1>7 DEF Inv

-----------------------------------------------------------------------------
LEMMA NextInv ==
    ASSUME Inv, [Next]_vars
    PROVE  Inv'
<1>1. CASE \E g \in Senders : Call(g) \/ WriteHeader(g) \/ WritePayload(g) \/ Flush(g)
  BY <1>1, CallInv, WriteHeaderInv, WritePayloadInv, FlushInv
<1>2. CASE Drain \/ Exit
  BY <1>2, DrainInv, ExitInv
<1>3. CASE TakeBytes \/ DecodeHeader \/ Decode \/ EndOfFile
  BY <1>3, TakeBytesInv, DecodeHeaderInv, DecodeInv, EndOfFileInv
<1>4. CASE UNCHANGED vars
  <2>1. SameFrames /\ SameReader /\ SameSender /\ pipe' = pipe
    BY <1>4 DEF vars, sendVars, recvVars, SameFrames, SameReader, SameSender
  <2>2. TypeOK /\ Layout /\ SendInv /\ StreamInv /\ ReaderInv /\ InOrder
    BY DEF Inv
  <2>3. TypeOK'
    BY <2>1, <2>2, FramesKeep DEF TypeOK, SameReader, SameSender
  <2>4. Layout' /\ SendInv' /\ InOrder' /\ Inside' = Inside
    BY <2>1, <2>2, SenderKeeps, ReaderKeeps
  <2>5. StreamInv'
    <3>. SUFFICES ASSUME InStep' PROVE Stream'
      BY DEF StreamInv
    <3>1. InStep /\ Stream /\ InPlace(part, PartAt)' /\ PipeAt' = PipeAt
      BY <2>1, <2>2, ReaderKeeps DEF StreamInv, Stream
    <3>2. BufAt' = BufAt
      BY <2>1, <3>1 DEF BufAt
    <3>3. InPlace(pipe, PipeAt)'
      BY <2>1, <3>1, FramesKeep DEF Stream, InPlace, Placed
    <3>. QED BY <2>1, <2>2, <3>1, <3>2, <3>3, SameStream
  <2>6. ReaderInv'
    <3>1. Got' = Got /\ (InStep' <=> InStep) /\ (AllClean' <=> AllClean)
      BY <2>1, FramesKeep, ReaderKeeps
    <3>. QED BY <2>1, <2>2, <2>4, <3>1 DEF ReaderInv, SameReader, SameSender
  <2>. QED BY <2>3, <2>4, <2>5, <2>6 DEF Inv
<1>. QED BY <1>1, <1>2, <1>3, <1>4 DEF Next

LEMMA Invariant == Spec => []Inv
<1>1. Inv /\ [Next]_vars => Inv'
  BY NextInv
<1>. QED BY InitInv, <1>1, PTL DEF Spec

(* The state of the stream keeps its types (comm/conn.go).                    *)
THEOREM WireTypes == Spec => []TypeOK
<1>1. Inv => TypeOK
  BY DEF Inv
<1>. QED BY Invariant, <1>1, PTL

(* Whatever the lengths of the payloads, wherever the pipe cuts the bytes and *)
(* wherever the writer crashes, Recv returns the frames of Send, whole and in *)
(* their order, up to the first two Sends that overlap and the first payload  *)
(* of 2 GiB (comm/conn.go Send, Recv).                                        *)
THEOREM FramesInOrder == Spec => []InOrder
<1>1. Inv => InOrder
  BY DEF Inv
<1>. QED BY Invariant, <1>1, PTL

(* Send flushes before it returns, so that a process which ends right after   *)
(* it loses nothing: a reader that can do no more has every frame but the one *)
(* of a Send still under way (comm/conn.go Send, receiver.go B_END).          *)
THEOREM SendsArrive == Spec => []NothingHeldBack
<1>1. Inv => NothingHeldBack
  <2>. SUFFICES ASSUME Inv, AllClean, pipe = <<>>, Waits \/ recvPc = "ended"
                PROVE  Len(received) >= Len(start) - Cardinality(Inside)
    BY DEF NothingHeldBack
  <2>1. TypeOK /\ Layout /\ SendInv /\ StreamInv /\ ReaderInv
    BY DEF Inv
  <2>2. Got >= Len(start) - Cardinality(Inside)
    BY <2>1, Complete DEF ReaderInv
  <2>. QED BY <2>2 DEF Got
<1>. QED BY Invariant, <1>1, PTL
=============================================================================
