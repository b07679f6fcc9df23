-------------------------------- MODULE Wire --------------------------------
(***************************************************************************)
(* comm.Connection byte by byte (comm/conn.go), in one direction.  Send    *)
(* writes a header of id and length into a bufio.Writer, then the payload, *)
(* and flushes; the pipe hands the reader any number of bytes at a time;   *)
(* Recv takes a whole header, then as many bytes as it says.  Nothing      *)
(* marks where a frame begins: one byte too many or too few, and all that  *)
(* follows is read out of step.                                            *)
(*                                                                         *)
(* A byte is its place in the stream that the frames make in the order in  *)
(* which their Sends began: frame j has the bytes after start[j].          *)
(***************************************************************************)
EXTENDS Integers, Sequences, FiniteSets

CONSTANTS
    Senders,      (* the goroutines that may call Send                         *)
    Lengths,      (* the lengths of payloads                                   *)
    HeaderLen,    (* the bytes of a header, 5 in the code                      *)
    LenLimit,     (* 2^31 in the code: the first length an int32 cannot hold   *)
    MaxFrames     (* bound: calls of Send                                      *)

ASSUME WireAssumption ==
    /\ IsFiniteSet(Senders)
    /\ Lengths \subseteq Nat
    /\ HeaderLen \in Nat \ {0}
    /\ LenLimit \in Nat \ {0}
    /\ MaxFrames \in Nat

VARIABLES
    start, length,     (* the frames: where each begins, and its payload       *)
    sendPc, sending,   (* per goroutine, where it is in Send, and its frame    *)
    wBuf,              (* the bytes in the bufio.Writer                        *)
    pipe,              (* the bytes on their way                               *)
    up,                (* the writing process is there                         *)
    recvPc, part,      (* where the reader is in Recv, and the bytes it has of *)
                       (* the header or payload it is reading                  *)
    taken, want,       (* what it took the header for, a frame or 0, and its   *)
                       (* length field                                         *)
    received,          (* the frames Recv has returned, 0 for none of those    *)
    TotalSend, TotalRecv,
    clean              (* history: the frames that were sent before two Sends  *)
                       (* overlapped                                           *)

sendVars == <<start, length, sendPc, sending, wBuf, TotalSend, clean>>
recvVars == <<recvPc, part, taken, want, received, TotalRecv>>
vars == <<sendVars, pipe, up, recvVars>>

Frames == DOMAIN start
Inside == {g \in Senders : sendPc[g] # "out"}

(* int32(len(data)).                                                          *)
NotConverted(n) == n
Int32(n) == ((n + LenLimit) % (2 * LenLimit)) - LenLimit

(* unsafe.Sizeof of the Header struct, which is padded.                       *)
SizeofHeader == 8

(* The bytes of frame j.                                                      *)
Bytes(a, n) == [k \in 1..n |-> a + k]
HeaderOf(j) == Bytes(start[j], HeaderLen)
PayloadOf(j) == Bytes(start[j] + HeaderLen, length[j])
NextStart == IF start = <<>> THEN 0
             ELSE start[Len(start)] + HeaderLen + length[Len(start)]

TypeOK ==
    /\ start \in Seq(Nat) /\ length \in Seq(Lengths) /\ Len(length) = Len(start)
    /\ sendPc \in [Senders -> {"out", "header", "payload", "flush"}]
    /\ sending \in [Senders -> Frames \cup {0}]
    /\ wBuf \in Seq(Nat) /\ pipe \in Seq(Nat) /\ part \in Seq(Nat)
    /\ up \in BOOLEAN
    /\ recvPc \in {"header", "payload", "ended"}
    /\ taken \in Frames \cup {0}
    /\ want \in -LenLimit..LenLimit - 1
    /\ received \in Seq(Frames \cup {0})
    /\ TotalSend \in Nat /\ TotalRecv \in Int
    /\ clean \in 0..Len(start)

Init ==
    /\ start = <<>> /\ length = <<>>
    /\ sendPc = [g \in Senders |-> "out"] /\ sending = [g \in Senders |-> 0]
    /\ wBuf = <<>> /\ pipe = <<>> /\ up = TRUE
    /\ recvPc = "header" /\ part = <<>> /\ taken = 0 /\ want = 0
    /\ received = <<>>
    /\ TotalSend = 0 /\ TotalRecv = 0
    /\ clean = 0

-----------------------------------------------------------------------------
(* Send, of goroutine g.                                                      *)
Call(g) ==
    /\ up /\ sendPc[g] = "out"
    /\ Len(start) < MaxFrames
    /\ start' = Append(start, NextStart)
    /\ \E n \in Lengths : length' = Append(length, n)
    /\ sendPc' = [sendPc EXCEPT ![g] = "header"]
    /\ sending' = [sending EXCEPT ![g] = Len(start')]
    /\ clean' = IF clean < Len(start) THEN clean
                ELSE IF Inside = {} THEN clean + 1 ELSE clean - 1
    /\ UNCHANGED <<wBuf, TotalSend, pipe, up, recvVars>>

(* bufio.Writer has no lock: of two writes at once the one may overwrite what *)
(* the other has copied.                                                      *)
Write(g, bytes) ==
    \/ wBuf' = wBuf \o bytes
    \/ Inside # {g} /\ wBuf' = wBuf

WriteHeader(g) ==
    /\ up /\ sendPc[g] = "header"
    /\ Write(g, HeaderOf(sending[g]))
    /\ sendPc' = [sendPc EXCEPT ![g] = "payload"]
    /\ UNCHANGED <<start, length, sending, TotalSend, clean, pipe, up, recvVars>>

WritePayload(g) ==
    /\ up /\ sendPc[g] = "payload"
    /\ Write(g, PayloadOf(sending[g]))
    /\ TotalSend' = TotalSend + length[sending[g]]
    /\ sendPc' = [sendPc EXCEPT ![g] = "flush"]
    /\ UNCHANGED <<start, length, sending, clean, pipe, up, recvVars>>

NotFlushed == UNCHANGED <<wBuf, pipe>>
Flushed == wBuf' = <<>> /\ pipe' = pipe \o wBuf

Flush(g) ==
    /\ up /\ sendPc[g] = "flush"
    /\ Flushed
    /\ sendPc' = [sendPc EXCEPT ![g] = "out"]
    /\ sending' = [sending EXCEPT ![g] = 0]
    /\ UNCHANGED <<start, length, TotalSend, clean, up, recvVars>>

(* A buffer that is full goes to the pipe before the flush.                   *)
Drain ==
    /\ up /\ Inside # {}
    /\ \E k \in 1..Len(wBuf) :
           /\ pipe' = pipe \o SubSeq(wBuf, 1, k)
           /\ wBuf' = SubSeq(wBuf, k + 1, Len(wBuf))
    /\ UNCHANGED <<start, length, sendPc, sending, TotalSend, clean, up, recvVars>>

(* The writing process ends, in the middle of a Send or not; what the pipe    *)
(* has stays there.                                                           *)
Exit ==
    /\ up /\ up' = FALSE
    /\ wBuf' = <<>>
    /\ UNCHANGED <<start, length, sendPc, sending, TotalSend, clean, pipe, recvVars>>

-----------------------------------------------------------------------------
(* Recv.  binary.Read and io.ReadFull take what is there and go on until they *)
(* have all the bytes.                                                        *)
HeaderBegun == part # <<>>
HasHeader == Len(part) = HeaderLen
SomeBytes == Len(part) > 0 \/ want <= 0
HasPayload == Len(part) >= want

Waits == \/ recvPc = "header" /\ ~HasHeader
         \/ recvPc = "payload" /\ ~HasPayload

Missing == (IF recvPc = "header" THEN HeaderLen ELSE want) - Len(part)

TakeBytes ==
    /\ Waits /\ pipe # <<>>
    /\ LET n == IF Missing <= Len(pipe) THEN Missing ELSE Len(pipe) IN
          part' = part \o SubSeq(pipe, 1, n) /\ pipe' = SubSeq(pipe, n + 1, Len(pipe))
    /\ UNCHANGED <<sendVars, up, recvPc, taken, want, received, TotalRecv>>

(* Bytes that are no header make a header all the same, of any length.        *)
DecodeHeader ==
    /\ recvPc = "header" /\ HasHeader
    /\ \/ \E j \in Frames : part = HeaderOf(j) /\ taken' = j /\ want' = Int32(length[j])
       \/ /\ \A j \in Frames : part # HeaderOf(j)
          /\ taken' = 0 /\ want' \in {Int32(n) : n \in Lengths}
    /\ recvPc' = "payload" /\ part' = <<>>
    /\ UNCHANGED <<sendVars, pipe, up, received, TotalRecv>>

(* The payload that was sent is decoded; any other may be taken for some      *)
(* message or be an error, after which nobody reads any more.                 *)
Decode ==
    /\ recvPc = "payload" /\ HasPayload
    /\ TotalRecv' = TotalRecv + SizeofHeader + want
    /\ IF taken # 0 /\ part = PayloadOf(taken)
       THEN received' = Append(received, taken) /\ recvPc' = "header"
       ELSE \/ received' = Append(received, 0) /\ recvPc' = "header"
            \/ received' = received /\ recvPc' = "ended"
    /\ part' = <<>> /\ taken' = 0 /\ want' = 0
    /\ UNCHANGED <<sendVars, pipe, up>>

(* The end of the stream, also in the middle of a frame, is an error.         *)
EndOfFile ==
    /\ Waits /\ pipe = <<>> /\ ~up
    /\ recvPc' = "ended"
    /\ UNCHANGED <<sendVars, pipe, up, part, taken, want, received, TotalRecv>>

Next ==
    \/ \E g \in Senders : Call(g) \/ WriteHeader(g) \/ WritePayload(g) \/ Flush(g)
    \/ Drain \/ Exit
    \/ TakeBytes \/ DecodeHeader \/ Decode \/ EndOfFile

Spec == Init /\ [][Next]_vars

-----------------------------------------------------------------------------
Fits(j) == length[j] < LenLimit
AllClean == clean = Len(start) /\ \A j \in Frames : Fits(j)

(* Recv returns the frames that were sent, whole and in their order, however  *)
(* the pipe cuts the bytes and wherever the writer crashes; only a frame of   *)
(* 2 GiB or more, or two Sends at once, can spoil it, and neither spoils what *)
(* was sent before.                                                           *)
InOrder ==
    \A k \in DOMAIN received :
        k <= clean /\ (\A j \in 1..k : Fits(j)) => received[k] = k

(* A Send that has returned is not lost, even if its process ends at once, as *)
(* the receiver does after B_END: whenever the reader can do no more, it has  *)
(* every frame but the one a Send is still busy with.                         *)
NothingHeldBack ==
    AllClean /\ pipe = <<>> /\ (Waits \/ recvPc = "ended") =>
        Len(received) >= Len(start) - Cardinality(Inside)
=============================================================================
