----------------------------- MODULE Connection -----------------------------
(***************************************************************************)
(* comm.Connection as the two processes of a session see it: one ordered   *)
(* stream of messages in each direction, carried by the pipes of the ssh   *)
(* subprocess.  A writer blocks while the pipe it writes to is full.  When *)
(* the reading process is gone the write is lost, and whether Send says so *)
(* depends on bufio: Flush's error is dropped (conn.go:49), a later write  *)
(* reports it.  A reader sees end-of-file once its stream is empty and the *)
(* writing process is gone.                                                *)
(*                                                                         *)
(* Send is not atomic.  The header, the payload and the flush go through   *)
(* one bufio.Writer without a lock of its own, so two goroutines inside    *)
(* Send of the same Connection race.  The model keeps who is inside Send;  *)
(* once two were, the stream may be out of step, and from then on each     *)
(* frame may arrive whole, garbled or not at all.                          *)
(***************************************************************************)
EXTENDS Integers, Sequences, FiniteSets

CONSTANTS
    Files,    (* the fids ReadDirInfo hands out: the sender's non-directories  *)
    Extra,    (* files of the receiver whose path the sender does not have     *)
    Main,     (* the sender's main goroutine; a patch goroutine is its fid     *)
    PipeCap,  (* bound: messages a pipe holds before its writer blocks         *)
    Faults    (* the failures of the environment that a run allows             *)

ASSUME ConnectionAssumption ==
    /\ IsFiniteSet(Files)
    /\ IsFiniteSet(Extra)
    /\ Main \notin Files
    /\ PipeCap \in Nat \ {0}

VARIABLES
    sender,    (* the sending process:   "up", "done" or "crashed"             *)
    receiver,  (* the receiving process: "up", "exited" (status 0), "crashed"  *)
    toR,       (* messages on their way to the receiver                        *)
    toS,       (* messages on their way to the sender                          *)
    inSend,    (* goroutines of the sender that are inside conn.Send           *)
    raced      (* those whose Send overlapped another one                      *)

connVars == <<sender, receiver, toR, toS, inSend, raced>>

Results == [succNum : 0..Cardinality(Files), failed : SUBSET Files, removed : SUBSET Extra]

InitParamMsg(d) == [cmd |-> "INITPARAM", delete |-> d]
PatchListMsg(f) == [cmd |-> "PATCHLIST", fid |-> f]
SumListMsg(S)   == [cmd |-> "SUMLIST", fids |-> S]
BEndMsg(r)      == [cmd |-> "B_END", result |-> r]
PlainMsg(c)     == [cmd |-> c]

MsgsToReceiver == {InitParamMsg(d) : d \in BOOLEAN} \cup {PatchListMsg(f) : f \in Files}
                  \cup {PlainMsg(c) : c \in {"DIR_INFO", "END", "SHUTDOWN", "GARBAGE"}}
MsgsToSender   == {SumListMsg(S) : S \in SUBSET Files} \cup {BEndMsg(r) : r \in Results}

SenderUp   == sender = "up"
ReceiverUp == receiver = "up"

ConnTypeOK ==
    /\ sender \in {"up", "done", "crashed"}
    /\ receiver \in {"up", "exited", "crashed"}
    /\ toR \in Seq(MsgsToReceiver)
    /\ toS \in Seq(MsgsToSender)
    /\ inSend \in SUBSET (Files \cup {Main})
    /\ raced \in SUBSET (Files \cup {Main})

ConnInit ==
    /\ sender = "up" /\ receiver = "up"
    /\ toR = <<>> /\ toS = <<>>
    /\ inSend = {} /\ raced = {}

-----------------------------------------------------------------------------
(* A Send that no other Send can overlap: the whole frame is one write.       *)
WriteToReceiver(m) ==
    IF ReceiverUp THEN Len(toR) < PipeCap /\ toR' = Append(toR, m)
                  ELSE toR' = toR

WriteToSender(m) ==
    IF SenderUp THEN Len(toS) < PipeCap /\ toS' = Append(toS, m)
                ELSE toS' = toS

(* Goroutine g of the sender calls conn.Send ...                              *)
EnterSend(g) ==
    /\ inSend' = inSend \cup {g}
    /\ raced' = IF inSend = {} THEN raced ELSE raced \cup inSend \cup {g}

(* ... and comes back with the frame of m flushed into the pipe, or, after    *)
(* a race, with a frame the receiver cannot decode or none.                   *)
LeaveSend(g, m) ==
    /\ inSend' = inSend \ {g}
    /\ \/ WriteToReceiver(m)
       \/ raced # {} /\ WriteToReceiver(PlainMsg("GARBAGE"))
       \/ raced # {} /\ toR' = toR

(* The sender's conn.Recv has a message of type c at hand ...                 *)
SenderReads(c) == toS # <<>> /\ Head(toS).cmd = c /\ toS' = Tail(toS)
(* ... or the stream has ended.                                               *)
SenderAtEOF == toS = <<>> /\ ~ReceiverUp

ReceiverReads(c) == toR # <<>> /\ Head(toR).cmd = c /\ toR' = Tail(toR)
ReceiverAtEOF == toR = <<>> /\ ~SenderUp
=============================================================================
