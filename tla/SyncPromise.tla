----------------------------- MODULE SyncPromise -----------------------------
(***************************************************************************)
(* What one session promises to the user who reads its result, without     *)
(* processes, messages or goroutines.  Files of the receiver are rewritten *)
(* one way or another, some may be left half written, and the session may  *)
(* stop at any time without a word.  But when it prints a result, that     *)
(* result is final: every file is settled by then, the ones it does not    *)
(* list as failed hold the sender's bytes, and nothing changes any more.   *)
(***************************************************************************)
EXTENDS Integers, FiniteSets

CONSTANTS Files, Extra

VARIABLES
    settled,   (* per file: "skipped", "ok", "failed" or "open"                *)
    content,   (* per file: "absent", "old", "new" or "torn"                   *)
    removed,   (* the receiver's extra files deleted so far                    *)
    report     (* the printed result, as a set                                 *)

vars == <<settled, content, removed, report>>

FilesIn(s) == {f \in Files : settled[f] = s}

Init ==
    /\ settled = [f \in Files |-> "skipped"]
    /\ content \in [Files -> {"absent", "old", "new"}]
    /\ removed = {} /\ report = {}

(* The transfer of f begins.                                                  *)
Open(f) ==
    /\ report = {} /\ settled[f] = "skipped"
    /\ settled' = [settled EXCEPT ![f] = "open"]
    /\ UNCHANGED <<content, removed, report>>

Rewrite(f) ==
    /\ report = {} /\ settled[f] = "open"
    /\ \E c \in {"torn", "new"} : content' = [content EXCEPT ![f] = c]
    /\ UNCHANGED <<settled, removed, report>>

Settle(f) ==
    /\ report = {} /\ settled[f] = "open"
    /\ \/ content[f] = "new" /\ settled' = [settled EXCEPT ![f] = "ok"]
       \/ settled' = [settled EXCEPT ![f] = "failed"]
    /\ UNCHANGED <<content, removed, report>>

Remove(x) ==
    /\ report = {} /\ x \notin removed
    /\ removed' = removed \cup {x}
    /\ UNCHANGED <<settled, content, report>>

Publish ==
    /\ report = {} /\ FilesIn("open") = {}
    /\ report' = {[succNum |-> Cardinality(FilesIn("ok")), failed |-> FilesIn("failed"),
                   removed |-> removed]}
    /\ UNCHANGED <<settled, content, removed>>

Next ==
    \/ \E f \in Files : Open(f) \/ Rewrite(f) \/ Settle(f)
    \/ \E x \in Extra : Remove(x)
    \/ Publish

Spec == Init /\ [][Next]_vars
==============================================================================
