----------------------------- MODULE MCReceiverFS -----------------------------
(***************************************************************************)
(* ReceiverFS for TLC: a small tree of paths, d/a, d/s/b and d/s/c.        *)
(***************************************************************************)
EXTENDS ReceiverFS

MCPaths == {"d", "d/a", "d/s", "d/s/b", "d/s/c"}
MCParent ==
    [p \in MCPaths |-> CASE p = "d" -> Base
                         [] p \in {"d/a", "d/s"} -> "d"
                         [] OTHER -> "d/s"]
=============================================================================
