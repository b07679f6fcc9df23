------------------------------ MODULE MCResync ------------------------------
(***************************************************************************)
(* Resync for TLC: a receiver whose clock is right, slow or fast.          *)
(***************************************************************************)
EXTENDS Resync

MCSkews == {-1, 0, 1}
=============================================================================
