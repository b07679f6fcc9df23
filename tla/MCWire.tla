------------------------------- MODULE MCWire -------------------------------
(***************************************************************************)
(* Wire for TLC: goroutines are interchangeable.                           *)
(***************************************************************************)
EXTENDS Wire, TLC

Symmetry == Permutations(Senders)
=============================================================================
