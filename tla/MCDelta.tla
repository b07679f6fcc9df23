------------------------------ MODULE MCDelta ------------------------------
(***************************************************************************)
(* Delta for TLC: a weak checksum that tells only the parity of a block,   *)
(* and a strong hash with one colliding pair of blocks.                    *)
(***************************************************************************)
EXTENDS Delta, FiniteSets

MCAlder32Sum(d) == Cardinality({j \in DOMAIN d : d[j] = 1}) % 2
MCmd5sum(d) == IF d = <<1, 0>> THEN <<0, 1>> ELSE d
=============================================================================
