------------------------------- MODULE Adler -------------------------------
(***************************************************************************)
(* The weak checksum (sender/patch.go, and once more in                    *)
(* receiver/sumlist.go), as MakePatch computes it for one window after the *)
(* other, and the incremental form that stands beside it.  MakePatch's     *)
(* call of the incremental form is commented out: the model computes it    *)
(* next to the full sum to see when the two agree.  The modulus and the    *)
(* width of the halves of a uint32 are parameters, so that small values    *)
(* show what 65521 and 2^16 do.                                            *)
(***************************************************************************)
EXTENDS Integers, Sequences

CONSTANTS
    Byte,      (* the values of a byte                                         *)
    step,      (* the length of a window                                       *)
    Mod,       (* 65521 in the code                                            *)
    Half,      (* 2^16 in the code                                             *)
    MaxLen     (* bound: the length of a file                                  *)

ASSUME AdlerAssumption ==
    /\ Byte \subseteq 0..(Half - 1)
    /\ step \in Nat \ {0} /\ MaxLen \in Nat
    /\ Mod \in Nat \ {0, 1} /\ Half \in Nat /\ Mod < Half

VARIABLES
    data,      (* the sender's file                                            *)
    i,         (* MakePatch's i: the window is data[i:i+step]                  *)
    n, a, b,   (* Alder32Sum's loop over the window                            *)
    sum1,      (* its result, -1 before the first                              *)
    rolled     (* the incremental form's result for the same window            *)

vars == <<data, i, n, a, b, sum1, rolled>>

UInt32(x) == x % (Half * Half)
At(p) == data[p + 1]   (* data[p] of the code *)

Init ==
    /\ data \in [1..MaxLen -> Byte]
    /\ i = 0
    /\ n = 0 /\ a = 1 /\ b = 0
    /\ sum1 = -1 /\ rolled = -1

(* One turn of the loop.  Nothing is reduced: a and b are 64 bits wide.       *)
AddByte ==
    /\ i + step <= Len(data) /\ n < step
    /\ a' = a + At(i + n)
    /\ b' = b + a'
    /\ n' = n + 1
    /\ UNCHANGED <<data, i, sum1, rolled>>

(* uint32(b<<16 | a&0xffff)                                                   *)
PackedUnreduced(x, y) == UInt32(y * Half + (x % Half))
Packed(x, y) == UInt32((y % Mod) * Half + (x % Mod))

(* Alder32SumBasedOnPrev: d1 leaves the window, d2 enters it.  Everything is  *)
(* uint32, and so wraps where it would be negative.                           *)
TakeOutOnce(prevB, d1)    == UInt32(prevB - d1 - 1)
TakeOutWeighed(prevB, d1) == UInt32(prevB - step * d1 - 1)

Alder32SumBasedOnPrev(curPos, prev) ==
    LET d1    == At(curPos - step)
        d2    == At(curPos)
        prevA == UInt32((prev % Half) - d1 + d2)
        prevB == UInt32(TakeOutWeighed(prev \div Half, d1) + prevA)
    IN  UInt32((prevB % Mod) * Half + ((prevA % Mod) % Half))

(* The sum of the window, and what the incremental form makes of the sum of   *)
(* the window before, for the byte that has just come into the window.        *)
Summed ==
    /\ n = step /\ sum1' = Packed(a, b)
    /\ rolled' = IF i = 0 THEN sum1' ELSE Alder32SumBasedOnPrev(i + step - 1, sum1)
    /\ n' = 0 /\ a' = 1 /\ b' = 0
    /\ i' = i + 1
    /\ UNCHANGED data

ScanDone == i + step > Len(data) /\ UNCHANGED vars

Next == AddByte \/ Summed \/ ScanDone

Spec == Init /\ [][Next]_vars

-----------------------------------------------------------------------------
(* The last window that has been summed.                                      *)
Window == SubSeq(data, i, i + step - 1)

(* Adler-32 as it is defined: both halves are reduced at every byte.          *)
WithByte(s, d) == LET s1 == (s[1] + d) % Mod IN <<s1, (s[2] + s1) % Mod>>

AdlerSums(w) ==
    LET s[k \in 0..Len(w)] == IF k = 0 THEN <<1, 0>> ELSE WithByte(s[k - 1], w[k]) IN s

Adler32(w) == AdlerSums(w)[Len(w)][2] * Half + AdlerSums(w)[Len(w)][1]

(* Reducing once behind the loop gives Adler-32: the halves are kept apart    *)
(* and the sums of sender and receiver meet in the same bucket.               *)
SumIsAdler32 == i > 0 => sum1 = Adler32(Window)

Before == Adler32(SubSeq(data, i - 1, i + step - 2))
BorrowsA == (Before % Half) + At(i + step - 2) < At(i - 2)
BorrowsB == (Before \div Half) + (Before % Half) + At(i + step - 2)
                < (step + 1) * At(i - 2) + 1

(* The incremental form gives the sum of the next window as long as neither   *)
(* half is driven below zero: 2^32 is not a multiple of 65521, so that a      *)
(* uint32 that wraps is off by a remainder.                                   *)
RollsUntilBorrow == i > 1 /\ ~BorrowsA /\ ~BorrowsB => rolled = sum1

(* "Computed incrementally from the previous result" (patch.go:167): the      *)
(* incremental form and Alder32Sum agree on every window.                     *)
RollsOn == i > 0 => rolled = sum1
=============================================================================
