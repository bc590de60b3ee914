----------------------------- MODULE MCRingFifo -----------------------------
(* Instances of RingFifo for TLC. *)
EXTENDS RingFifo, Bitwise

CONSTANTS s1, s2

MCSample == {s1, s2}

(* 3 is refused by the size check; 1 leaves no usable slot. *)
MCLength == {1, 2, 3, 4, 8}

(* The reading of the size check and of masking as arithmetic, for every   *)
(* length up to 33: 0 - 1 is the all-ones word.                            *)
ASSUME MaskingIsModulo ==
  \A n \in 0 .. 33 :
    LET m == (n - 1) % 64
    IN  /\ (n & m = 0) <=> (n = 0 \/ \E k \in 0 .. 6 : n = 2^k)
        /\ (n & m = 0) => \A x \in 0 .. 63 : (x & m) = x % (m + 1)
=============================================================================
