---------------------------- MODULE MCLifecycle ----------------------------
(* Instances of Lifecycle for TLC. *)
EXTENDS Lifecycle, TLC

CONSTANTS k1, k2, k3, k4

Chips == {k1, k2, k3, k4}

(* Chip handles are interchangeable. *)
Symmetry == Permutations(Chips)
=============================================================================
