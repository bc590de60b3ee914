---------------------------- MODULE MCImuAcquire ----------------------------
(* Instances of ImuAcquire for TLC. *)
EXTENDS ImuAcquire, TLC

CONSTANTS c1, c2, r1, a, b

OneController == {c1}
TwoControllers == {c1, c2}
OneReader == {r1}
Slots == {a, b}

(* Thread identities are interchangeable. *)
Symmetry == Permutations(Slots)
=============================================================================
