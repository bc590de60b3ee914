---------------------------- MODULE MCImuFusion ----------------------------
(* Instances of ImuFusion for TLC. *)
EXTENDS ImuFusion

CONSTANT r1

OneReader == {r1}
=============================================================================
