------------------------------ MODULE MCRosNode ------------------------------
(* An instance of RosNode for TLC. *)
EXTENDS RosNode

CONSTANTS k1, k2

Chips == {k1, k2}
=============================================================================
