---------------------------- MODULE MCRingPlayer ----------------------------
(* Instances of RingPlayer for TLC. *)
EXTENDS RingPlayer

CONSTANTS r1, r2

TwoRings == {r1, r2}
=============================================================================
