--------------------------- MODULE MCControlLink ---------------------------
(* Instances of ControlLink for TLC. *)
EXTENDS ControlLink

CONSTANTS k1, k2

TwoConns == {k1, k2}
=============================================================================
