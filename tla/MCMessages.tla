----------------------------- MODULE MCMessages -----------------------------
(* Instances of Messages for TLC. *)
EXTENDS Messages, TLC

CONSTANTS p1, p2

TwoPeers == {p1, p2}

PeerSymmetry == Permutations(TwoPeers)
=============================================================================
