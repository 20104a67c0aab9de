------------------------------- MODULE MCHome -------------------------------
(* Instances of Home for TLC. *)
EXTENDS Home

CONSTANTS g1, g2, g3

ThreeGroups == {g1, g2, g3}

\* Three folders; the same without the last talkgroup.
Deletion == {<<<<g1>>, <<g2>>, <<g3>>>>, <<<<g1>>, <<g2>>>>}
=============================================================================
