---------------------------- MODULE MCAudioPath ----------------------------
(***************************************************************************)
(* AudioPath for TLC.  The two directions share nothing but the loop and   *)
(* the devices, so each behaviour exercises one of them with the other at  *)
(* rest: a sum of state spaces instead of their product.                   *)
(***************************************************************************)
EXTENDS AudioPath

CONSTANTS c1, c2

TwoCalls == {c1, c2}

VARIABLE direction

MCInit == Init /\ direction \in {"up", "down"}

MCNext ==
  /\ Next
  /\ UNCHANGED direction
  /\ IF direction = "up" THEN received' = 0 ELSE goal' = NoCid /\ ~masked'

MCSpec == MCInit /\ [][MCNext]_<<vars, direction>>
=============================================================================
