----------------------------- MODULE VoiceQueue -----------------------------
(***************************************************************************)
(* A bounded channel of crossbeam with a second receiver at the producer,  *)
(* as audio.rs uses it for speech in both directions.  The producer tries  *)
(* to send; when there is no room it takes one item off the other end and  *)
(* tries again.  Between the two the consumer may take items as well, so   *)
(* one more than necessary may go.                                         *)
(*                                                                         *)
(* An operator whose name ends in _X is a faulty variant of the operator   *)
(* defined after it; no behaviour uses it.                                 *)
(***************************************************************************)
EXTENDS Naturals, Sequences

CONSTANT Cap

VARIABLES queue,   \* what the channel holds
          refused  \* the item the channel had no room for, while the producer makes some

Settled == refused = <<>>

\* try_send: sent, or handed back because the channel is full.
Offer(x) ==
  /\ Settled
  /\ IF Len(queue) < Cap
     THEN queue' = Append(queue, x) /\ UNCHANGED refused
     ELSE refused' = <<x>> /\ UNCHANGED queue

\* What does not fit is dropped.
MakeRoom_X ==
  /\ ~Settled
  /\ refused' = <<>>
  /\ UNCHANGED queue

\* try_recv, whatever it finds, then try_send: this is the only producer.
MakeRoom ==
  /\ ~Settled
  /\ queue' = (IF queue = <<>> THEN <<>> ELSE Tail(queue)) \o refused
  /\ refused' = <<>>

\* recv; the item is Head(queue).
Take ==
  /\ queue # <<>>
  /\ queue' = Tail(queue)
  /\ UNCHANGED refused

Backlog == queue \o refused
=============================================================================
