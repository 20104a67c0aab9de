----------------------------- MODULE FreshQueue -----------------------------
(***************************************************************************)
(* What a voice queue promises between a producer that must not wait and a *)
(* consumer that may be late: a backlog no longer than Cap and the item    *)
(* being put, items taken in the order they were put, the oldest given up  *)
(* first and the newest never.                                             *)
(***************************************************************************)
EXTENDS Naturals, Sequences

CONSTANTS Cap, Items, Nothing

VARIABLES backlog,  \* what was put and neither taken nor given up
          last      \* the item taken last

vars == <<backlog, last>>

Init == backlog = <<>> /\ last = Nothing

Put(x) ==
  /\ Len(backlog) <= Cap
  /\ backlog' = Append(backlog, x)
  /\ UNCHANGED last

GiveUpOldest ==
  /\ Len(backlog) > 1
  /\ backlog' = Tail(backlog)
  /\ UNCHANGED last

Take ==
  /\ backlog # <<>>
  /\ last' = Head(backlog)
  /\ backlog' = Tail(backlog)

Next == GiveUpOldest \/ Take \/ \E x \in Items : Put(x)

Spec == Init /\ [][Next]_vars
=============================================================================
