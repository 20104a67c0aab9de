---------------------------- MODULE LinkSessions ----------------------------
(***************************************************************************)
(* What the control channel promises the rest of the application: one      *)
(* session at a time.  A session belongs to one connection of the stack,   *)
(* starts without its configuration, may learn it, and ends when the link  *)
(* is given up or when the next one starts; the connection of a session    *)
(* that has ended is never used again.                                     *)
(***************************************************************************)
CONSTANTS Conns, NoConn

VARIABLES link,        \* the connection of the session, or NoConn
          configured,  \* the session has learnt the stack's configuration
          past         \* connections whose session is over

vars == <<link, configured, past>>

Init == link = NoConn /\ configured = FALSE /\ past = {}

Ended == past' = past \cup ({link} \ {NoConn})

Open(c) ==
  /\ c \notin past \cup {link}
  /\ link' = c /\ configured' = FALSE
  /\ Ended

Learn ==
  /\ link # NoConn
  /\ configured' = TRUE
  /\ UNCHANGED <<link, past>>

Close ==
  /\ link # NoConn
  /\ link' = NoConn /\ configured' = FALSE
  /\ Ended

Next == Learn \/ Close \/ \E c \in Conns : Open(c)

Spec == Init /\ [][Next]_vars
=============================================================================
