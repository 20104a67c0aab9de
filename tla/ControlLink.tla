---------------------------- MODULE ControlLink ----------------------------
(***************************************************************************)
(* The control channel from the socket to the application loop: one thread *)
(* per accepted connection, the event queue all of them share, the out     *)
(* channel each hands to the loop, and the loop's book-keeping of commands *)
(* that still wait for their answer.                                       *)
(*                                                                         *)
(* A connection is used once.  Its thread announces it, forwards what it   *)
(* reads and what it is given to send, and reports its end; the loop hears *)
(* of all that only through the queue.  The listener accepts at any time,  *)
(* so two connections may be up together; "overlapped" remembers which     *)
(* were.  Connections beyond Conns, the content of answers and the wall    *)
(* clock are abstracted: a command may be overdue whenever every older one *)
(* is.                                                                     *)
(*                                                                         *)
(* An operator whose name ends in _X is a faulty variant of the operator   *)
(* defined after it; no behaviour of Spec uses it.                         *)
(***************************************************************************)
EXTENDS Naturals, Sequences, FiniteSets

CONSTANTS
  Conns,      \* connections the stack opens
  NoConn,
  MaxHandle,  \* bound: commands the loop issues
  MaxWire,    \* bound: commands on the wire of a connection
  MaxWaiting  \* bound: events in the queue when an answer has joined it

ASSUME ConnAssumption == NoConn \notin Conns
ASSUME LinkAssumption ==
  /\ IsFiniteSet(Conns)
  /\ MaxWire \in Nat /\ MaxWaiting \in Nat
  /\ MaxHandle \in Nat /\ MaxHandle >= 3 * Cardinality(Conns)

VARIABLES
  thread,            \* handle_control of each connection
  alive,             \* the peer of each connection is still there
  overlapped,        \* history: connections that were up together with another
  outq,              \* out_tx/out_rx of each connection
  wire,              \* commands the stack has received and not answered
  events,            \* the AppEvent queue
  control_out,       \* control_out; control_connected is control_out # NoConn
  have_config,       \* have_config
  config_from,       \* history: the connection the parsed configuration came over
  pending,           \* pending: handles that wait for an answer
  timeout_notified,  \* timeout_notified
  next_handle        \* next_handle

sockets == <<thread, alive, overlapped, wire>>
book    == <<pending, timeout_notified, next_handle>>
vars    == <<sockets, outq, events, control_out, have_config, config_from, book>>

CommandKinds == {"version", "state", "config", "call"}
Handles      == 1..MaxHandle
Command      == [handle: Handles, kind: CommandKinds]

LinkEvent == [name: {"connected", "disconnected"}, conn: Conns]
             \cup [name: {"message"}, conn: Conns, handle: Handles, kind: CommandKinds]

\* Threads, queues and the loop's book-keeping have their types; no handle passes the
\* bound, so the budget leaves every connection its bootstrap.
LinkTypeOK ==
  /\ thread \in [Conns -> {"new", "up", "done"}]
  /\ alive \in [Conns -> BOOLEAN]
  /\ overlapped \subseteq Conns
  /\ outq \in [Conns -> Seq(Command)]
  /\ wire \in [Conns -> Seq(Command)]
  /\ events \in Seq(LinkEvent)
  /\ control_out \in Conns \cup {NoConn}
  /\ have_config \in BOOLEAN
  /\ config_from \in Conns \cup {NoConn}
  /\ pending \subseteq Handles
  /\ timeout_notified \in BOOLEAN
  /\ next_handle \in 0..MaxHandle

Init ==
  /\ thread = [c \in Conns |-> "new"]
  /\ alive = [c \in Conns |-> FALSE] /\ overlapped = {}
  /\ outq = [c \in Conns |-> <<>>] /\ wire = [c \in Conns |-> <<>>]
  /\ events = <<>>
  /\ control_out = NoConn
  /\ have_config = FALSE /\ config_from = NoConn
  /\ pending = {} /\ timeout_notified = FALSE /\ next_handle = 0

\* Connections the loop has not heard of yet.
Announced == {events[i].conn : i \in {j \in DOMAIN events : events[j].name = "connected"}}

Post(e) == events' = Append(events, e)

-----------------------------------------------------------------------------
(* The connection thread.                                                   *)

Up == {c \in Conns : thread[c] = "up"}

\* The handshake has succeeded, whatever other connections there are.
Accept(c) ==
  /\ thread[c] = "new"
  /\ thread' = [thread EXCEPT ![c] = "up"]
  /\ alive' = [alive EXCEPT ![c] = TRUE]
  /\ overlapped' = IF Up = {} THEN overlapped ELSE overlapped \cup Up \cup {c}
  /\ Post([name |-> "connected", conn |-> c])
  /\ UNCHANGED <<wire, outq, control_out, have_config, config_from, book>>

\* A write to a peer that is gone may still succeed locally.
Flush(c) ==
  /\ thread[c] = "up" /\ outq[c] # <<>> /\ Len(wire[c]) < MaxWire
  /\ wire' = IF alive[c] THEN [wire EXCEPT ![c] = Append(@, Head(outq[c]))] ELSE wire
  /\ outq' = [outq EXCEPT ![c] = Tail(@)]
  /\ UNCHANGED <<thread, alive, overlapped, events, control_out, have_config, config_from, book>>

\* The stack takes a command: it answers, and the thread forwards the answer, or
\* it never answers.
Serve(c) ==
  /\ thread[c] = "up" /\ wire[c] # <<>> /\ Len(events) < MaxWaiting
  /\ wire' = [wire EXCEPT ![c] = Tail(@)]
  /\ \/ Post([name |-> "message", conn |-> c,
              handle |-> Head(wire[c]).handle, kind |-> Head(wire[c]).kind])
     \/ UNCHANGED events
  /\ UNCHANGED <<thread, alive, overlapped, outq, control_out, have_config, config_from, book>>

\* The stack exits or the network between them fails; nobody is told yet.
PeerGone(c) ==
  /\ alive[c]
  /\ alive' = [alive EXCEPT ![c] = FALSE]
  /\ wire' = [wire EXCEPT ![c] = <<>>]
  /\ UNCHANGED <<thread, overlapped, outq, events, control_out, have_config, config_from, book>>

\* A read or a write fails: the thread leaves its loop and its out channel dies.
Break(c) ==
  /\ thread[c] = "up" /\ ~alive[c]
  /\ thread' = [thread EXCEPT ![c] = "done"]
  /\ outq' = [outq EXCEPT ![c] = <<>>]
  /\ Post([name |-> "disconnected", conn |-> c])
  /\ UNCHANGED <<alive, overlapped, wire, control_out, have_config, config_from, book>>

-----------------------------------------------------------------------------
(* The application loop.                                                    *)

\* send, once per kind: the handle is pending whether or not a link takes it.
Issue(kinds, out, kept) ==
  LET cmds == [i \in DOMAIN kinds |-> [handle |-> next_handle + i, kind |-> kinds[i]]]
  IN  /\ next_handle' = next_handle + Len(kinds)
      /\ pending' = kept \cup {next_handle + i : i \in DOMAIN kinds}
      /\ outq' = IF out # NoConn /\ thread[out] = "up"
                 THEN [outq EXCEPT ![out] = @ \o cmds] ELSE outq

\* A link is taken only until a configuration is known.
HandleConnected_Once_X(c) ==
  /\ control_out' = IF have_config THEN control_out ELSE c
  /\ Issue(<<"version", "state", "config">>, c, pending)
  /\ UNCHANGED <<have_config, config_from, timeout_notified>>

\* The configuration of the previous link is taken for the new one's.
HandleConnected_Kept_X(c) ==
  /\ control_out' = c
  /\ Issue(<<"version", "state", "config">>, c, pending)
  /\ UNCHANGED <<have_config, config_from, timeout_notified>>

HandleConnected(c) ==
  /\ control_out' = c
  /\ have_config' = FALSE
  /\ Issue(<<"version", "state", "config">>, c, pending)
  /\ UNCHANGED <<config_from, timeout_notified>>

\* The event does not say whose end it is.
HandleDisconnected ==
  /\ control_out' = NoConn
  /\ pending' = {} /\ timeout_notified' = FALSE
  /\ UNCHANGED <<have_config, config_from, next_handle, outq>>

\* An empty configuration is not taken.
HandleMessage(e) ==
  /\ pending' = pending \ {e.handle}
  /\ timeout_notified' = FALSE
  /\ \/ /\ e.kind = "config"
        /\ have_config' = TRUE /\ config_from' = e.conn
     \/ UNCHANGED <<have_config, config_from>>
  /\ UNCHANGED <<control_out, next_handle, outq>>

Handle ==
  /\ events # <<>>
  /\ events' = Tail(events)
  /\ LET e == Head(events)
     IN  \/ e.name = "connected" /\ HandleConnected(e.conn)
         \/ e.name = "disconnected" /\ HandleDisconnected
         \/ e.name = "message" /\ HandleMessage(e)
  /\ UNCHANGED sockets

\* Handles the bound leaves for anything but the bootstrap of a connection.
Budget(n) ==
  next_handle + n
    + 3 * Cardinality({c \in Conns : thread[c] = "new"} \cup Announced)
  <= MaxHandle

\* Requests, then retain: what is older than the limit goes.
PollTick ==
  LET kinds == IF control_out = NoConn THEN <<>>
               ELSE IF have_config THEN <<"state">> ELSE <<"state", "config">>
  IN  /\ Budget(Len(kinds))
      /\ \E oldest \in 0..next_handle :
           LET kept == {h \in pending : h > oldest}
           IN  /\ Issue(kinds, control_out, kept)
               /\ timeout_notified' = (timeout_notified \/ kept # pending)
      /\ UNCHANGED <<sockets, events, control_out, have_config, config_from>>

\* Any handler that sends a command, those that do not ask for the link first
\* (reject, hang-up, PTT release) included.
UserCommand ==
  /\ Budget(1)
  /\ Issue(<<"call">>, control_out, pending)
  /\ UNCHANGED <<sockets, events, control_out, have_config, config_from, timeout_notified>>

-----------------------------------------------------------------------------

Sockets == \E c \in Conns : Accept(c) \/ Flush(c) \/ Serve(c) \/ PeerGone(c) \/ Break(c)

Next == Sockets \/ Handle \/ PollTick \/ UserCommand

Spec == Init /\ [][Next]_vars

\* The loop never stops taking events, and the end of the connection it writes to is
\* noticed: the poll writes to it every two seconds.  A connection it has let go of may
\* stay half open for ever.
FairSpec ==
  /\ Spec
  /\ WF_vars(Handle)
  /\ \A c \in Conns : WF_vars(control_out = c /\ Break(c))

-----------------------------------------------------------------------------
(* Properties.                                                              *)

\* A connection that works in both directions.
LiveLink(c) == thread[c] = "up" /\ alive[c]

\* Once the loop has heard everything, it sends on the connection that is up, if that
\* one never overlapped with another: the ends of older connections, which it may hear
\* late and which do not say whose they are, do not take it away, and overlaps in the
\* past leave nothing behind.
LoneLinkUsed ==
  events = <<>> => \A c \in Up \ overlapped : control_out = c

\* The configuration in use came over the link in use, not over one before it, unless
\* the link overlapped with another.
ConfigOfThisLink ==
  have_config => control_out \in {NoConn, config_from} \cup overlapped

\* The channel keeps the promise of LinkSessions, overlapping connections or not.
Sessions == INSTANCE LinkSessions WITH
  link       <- control_out,
  configured <- control_out # NoConn /\ have_config,
  past       <- {c \in Conns : thread[c] # "new"} \ (Announced \cup {control_out})

OneSessionAtATime == Sessions!Spec

\* A connection that stays up and never overlaps ends up in use for good, and one that
\* has died does not stay in use.
LinkRecovers ==
  \A c \in Conns :
    /\ <>[](LiveLink(c) /\ c \notin overlapped) => <>[](control_out = c)
    /\ (control_out = c /\ ~alive[c]) ~> control_out # c

\* "Automatic reconnect" (README.md:141-143): while a connection works for good, the
\* loop does not stay without a link.  The end of an old connection that is noticed
\* after the new one is in use takes the new one away (net.rs:275, app.rs:752).
AutomaticReconnect ==
  \A c \in Conns : <>[]LiveLink(c) => []<>(control_out # NoConn)

=============================================================================
