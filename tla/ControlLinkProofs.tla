------------------------- MODULE ControlLinkProofs -------------------------
(***************************************************************************)
(* Theorems about ControlLink for every finite set of connections, however *)
(* they overlap, and every number of commands.  A promise about one        *)
(* connection is made to those that never overlapped; that overlaps in the *)
(* past and late ends of other connections do not break it is the point.   *)
(***************************************************************************)
EXTENDS ControlLink, FiniteSetTheorems, SequenceTheorems, TLAPS

-----------------------------------------------------------------------------
(* The inductive invariants.                                                *)

\* The connections that have still to get their bootstrap.
Unheard == {c \in Conns : thread[c] = "new"} \cup Announced

\* A connection is announced once, before the loop uses it.
HeardOnce ==
  /\ control_out \notin Announced
  /\ \A c \in Conns : thread[c] = "new" => c # control_out /\ c \notin Announced
  /\ \A i, j \in DOMAIN events :
       events[i].name = "connected" /\ events[j].name = "connected"
       /\ events[i].conn = events[j].conn => i = j

\* The bound leaves every connection its bootstrap.
BootstrapsLeft == next_handle + 3 * Cardinality(Unheard) <= MaxHandle

TInv == LinkTypeOK /\ HeardOnce /\ BootstrapsLeft

\* The loop is on c or will be when it has heard the queue.
InUse(c) ==
  \/ /\ control_out = c
     /\ \A j \in DOMAIN events : events[j].name = "message"
  \/ \E i \in DOMAIN events :
       /\ events[i].name = "connected" /\ events[i].conn = c
       /\ \A j \in DOMAIN events : j > i => events[j].name = "message"

\* A connection that is up and has never overlapped is the only one up, and no event
\* will take it away.
LoneInUse == \A c \in Up \ overlapped : InUse(c) /\ \A d \in Up : d = c

\* While the loop may take a connection that has ended for its link, the end is in the
\* queue.
EndsInQueue ==
  \A c \in Conns : thread[c] = "done" =>
    /\ control_out = c => \E k \in DOMAIN events :
         events[k].name = "disconnected" /\ events[k].conn = c
    /\ \A j \in DOMAIN events : events[j].name = "connected" /\ events[j].conn = c =>
         \E k \in DOMAIN events :
           k > j /\ events[k].name = "disconnected" /\ events[k].conn = c

\* Before an answer of another connection, a session that never overlapped is over.
MessagesInside ==
  \A i \in DOMAIN events : events[i].name = "message" =>
    \A c \in Conns \ (overlapped \cup {events[i].conn}) :
      /\ control_out = c => \E j \in DOMAIN events : j < i /\ events[j].name # "message"
      /\ \A j \in DOMAIN events :
           j < i /\ events[j].name = "connected" /\ events[j].conn = c =>
             \E k \in DOMAIN events : j < k /\ k < i /\ events[k].name # "message"

SInv == LoneInUse /\ EndsInQueue /\ MessagesInside /\ ConfigOfThisLink

-----------------------------------------------------------------------------
(* The event queue.                                                         *)

\* What Post does to the queue and to the connections announced in it.
LEMMA PostEffect ==
  ASSUME events \in Seq(LinkEvent), NEW e \in LinkEvent, Post(e)
  PROVE  /\ events' \in Seq(LinkEvent)
         /\ Len(events') = Len(events) + 1
         /\ DOMAIN events' = DOMAIN events \cup {Len(events) + 1}
         /\ \A i \in DOMAIN events : events'[i] = events[i]
         /\ events'[Len(events) + 1] = e
         /\ Announced' = IF e.name = "connected" THEN Announced \cup {e.conn} ELSE Announced
<1>1. /\ events' \in Seq(LinkEvent)
      /\ Len(events') = Len(events) + 1
      /\ DOMAIN events' = 1..(Len(events) + 1)
      /\ \A i \in DOMAIN events : events'[i] = events[i]
      /\ events'[Len(events) + 1] = e
  BY DEF Post
<1>2. DOMAIN events = 1..Len(events) /\ Len(events) \in Nat
  OBVIOUS
<1>3. \A x : x \in Announced' <=> \E i \in DOMAIN events' : events'[i].name = "connected"
                                                           /\ x = events'[i].conn
  BY DEF Announced
<1>4. \A x : x \in Announced <=> \E i \in DOMAIN events : events[i].name = "connected"
                                                         /\ x = events[i].conn
  BY DEF Announced
<1>5. DOMAIN events' = DOMAIN events \cup {Len(events) + 1}
  BY <1>1, <1>2
<1>6. \A x : x \in Announced' <=> x \in Announced \/ (e.name = "connected" /\ x = e.conn)
  BY <1>1, <1>3, <1>4, <1>5
<1> QED BY <1>1, <1>5, <1>6

\* What taking the first event does to the queue and to the connections announced in it.
LEMMA TailEffect ==
  ASSUME events \in Seq(LinkEvent), events # <<>>, events' = Tail(events)
  PROVE  /\ events' \in Seq(LinkEvent)
         /\ Head(events) = events[1] /\ events[1] \in LinkEvent
         /\ 1 \in DOMAIN events
         /\ Len(events') = Len(events) - 1 /\ Len(events) \in Nat \ {0}
         /\ DOMAIN events' = 1..(Len(events) - 1)
         /\ \A i \in DOMAIN events' : i + 1 \in DOMAIN events /\ events'[i] = events[i + 1]
         /\ \A i \in DOMAIN events : i = 1 \/ i - 1 \in DOMAIN events'
<1>1. /\ events' \in Seq(LinkEvent)
      /\ Head(events) = events[1]
      /\ Len(events) \in Nat \ {0}
      /\ DOMAIN events = 1..Len(events)
      /\ Len(events') = Len(events) - 1
      /\ DOMAIN events' = 1..(Len(events) - 1)
      /\ \A i \in DOMAIN events' : events'[i] = events[i + 1]
  OBVIOUS
<1>2. events[1] \in LinkEvent
  OBVIOUS
<1> QED BY <1>1, <1>2

\* The connections announced after the first event is taken are the others.
LEMMA AnnouncedRest ==
  ASSUME events \in Seq(LinkEvent), events # <<>>, events' = Tail(events),
         HeardOnce
  PROVE  Announced' = IF Head(events).name = "connected"
                      THEN Announced \ {Head(events).conn} ELSE Announced
<1>1. \A x : x \in Announced' <=> \E i \in DOMAIN events' : events'[i].name = "connected"
                                                           /\ x = events'[i].conn
  BY DEF Announced
<1>2. \A x : x \in Announced <=> \E i \in DOMAIN events : events[i].name = "connected"
                                                         /\ x = events[i].conn
  BY DEF Announced
<1>3. ASSUME NEW x \in Announced'
      PROVE  /\ x \in Announced
             /\ Head(events).name = "connected" => x # Head(events).conn
  <2>1. PICK i \in DOMAIN events' : events'[i].name = "connected" /\ x = events'[i].conn
    BY <1>1, <1>3
  <2>2. i + 1 \in DOMAIN events /\ events'[i] = events[i + 1] /\ i + 1 # 1
    BY <2>1, TailEffect
  <2> QED BY <1>2, <2>1, <2>2, TailEffect DEF HeardOnce
<1>4. ASSUME NEW x \in Announced,
             Head(events).name = "connected" => x # Head(events).conn
      PROVE  x \in Announced'
  <2>1. PICK i \in DOMAIN events : events[i].name = "connected" /\ x = events[i].conn
    BY <1>2, <1>4
  <2>2. i # 1
    BY <1>4, <2>1, TailEffect
  <2>3. i - 1 \in DOMAIN events' /\ events'[i - 1] = events[(i - 1) + 1]
    BY <2>1, <2>2, TailEffect
  <2>4. (i - 1) + 1 = i
    BY <2>1
  <2> QED BY <1>1, <2>1, <2>3, <2>4
<1> QED BY <1>3, <1>4

-----------------------------------------------------------------------------
(* Types and the bound on handles.                                          *)

\* Sending commands keeps the types while the handles last.
LEMMA IssueType ==
  ASSUME LinkTypeOK, NEW kinds \in Seq(CommandKinds), NEW out \in Conns \cup {NoConn},
         NEW kept \in SUBSET Handles,
         next_handle + Len(kinds) <= MaxHandle,
         Issue(kinds, out, kept)
  PROVE  /\ outq' \in [Conns -> Seq(Command)]
         /\ pending' \subseteq Handles
         /\ next_handle' \in 0..MaxHandle
         /\ next_handle' = next_handle + Len(kinds)
<1> DEFINE cmds == [i \in DOMAIN kinds |-> [handle |-> next_handle + i, kind |-> kinds[i]]]
<1>1. MaxHandle \in Nat /\ next_handle \in 0..MaxHandle
  BY LinkAssumption DEF LinkTypeOK
<1>2. Len(kinds) \in Nat /\ DOMAIN kinds = 1..Len(kinds) /\ \A i \in DOMAIN kinds : kinds[i] \in CommandKinds
  OBVIOUS
<1>3. \A i \in DOMAIN kinds : next_handle + i \in Handles
  BY <1>1, <1>2 DEF Handles
<1>4. \A i \in 1..Len(kinds) : cmds[i] \in Command
  BY <1>2, <1>3 DEF Command
<1>5. cmds = [i \in 1..Len(kinds) |-> cmds[i]]
  BY <1>2
<1>6. cmds \in Seq(Command)
  <2> HIDE DEF cmds
  <2>1. cmds \in [1..Len(kinds) -> Command]
    BY <1>4, <1>5
  <2> QED BY <1>2, <2>1, SeqDef
<1>7. \A s \in Seq(Command) : s \o cmds \in Seq(Command)
  <2> HIDE DEF cmds
  <2> QED BY <1>6, ConcatProperties
<1>8. outq' = IF out # NoConn /\ thread[out] = "up" THEN [outq EXCEPT ![out] = @ \o cmds] ELSE outq
  BY DEF Issue
<1>9. outq' \in [Conns -> Seq(Command)]
  <2> HIDE DEF cmds
  <2> QED BY <1>7, <1>8 DEF LinkTypeOK
<1>10. next_handle' = next_handle + Len(kinds) /\ pending' \subseteq Handles
  BY <1>3 DEF Issue
<1> QED BY <1>1, <1>2, <1>9, <1>10

\* The connections that have no bootstrap yet are finitely many.
LEMMA UnheardFinite ==
  ASSUME LinkTypeOK
  PROVE  /\ Unheard \subseteq Conns
         /\ IsFiniteSet(Unheard) /\ Cardinality(Unheard) \in Nat
<1>1. \A i \in DOMAIN events : events[i].conn \in Conns
  <2> SUFFICES ASSUME NEW i \in DOMAIN events PROVE events[i].conn \in Conns
    OBVIOUS
  <2>1. events[i] \in LinkEvent
    BY DEF LinkTypeOK
  <2> QED BY <2>1 DEF LinkEvent
<1>2. Unheard \subseteq Conns
  BY <1>1 DEF Unheard, Announced
<1> QED BY <1>2, LinkAssumption, FS_Subset, FS_CardinalityType

LEMMA TypeInit == Init => TInv
<1> SUFFICES ASSUME Init PROVE TInv
  OBVIOUS
<1>1. Announced = {}
  BY DEF Init, Announced
<1>2. Unheard = Conns
  BY <1>1 DEF Init, Unheard
<1>3. LinkTypeOK
  <2>1. <<>> \in Seq(Command) /\ <<>> \in Seq(LinkEvent)
    BY EmptySeq
  <2>2. outq \in [Conns -> Seq(Command)] /\ wire \in [Conns -> Seq(Command)]
    BY <2>1 DEF Init
  <2>3. thread \in [Conns -> {"new", "up", "done"}] /\ alive \in [Conns -> BOOLEAN]
    BY DEF Init
  <2>4. events \in Seq(LinkEvent) /\ pending \subseteq Handles /\ next_handle \in 0..MaxHandle
    BY <2>1, LinkAssumption DEF Init
  <2> QED BY <2>2, <2>3, <2>4 DEF Init, LinkTypeOK
<1>4. HeardOnce
  BY <1>1, ConnAssumption DEF Init, HeardOnce
<1>5. BootstrapsLeft
  BY <1>2, <1>3, LinkAssumption, UnheardFinite DEF Init, BootstrapsLeft
<1> QED BY <1>3, <1>4, <1>5 DEF TInv

-----------------------------------------------------------------------------
(* Every step keeps the types, the single announcements and the bound.      *)

\* A post of a live connection announces no one again.
LEMMA PostOfUp ==
  ASSUME TInv, NEW c \in Conns, NEW e \in LinkEvent, e.conn = c, e.name # "connected",
         Post(e), thread[c] = "up",
         thread' = thread \/ thread' = [thread EXCEPT ![c] = "done"],
         UNCHANGED <<control_out, next_handle>>
  PROVE  HeardOnce' /\ BootstrapsLeft' /\ events' \in Seq(LinkEvent)
<1>1. /\ events' \in Seq(LinkEvent)
      /\ DOMAIN events' = DOMAIN events \cup {Len(events) + 1}
      /\ \A i \in DOMAIN events : events'[i] = events[i]
      /\ events'[Len(events) + 1] = e
      /\ Announced' = Announced
  BY PostEffect DEF TInv, LinkTypeOK
<1>2. \A d \in Conns : thread'[d] = "new" <=> thread[d] = "new"
  BY DEF TInv, LinkTypeOK
<1>3. HeardOnce'
  BY <1>1, <1>2 DEF TInv, HeardOnce
<1>4. Unheard' = Unheard
  BY <1>1, <1>2 DEF Unheard
<1> QED BY <1>1, <1>3, <1>4 DEF TInv, BootstrapsLeft

LEMMA AcceptTInv ==
  ASSUME TInv, NEW c \in Conns, Accept(c)
  PROVE  TInv'
<1> DEFINE e == [name |-> "connected", conn |-> c]
<1>1. e \in LinkEvent /\ e.name = "connected" /\ e.conn = c
  BY DEF LinkEvent
<1>2. /\ events' \in Seq(LinkEvent)
      /\ DOMAIN events' = DOMAIN events \cup {Len(events) + 1}
      /\ \A i \in DOMAIN events : events'[i] = events[i]
      /\ events'[Len(events) + 1] = e
      /\ Announced' = Announced \cup {c}
  <2>1. Post(e) /\ events \in Seq(LinkEvent)
    BY DEF Accept, TInv, LinkTypeOK
  <2> HIDE DEF e
  <2> QED BY <1>1, <2>1, PostEffect
<1>3. /\ thread' \in [Conns -> {"new", "up", "done"}]
      /\ thread'[c] = "up" /\ \A d \in Conns \ {c} : thread'[d] = thread[d]
      /\ thread[c] = "new"
  BY DEF Accept, TInv, LinkTypeOK
<1>4. LinkTypeOK'
  BY <1>2, <1>3 DEF Accept, TInv, LinkTypeOK, Up, book
<1>5. \A i \in DOMAIN events : events[i].name = "connected" => events[i].conn # c
  BY <1>3 DEF TInv, HeardOnce, Announced
<1>6. HeardOnce'
  <2>1. control_out' \notin Announced'
    BY <1>2, <1>3 DEF Accept, TInv, HeardOnce
  <2>2. \A d \in Conns : thread'[d] = "new" => d # control_out' /\ d \notin Announced'
    BY <1>2, <1>3 DEF Accept, TInv, HeardOnce
  <2>3. \A i, j \in DOMAIN events' :
          events'[i].name = "connected" /\ events'[j].name = "connected"
          /\ events'[i].conn = events'[j].conn => i = j
    BY <1>1, <1>2, <1>5 DEF TInv, HeardOnce
  <2> QED BY <2>1, <2>2, <2>3 DEF HeardOnce
<1>7. Unheard' = Unheard
  BY <1>2, <1>3 DEF Unheard
<1> QED BY <1>4, <1>6, <1>7 DEF TInv, BootstrapsLeft, Accept, book

LEMMA SocketTInv ==
  ASSUME TInv, NEW c \in Conns, Flush(c) \/ Serve(c) \/ PeerGone(c) \/ Break(c)
  PROVE  TInv'
<1>1. ASSUME events' = events, thread' = thread, UNCHANGED <<control_out, book>>
      PROVE  HeardOnce' /\ BootstrapsLeft'
  <2>1. Announced' = Announced /\ Unheard' = Unheard
    BY <1>1 DEF Announced, Unheard
  <2> QED BY <1>1, <2>1 DEF TInv, HeardOnce, BootstrapsLeft, book
<1>2. \A s \in Seq(Command) : s # <<>> => Head(s) \in Command /\ Tail(s) \in Seq(Command)
  OBVIOUS
<1>3. CASE Flush(c)
  <2>1. wire' \in [Conns -> Seq(Command)] /\ outq' \in [Conns -> Seq(Command)]
    <3>1. Head(outq[c]) \in Command /\ Tail(outq[c]) \in Seq(Command)
      BY <1>2, <1>3 DEF Flush, TInv, LinkTypeOK
    <3>2. Append(wire[c], Head(outq[c])) \in Seq(Command)
      BY <3>1, AppendProperties DEF TInv, LinkTypeOK
    <3> QED BY <1>3, <3>1, <3>2 DEF Flush, TInv, LinkTypeOK
  <2>2. LinkTypeOK'
    BY <1>3, <2>1 DEF Flush, TInv, LinkTypeOK, book
  <2> QED BY <1>1, <1>3, <2>2 DEF Flush, TInv
<1>4. CASE Serve(c)
  <2>1. Head(wire[c]) \in Command /\ wire' \in [Conns -> Seq(Command)]
    BY <1>2, <1>4 DEF Serve, TInv, LinkTypeOK
  <2> DEFINE e == [name |-> "message", conn |-> c,
                   handle |-> Head(wire[c]).handle, kind |-> Head(wire[c]).kind]
  <2>2. e \in LinkEvent /\ e.conn = c /\ e.name # "connected"
    BY <2>1 DEF Command, LinkEvent
  <2>3. HeardOnce' /\ BootstrapsLeft' /\ events' \in Seq(LinkEvent)
    <3>1. CASE Post(e)
      <4>1. thread[c] = "up" /\ thread' = thread /\ UNCHANGED <<control_out, next_handle>>
        BY <1>4 DEF Serve, book
      <4> HIDE DEF e
      <4> QED BY <2>2, <3>1, <4>1, PostOfUp
    <3>2. CASE events' = events
      BY <1>1, <1>4, <3>2 DEF Serve, TInv, LinkTypeOK
    <3> QED BY <1>4, <3>1, <3>2 DEF Serve
  <2>4. LinkTypeOK'
    BY <1>4, <2>1, <2>3 DEF Serve, TInv, LinkTypeOK, book
  <2> QED BY <2>3, <2>4 DEF TInv
<1>5. CASE PeerGone(c)
  <2>1. LinkTypeOK'
    BY <1>5, EmptySeq DEF PeerGone, TInv, LinkTypeOK, book
  <2> QED BY <1>1, <1>5, <2>1 DEF PeerGone, TInv
<1>6. CASE Break(c)
  <2> DEFINE e == [name |-> "disconnected", conn |-> c]
  <2>1. e \in LinkEvent /\ e.conn = c /\ e.name # "connected"
    BY DEF LinkEvent
  <2>2. HeardOnce' /\ BootstrapsLeft' /\ events' \in Seq(LinkEvent)
    <3>1. /\ Post(e) /\ thread[c] = "up" /\ thread' = [thread EXCEPT ![c] = "done"]
          /\ UNCHANGED <<control_out, next_handle>>
      BY <1>6 DEF Break, book
    <3> HIDE DEF e
    <3> QED BY <2>1, <3>1, PostOfUp
  <2>3. LinkTypeOK'
    BY <1>6, <2>2, EmptySeq DEF Break, TInv, LinkTypeOK, book
  <2> QED BY <2>2, <2>3 DEF TInv
<1> QED BY <1>3, <1>4, <1>5, <1>6

LEMMA ConnectedTInv ==
  ASSUME TInv, events # <<>>, Head(events).name = "connected",
         events' = Tail(events), HandleConnected(Head(events).conn), UNCHANGED sockets
  PROVE  TInv'
<1> DEFINE c == Head(events).conn
<1>1. /\ events' \in Seq(LinkEvent)
      /\ Head(events) = events[1] /\ events[1] \in LinkEvent /\ 1 \in DOMAIN events
      /\ \A i \in DOMAIN events' : i + 1 \in DOMAIN events /\ events'[i] = events[i + 1]
                                    /\ i + 1 # 1
  BY TailEffect DEF TInv, LinkTypeOK
<1>2. Announced' = Announced \ {c}
  BY AnnouncedRest DEF TInv, LinkTypeOK
<1>3. c \in Conns /\ c \in Announced /\ thread[c] # "new"
  BY <1>1 DEF LinkEvent, Announced, TInv, HeardOnce
<1>5. Unheard' = Unheard \ {c} /\ c \in Unheard
  BY <1>2, <1>3 DEF Unheard, sockets
<1>6. Cardinality(Unheard') = Cardinality(Unheard) - 1 /\ Cardinality(Unheard) \in Nat
  BY <1>5, UnheardFinite, FS_RemoveElement DEF TInv
<1>7. Cardinality(Unheard') \in Nat
  BY <1>5, UnheardFinite, FS_Subset, FS_CardinalityType DEF TInv
<1> DEFINE kinds == <<"version", "state", "config">>
<1>8. kinds \in Seq(CommandKinds) /\ Len(kinds) = 3
  BY DEF CommandKinds
<1>9. next_handle \in Nat /\ MaxHandle \in Nat
  BY LinkAssumption DEF TInv, LinkTypeOK
<1>10. next_handle + Len(kinds) <= MaxHandle
  BY <1>6, <1>7, <1>8, <1>9 DEF TInv, BootstrapsLeft
<1>11. /\ outq' \in [Conns -> Seq(Command)]
       /\ pending' \subseteq Handles
       /\ next_handle' \in 0..MaxHandle
       /\ next_handle' = next_handle + 3
  <2>1. Issue(kinds, c, pending) /\ pending \in SUBSET Handles
    BY DEF HandleConnected, TInv, LinkTypeOK
  <2> HIDE DEF kinds, c
  <2> QED BY <1>3, <1>8, <1>10, <2>1, IssueType DEF TInv
<1>12. LinkTypeOK'
  BY <1>1, <1>3, <1>11 DEF HandleConnected, sockets, TInv, LinkTypeOK
<1>13. HeardOnce'
  <2>1. control_out' \notin Announced'
    BY <1>2 DEF HandleConnected
  <2>2. \A d \in Conns : thread'[d] = "new" => d # control_out' /\ d \notin Announced'
    BY <1>2, <1>3 DEF HandleConnected, sockets, TInv, HeardOnce
  <2>3. \A i, j \in DOMAIN events' :
          events'[i].name = "connected" /\ events'[j].name = "connected"
          /\ events'[i].conn = events'[j].conn => i = j
    <3> SUFFICES ASSUME NEW i \in DOMAIN events', NEW j \in DOMAIN events',
                        events'[i].name = "connected", events'[j].name = "connected",
                        events'[i].conn = events'[j].conn
                 PROVE  i = j
      OBVIOUS
    <3>1. i + 1 = j + 1
      BY <1>1 DEF TInv, HeardOnce
    <3>2. i \in Nat /\ j \in Nat
      BY <1>1
    <3> QED BY <3>1, <3>2
  <2> QED BY <2>1, <2>2, <2>3 DEF HeardOnce
<1>14. BootstrapsLeft'
  BY <1>6, <1>9, <1>11 DEF TInv, BootstrapsLeft
<1> QED BY <1>12, <1>13, <1>14 DEF TInv

LEMMA OtherEventTInv ==
  ASSUME TInv, events # <<>>, Head(events).name # "connected",
         events' = Tail(events), UNCHANGED sockets,
         HandleDisconnected \/ HandleMessage(Head(events))
  PROVE  TInv'
<1>1. /\ events' \in Seq(LinkEvent)
      /\ Head(events) \in LinkEvent
      /\ \A i \in DOMAIN events' : i \in Nat /\ i + 1 \in DOMAIN events
                                    /\ events'[i] = events[i + 1]
  BY TailEffect DEF TInv, LinkTypeOK
<1>2. Announced' = Announced
  BY AnnouncedRest DEF TInv, LinkTypeOK
<1>3. Unheard' = Unheard
  BY <1>2 DEF Unheard, sockets
<1>4. control_out' \in {control_out, NoConn} /\ UNCHANGED <<next_handle, outq>>
  BY DEF HandleDisconnected, HandleMessage
<1>5. /\ pending' \subseteq Handles /\ timeout_notified' \in BOOLEAN
      /\ have_config' \in BOOLEAN /\ config_from' \in Conns \cup {NoConn}
  BY <1>1 DEF HandleDisconnected, HandleMessage, TInv, LinkTypeOK, LinkEvent
<1>6. LinkTypeOK'
  BY <1>1, <1>4, <1>5 DEF sockets, TInv, LinkTypeOK
<1>7. Announced \subseteq Conns
  BY UnheardFinite DEF TInv, Unheard
<1>8. HeardOnce'
  <2>1. control_out' \notin Announced'
    BY <1>2, <1>4, <1>7, ConnAssumption DEF TInv, HeardOnce
  <2>2. \A d \in Conns : thread'[d] = "new" => d # control_out' /\ d \notin Announced'
    BY <1>2, <1>4, ConnAssumption DEF sockets, TInv, HeardOnce
  <2>3. \A i, j \in DOMAIN events' :
          events'[i].name = "connected" /\ events'[j].name = "connected"
          /\ events'[i].conn = events'[j].conn => i = j
    <3> SUFFICES ASSUME NEW i \in DOMAIN events', NEW j \in DOMAIN events',
                        events'[i].name = "connected", events'[j].name = "connected",
                        events'[i].conn = events'[j].conn
                 PROVE  i = j
      OBVIOUS
    <3>1. i + 1 = j + 1
      BY <1>1 DEF TInv, HeardOnce
    <3> QED BY <1>1, <3>1
  <2> QED BY <2>1, <2>2, <2>3 DEF HeardOnce
<1> QED BY <1>3, <1>4, <1>6, <1>8 DEF TInv, BootstrapsLeft

\* What the loop asks for by itself stays within the budget.
LEMMA AskTInv ==
  ASSUME TInv, NEW kinds \in Seq(CommandKinds), NEW kept \in SUBSET Handles,
         Budget(Len(kinds)), Issue(kinds, control_out, kept),
         timeout_notified' \in BOOLEAN,
         UNCHANGED <<sockets, events, control_out, have_config, config_from>>
  PROVE  TInv'
<1>1. Announced' = Announced /\ Unheard' = Unheard
  BY DEF Announced, Unheard, sockets
<1>2. next_handle \in Nat /\ MaxHandle \in Nat /\ Len(kinds) \in Nat
      /\ Cardinality(Unheard) \in Nat
  BY LinkAssumption, UnheardFinite DEF TInv, LinkTypeOK
<1>3. next_handle + Len(kinds) + 3 * Cardinality(Unheard) <= MaxHandle
  BY DEF Budget, Unheard
<1>4. /\ outq' \in [Conns -> Seq(Command)]
      /\ pending' \subseteq Handles
      /\ next_handle' \in 0..MaxHandle
      /\ next_handle' = next_handle + Len(kinds)
  <2>1. next_handle + Len(kinds) <= MaxHandle /\ control_out \in Conns \cup {NoConn}
    BY <1>2, <1>3 DEF TInv, LinkTypeOK
  <2> QED BY <2>1, IssueType DEF TInv
<1>5. LinkTypeOK'
  BY <1>4 DEF sockets, TInv, LinkTypeOK
<1>6. HeardOnce'
  BY <1>1 DEF sockets, TInv, HeardOnce
<1>7. BootstrapsLeft'
  BY <1>1, <1>2, <1>3, <1>4 DEF BootstrapsLeft
<1> QED BY <1>5, <1>6, <1>7 DEF TInv

LEMMA TypeStep == TInv /\ [Next]_vars => TInv'
<1> SUFFICES ASSUME TInv, [Next]_vars PROVE TInv'
  OBVIOUS
<1>1. CASE Sockets
  BY <1>1, AcceptTInv, SocketTInv DEF Sockets
<1>2. CASE Handle
  BY <1>2, ConnectedTInv, OtherEventTInv DEF Handle
<1>3. CASE PollTick
  <2> DEFINE kinds == IF control_out = NoConn THEN <<>>
                      ELSE IF have_config THEN <<"state">> ELSE <<"state", "config">>
  <2>1. kinds \in Seq(CommandKinds)
    <3>1. <<>> \in Seq(CommandKinds)
      BY EmptySeq
    <3>2. <<"state">> \in Seq(CommandKinds) /\ <<"state", "config">> \in Seq(CommandKinds)
      BY DEF CommandKinds
    <3> QED BY <3>1, <3>2
  <2>2. PICK oldest \in 0..next_handle :
          LET kept == {h \in pending : h > oldest}
          IN  /\ Issue(kinds, control_out, kept)
              /\ timeout_notified' = (timeout_notified \/ kept # pending)
    BY <1>3 DEF PollTick
  <2>3. Budget(Len(kinds)) /\ UNCHANGED <<sockets, events, control_out, have_config, config_from>>
    BY <1>3 DEF PollTick
  <2>4. {h \in pending : h > oldest} \in SUBSET Handles /\ timeout_notified' \in BOOLEAN
    BY <2>2 DEF TInv, LinkTypeOK
  <2> HIDE DEF kinds
  <2> QED BY <2>1, <2>2, <2>3, <2>4, AskTInv
<1>4. CASE UserCommand
  <2> DEFINE kinds == <<"call">>
  <2>1. kinds \in Seq(CommandKinds) /\ Len(kinds) = 1
    BY DEF CommandKinds
  <2>2. /\ Budget(1) /\ Issue(kinds, control_out, pending)
        /\ UNCHANGED <<sockets, events, control_out, have_config, config_from, timeout_notified>>
    BY <1>4 DEF UserCommand
  <2>3. pending \in SUBSET Handles /\ timeout_notified' \in BOOLEAN
    BY <2>2 DEF TInv, LinkTypeOK
  <2> HIDE DEF kinds
  <2> QED BY <2>1, <2>2, <2>3, AskTInv
<1>5. CASE UNCHANGED vars
  BY <1>5 DEF vars, sockets, book, TInv, LinkTypeOK, HeardOnce, BootstrapsLeft, Unheard, Announced
<1> QED BY <1>1, <1>2, <1>3, <1>4, <1>5 DEF Next

\* Threads, queues and the loop's book-keeping keep their types; the bound on handles is
\* never passed, whatever order connections come and go in, overlapping ones included.
THEOREM LinkTypeCorrect == Spec => []LinkTypeOK
<1>1. Spec => []TInv
  BY TypeInit, TypeStep, PTL DEF Spec
<1> QED BY <1>1, PTL DEF TInv

-----------------------------------------------------------------------------
(* Connections that never overlap: what the queue holds about them.         *)

LEMMA SessionInit == Init => SInv
BY ConnAssumption
   DEF Init, SInv, LoneInUse, EndsInQueue, MessagesInside, ConfigOfThisLink, Up

\* A step that leaves the queue, the threads and the loop's link alone.
LEMMA QuietSession ==
  ASSUME SInv, UNCHANGED <<events, thread, overlapped, control_out, have_config, config_from>>
  PROVE  SInv'
BY DEF SInv, LoneInUse, InUse, EndsInQueue, MessagesInside, ConfigOfThisLink, Up

\* The domain of the queue before and after a post.
LEMMA PostDomain ==
  ASSUME TInv, NEW e \in LinkEvent, Post(e)
  PROVE  /\ DOMAIN events \subseteq Nat
         /\ DOMAIN events' = DOMAIN events \cup {Len(events) + 1}
         /\ Len(events) + 1 \in DOMAIN events' /\ Len(events) + 1 \in Nat
         /\ \A i \in DOMAIN events : i < Len(events) + 1 /\ events'[i] = events[i]
         /\ events'[Len(events) + 1] = e
<1>1. DOMAIN events = 1..Len(events) /\ Len(events) \in Nat
  BY DEF TInv, LinkTypeOK
<1>2. /\ DOMAIN events' = DOMAIN events \cup {Len(events) + 1}
      /\ \A i \in DOMAIN events : events'[i] = events[i]
      /\ events'[Len(events) + 1] = e
  BY PostEffect DEF TInv, LinkTypeOK
<1> QED BY <1>1, <1>2

LEMMA AcceptSession ==
  ASSUME TInv, SInv, NEW c \in Conns, Accept(c)
  PROVE  SInv'
<1> DEFINE e == [name |-> "connected", conn |-> c]
           n == Len(events) + 1
<1>1. e \in LinkEvent /\ e.name = "connected" /\ e.conn = c
  BY DEF LinkEvent
<1>2. /\ DOMAIN events \subseteq Nat
      /\ DOMAIN events' = DOMAIN events \cup {n} /\ n \in DOMAIN events' /\ n \in Nat
      /\ \A i \in DOMAIN events : i < n /\ events'[i] = events[i]
      /\ events'[n] = e
  <2>1. Post(e)
    BY DEF Accept
  <2> HIDE DEF e
  <2> QED BY <1>1, <2>1, PostDomain
<1> HIDE DEF e, n
<1>3. /\ thread[c] = "new" /\ thread'[c] = "up"
      /\ \A d \in Conns \ {c} : thread'[d] = thread[d]
      /\ Up' = Up \cup {c}
      /\ overlapped' = IF Up = {} THEN overlapped ELSE overlapped \cup Up \cup {c}
      /\ UNCHANGED <<control_out, have_config, config_from>>
  BY DEF Accept, TInv, LinkTypeOK, Up
<1>4. LoneInUse'
  <2> SUFFICES ASSUME NEW d \in Up', d \notin overlapped'
               PROVE  InUse(d)' /\ \A b \in Up' : b = d
    BY DEF LoneInUse
  <2>1. Up = {} /\ d = c
    BY <1>3
  <2>2. \A j \in DOMAIN events' : ~(j > n)
    BY <1>2
  <2> QED BY <1>1, <1>2, <1>3, <2>1, <2>2 DEF InUse
<1>5. EndsInQueue'
  <2> SUFFICES ASSUME NEW d \in Conns, thread'[d] = "done"
               PROVE  /\ control_out = d => \E k \in DOMAIN events' :
                           events'[k].name = "disconnected" /\ events'[k].conn = d
                      /\ \A j \in DOMAIN events' :
                           events'[j].name = "connected" /\ events'[j].conn = d =>
                             \E k \in DOMAIN events' : k > j /\
                                events'[k].name = "disconnected" /\ events'[k].conn = d
    BY <1>3 DEF EndsInQueue
  <2>1. d # c /\ thread[d] = "done"
    BY <1>3
  <2> QED BY <1>1, <1>2, <2>1 DEF SInv, EndsInQueue
<1>6. MessagesInside'
  <2> SUFFICES ASSUME NEW i \in DOMAIN events', events'[i].name = "message",
                      NEW d \in Conns \ (overlapped' \cup {events'[i].conn})
               PROVE  /\ control_out = d => \E j \in DOMAIN events' : j < i /\ events'[j].name # "message"
                      /\ \A j \in DOMAIN events' :
                           j < i /\ events'[j].name = "connected" /\ events'[j].conn = d =>
                             \E k \in DOMAIN events' : j < k /\ k < i /\ events'[k].name # "message"
    BY <1>3 DEF MessagesInside
  <2>1. i \in DOMAIN events /\ d \in Conns \ (overlapped \cup {events[i].conn})
    BY <1>1, <1>2, <1>3
  <2>2. \A j \in DOMAIN events' : j < i => j \in DOMAIN events
    BY <1>2, <2>1
  <2> QED BY <1>2, <2>1, <2>2 DEF SInv, MessagesInside
<1>7. ConfigOfThisLink'
  BY <1>3 DEF SInv, ConfigOfThisLink
<1> QED BY <1>4, <1>5, <1>6, <1>7 DEF SInv

\* A connection that is up and has not overlapped is the only one up; every other one
\* that the loop may still take for its link has its end in the queue.
LEMMA ServeSession ==
  ASSUME TInv, SInv, NEW c \in Conns, Serve(c)
  PROVE  SInv'
<1> DEFINE e == [name |-> "message", conn |-> c,
                 handle |-> Head(wire[c]).handle, kind |-> Head(wire[c]).kind]
           n == Len(events) + 1
<1>1. e \in LinkEvent /\ e.name = "message" /\ e.conn = c
  <2>1. Head(wire[c]) \in Command
    BY DEF Serve, TInv, LinkTypeOK
  <2> QED BY <2>1 DEF Command, LinkEvent
<1>2. UNCHANGED <<thread, overlapped, control_out, have_config, config_from>> /\ c \in Up
  BY DEF Serve, Up
<1>3. CASE events' = events
  BY <1>2, <1>3, QuietSession
<1>4. CASE Post(e)
  <2>1. /\ DOMAIN events \subseteq Nat
        /\ DOMAIN events' = DOMAIN events \cup {n} /\ n \in DOMAIN events' /\ n \in Nat
        /\ \A i \in DOMAIN events : i < n /\ events'[i] = events[i]
        /\ events'[n] = e
    <3> HIDE DEF e
    <3> QED BY <1>1, <1>4, PostDomain
  <2> HIDE DEF e, n
  <2>2. Up' = Up
    BY <1>2 DEF Up
  <2>3. LoneInUse'
    <3> SUFFICES ASSUME NEW d \in Up, d \notin overlapped
                 PROVE  InUse(d)'
      BY <1>2, <2>2 DEF SInv, LoneInUse
    <3>1. InUse(d)
      BY DEF SInv, LoneInUse
    <3> QED BY <1>1, <1>2, <2>1, <3>1 DEF InUse
  <2>4. EndsInQueue'
    <3> SUFFICES ASSUME NEW d \in Conns, thread[d] = "done"
                 PROVE  /\ control_out = d => \E k \in DOMAIN events' :
                             events'[k].name = "disconnected" /\ events'[k].conn = d
                        /\ \A j \in DOMAIN events' :
                             events'[j].name = "connected" /\ events'[j].conn = d =>
                               \E k \in DOMAIN events' : k > j /\
                                  events'[k].name = "disconnected" /\ events'[k].conn = d
      BY <1>2 DEF EndsInQueue
    <3> QED BY <1>1, <2>1 DEF SInv, EndsInQueue
  <2>5. MessagesInside'
    <3> SUFFICES ASSUME NEW i \in DOMAIN events', events'[i].name = "message",
                        NEW d \in Conns \ (overlapped \cup {events'[i].conn})
                 PROVE  /\ control_out = d => \E j \in DOMAIN events' : j < i /\ events'[j].name # "message"
                        /\ \A j \in DOMAIN events' :
                             j < i /\ events'[j].name = "connected" /\ events'[j].conn = d =>
                               \E k \in DOMAIN events' : j < k /\ k < i /\ events'[k].name # "message"
      BY <1>2 DEF MessagesInside
    <3>1. CASE i \in DOMAIN events
      <4>1. \A j \in DOMAIN events' : j < i => j \in DOMAIN events
        BY <2>1, <3>1
      <4> QED BY <2>1, <3>1, <4>1 DEF SInv, MessagesInside
    <3>2. CASE i = n
      <4>1. d # c /\ d \notin overlapped
        BY <1>1, <2>1, <3>2
      <4>2. thread[d] # "up"
        BY <1>2, <4>1 DEF SInv, LoneInUse, Up
      <4>3. thread[d] = "new" \/ thread[d] = "done"
        BY <4>2 DEF TInv, LinkTypeOK
      <4>4. CASE thread[d] = "new"
        BY <1>1, <2>1, <4>4, <3>2 DEF TInv, HeardOnce, Announced
      <4>5. CASE thread[d] = "done"
        BY <1>1, <2>1, <4>5, <3>2 DEF SInv, EndsInQueue
      <4> QED BY <4>3, <4>4, <4>5
    <3> QED BY <2>1, <3>1, <3>2
  <2>6. ConfigOfThisLink'
    BY <1>2 DEF SInv, ConfigOfThisLink
  <2> QED BY <2>3, <2>4, <2>5, <2>6 DEF SInv
<1> QED BY <1>3, <1>4 DEF Serve

LEMMA BreakSession ==
  ASSUME TInv, SInv, NEW c \in Conns, Break(c)
  PROVE  SInv'
<1> DEFINE e == [name |-> "disconnected", conn |-> c]
           n == Len(events) + 1
<1>1. e \in LinkEvent /\ e.name = "disconnected" /\ e.conn = c
  BY DEF LinkEvent
<1>2. /\ DOMAIN events \subseteq Nat
      /\ DOMAIN events' = DOMAIN events \cup {n} /\ n \in DOMAIN events' /\ n \in Nat
      /\ \A i \in DOMAIN events : i < n /\ events'[i] = events[i]
      /\ events'[n] = e
  <2>1. Post(e)
    BY DEF Break
  <2> HIDE DEF e
  <2> QED BY <1>1, <2>1, PostDomain
<1> HIDE DEF e, n
<1>3. /\ c \in Up /\ Up' = Up \ {c}
      /\ \A d \in Conns \ {c} : thread'[d] = thread[d]
      /\ UNCHANGED <<overlapped, control_out, have_config, config_from>>
  BY DEF Break, TInv, LinkTypeOK, Up
<1>4. LoneInUse'
  BY <1>3 DEF SInv, LoneInUse
<1>5. EndsInQueue'
  <2> SUFFICES ASSUME NEW d \in Conns, thread'[d] = "done"
               PROVE  /\ control_out = d => \E k \in DOMAIN events' :
                           events'[k].name = "disconnected" /\ events'[k].conn = d
                      /\ \A j \in DOMAIN events' :
                           events'[j].name = "connected" /\ events'[j].conn = d =>
                             \E k \in DOMAIN events' : k > j /\
                                events'[k].name = "disconnected" /\ events'[k].conn = d
    BY <1>3 DEF EndsInQueue
  <2>1. CASE d = c
    BY <1>1, <1>2, <2>1
  <2>2. CASE d # c
    BY <1>1, <1>2, <1>3, <2>2 DEF SInv, EndsInQueue
  <2> QED BY <2>1, <2>2
<1>6. MessagesInside'
  <2> SUFFICES ASSUME NEW i \in DOMAIN events', events'[i].name = "message",
                      NEW d \in Conns \ (overlapped \cup {events'[i].conn})
               PROVE  /\ control_out = d => \E j \in DOMAIN events' : j < i /\ events'[j].name # "message"
                      /\ \A j \in DOMAIN events' :
                           j < i /\ events'[j].name = "connected" /\ events'[j].conn = d =>
                             \E k \in DOMAIN events' : j < k /\ k < i /\ events'[k].name # "message"
    BY <1>3 DEF MessagesInside
  <2>1. i \in DOMAIN events
    BY <1>1, <1>2
  <2>2. \A j \in DOMAIN events' : j < i => j \in DOMAIN events
    BY <1>2, <2>1
  <2> QED BY <1>2, <2>1, <2>2 DEF SInv, MessagesInside
<1>7. ConfigOfThisLink'
  BY <1>3 DEF SInv, ConfigOfThisLink
<1> QED BY <1>4, <1>5, <1>6, <1>7 DEF SInv

\* The queue after its first event is taken, and what that event does to the link.
LEMMA HandleEffect ==
  ASSUME TInv, Handle
  PROVE  /\ DOMAIN events \subseteq Nat \ {0} /\ DOMAIN events' \subseteq Nat \ {0}
         /\ 1 \in DOMAIN events /\ events[1] \in LinkEvent
         /\ \A i \in DOMAIN events' : i + 1 \in DOMAIN events /\ events'[i] = events[i + 1]
         /\ \A i \in DOMAIN events : i # 1 => i - 1 \in DOMAIN events' /\ events'[i - 1] = events[i]
         /\ UNCHANGED <<thread, overlapped>>
         /\ events[1].conn \in Conns
         /\ \/ events[1].name = "connected" /\ HandleConnected(events[1].conn)
            \/ events[1].name = "disconnected" /\ HandleDisconnected
            \/ events[1].name = "message" /\ HandleMessage(events[1])
<1>1. events \in Seq(LinkEvent) /\ events # <<>> /\ events' = Tail(events)
  BY DEF Handle, TInv, LinkTypeOK
<1>2. /\ Head(events) = events[1] /\ events[1] \in LinkEvent /\ 1 \in DOMAIN events
      /\ DOMAIN events' = 1..(Len(events) - 1) /\ Len(events) \in Nat \ {0}
      /\ \A i \in DOMAIN events' : i + 1 \in DOMAIN events /\ events'[i] = events[i + 1]
      /\ \A i \in DOMAIN events : i = 1 \/ i - 1 \in DOMAIN events'
  BY <1>1, TailEffect
<1>3. DOMAIN events = 1..Len(events)
  BY <1>1
<1>4. \A i \in DOMAIN events : i # 1 => i - 1 \in DOMAIN events' /\ events'[i - 1] = events[i]
  <2> SUFFICES ASSUME NEW i \in DOMAIN events, i # 1
               PROVE  i - 1 \in DOMAIN events' /\ events'[i - 1] = events[i]
    OBVIOUS
  <2>1. (i - 1) + 1 = i
    BY <1>3
  <2> QED BY <1>2, <2>1
<1>5. events[1].conn \in Conns
  BY <1>2 DEF LinkEvent
<1> QED BY <1>2, <1>3, <1>4, <1>5 DEF Handle, sockets

LEMMA HandleSession ==
  ASSUME TInv, SInv, Handle
  PROVE  SInv'
<1> DEFINE e == events[1]
<1>1. /\ DOMAIN events \subseteq Nat \ {0} /\ DOMAIN events' \subseteq Nat \ {0}
      /\ 1 \in DOMAIN events
      /\ \A i \in DOMAIN events' : i + 1 \in DOMAIN events /\ events'[i] = events[i + 1]
      /\ \A i \in DOMAIN events : i # 1 => i - 1 \in DOMAIN events' /\ events'[i - 1] = events[i]
      /\ UNCHANGED <<thread, overlapped>>
      /\ e.conn \in Conns
  BY HandleEffect
<1>2. control_out' = IF e.name = "connected" THEN e.conn
                     ELSE IF e.name = "disconnected" THEN NoConn ELSE control_out
  BY HandleEffect DEF HandleConnected, HandleDisconnected, HandleMessage
<1>3. e.name \in {"connected", "disconnected", "message"}
  BY HandleEffect
<1>4. LoneInUse'
  <2> SUFFICES ASSUME NEW c \in Up, c \notin overlapped
               PROVE  InUse(c)'
    BY <1>1 DEF SInv, LoneInUse, Up
  <2>1. InUse(c)
    BY DEF SInv, LoneInUse
  <2>2. CASE control_out = c /\ \A j \in DOMAIN events : events[j].name = "message"
    BY <1>1, <1>2, <2>2 DEF InUse
  <2>3. CASE \E i \in DOMAIN events :
               /\ events[i].name = "connected" /\ events[i].conn = c
               /\ \A j \in DOMAIN events : j > i => events[j].name = "message"
    <3> PICK i \in DOMAIN events :
               /\ events[i].name = "connected" /\ events[i].conn = c
               /\ \A j \in DOMAIN events : j > i => events[j].name = "message"
      BY <2>3
    <3>1. CASE i = 1
      <4>1. \A j \in DOMAIN events' : j + 1 > 1
        BY <1>1
      <4> QED BY <1>1, <1>2, <3>1, <4>1 DEF InUse
    <3>2. CASE i # 1
      <4>1. i \in Nat /\ \A j \in DOMAIN events' : j \in Nat /\ (j > i - 1 => j + 1 > i)
        BY <1>1
      <4>2. \A j \in DOMAIN events' : j > i - 1 => events'[j].name = "message"
        BY <1>1, <4>1
      <4> QED BY <1>1, <3>2, <4>2 DEF InUse
    <3> QED BY <3>1, <3>2
  <2> QED BY <2>1, <2>2, <2>3 DEF InUse
<1>5. EndsInQueue'
  <2> SUFFICES ASSUME NEW c \in Conns, thread[c] = "done"
               PROVE  /\ control_out' = c => \E k \in DOMAIN events' :
                           events'[k].name = "disconnected" /\ events'[k].conn = c
                      /\ \A j \in DOMAIN events' :
                           events'[j].name = "connected" /\ events'[j].conn = c =>
                             \E k \in DOMAIN events' : k > j /\
                                events'[k].name = "disconnected" /\ events'[k].conn = c
    BY <1>1 DEF EndsInQueue
  <2>1. ASSUME control_out' = c
        PROVE  \E k \in DOMAIN events' : events'[k].name = "disconnected" /\ events'[k].conn = c
    <3>1. PICK k \in DOMAIN events : events[k].name = "disconnected" /\ events[k].conn = c /\ k # 1
      <4>1. c # NoConn
        BY ConnAssumption
      <4>2. CASE e.name = "connected"
        <5>1. e.conn = c
          BY <1>2, <2>1, <4>2
        <5>2. PICK k \in DOMAIN events : k > 1 /\ events[k].name = "disconnected" /\ events[k].conn = c
          BY <1>1, <4>2, <5>1 DEF SInv, EndsInQueue
        <5> QED BY <1>1, <5>2
      <4>3. CASE e.name = "message"
        BY <1>2, <2>1, <4>3 DEF SInv, EndsInQueue
      <4> QED BY <1>2, <1>3, <2>1, <4>1, <4>2, <4>3
    <3> QED BY <1>1, <3>1
  <2>2. ASSUME NEW j \in DOMAIN events', events'[j].name = "connected", events'[j].conn = c
        PROVE  \E k \in DOMAIN events' : k > j /\
                 events'[k].name = "disconnected" /\ events'[k].conn = c
    <3>1. PICK k \in DOMAIN events : k > j + 1 /\ events[k].name = "disconnected" /\ events[k].conn = c
      BY <1>1, <2>2 DEF SInv, EndsInQueue
    <3>2. k # 1 /\ k - 1 > j
      BY <1>1, <3>1
    <3> QED BY <1>1, <3>1, <3>2
  <2> QED BY <2>1, <2>2
<1>6. MessagesInside'
  <2> SUFFICES ASSUME NEW i \in DOMAIN events', events'[i].name = "message",
                      NEW c \in Conns \ (overlapped \cup {events'[i].conn})
               PROVE  /\ control_out' = c => \E j \in DOMAIN events' : j < i /\ events'[j].name # "message"
                      /\ \A j \in DOMAIN events' :
                           j < i /\ events'[j].name = "connected" /\ events'[j].conn = c =>
                             \E k \in DOMAIN events' : j < k /\ k < i /\ events'[k].name # "message"
    BY <1>1 DEF MessagesInside
  <2>1. /\ i + 1 \in DOMAIN events /\ events[i + 1] = events'[i] /\ i \in Nat \ {0}
        /\ c \in Conns \ (overlapped \cup {events[i + 1].conn})
    BY <1>1
  <2>2. ASSUME control_out' = c
        PROVE  \E j \in DOMAIN events' : j < i /\ events'[j].name # "message"
    <3>1. PICK j \in DOMAIN events : j < i + 1 /\ j # 1 /\ events[j].name # "message"
      <4>1. c # NoConn
        BY ConnAssumption
      <4>2. CASE e.name = "connected"
        <5>1. e.conn = c
          BY <1>2, <2>2, <4>2
        <5>2. 1 < i + 1
          BY <2>1
        <5>3. PICK j \in DOMAIN events : 1 < j /\ j < i + 1 /\ events[j].name # "message"
          BY <1>1, <2>1, <4>2, <5>1, <5>2 DEF SInv, MessagesInside
        <5> QED BY <1>1, <5>3
      <4>3. CASE e.name = "message"
        BY <1>2, <2>1, <2>2, <4>3 DEF SInv, MessagesInside
      <4> QED BY <1>2, <1>3, <2>2, <4>1, <4>2, <4>3
    <3>2. j - 1 < i
      BY <1>1, <2>1, <3>1
    <3> QED BY <1>1, <3>1, <3>2
  <2>3. ASSUME NEW j \in DOMAIN events', j < i, events'[j].name = "connected", events'[j].conn = c
        PROVE  \E k \in DOMAIN events' : j < k /\ k < i /\ events'[k].name # "message"
    <3>1. j \in Nat /\ j + 1 < i + 1
      BY <1>1, <2>1, <2>3
    <3>2. PICK k \in DOMAIN events : j + 1 < k /\ k < i + 1 /\ events[k].name # "message"
      BY <1>1, <2>1, <2>3, <3>1 DEF SInv, MessagesInside
    <3>3. k # 1 /\ j < k - 1 /\ k - 1 < i
      BY <1>1, <2>1, <3>1, <3>2
    <3> QED BY <1>1, <3>2, <3>3
  <2> QED BY <2>2, <2>3
<1>7. ConfigOfThisLink'
  <2>1. CASE e.name = "connected" /\ HandleConnected(e.conn)
    BY <2>1 DEF HandleConnected, ConfigOfThisLink
  <2>2. CASE e.name = "disconnected" /\ HandleDisconnected
    BY <2>2 DEF HandleDisconnected, ConfigOfThisLink
  <2>3. CASE e.name = "message" /\ HandleMessage(e)
    <3>1. control_out \in {NoConn, e.conn} \cup overlapped
      <4> SUFFICES ASSUME control_out \in Conns \ (overlapped \cup {e.conn}) PROVE FALSE
        BY DEF TInv, LinkTypeOK
      <4>1. \E j \in DOMAIN events : j < 1
        BY <1>1, <2>3 DEF SInv, MessagesInside
      <4> QED BY <1>1, <4>1
    <3> QED BY <1>1, <2>3, <3>1 DEF HandleMessage, SInv, ConfigOfThisLink
  <2> QED BY <2>1, <2>2, <2>3, HandleEffect
<1> QED BY <1>4, <1>5, <1>6, <1>7 DEF SInv

LEMMA SessionStep ==
  ASSUME TInv, SInv, [Next]_vars
  PROVE  SInv'
<1>1. CASE Sockets
  <2> PICK c \in Conns : Accept(c) \/ Flush(c) \/ Serve(c) \/ PeerGone(c) \/ Break(c)
    BY <1>1 DEF Sockets
  <2>1. CASE Flush(c) \/ PeerGone(c)
    BY <2>1, QuietSession DEF Flush, PeerGone
  <2> QED BY <2>1, AcceptSession, ServeSession, BreakSession
<1>2. CASE Handle
  BY <1>2, HandleSession
<1>3. CASE PollTick \/ UserCommand \/ UNCHANGED vars
  BY <1>3, QuietSession DEF PollTick, UserCommand, vars, sockets
<1> QED BY <1>1, <1>2, <1>3 DEF Next

LEMMA Sessioned == Spec => [](TInv /\ SInv)
<1>1. TInv /\ SInv /\ [Next]_vars => (TInv /\ SInv)'
  BY TypeStep, SessionStep
<1> QED BY <1>1, TypeInit, SessionInit, PTL DEF Spec

\* Whatever overlapped before it and whatever ends late: when the loop has heard
\* everything, it sends on the connection that is up, if that one never overlapped.
THEOREM LoneLinkUsedHolds == Spec => []LoneLinkUsed
<1>1. TInv /\ SInv => LoneLinkUsed
  <2> SUFFICES ASSUME TInv, SInv, events = <<>>, NEW c \in Up \ overlapped
               PROVE  control_out = c
    BY DEF LoneLinkUsed
  <2>1. DOMAIN events = {}
    OBVIOUS
  <2> QED BY <2>1 DEF SInv, LoneInUse, InUse
<1> QED BY <1>1, Sessioned, PTL

\* An answer that comes over one link is never taken for the configuration of another,
\* unless that other overlapped.
THEOREM ConfigOfThisLinkHolds == Spec => []ConfigOfThisLink
<1>1. TInv /\ SInv => ConfigOfThisLink
  BY DEF SInv
<1> QED BY <1>1, Sessioned, PTL

-----------------------------------------------------------------------------
(* The channel implements LinkSessions.                                     *)

LEMMA SessionsInit == Init => Sessions!Init
<1> SUFFICES ASSUME Init PROVE Sessions!Init
  OBVIOUS
<1>1. {c \in Conns : thread[c] # "new"} = {}
  BY DEF Init
<1> QED BY <1>1 DEF Init, Sessions!Init

\* A step that leaves the loop's link, the announcements and the accepted connections
\* alone is a stutter or the moment a configuration is learnt.
LEMMA SessionsQuiet ==
  ASSUME UNCHANGED <<control_out, have_config>>, Announced' = Announced,
         \A c \in Conns : thread'[c] = "new" <=> thread[c] = "new"
  PROVE  UNCHANGED Sessions!vars
BY DEF Sessions!vars

LEMMA SessionsSocket ==
  ASSUME TInv, NEW c \in Conns,
         Accept(c) \/ Flush(c) \/ Serve(c) \/ PeerGone(c) \/ Break(c)
  PROVE  UNCHANGED Sessions!vars
<1>1. events \in Seq(LinkEvent) /\ thread \in [Conns -> {"new", "up", "done"}]
  BY DEF TInv, LinkTypeOK
<1>2. UNCHANGED <<control_out, have_config>>
  BY DEF Accept, Flush, Serve, PeerGone, Break
<1>3. CASE Accept(c)
  <2> DEFINE e == [name |-> "connected", conn |-> c]
  <2>1. e \in LinkEvent /\ e.name = "connected" /\ e.conn = c
    BY DEF LinkEvent
  <2>2. Announced' = Announced \cup {c}
    <3>1. Post(e)
      BY <1>3 DEF Accept
    <3> HIDE DEF e
    <3> QED BY <1>1, <2>1, <3>1, PostEffect
  <2>3. {d \in Conns : thread'[d] # "new"} = {d \in Conns : thread[d] # "new"} \cup {c}
    BY <1>1, <1>3 DEF Accept
  <2>4. c \notin {d \in Conns : thread[d] # "new"}
    BY <1>3 DEF Accept
  <2> QED BY <1>2, <2>2, <2>3, <2>4 DEF Sessions!vars
<1>4. CASE Serve(c) \/ Break(c)
  <2>1. \A d \in Conns : thread'[d] = "new" <=> thread[d] = "new"
    BY <1>1, <1>4 DEF Serve, Break
  <2>2. events' = events \/ \E e \in LinkEvent : Post(e) /\ e.name # "connected"
    <3>1. CASE Break(c)
      <4>1. [name |-> "disconnected", conn |-> c] \in LinkEvent
        BY DEF LinkEvent
      <4> QED BY <3>1, <4>1 DEF Break
    <3>2. CASE Serve(c)
      <4>1. Head(wire[c]) \in Command
        BY <3>2 DEF Serve, TInv, LinkTypeOK
      <4>2. [name |-> "message", conn |-> c, handle |-> Head(wire[c]).handle,
             kind |-> Head(wire[c]).kind] \in LinkEvent
        BY <4>1 DEF Command, LinkEvent
      <4> QED BY <3>2, <4>2 DEF Serve
    <3> QED BY <1>4, <3>1, <3>2
  <2>3. Announced' = Announced
    <3>1. CASE events' = events
      BY <3>1 DEF Announced
    <3>2. ASSUME NEW e \in LinkEvent, Post(e), e.name # "connected"
          PROVE  Announced' = Announced
      BY <1>1, <3>2, PostEffect
    <3> QED BY <2>2, <3>1, <3>2
  <2> QED BY <1>2, <2>1, <2>3, SessionsQuiet
<1>5. CASE Flush(c) \/ PeerGone(c)
  <2>1. UNCHANGED <<thread, events>>
    BY <1>5 DEF Flush, PeerGone
  <2> QED BY <1>2, <2>1, SessionsQuiet DEF Announced
<1> QED BY <1>3, <1>4, <1>5

LEMMA SessionsHandle ==
  ASSUME TInv, Handle
  PROVE  [Sessions!Next]_(Sessions!vars)
<1> DEFINE e == events[1]
           accepted == {c \in Conns : thread[c] # "new"}
           past == accepted \ (Announced \cup {control_out})
           over == {control_out} \ {NoConn}
<1>1. Announced' = IF e.name = "connected" THEN Announced \ {e.conn} ELSE Announced
  <2>1. events \in Seq(LinkEvent) /\ events # <<>> /\ events' = Tail(events)
    BY DEF Handle, TInv, LinkTypeOK
  <2> QED BY <2>1, AnnouncedRest, TailEffect DEF TInv
<1>2. /\ \/ e.name = "connected" /\ HandleConnected(e.conn)
         \/ e.name = "disconnected" /\ HandleDisconnected
         \/ e.name = "message" /\ HandleMessage(e)
      /\ accepted' = accepted /\ e.conn \in Conns /\ 1 \in DOMAIN events
  BY HandleEffect
<1>3. control_out # NoConn => control_out \in accepted /\ control_out \notin Announced
  BY DEF TInv, LinkTypeOK, HeardOnce
<1>4. CASE e.name = "connected" /\ HandleConnected(e.conn)
  <2>1. e.conn \in Announced
    BY <1>2, <1>4 DEF Announced
  <2>2. e.conn # control_out /\ e.conn \notin past
    BY <2>1 DEF TInv, HeardOnce
  <2>3. past' = past \cup over
    <3>1. control_out' = e.conn
      BY <1>4 DEF HandleConnected
    <3>2. NoConn \notin accepted
      BY ConnAssumption
    <3> QED BY <1>1, <1>2, <1>3, <1>4, <2>1, <2>2, <3>1, <3>2
  <2>4. Sessions!Open(e.conn)
    BY <1>4, <2>2, <2>3 DEF Sessions!Open, Sessions!Ended, HandleConnected
  <2> QED BY <1>2, <2>4 DEF Sessions!Next
<1>5. CASE e.name = "disconnected" /\ HandleDisconnected
  <2>1. control_out' = NoConn /\ NoConn \notin accepted
    BY <1>5, ConnAssumption DEF HandleDisconnected
  <2>2. past' = past \cup over
    BY <1>1, <1>2, <1>3, <1>5, <2>1
  <2>3. CASE control_out = NoConn
    BY <2>1, <2>2, <2>3 DEF Sessions!vars
  <2>4. CASE control_out # NoConn
    <3>1. Sessions!Close
      BY <2>1, <2>2, <2>4 DEF Sessions!Close, Sessions!Ended
    <3> QED BY <3>1 DEF Sessions!Next
  <2> QED BY <2>3, <2>4
<1>6. CASE e.name = "message" /\ HandleMessage(e)
  <2>1. past' = past /\ control_out' = control_out
    BY <1>1, <1>2, <1>6 DEF HandleMessage
  <2>2. CASE have_config' = have_config \/ control_out = NoConn
    BY <2>1, <2>2 DEF Sessions!vars
  <2>3. CASE have_config' = TRUE /\ control_out # NoConn
    <3>1. Sessions!Learn
      BY <2>1, <2>3 DEF Sessions!Learn
    <3> QED BY <3>1 DEF Sessions!Next
  <2> QED BY <1>6, <2>2, <2>3 DEF HandleMessage
<1> QED BY <1>2, <1>4, <1>5, <1>6

LEMMA SessionsStep ==
  ASSUME TInv, [Next]_vars
  PROVE  [Sessions!Next]_(Sessions!vars)
<1>1. CASE Sockets
  BY <1>1, SessionsSocket DEF Sockets
<1>2. CASE Handle
  BY <1>2, SessionsHandle
<1>3. CASE PollTick \/ UserCommand \/ UNCHANGED vars
  <2>1. UNCHANGED <<thread, events, control_out, have_config>>
    BY <1>3 DEF PollTick, UserCommand, vars, sockets
  <2> QED BY <2>1, SessionsQuiet DEF Announced
<1> QED BY <1>1, <1>2, <1>3 DEF Next

\* What the threads, the queue and the loop do together is one session at a time,
\* overlapping connections or not: each starts without its configuration and on a
\* connection never used before, and a connection given up is not used again.
THEOREM OneSessionAtATimeHolds == Spec => OneSessionAtATime
<1>1. TInv /\ [Next]_vars => [Sessions!Next]_(Sessions!vars)
  BY SessionsStep
<1>2. Spec => []TInv
  BY TypeInit, TypeStep, PTL DEF Spec
<1> QED BY <1>1, <1>2, SessionsInit, PTL DEF Spec, OneSessionAtATime, Sessions!Spec
=============================================================================
