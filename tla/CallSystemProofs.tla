-------------------------- MODULE CallSystemProofs --------------------------
(***************************************************************************)
(* Theorems about CallSystem for every set of call identifiers and kinds   *)
(* of call and every bound.  What the code promises only while the control *)
(* link stays up, or for some of the operator's modes, says so.            *)
(***************************************************************************)
EXTENDS CallSystem, CallControlProofs, SequenceTheorems, FiniteSetTheorems

-----------------------------------------------------------------------------
(* The two queues, as far as an invariant looks at them.                    *)

\* Behind q, all of S and nothing else was put.
Grown(q, r, S) ==
  /\ DOMAIN q \subseteq DOMAIN r
  /\ \A i \in DOMAIN q : r[i] = q[i]
  /\ \A i \in DOMAIN r \ DOMAIN q : r[i] \in S /\ \A j \in DOMAIN q : j < i
  /\ \A m \in S : \E i \in DOMAIN r \ DOMAIN q : r[i] = m

\* One thing at most was put behind q.
Once(q, r) == \A i, j \in DOMAIN r \ DOMAIN q : i = j

\* The first of q was taken.
Taken(q, r) ==
  /\ 1 \in DOMAIN q /\ Head(q) = q[1]
  /\ \A i \in DOMAIN r : i + 1 \in DOMAIN q /\ r[i] = q[i + 1]
  /\ \A i \in DOMAIN q \ {1} : i - 1 \in DOMAIN r /\ r[i - 1] = q[i]

LEMMA TakenTail ==
  ASSUME NEW S, NEW q \in Seq(S), q # <<>>
  PROVE  Tail(q) \in Seq(S) /\ Taken(q, Tail(q)) /\ Head(q) \in S
<1>1. /\ Head(q) \in S /\ Head(q) = q[1] /\ Tail(q) \in Seq(S)
      /\ Len(Tail(q)) = Len(q) - 1 /\ Len(q) \in Nat \ {0}
      /\ \A i \in 1 .. Len(Tail(q)) : Tail(q)[i] = q[i + 1]
  BY HeadTailProperties, EmptySeq
<1>2. DOMAIN q = 1 .. Len(q) /\ DOMAIN Tail(q) = 1 .. Len(q) - 1
  BY <1>1
<1>3. \A i \in DOMAIN q \ {1} : i - 1 \in DOMAIN Tail(q) /\ Tail(q)[i - 1] = q[i]
  <2> TAKE i \in DOMAIN q \ {1}
  <2>1. i - 1 \in 1 .. Len(Tail(q)) /\ (i - 1) + 1 = i
    BY <1>1, <1>2
  <2> QED BY <1>1, <2>1
<1> QED BY <1>1, <1>2, <1>3 DEF Taken

LEMMA GrownConcat ==
  ASSUME NEW S, NEW q \in Seq(S), NEW r \in Seq(S)
  PROVE  q \o r \in Seq(S) /\ Grown(q, q \o r, {r[i] : i \in DOMAIN r})
<1>1. /\ q \o r \in Seq(S) /\ Len(q \o r) = Len(q) + Len(r)
      /\ \A i \in 1 .. Len(q) + Len(r) : (q \o r)[i] = IF i <= Len(q) THEN q[i] ELSE r[i - Len(q)]
  BY ConcatProperties
<1>2. /\ DOMAIN q = 1 .. Len(q) /\ DOMAIN r = 1 .. Len(r) /\ Len(q) \in Nat /\ Len(r) \in Nat
      /\ DOMAIN (q \o r) = 1 .. Len(q) + Len(r)
  BY <1>1
<1>3. \A i \in DOMAIN r : /\ i + Len(q) \in DOMAIN (q \o r) \ DOMAIN q
                          /\ (q \o r)[i + Len(q)] = r[i]
  BY <1>1, <1>2
<1>4. \A i \in DOMAIN (q \o r) \ DOMAIN q : /\ i - Len(q) \in DOMAIN r /\ (q \o r)[i] = r[i - Len(q)]
                                            /\ \A j \in DOMAIN q : j < i
  BY <1>1, <1>2
<1>5. \A i \in DOMAIN q : i \in DOMAIN (q \o r) /\ (q \o r)[i] = q[i]
  BY <1>1, <1>2
<1> QED BY <1>1, <1>3, <1>4, <1>5 DEF Grown

LEMMA GrownAppend ==
  ASSUME NEW S, NEW q \in Seq(S), NEW e \in S
  PROVE  Append(q, e) \in Seq(S) /\ Grown(q, Append(q, e), {e}) /\ Once(q, Append(q, e))
<1>1. /\ Append(q, e) \in Seq(S) /\ Len(Append(q, e)) = Len(q) + 1
      /\ \A i \in 1 .. Len(q) : Append(q, e)[i] = q[i]
      /\ Append(q, e)[Len(q) + 1] = e
  BY AppendProperties
<1>2. DOMAIN q = 1 .. Len(q) /\ DOMAIN Append(q, e) = 1 .. Len(q) + 1 /\ Len(q) \in Nat
  BY <1>1
<1>3. \A i \in DOMAIN Append(q, e) \ DOMAIN q : i = Len(q) + 1
  BY <1>2
<1> QED BY <1>1, <1>2, <1>3 DEF Grown, Once

LEMMA GrownSame == ASSUME NEW q PROVE Grown(q, q, {})
  BY DEF Grown

LEMMA SmallSets ==
  /\ SetToSeq({}) = <<>>
  /\ \A m : SetToSeq({m}) = <<m>>
<1>1. SetToSeq({}) = <<>>
  <2>1. [x \in 1..0 |-> x] \in [1..0 -> {}] /\ IsInjective([x \in 1..0 |-> x])
    BY DEF IsInjective
  <2>2. SetToSeq({}) \in [1..0 -> {}]
    BY <2>1, FS_EmptySet DEF SetToSeq
  <2>3. ASSUME NEW f \in [1..0 -> {}] PROVE f = <<>>
    BY <2>3
  <2> QED BY <2>2, <2>3
<1>2. ASSUME NEW m PROVE SetToSeq({m}) = <<m>>
  <2>1. [x \in 1..1 |-> m] \in [1..1 -> {m}] /\ IsInjective([x \in 1..1 |-> m])
    BY DEF IsInjective
  <2>2. SetToSeq({m}) \in [1..1 -> {m}]
    BY <2>1, FS_Singleton DEF SetToSeq
  <2>3. ASSUME NEW f \in [1..1 -> {m}] PROVE f = <<m>>
    BY <2>3
  <2> QED BY <2>2, <2>3
<1> QED BY <1>1, <1>2

-----------------------------------------------------------------------------
(* What a step of the application does to each call, and what it sends.     *)

\* The fields of a call that only events and buttons about it may change.
SameCall(c) ==
  /\ calls'[c].state = calls[c].state
  /\ calls'[c].group = calls[c].group /\ calls'[c].simplex = calls[c].simplex
  /\ calls'[c].rang = calls[c].rang /\ calls'[c].answered = calls[c].answered

\* What an event other than a release makes of its call, known before or not.
AsTold(e) ==
  LET c == calls[e.cid]
      d == calls'[e.cid]
  IN  /\ d.state # "Absent"
      /\ d.answered = c.answered
      /\ d.rang = (c.rang \/ d.state = "Incoming")
      /\ e.name = "setup" => /\ d.group = (c.group \/ e.kind.group)
                             /\ d.simplex = e.kind.simplex
                             /\ d.state = IF d.group THEN "Active" ELSE "Incoming"
      /\ e.name # "setup" =>
           /\ c.group => d.group
           /\ d.group => \/ c.group \/ dialing = "group"
                         \/ e.name = "connect" /\ e.kind.group
           /\ c.state # "Absent" /\ dialing = "none" => d.simplex = c.simplex
      /\ e.name = "connect" => d.state = "Active"
      /\ e.name \in {"proceed", "alert"} => d.state \in {"Proceeding", "Alerting"}
      /\ e.name \in {"tx", "notify"} =>
           \/ d.state = c.state
           \/ c.state \in {"Absent", "Setup"} /\ d.state \in {"Setup", "Active"}

\* emit_ringing_alerts changes nothing but the mark.
LEMMA AnnouncedFields ==
  ASSUME NEW table \in [Cids -> CallRecord], NEW c \in Cids
  PROVE  /\ Announced(table)[c].state = table[c].state
         /\ Announced(table)[c].group = table[c].group
         /\ Announced(table)[c].simplex = table[c].simplex
         /\ Announced(table)[c].rang = table[c].rang
         /\ Announced(table)[c].answered = table[c].answered
         /\ ~NeedsAlert(table[c]) => Announced(table)[c] = table[c]
  BY DEF Announced, CallRecord

\* A message about one call touches no other, and at most announces this one.
LEMMA EventEffect ==
  ASSUME IInv, NEW cid \in Cids, NEW arm \in CallRecord, NEW binds \in BOOLEAN,
         CallEvent(cid, arm, binds)
  PROVE  /\ \A c \in Cids \ {cid} : SameCall(c)
         /\ calls'[cid].state = arm.state /\ calls'[cid].answered = arm.answered
         /\ calls'[cid].rang = (arm.rang \/ arm.state = "Incoming")
         /\ calls'[cid].group = (arm.group \/ (binds /\ dialing = "group"))
         /\ calls'[cid].simplex =
              IF binds /\ dialing # "none" THEN dialing # "duplex" ELSE arm.simplex
         /\ sent' \in {{}, {Cmd("alert", cid)}}
         /\ ~grp_call.open => grp_call' = grp_call
         /\ dialing' \in {"none", dialing}
<1> DEFINE b     == IF binds THEN Bound(arm) ELSE arm
           c     == Stamped(b)
           table == [calls EXCEPT ![cid] = c]
<1>1. /\ b \in CallRecord /\ b.state = arm.state /\ b.answered = arm.answered /\ b.rang = arm.rang
      /\ b.group = (arm.group \/ (binds /\ dialing = "group"))
      /\ b.simplex = IF binds /\ dialing # "none" THEN dialing # "duplex" ELSE arm.simplex
  <2>1. CASE binds /\ dialing # "none"
    <3> DEFINE g == arm.group \/ dialing = "group"
               s == dialing # "duplex"
    <3>1. b = [arm EXCEPT !.group = g, !.simplex = s]
      BY <2>1 DEF Bound
    <3>2. g \in BOOLEAN /\ s \in BOOLEAN /\ arm.group \in BOOLEAN
      BY DEF CallRecord
    <3> HIDE DEF g, s, b
    <3>3. /\ b \in CallRecord /\ b.state = arm.state /\ b.answered = arm.answered
          /\ b.rang = arm.rang /\ b.group = g /\ b.simplex = s
      BY <3>1, <3>2 DEF CallRecord
    <3> QED BY <2>1, <3>3 DEF g, s
  <2>2. CASE ~(binds /\ dialing # "none")
    <3>1. b = arm
      BY <2>2 DEF Bound
    <3>2. binds /\ dialing = "group" => FALSE
      BY <2>2
    <3>3. arm.group \in BOOLEAN
      BY DEF CallRecord
    <3> HIDE DEF b
    <3> QED BY <2>2, <3>1, <3>2, <3>3
  <2> QED BY <2>1, <2>2
<1> HIDE DEF b
<1>2. /\ c \in CallRecord /\ c.state = b.state /\ c.answered = b.answered
      /\ c.rang = (b.rang \/ b.state = "Incoming") /\ c.group = b.group /\ c.simplex = b.simplex
  BY <1>1 DEF Stamped, CallRecord
<1> HIDE DEF c
<1>3. /\ table \in [Cids -> CallRecord] /\ table[cid] = c
      /\ \A x \in Cids \ {cid} : table[x] = calls[x]
  BY <1>2 DEF IInv, TypeOK
<1>4. /\ calls' = Announced(table) /\ Send(AlertCommands(table))
      /\ dialing' = IF binds THEN "none" ELSE dialing
      /\ ~grp_call.open => grp_call' = grp_call
  BY DEF CallEvent, c, b
<1> HIDE DEF table
<1>5. \A x \in Cids : /\ calls'[x].state = table[x].state /\ calls'[x].group = table[x].group
                      /\ calls'[x].simplex = table[x].simplex /\ calls'[x].rang = table[x].rang
                      /\ calls'[x].answered = table[x].answered
  BY <1>3, <1>4, AnnouncedFields
<1>6. sent' \in {{}, {Cmd("alert", cid)}}
  <2>1. \A x \in Cids : NeedsAlert(table[x]) => x = cid
    BY <1>3 DEF IInv, RingingAnnounced
  <2>2. AlertCommands(table) \in {{}, {Cmd("alert", cid)}}
    BY <2>1 DEF AlertCommands
  <2> QED BY <1>4, <2>2 DEF Send
<1>7. ~grp_call.open => grp_call' = grp_call
  BY <1>4
<1> QED BY <1>1, <1>2, <1>3, <1>4, <1>5, <1>6, <1>7 DEF SameCall

\* The record an event finds, in terms of the table.
LEMMA EnteredFields ==
  ASSUME IInv, NEW cid \in Cids
  PROVE  /\ Entered(cid) \in CallRecord
         /\ Entered(cid).group = calls[cid].group
         /\ Entered(cid).rang = calls[cid].rang
         /\ Entered(cid).answered = calls[cid].answered
         /\ calls[cid].state # "Absent" => Entered(cid) = calls[cid]
         /\ calls[cid].state = "Absent" => Entered(cid).state = "Setup"
<1>1. CASE cid \in Known(calls)
  BY <1>1, EnteredType DEF Entered, Known, IInv
<1>2. CASE cid \notin Known(calls)
  <2>1. calls[cid] = NoCall /\ calls[cid].state = "Absent"
    BY <1>2 DEF Known, IInv, AbsentCallsBlank
  <2> QED BY <1>2, <2>1, EnteredType DEF Entered, FreshCall, NoCall, IInv
<1> QED BY <1>1, <1>2

\* The kind of an event's call is one a setup indication may announce.
KindKnown(e) == e.name = "setup" => e.kind \in Kinds

\* Every event but a release: its call is in the table afterwards, as the event tells.
LEMMA ArmEffect ==
  ASSUME IInv, NEW e \in Event, KindKnown(e), Handle(e), e.name # "release"
  PROVE  /\ \A c \in Cids \ {e.cid} : SameCall(c)
         /\ AsTold(e)
         /\ sent' \in {{}, {Cmd("alert", e.cid)}}
         /\ ~grp_call.open => grp_call' = grp_call
         /\ dialing' \in {"none", dialing}
         /\ UNCHANGED <<radio, ptt_held, local_end, mic_muted>>
         /\ logged' = {} /\ SyncUplink
<1> DEFINE cid  == e.cid
           c    == Entered(cid)
           Arm(arm, binds) ==
             /\ arm \in CallRecord /\ binds \in BOOLEAN /\ CallEvent(cid, arm, binds)
             /\ arm.state # "Absent" /\ arm.answered = c.answered /\ arm.rang = c.rang
             /\ e.name = "setup" => /\ arm.group = (c.group \/ e.kind.group) /\ ~binds
                                    /\ arm.simplex = e.kind.simplex
                                    /\ arm.state = IF arm.group THEN "Active" ELSE "Incoming"
             /\ e.name # "setup" => /\ arm.group = (c.group \/ (e.name = "connect" /\ e.kind.group))
                                    /\ arm.simplex = c.simplex
                                    /\ arm.state = "Incoming" => c.state = "Incoming"
             /\ e.name = "connect" => arm.state = "Active"
             /\ e.name \in {"proceed", "alert"} => arm.state \in {"Proceeding", "Alerting"}
             /\ e.name \in {"tx", "notify"} => \/ arm.state = c.state
                                               \/ c.state = "Setup" /\ arm.state = "Active"
<1>1. cid \in Cids /\ e.kind \in [group: BOOLEAN, simplex: BOOLEAN, hook: BOOLEAN] /\ e.floor \in Floors
  BY DEF Event
<1>2. /\ c \in CallRecord /\ c.group = calls[cid].group /\ c.rang = calls[cid].rang
      /\ c.answered = calls[cid].answered /\ c.state # "Absent"
      /\ calls[cid].state # "Absent" => c.state = calls[cid].state /\ c.simplex = calls[cid].simplex
      /\ calls[cid].state = "Absent" => c.state = "Setup"
  BY <1>1, EnteredFields
<1> HIDE DEF c
<1>3. \E arm, binds : Arm(arm, binds)
  <2>1. CASE e.name = "setup"
    <3> DEFINE group == c.group \/ e.kind.group
               set   == [c EXCEPT !.group     = group,
                                  !.direction = IF group THEN @ ELSE "mt",
                                  !.simplex   = e.kind.simplex,
                                  !.hook_on   = e.kind.hook,
                                  !.state     = IF group THEN "Active" ELSE "Incoming"]
               arm   == WithFloor(set, e.floor)
    <3>1. CallEvent(cid, arm, FALSE)
      BY <2>1 DEF Handle, SetupIndication, c
    <3>2. group \in BOOLEAN
      OBVIOUS
    <3> HIDE DEF group
    <3>3. /\ set \in CallRecord /\ set.group = group /\ set.simplex = e.kind.simplex
          /\ set.state = (IF group THEN "Active" ELSE "Incoming")
          /\ set.answered = c.answered /\ set.rang = c.rang
      BY <1>1, <1>2, <3>2 DEF CallRecord, CallStates
    <3> HIDE DEF set
    <3>4. /\ arm \in CallRecord /\ arm.group = set.group /\ arm.simplex = set.simplex
          /\ arm.state = set.state /\ arm.answered = set.answered /\ arm.rang = set.rang
      BY <1>1, <3>3 DEF WithFloor, CallRecord, Floors
    <3> HIDE DEF arm
    <3>5. Arm(arm, FALSE)
      BY <2>1, <3>1, <3>3, <3>4 DEF group
    <3> QED BY <3>5
  <2>2. CASE e.name \in {"proceed", "alert"}
    <3>1. PICK state \in {"Proceeding", "Alerting"} :
            CallEvent(cid, [Outgoing(c) EXCEPT !.state = state], TRUE)
      BY <2>2 DEF Handle, ProceedIndication, AlertIndication, c
    <3> DEFINE arm == [Outgoing(c) EXCEPT !.state = state]
    <3>2. /\ arm \in CallRecord /\ arm.group = c.group /\ arm.simplex = c.simplex
          /\ arm.state = state /\ arm.answered = c.answered /\ arm.rang = c.rang
      BY <1>2 DEF Outgoing, CallRecord, CallStates
    <3> HIDE DEF arm
    <3>3. Arm(arm, TRUE)
      BY <1>2, <2>2, <3>1, <3>2 DEF arm, CallRecord
    <3> QED BY <3>3
  <2>3. CASE e.name = "connect"
    <3> DEFINE set == [Outgoing(c) EXCEPT !.state = "Active", !.group = @ \/ e.kind.group]
               arm == WithFloor(set, e.floor)
    <3>1. CallEvent(cid, arm, TRUE)
      BY <2>3 DEF Handle, ConnectConfirm, c
    <3>2. /\ Outgoing(c) \in CallRecord /\ Outgoing(c).group = c.group /\ Outgoing(c).simplex = c.simplex
          /\ Outgoing(c).answered = c.answered /\ Outgoing(c).rang = c.rang
      BY <1>2 DEF Outgoing, CallRecord
    <3>3. /\ set \in CallRecord /\ set.group = (c.group \/ e.kind.group) /\ set.simplex = c.simplex
          /\ set.state = "Active" /\ set.answered = c.answered /\ set.rang = c.rang
      BY <1>1, <3>2 DEF CallRecord, CallStates
    <3> HIDE DEF set
    <3>4. /\ arm \in CallRecord /\ arm.group = set.group /\ arm.simplex = set.simplex
          /\ arm.state = set.state /\ arm.answered = set.answered /\ arm.rang = set.rang
      BY <1>1, <3>3 DEF WithFloor, CallRecord, Floors
    <3> HIDE DEF arm
    <3>5. Arm(arm, TRUE)
      BY <2>3, <3>1, <3>3, <3>4
    <3> QED BY <3>5
  <2>4. CASE e.name = "tx"
    <3> DEFINE set == WithFloor(c, e.floor)
               arm == [set EXCEPT !.state = IF @ = "Setup" THEN "Active" ELSE @]
    <3>1. CallEvent(cid, arm, FALSE)
      BY <2>4 DEF Handle, TxEvent, c
    <3>2. /\ set \in CallRecord /\ set.group = c.group /\ set.simplex = c.simplex
          /\ set.state = c.state /\ set.answered = c.answered /\ set.rang = c.rang
      BY <1>1, <1>2 DEF WithFloor, CallRecord, Floors
    <3> HIDE DEF set
    <3>3. /\ arm \in CallRecord /\ arm.group = set.group /\ arm.simplex = set.simplex
          /\ arm.state = (IF set.state = "Setup" THEN "Active" ELSE set.state)
          /\ arm.answered = set.answered /\ arm.rang = set.rang
      BY <3>2 DEF CallRecord, CallStates
    <3> HIDE DEF arm
    <3>4. Arm(arm, FALSE)
      BY <1>2, <2>4, <3>1, <3>2, <3>3 DEF CallRecord
    <3> QED BY <3>4
  <2>5. CASE e.name = "notify"
    <3>1. CallEvent(cid, c, FALSE)
      BY <2>5 DEF Handle, OtherCallEvent, c
    <3>2. Arm(c, FALSE)
      BY <1>2, <2>5, <3>1 DEF CallRecord
    <3> QED BY <3>2
  <2> QED BY <2>1, <2>2, <2>3, <2>4, <2>5 DEF Event, EventNames
<1>4. PICK arm, binds : Arm(arm, binds)
  BY <1>3
<1>5. /\ \A x \in Cids \ {cid} : SameCall(x)
      /\ calls'[cid].state = arm.state /\ calls'[cid].answered = arm.answered
      /\ calls'[cid].rang = (arm.rang \/ arm.state = "Incoming")
      /\ calls'[cid].group = (arm.group \/ (binds /\ dialing = "group"))
      /\ calls'[cid].simplex =
           IF binds /\ dialing # "none" THEN dialing # "duplex" ELSE arm.simplex
      /\ sent' \in {{}, {Cmd("alert", cid)}}
      /\ ~grp_call.open => grp_call' = grp_call
      /\ dialing' \in {"none", dialing}
  BY <1>1, <1>4, EventEffect
<1>6. UNCHANGED <<radio, ptt_held, local_end, mic_muted>> /\ logged' = {} /\ SyncUplink
  BY <1>4 DEF CallEvent, Quiet
<1>7. AsTold(e)
  BY <1>2, <1>4, <1>5 DEF AsTold, CallRecord
<1> QED BY <1>5, <1>6, <1>7

\* A release takes its call out of the table, and nothing else.
LEMMA ReleaseEffect ==
  ASSUME IInv, NEW cid \in Cids, NEW failure \in BOOLEAN, Release(cid, failure)
  PROVE  /\ \A c \in Cids \ {cid} : SameCall(c)
         /\ calls'[cid] = NoCall
         /\ sent' = {}
         /\ calls[cid].state # "Absent" /\ ~calls[cid].group => \E l \in logged' : l.cid = cid
         /\ ~grp_call.open => grp_call' = grp_call
         /\ dialing' = "none"
         /\ ptt_held' = IF ptt_held = cid THEN NoCid ELSE ptt_held
         /\ mic_muted' => mic_muted
         /\ UNCHANGED radio /\ SyncUplink
<1> DEFINE table == Without(cid)
<1>1. /\ table \in [Cids -> CallRecord] /\ table[cid] = NoCall
      /\ \A c \in Cids \ {cid} : table[c] = calls[c]
  BY CallTypes DEF Without, IInv, TypeOK
<1>2. /\ calls' = Announced(table) /\ Send(AlertCommands(table))
      /\ dialing' = "none"
      /\ ~grp_call.open => grp_call' = grp_call
      /\ ptt_held' = IF ptt_held = cid THEN NoCid ELSE ptt_held
      /\ mic_muted' => mic_muted
      /\ UNCHANGED radio /\ SyncUplink
  BY DEF Release
<1>3. calls[cid].state # "Absent" /\ ~calls[cid].group => \E l \in logged' : l.cid = cid
  <2> SUFFICES ASSUME calls[cid].state # "Absent", ~calls[cid].group
               PROVE  \E l \in logged' : l.cid = cid
    OBVIOUS
  <2>1. PICK a, b : RecordCall(cid, calls[cid], a, b)
    BY DEF Release, Known
  <2> QED BY <2>1 DEF RecordCall, EntryFor
<1> HIDE DEF table
<1>4. \A c \in Cids : ~NeedsAlert(table[c])
  BY <1>1 DEF NeedsAlert, NoCall, IInv, RingingAnnounced
<1>5. sent' = {}
  BY <1>2, <1>4 DEF Send, AlertCommands
<1>6. calls'[cid] = NoCall
  BY <1>1, <1>2, <1>4, AnnouncedFields
<1>7. \A c \in Cids \ {cid} : SameCall(c)
  BY <1>1, <1>2, AnnouncedFields DEF SameCall
<1> QED BY <1>2, <1>3, <1>5, <1>6, <1>7 DEF NoGroup

\* Voice and telemetry about other things leave every call as it was.
LEMMA OtherEffect ==
  ASSUME IInv, DeliverOther
  PROVE  /\ \A c \in Cids : SameCall(c)
         /\ sent' = {} /\ logged' = {}
         /\ UNCHANGED <<radio, dialing, grp_call, ptt_held, mic_muted>>
         /\ SyncUplink
<1>1. CASE OtherTelemetry
  BY <1>1 DEF OtherTelemetry, Send, Quiet, core, SameCall
<1>2. ASSUME NEW cid \in Cids, SpeechFrame(cid, TRUE)
      PROVE  /\ \A c \in Cids : SameCall(c)
             /\ sent' = {} /\ logged' = {}
             /\ UNCHANGED <<radio, dialing, grp_call, ptt_held, mic_muted>>
             /\ SyncUplink
  <2>1. calls[cid] \in CallRecord /\ calls \in [Cids -> CallRecord]
    BY DEF IInv, TypeOK
  <2> DEFINE taken == [calls[cid] EXCEPT !.can_request_tx = FALSE]
  <2>2. /\ taken.state = calls[cid].state /\ taken.group = calls[cid].group
        /\ taken.simplex = calls[cid].simplex /\ taken.rang = calls[cid].rang
        /\ taken.answered = calls[cid].answered
    BY <2>1 DEF CallRecord
  <2>3. calls' = calls \/ calls' = [calls EXCEPT ![cid] = taken]
    BY <1>2 DEF SpeechFrame
  <2> HIDE DEF taken
  <2>4. \A c \in Cids : SameCall(c)
    BY <2>1, <2>2, <2>3 DEF SameCall
  <2> QED BY <1>2, <2>4 DEF SpeechFrame, Send, Quiet
<1> QED BY <1>1, <1>2 DEF DeliverOther

-----------------------------------------------------------------------------
(* What a button does to each call.                                         *)

Answers == {"respond", "complete"}

\* All commands but a setup name a call.
Addressed == {m \in Command : IF m.op = "setup" THEN m.mode \in LocalModes ELSE m.cid \in Cids}

\* The call was ended here, and the stack is told if it can be.
Dropped(c) == calls'[c] = NoCall /\ (connected => Cmd("release", c) \in sent')

\* The call was answered here.
Accepted(c) ==
  /\ c \in IncomingCalls(calls)
  /\ calls'[c].state = "Connecting" /\ calls'[c].answered
  /\ calls'[c].group = calls[c].group /\ calls'[c].simplex = calls[c].simplex
  /\ calls'[c].rang = calls[c].rang

Pressed ==
  /\ \A c \in Cids : SameCall(c) \/ Dropped(c) \/ Accepted(c)
  /\ \A m \in sent' : m.op \in Answers => m.cid \in Cids /\ Accepted(m.cid)
  /\ sent' = {} \/ \E m \in Addressed : sent' = {m}
  /\ UNCHANGED radio

\* The button leaves the table alone.
LEMMA PressedOnly ==
  ASSUME calls' = calls, UNCHANGED radio,
         sent' = {} \/ \E m \in Addressed : sent' = {m} /\ m.op \notin Answers
  PROVE  Pressed
  BY DEF Pressed, SameCall

\* The button ends one call.
LEMMA PressedEnd ==
  ASSUME TypeOK, NEW cid \in Cids, calls' = Without(cid), UNCHANGED radio,
         Send({Cmd("release", cid)})
  PROVE  Pressed
<1>1. \A c \in Cids : SameCall(c) \/ Dropped(c)
  <2> TAKE c \in Cids
  <2>1. CASE c = cid
    BY <2>1 DEF Without, TypeOK, Dropped, Send
  <2>2. CASE c # cid
    BY <2>2 DEF Without, TypeOK, SameCall
  <2> QED BY <2>1, <2>2
<1>2. Cmd("release", cid) \in Addressed /\ Cmd("release", cid).op \notin Answers
  BY DEF Cmd, Command, Ops, DialModes, Answers, Addressed
<1>3. sent' \in {{}, {Cmd("release", cid)}}
  BY DEF Send
<1> QED BY <1>1, <1>2, <1>3 DEF Pressed

LEMMA OperateEffect == IInv /\ Operate => Pressed
<1> SUFFICES ASSUME IInv, Operate PROVE Pressed
  OBVIOUS
<1>1. ASSUME NEW mode \in LocalModes \ {"group"}, Dial(mode) PROVE Pressed
  BY <1>1, BoundAssumption, PressedOnly DEF Dial, Send, SetupCmd, Command, Ops, DialModes, Addressed, Answers
<1>2. CASE UiCallPttDown
  <2>1. PICK cid \in KeyableCalls(calls) : Send({Cmd("demand", cid)})
    BY <1>2 DEF UiCallPttDown
  <2>2. cid \in Cids
    BY DEF KeyableCalls
  <2> QED BY <1>2, <2>1, <2>2, PressedOnly
          DEF UiCallPttDown, Send, Cmd, Command, Ops, DialModes, Addressed, Answers
<1>3. CASE UiCallPttUp
  BY <1>3, PressedOnly
     DEF UiCallPttUp, Send, Cmd, Command, Ops, DialModes, Addressed, Answers, IInv, TypeOK
<1>4. CASE UiGroupPttDown /\ "group" \in LocalModes
  <2>1. CASE GroupPttStart
    BY <1>4, <2>1, PressedOnly
       DEF UiGroupPttDown, GroupPttStart, Send, SetupCmd, Command, Ops, DialModes, Addressed, Answers
  <2>2. CASE GroupPttAdopt
    <3> DEFINE existing == ActiveGroupCalls(calls, grp_call)
    <3>1. PICK cid \in IF existing # {} THEN existing ELSE {grp_call.cid} :
            LET target == IF grp_call.cid # NoCid THEN grp_call.cid ELSE cid
            IN  Send(IF target = NoCid THEN {} ELSE {Cmd("demand", target)})
      BY <2>2 DEF GroupPttAdopt
    <3>2. cid \in Cids \cup {NoCid} /\ grp_call.cid \in Cids \cup {NoCid}
      BY DEF ActiveGroupCalls, Known, IInv, TypeOK, GroupCtx
    <3>3. sent' = {} \/ \E d \in Cids : sent' = {Cmd("demand", d)}
      BY <3>1, <3>2 DEF Send
    <3> QED BY <1>4, <3>3, PressedOnly
            DEF UiGroupPttDown, Cmd, Command, Ops, DialModes, Addressed, Answers
  <2> QED BY <1>4, <2>1, <2>2 DEF UiGroupPttDown
<1>5. CASE UiGroupPttUp
  <2> DEFINE existing == ActiveGroupCalls(calls, grp_call)
             targets  == IF grp_call.cid # NoCid THEN {grp_call.cid} ELSE existing
  <2>1. targets \subseteq Cids
    BY DEF ActiveGroupCalls, Known, IInv, TypeOK, GroupCtx
  <2>2. Send({}) \/ \E cid \in targets : Send({Cmd("cease", cid)})
    BY <1>5 DEF UiGroupPttUp
  <2> HIDE DEF targets
  <2>3. sent' = {} \/ \E d \in Cids : sent' = {Cmd("cease", d)}
    BY <2>1, <2>2 DEF Send
  <2> QED BY <1>5, <2>3, PressedOnly DEF UiGroupPttUp, Cmd, Command, Ops, DialModes, Addressed, Answers
<1>6. CASE UiAnswerCall
  <2>1. PICK cid \in IncomingCalls(calls) :
          /\ Send({Cmd(IF calls[cid].hook_on THEN "complete" ELSE "respond", cid)})
          /\ calls' = [calls EXCEPT ![cid].answered = TRUE, ![cid].state = "Connecting"]
    BY <1>6 DEF UiAnswerCall
  <2>2. cid \in Cids /\ calls[cid] \in CallRecord /\ calls \in [Cids -> CallRecord]
    BY DEF IncomingCalls, Known, IInv, TypeOK
  <2> DEFINE d == [[calls[cid] EXCEPT !.answered = TRUE] EXCEPT !.state = "Connecting"]
  <2>3. /\ d.answered /\ d.state = "Connecting" /\ d.group = calls[cid].group
        /\ d.simplex = calls[cid].simplex /\ d.rang = calls[cid].rang
    BY <2>2 DEF CallRecord
  <2>4. calls' = [calls EXCEPT ![cid] = d]
    BY <2>1, <2>2
  <2> HIDE DEF d
  <2>5. Accepted(cid) /\ \A c \in Cids \ {cid} : SameCall(c)
    BY <2>2, <2>3, <2>4 DEF Accepted, SameCall
  <2>6. sent' = {} \/ \E m \in Addressed : sent' = {m} /\ m.cid = cid
    BY <2>1, <2>2 DEF Send, Cmd, Command, Ops, DialModes, Addressed
  <2> QED BY <1>6, <2>2, <2>5, <2>6 DEF Pressed, UiAnswerCall
<1>7. CASE UiRejectCall
  <2>1. PICK cid \in IncomingCalls(calls) : Send({Cmd("release", cid)}) /\ calls' = Without(cid)
    BY <1>7 DEF UiRejectCall
  <2>2. cid \in Cids
    BY DEF IncomingCalls, Known
  <2> QED BY <1>7, <2>1, <2>2, PressedEnd DEF UiRejectCall, IInv
<1>8. CASE UiHangup
  <2>1. CASE \E cid \in LiveCalls(calls) : HangupCall(cid)
    <3>1. PICK cid \in LiveCalls(calls) : HangupCall(cid)
      BY <2>1
    <3>2. cid \in Cids
      BY DEF LiveCalls, Live
    <3> QED BY <1>8, <3>1, <3>2, PressedEnd DEF HangupCall, UiHangup, IInv
  <2>2. CASE calls' = calls /\ sent' = {}
    BY <1>8, <2>2, PressedOnly DEF UiHangup
  <2> QED BY <1>8, <2>1, <2>2 DEF UiHangup
<1>9. CASE UiHangupGroup
  <2>1. CASE \E cid \in Cids : HangupGroupCall(cid)
    BY <1>9, <2>1, PressedEnd DEF HangupGroupCall, UiHangupGroup, IInv
  <2>2. CASE calls' = calls /\ sent' = {}
    BY <1>9, <2>2, PressedOnly DEF UiHangupGroup
  <2>3. ActiveGroupCalls(calls, grp_call) \subseteq Cids /\ grp_call.cid \in Cids \cup {NoCid}
    BY DEF ActiveGroupCalls, Known, IInv, TypeOK, GroupCtx
  <2> QED BY <1>9, <2>1, <2>2, <2>3 DEF UiHangupGroup
<1>10. CASE UiToggleMute
  BY <1>10, PressedOnly DEF UiToggleMute
<1> QED BY <1>1, <1>2, <1>3, <1>4, <1>5, <1>6, <1>7, <1>8, <1>9, <1>10 DEF Operate

-----------------------------------------------------------------------------
(* What the stack does: at most one event, or two releases, about one call. *)

\* The invariant of the two queues and of the stack's table.
QInv ==
  /\ IInv /\ SysTypeOK
  /\ cmdq \in Seq(Addressed)
  /\ \A i \in DOMAIN telq : KindKnown(telq[i])

\* The stack's table after telling e of call c.
Tells(c, e) ==
  /\ e.cid = c
  /\ \A d \in Cids \ {c} : net'[d] = net[d]
  /\ \/ /\ e.name = "setup" /\ Free(c) /\ e.kind \in Kinds
        /\ net'[c].group = e.kind.group /\ net'[c].simplex = e.kind.simplex
        /\ net'[c].phase = (IF e.kind.group THEN "active" ELSE "offered")
        /\ net'[c].floor # "ours"
     \/ /\ e.name = "setup" /\ Repeats /\ net[c].phase = "offered" /\ net'[c] = net[c]
        /\ e.kind \in Kinds /\ e.kind.group = net[c].group /\ e.kind.simplex = net[c].simplex
     \/ /\ e.name \in {"proceed", "alert"} /\ ~e.kind.group
        /\ net[c].phase = "setup" /\ net'[c] = net[c]
     \/ /\ e.name = "connect" /\ (e.kind.group => net[c].phase = "setup" /\ net[c].group)
        /\ \/ net[c].phase = "setup"
           \/ net[c].phase = "offered" /\ cmdq # <<>> /\ Head(cmdq).cid = c
              /\ Head(cmdq).op \in Answers
        /\ net'[c].phase = "active" /\ net'[c].floor = net[c].floor
        /\ net'[c].group = net[c].group /\ net'[c].simplex = net[c].simplex
     \/ /\ e.name \in {"tx", "notify"} /\ ~e.kind.group
        /\ net[c].phase = "active" /\ net'[c].phase = "active"
        /\ net'[c].group = net[c].group /\ net'[c].simplex = net[c].simplex
        /\ net'[c].floor = "ours" =>
             \/ net[c].floor = "ours"
             \/ cmdq # <<>> /\ Head(cmdq).cid = c /\ Head(cmdq).op = "demand"
     \/ e.name = "release" /\ ~e.kind.group /\ net[c].phase # "idle" /\ net'[c] = IdleCall

\* A call that is set up from here is entered in the stack's table without an event.
Dialled(c) ==
  /\ Free(c)
  /\ \A d \in Cids \ {c} : net'[d] = net[d]
  /\ net'[c].phase = "setup"
  /\ \E m \in LocalModes : /\ net'[c].group = (m = "group") /\ net'[c].simplex = (m # "duplex")
                           /\ net'[c].floor = "ours" => m # "duplex"

\* A new use of the identifier has no history.
Begins(c) == shown' = [shown EXCEPT ![c] = FALSE] /\ recorded' = [recorded EXCEPT ![c] = FALSE]

StackStep ==
  \/ \E c \in Cids, e \in Event :
       /\ Tells(c, e) /\ telq' \in Seq(Event) /\ Grown(telq, telq', {e})
       /\ e.name # "release" => Once(telq, telq')
       /\ IF e.name = "setup" /\ Free(c) THEN Begins(c) ELSE UNCHANGED history
  \/ \E c \in Cids : Dialled(c) /\ Begins(c) /\ UNCHANGED telq
  \/ UNCHANGED <<net, telq, history>>

\* What became of a command that was executed.
Executed(m) ==
  /\ m.op = "release" => net'[m.cid].phase = "idle"
  /\ m.op \in Answers => net'[m.cid].phase # "offered"
  /\ m.op = "cease" => ~(net'[m.cid].phase = "active" /\ net'[m.cid].floor = "ours")

\* One event at the end of the queue.
LEMMA ToldOne ==
  ASSUME telq \in Seq(Event), NEW e \in Event, Tell(e)
  PROVE  telq' \in Seq(Event) /\ Grown(telq, telq', {e}) /\ Once(telq, telq')
  BY GrownAppend DEF Tell

\* A release, told once or twice.
LEMMA ToldRelease ==
  ASSUME telq \in Seq(Event), NEW c \in Cids, TellRelease(c)
  PROVE  /\ Plain("release", c) \in Event
         /\ telq' \in Seq(Event) /\ Grown(telq, telq', {Plain("release", c)})
<1> DEFINE e == Plain("release", c)
<1>1. e \in Event
  BY DEF Plain, Ev, NoKind, Event, EventNames, Floors
<1> HIDE DEF e
<1>2. CASE Tell(e)
  BY <1>1, <1>2, ToldOne DEF e
<1>3. CASE telq' = telq \o <<e, e>>
  <2>1. <<e, e>> \in Seq(Event) /\ {<<e, e>>[i] : i \in DOMAIN <<e, e>>} = {e}
    BY <1>1
  <2> QED BY <1>1, <1>3, <2>1, GrownConcat DEF e
<1> QED BY <1>2, <1>3 DEF TellRelease, e

\* What the stack writes into an event.
LEMMA EventType ==
  /\ \A name \in EventNames, c \in Cids, floor \in Floors,
        kind \in [group: BOOLEAN, simplex: BOOLEAN, hook: BOOLEAN] :
        LET e == Ev(name, c, kind, floor)
        IN  e \in Event /\ e.name = name /\ e.cid = c /\ e.kind = kind /\ e.floor = floor
  /\ NoKind \in [group: BOOLEAN, simplex: BOOLEAN, hook: BOOLEAN] /\ ~NoKind.group
  /\ \A g \in BOOLEAN : /\ [NoKind EXCEPT !.group = g] \in [group: BOOLEAN, simplex: BOOLEAN, hook: BOOLEAN]
                        /\ [NoKind EXCEPT !.group = g].group = g
<1>1. NoKind \in [group: BOOLEAN, simplex: BOOLEAN, hook: BOOLEAN] /\ ~NoKind.group
  BY DEF NoKind
<1>2. ASSUME NEW k \in [group: BOOLEAN, simplex: BOOLEAN, hook: BOOLEAN], NEW g \in BOOLEAN
      PROVE  /\ [k EXCEPT !.group = g] \in [group: BOOLEAN, simplex: BOOLEAN, hook: BOOLEAN]
             /\ [k EXCEPT !.group = g].group = g
  BY <1>2
<1>3. \A name \in EventNames, c \in Cids, floor \in Floors,
        kind \in [group: BOOLEAN, simplex: BOOLEAN, hook: BOOLEAN] :
        LET e == Ev(name, c, kind, floor)
        IN  e \in Event /\ e.name = name /\ e.cid = c /\ e.kind = kind /\ e.floor = floor
  BY DEF Ev, Event
<1> QED BY <1>1, <1>2, <1>3

LEMMA StackEffect ==
  ASSUME QInv, Execute \/ Network
  PROVE  /\ AppIdle /\ StackStep /\ net' \in [Cids -> NetCall]
         /\ \/ Network /\ UNCHANGED cmdq
            \/ /\ Execute /\ cmdq # <<>> /\ cmdq' = Tail(cmdq) /\ Executed(Head(cmdq))
<1> DEFINE Done == StackStep /\ net' \in [Cids -> NetCall]
<1>1. /\ net \in [Cids -> NetCall] /\ telq \in Seq(Event) /\ \A c \in Cids : net[c] \in NetCall
  BY DEF QInv, SysTypeOK
<1>2. ASSUME NEW c \in Cids, NEW e \in Event, Tells(c, e), Tell(e), net' \in [Cids -> NetCall],
             IF e.name = "setup" /\ Free(c) THEN Begins(c) ELSE UNCHANGED history
      PROVE  Done
  BY <1>1, <1>2, ToldOne DEF StackStep
<1>3. ASSUME UNCHANGED <<net, telq, history>> PROVE Done
  BY <1>1, <1>3 DEF StackStep
<1>4. ASSUME NEW c \in Cids, net[c].phase # "idle", net' = [net EXCEPT ![c] = IdleCall],
             TellRelease(c), UNCHANGED history
      PROVE  Done /\ net'[c].phase = "idle"
  <2> DEFINE e == Plain("release", c)
  <2>1. e \in Event /\ e.cid = c /\ e.name = "release" /\ ~e.kind.group
    BY EventType DEF Plain, EventNames, Floors
  <2>2. IdleCall \in NetCall /\ IdleCall.phase = "idle"
    BY DEF IdleCall, NetCall
  <2>3. Tells(c, e) /\ net' \in [Cids -> NetCall] /\ net'[c].phase = "idle"
    BY <1>1, <1>4, <2>1, <2>2 DEF Tells
  <2>4. telq' \in Seq(Event) /\ Grown(telq, telq', {e})
    BY <1>1, <1>4, ToldRelease
  <2> QED BY <1>4, <2>1, <2>3, <2>4 DEF StackStep
<1>5. ASSUME NEW c \in Cids, NEW p \in {"active"}, net[c].phase \in {"setup", "offered"}, NEW e \in Event,
             net' = [net EXCEPT ![c].phase = p], Tell(e), UNCHANGED history,
             e.name = "connect", e.cid = c, e.kind.group => net[c].phase = "setup" /\ net[c].group,
             net[c].phase = "offered" => cmdq # <<>> /\ Head(cmdq).cid = c /\ Head(cmdq).op \in Answers
      PROVE  Done /\ net'[c].phase = "active"
  <2>1. /\ net' \in [Cids -> NetCall] /\ net'[c].phase = "active" /\ net'[c].floor = net[c].floor
        /\ net'[c].group = net[c].group /\ net'[c].simplex = net[c].simplex
        /\ \A d \in Cids \ {c} : net'[d] = net[d]
    BY <1>1, <1>5 DEF NetCall
  <2>2. Tells(c, e)
    BY <1>1, <1>5, <2>1 DEF Tells
  <2> QED BY <1>2, <1>5, <2>1, <2>2
<1>6. ASSUME NEW c \in Cids, net[c].phase = "active", NEW f \in {"free", "ours", "other"}, NEW e \in Event,
             net' = [net EXCEPT ![c].floor = f], Tell(e), UNCHANGED history,
             e.name \in {"tx", "notify"}, e.cid = c, ~e.kind.group,
             f = "ours" => \/ net[c].floor = "ours"
                           \/ cmdq # <<>> /\ Head(cmdq).cid = c /\ Head(cmdq).op = "demand"
      PROVE  Done /\ net'[c].floor = f
  <2>1. /\ net' \in [Cids -> NetCall] /\ net'[c].phase = "active" /\ net'[c].floor = f
        /\ net'[c].group = net[c].group /\ net'[c].simplex = net[c].simplex
        /\ \A d \in Cids \ {c} : net'[d] = net[d]
    BY <1>1, <1>6 DEF NetCall
  <2>2. Tells(c, e)
    BY <1>1, <1>6, <2>1 DEF Tells
  <2> QED BY <1>2, <1>6, <2>1, <2>2
<1>7. CASE Network
  <2>1. PICK c \in Cids : \/ Offer(c) \/ Repeat(c) \/ Progress(c) \/ Connect(c)
                          \/ OtherTalks(c) \/ Notify(c) \/ NetRelease(c)
    BY <1>7 DEF Network
  <2> SUFFICES Done
    BY <1>7 DEF Network
  <2>2. CASE Offer(c)
    <3>1. PICK kind \in Kinds : 
            /\ StartCall(c, IF kind.group THEN "active" ELSE "offered", kind.group, kind.simplex,
                         IF kind.group THEN "other" ELSE "free")
            /\ Tell(Ev("setup", c, kind, IF kind.group THEN "other" ELSE "keep"))
      BY <2>2 DEF Offer
    <3> DEFINE e == Ev("setup", c, kind, IF kind.group THEN "other" ELSE "keep")
    <3>2. e \in Event /\ e.name = "setup" /\ e.cid = c /\ e.kind = kind
      BY EventType, KindAssumption DEF EventNames, Floors
    <3>3. /\ net' = [net EXCEPT ![c] = [phase |-> IF kind.group THEN "active" ELSE "offered",
                                        group |-> kind.group, simplex |-> kind.simplex,
                                        floor |-> IF kind.group THEN "other" ELSE "free"]]
          /\ Begins(c) /\ Free(c)
      BY <2>2, <3>1 DEF StartCall, Begins, Offer
    <3>4. kind.group \in BOOLEAN /\ kind.simplex \in BOOLEAN
      BY KindAssumption
    <3>5. /\ net' \in [Cids -> NetCall] /\ net'[c].group = kind.group /\ net'[c].simplex = kind.simplex
          /\ net'[c].phase = (IF kind.group THEN "active" ELSE "offered")
          /\ net'[c].floor # "ours" /\ \A d \in Cids \ {c} : net'[d] = net[d]
      BY <1>1, <3>3, <3>4 DEF NetCall
    <3>6. Tell(e)
      BY <3>1
    <3> HIDE DEF e
    <3>7. Tells(c, e)
      BY <3>2, <3>3, <3>5 DEF Tells
    <3> QED BY <1>2, <3>2, <3>3, <3>5, <3>6, <3>7
  <2>3. CASE Repeat(c)
    <3>1. PICK kind \in Kinds : /\ kind.group = net[c].group /\ kind.simplex = net[c].simplex
                                /\ Tell(Ev("setup", c, kind, "keep"))
      BY <2>3 DEF Repeat
    <3> DEFINE e == Ev("setup", c, kind, "keep")
    <3>2. e \in Event /\ e.name = "setup" /\ e.cid = c /\ e.kind = kind
      BY EventType, KindAssumption DEF EventNames, Floors
    <3>3. Tell(e)
      BY <3>1
    <3> HIDE DEF e
    <3>4. Tells(c, e) /\ ~Free(c)
      BY <2>3, <3>1, <3>2 DEF Tells, Repeat, Free
    <3> QED BY <1>1, <1>2, <2>3, <3>2, <3>3, <3>4 DEF Repeat
  <2>4. CASE Progress(c)
    <3>1. PICK name \in {"proceed", "alert"} : Tell(Plain(name, c))
      BY <2>4 DEF Progress
    <3> DEFINE e == Plain(name, c)
    <3>2. e \in Event /\ e.name = name /\ e.cid = c /\ ~e.kind.group
      BY EventType DEF Plain, EventNames, Floors
    <3>3. Tell(e)
      BY <3>1
    <3> HIDE DEF e
    <3>4. Tells(c, e)
      BY <2>4, <3>2 DEF Tells, Progress
    <3> QED BY <1>1, <1>2, <2>4, <3>2, <3>3, <3>4 DEF Progress
  <2>5. CASE Connect(c)
    <3> DEFINE e == Ev("connect", c, [NoKind EXCEPT !.group = net[c].group], "free")
    <3>1. e \in Event /\ e.name = "connect" /\ e.cid = c /\ e.kind.group = net[c].group
      <4>1. net[c].group \in BOOLEAN
        BY <1>1 DEF NetCall
      <4> QED BY <4>1, EventType DEF EventNames, Floors
    <3>2. Tell(e)
      BY <2>5 DEF Connect
    <3> HIDE DEF e
    <3> QED BY <1>5, <2>5, <3>1, <3>2 DEF Connect
  <2>6. CASE OtherTalks(c)
    <3> DEFINE e == Ev("tx", c, NoKind, IF net[c].floor = "other" THEN "free" ELSE "other")
    <3>1. e \in Event /\ e.name = "tx" /\ e.cid = c /\ ~e.kind.group
      BY EventType DEF EventNames, Floors
    <3>2. Tell(e) /\ \E f \in {"free", "other"} : net' = [net EXCEPT ![c].floor = f]
      BY <2>6 DEF OtherTalks
    <3> HIDE DEF e
    <3> QED BY <1>6, <2>6, <3>1, <3>2 DEF OtherTalks
  <2>7. CASE Notify(c)
    <3> DEFINE e == Plain("notify", c)
    <3>1. e \in Event /\ e.name = "notify" /\ e.cid = c /\ ~e.kind.group
      BY EventType DEF Plain, EventNames, Floors
    <3>2. Tell(e)
      BY <2>7 DEF Notify
    <3> HIDE DEF e
    <3>3. Tells(c, e)
      BY <2>7, <3>1 DEF Tells, Notify
    <3> QED BY <1>1, <1>2, <2>7, <3>1, <3>2, <3>3 DEF Notify
  <2>8. CASE NetRelease(c)
    BY <1>4, <2>8 DEF NetRelease
  <2> QED BY <2>1, <2>2, <2>3, <2>4, <2>5, <2>6, <2>7, <2>8
<1>8. CASE Execute
  <2> DEFINE m == Head(cmdq)
  <2>1. cmdq # <<>> /\ cmdq' = Tail(cmdq) /\ AppIdle
    BY <1>8 DEF Execute
  <2>2. m \in Addressed /\ m \in Command
    BY <2>1, TakenTail DEF QInv, Addressed
  <2>3. \/ m.op = "setup" /\ DoSetup(m.mode)
        \/ m.op = "alert" /\ UNCHANGED <<net, telq, history>>
        \/ m.op \in Answers /\ DoAnswer(m.cid) /\ UNCHANGED history
        \/ m.op = "release" /\ DoRelease(m.cid) /\ UNCHANGED history
        \/ m.op = "demand" /\ DoDemand(m.cid) /\ UNCHANGED history
        \/ m.op = "cease" /\ DoCease(m.cid) /\ UNCHANGED history
    BY <1>8 DEF Execute, Answers
  <2> SUFFICES Done /\ Executed(m)
    BY <1>8, <2>1
  <2> HIDE DEF m
  <2>4. CASE m.op = "setup" /\ DoSetup(m.mode)
    <3>1. CASE UNCHANGED <<net, telq, history>>
      BY <1>3, <2>4, <3>1 DEF Executed, Answers
    <3>2. CASE \E c \in Cids : 
                 /\ Free(c)
                 /\ StartCall(c, "setup", m.mode = "group", m.mode # "duplex",
                              IF m.mode = "duplex" THEN "free" ELSE "ours")
                 /\ UNCHANGED telq
      <4>1. PICK c \in Cids :
              /\ Free(c)
              /\ StartCall(c, "setup", m.mode = "group", m.mode # "duplex",
                           IF m.mode = "duplex" THEN "free" ELSE "ours")
              /\ UNCHANGED telq
        BY <3>2
      <4> DEFINE g == m.mode = "group"
                 s == m.mode # "duplex"
                 f == IF m.mode = "duplex" THEN "free" ELSE "ours"
      <4>2. /\ net' = [net EXCEPT ![c] = [phase |-> "setup", group |-> g, simplex |-> s, floor |-> f]]
            /\ Begins(c)
        BY <4>1 DEF StartCall, Begins
      <4>3. g \in BOOLEAN /\ s \in BOOLEAN /\ f \in {"free", "ours", "other"}
            /\ (f = "ours" => m.mode # "duplex") /\ m.mode \in LocalModes
        BY <2>2, <2>4 DEF Addressed
      <4>4. /\ net' \in [Cids -> NetCall] /\ net'[c].phase = "setup"
            /\ net'[c].group = g /\ net'[c].simplex = s /\ net'[c].floor = f
            /\ \A d \in Cids \ {c} : net'[d] = net[d]
        <5> HIDE DEF g, s, f
        <5> QED BY <1>1, <4>2, <4>3 DEF NetCall
      <4>5. Dialled(c)
        BY <4>1, <4>3, <4>4 DEF Dialled
      <4> QED BY <2>4, <4>1, <4>2, <4>4, <4>5 DEF StackStep, Executed, Answers
    <3> QED BY <2>4, <3>1, <3>2 DEF DoSetup
  <2>5. CASE m.op = "alert" /\ UNCHANGED <<net, telq, history>>
    BY <1>3, <2>5 DEF Executed, Answers
  <2>6. CASE m.op \in Answers /\ DoAnswer(m.cid) /\ UNCHANGED history
    <3>1. m.cid \in Cids /\ m.op \notin {"release", "cease"}
      BY <2>2, <2>6 DEF Addressed, Answers
    <3>2. CASE net[m.cid].phase = "offered"
      <4> DEFINE e == Ev("connect", m.cid, NoKind, "free")
      <4>1. e \in Event /\ e.name = "connect" /\ e.cid = m.cid /\ ~e.kind.group
        BY <3>1, EventType DEF EventNames, Floors
      <4>2. Tell(e) /\ net' = [net EXCEPT ![m.cid].phase = "active"]
        BY <2>6, <3>2 DEF DoAnswer
      <4> HIDE DEF e
      <4>3. Done /\ net'[m.cid].phase = "active"
        BY <1>5, <2>1, <2>6, <3>1, <3>2, <4>1, <4>2 DEF m
      <4> QED BY <3>1, <4>3 DEF Executed
    <3>3. CASE net[m.cid].phase # "offered"
      BY <1>3, <2>6, <3>1, <3>3 DEF DoAnswer, Executed
    <3> QED BY <3>2, <3>3
  <2>7. CASE m.op = "release" /\ DoRelease(m.cid) /\ UNCHANGED history
    <3>1. m.cid \in Cids /\ m.op \notin Answers
      BY <2>2, <2>7 DEF Addressed, Answers
    <3>2. CASE net[m.cid].phase # "idle"
      BY <1>4, <2>7, <3>1, <3>2 DEF DoRelease, Executed
    <3>3. CASE net[m.cid].phase = "idle"
      BY <1>3, <2>7, <3>1, <3>3 DEF DoRelease, Executed
    <3> QED BY <3>2, <3>3
  <2>8. CASE m.op = "demand" /\ DoDemand(m.cid) /\ UNCHANGED history
    <3>1. m.cid \in Cids /\ Executed(m)
      BY <2>2, <2>8 DEF Addressed, Answers, Executed
    <3>2. CASE net[m.cid].phase = "active"
      <4> DEFINE e == Ev("tx", m.cid, NoKind, IF net[m.cid].floor = "other" THEN "other" ELSE "free")
      <4>1. e \in Event /\ e.name = "tx" /\ e.cid = m.cid /\ ~e.kind.group
        BY <3>1, EventType DEF EventNames, Floors
      <4>2. /\ Tell(e)
            /\ \E f \in {"free", "ours", "other"} : net' = [net EXCEPT ![m.cid].floor = f]
        BY <2>8, <3>2 DEF DoDemand
      <4> HIDE DEF e
      <4>3. m.op = "demand" /\ cmdq # <<>> /\ m = Head(cmdq)
        BY <2>1, <2>8 DEF m
      <4> QED BY <1>6, <2>8, <3>1, <3>2, <4>1, <4>2, <4>3
    <3>3. CASE net[m.cid].phase # "active"
      BY <1>3, <2>8, <3>1, <3>3 DEF DoDemand
    <3> QED BY <3>2, <3>3
  <2>9. CASE m.op = "cease" /\ DoCease(m.cid) /\ UNCHANGED history
    <3>1. m.cid \in Cids /\ m.op # "release" /\ m.op \notin Answers
      BY <2>2, <2>9 DEF Addressed, Answers
    <3>2. CASE net[m.cid].phase = "active" /\ net[m.cid].floor = "ours"
      <4> DEFINE e == Ev("tx", m.cid, NoKind, "free")
      <4>1. e \in Event /\ e.name = "tx" /\ e.cid = m.cid /\ ~e.kind.group
        BY <3>1, EventType DEF EventNames, Floors
      <4>2. Tell(e) /\ net' = [net EXCEPT ![m.cid].floor = "free"]
        BY <2>9, <3>2 DEF DoCease
      <4> HIDE DEF e
      <4>3. Done /\ net'[m.cid].floor = "free"
        BY <1>6, <2>9, <3>1, <3>2, <4>1, <4>2
      <4> QED BY <3>1, <4>3 DEF Executed
    <3>3. CASE ~(net[m.cid].phase = "active" /\ net[m.cid].floor = "ours")
      BY <1>3, <2>9, <3>1, <3>3 DEF DoCease, Executed
    <3> QED BY <3>2, <3>3
  <2> QED BY <2>3, <2>4, <2>5, <2>6, <2>7, <2>8, <2>9
<1> QED BY <1>7, <1>8

-----------------------------------------------------------------------------
(* The queues and the tables keep their types.                              *)

Single == sent' = {} \/ \E m \in Addressed : sent' = {m}

\* What an application step sends is put behind the commands under way.
LEMMA EmitQueue ==
  ASSUME QInv, Emit, Single
  PROVE  /\ cmdq' \in Seq(Addressed) /\ Grown(cmdq, cmdq', sent')
         /\ shown' \in [Cids -> BOOLEAN] /\ recorded' \in [Cids -> BOOLEAN]
<1>1. cmdq \in Seq(Addressed) /\ cmdq' = cmdq \o SetToSeq(sent')
  BY DEF QInv, Emit
<1>2. shown' \in [Cids -> BOOLEAN] /\ recorded' \in [Cids -> BOOLEAN]
  <2>1. \A c \in Cids : shown[c] \in BOOLEAN /\ recorded[c] \in BOOLEAN
    BY DEF QInv, SysTypeOK
  <2>2. \A c \in Cids : /\ (shown[c] \/ (c \in Known(calls') /\ ~calls'[c].group)) \in BOOLEAN
                        /\ (recorded[c] \/ Written(c)) \in BOOLEAN
    BY <2>1
  <2> QED BY <2>2 DEF Emit
<1>3. CASE sent' = {}
  <2>1. SetToSeq(sent') = <<>>
    BY <1>3, SmallSets
  <2>2. cmdq' = cmdq
    BY <1>1, <2>1, ConcatEmptySeq
  <2> QED BY <1>1, <1>2, <1>3, <2>2, GrownSame
<1>4. ASSUME NEW m \in Addressed, sent' = {m}
      PROVE  cmdq' \in Seq(Addressed) /\ Grown(cmdq, cmdq', sent')
  <2>1. SetToSeq(sent') = <<m>>
    BY <1>4, SmallSets
  <2>2. <<m>> \in Seq(Addressed) /\ {<<m>>[i] : i \in DOMAIN <<m>>} = {m}
    BY <1>4
  <2>3. cmdq \o <<m>> \in Seq(Addressed) /\ Grown(cmdq, cmdq \o <<m>>, {m})
    BY <1>1, <2>2, GrownConcat
  <2> QED BY <1>1, <1>4, <2>1, <2>3
<1> QED BY <1>2, <1>3, <1>4 DEF Single

\* An alert is a command about a call.
LEMMA AlertAddressed == \A c \in Cids : Cmd("alert", c) \in Addressed
  BY DEF Cmd, Command, Ops, DialModes, Addressed

\* The application half of an event's delivery, in the terms of the lemmas above.
LEMMA DeliverEffect ==
  ASSUME QInv, Deliver
  PROVE  LET e == Head(telq)
         IN  /\ e \in Event /\ KindKnown(e) /\ Handle(e) /\ Taken(telq, telq')
             /\ telq' \in Seq(Event) /\ UNCHANGED net /\ Single
             /\ \A c \in Cids \ {e.cid} : SameCall(c)
             /\ e.name # "release" => AsTold(e)
             /\ e.name = "release" => calls'[e.cid] = NoCall /\ sent' = {}
             /\ sent' \in {{}, {Cmd("alert", e.cid)}}
             /\ UNCHANGED radio /\ SyncUplink
<1> DEFINE e == Head(telq)
<1>1. telq # <<>> /\ Handle(e) /\ telq' = Tail(telq) /\ telq \in Seq(Event) /\ UNCHANGED net
  BY DEF Deliver, QInv, SysTypeOK
<1>2. e \in Event /\ Taken(telq, telq') /\ telq' \in Seq(Event)
  BY <1>1, TakenTail
<1>3. KindKnown(e)
  BY <1>2 DEF Taken, QInv
<1>4. IInv /\ e.cid \in Cids
  BY <1>2 DEF QInv, Event
<1> HIDE DEF e
<1>5. CASE e.name # "release"
  <2>1. /\ \A c \in Cids \ {e.cid} : SameCall(c)
        /\ AsTold(e) /\ sent' \in {{}, {Cmd("alert", e.cid)}} /\ UNCHANGED radio /\ SyncUplink
    BY <1>1, <1>2, <1>3, <1>4, <1>5, ArmEffect
  <2> QED BY <1>1, <1>2, <1>3, <1>4, <1>5, <2>1, AlertAddressed DEF e, Single
<1>6. CASE e.name = "release"
  <2>1. PICK failure \in BOOLEAN : Release(e.cid, failure)
    BY <1>1, <1>6 DEF Handle
  <2>2. /\ \A c \in Cids \ {e.cid} : SameCall(c)
        /\ calls'[e.cid] = NoCall /\ sent' = {} /\ UNCHANGED radio /\ SyncUplink
    BY <1>4, <2>1, ReleaseEffect
  <2> QED BY <1>1, <1>2, <1>3, <1>6, <2>2 DEF e, Single
<1> QED BY <1>5, <1>6

\* The stack's steps leave the application's state alone.
LEMMA IdleInv == IInv /\ AppIdle => IInv'
<1> SUFFICES ASSUME IInv, AppIdle PROVE IInv'
  OBVIOUS
<1>1. TypeOK'
  BY DEF IInv, AppIdle, TypeOK, Quiet, radio, core, devices
<1> QED BY <1>1 DEF IInv, AppIdle, MutedMicSilent, UplinkOpensDevices, RingMatchesCalls, IncomingCalls,
     Known, RingingAnnounced, NeedsAlert, AbsentCallsBlank, IntentNeedsLink,
     GroupPlaceholderHasContext, radio, core, devices

\* Delivering an event is a telemetry step of the call control.
LEMMA AppSteps ==
  ASSUME QInv, Deliver \/ DeliverOther \/ Operate \/ Link
  PROVE  IInv'
<1>1. CASE Deliver
  <2> DEFINE e == Head(telq)
  <2>1. e \in Event /\ KindKnown(e) /\ Handle(e)
    BY <1>1, DeliverEffect
  <2>2. e.cid \in Cids /\ e.floor \in Floors /\ e.kind.group \in BOOLEAN
    BY <2>1 DEF Event
  <2> HIDE DEF e
  <2>3. TelemetryStep
    BY <2>1, <2>2 DEF TelemetryStep, Handle, KindKnown
  <2> QED BY <2>3, TelemetryInv DEF QInv
<1>2. CASE DeliverOther
  <2>1. TelemetryStep
    BY <1>2 DEF DeliverOther, TelemetryStep
  <2> QED BY <2>1, TelemetryInv DEF QInv
<1>3. CASE Operate
  <2>1. OperatorStep
    BY <1>3, BoundAssumption DEF Operate, OperatorStep
  <2> QED BY <2>1, OperatorInv DEF QInv
<1>4. CASE Link
  <2>1. LinkStep
    BY <1>4 DEF Link, LinkDown, LinkUp, RadioChanges, LinkStep
  <2> QED BY <2>1, LinkInv DEF QInv
<1> QED BY <1>1, <1>2, <1>3, <1>4

\* What the control link does to the calls and to what is under way.
LEMMA LinkEffect ==
  ASSUME QInv, Link
  PROVE  /\ UNCHANGED <<net, telq, history, uplink>> /\ sent' = {}
         /\ \/ /\ LinkFaults /\ cmdq' = <<>> /\ ~connected'
               /\ \A c \in Cids : calls'[c] = NoCall
            \/ UNCHANGED <<core, cmdq>> /\ connected' = (connected \/ LinkUp)
<1>1. CASE LinkDown
  BY <1>1 DEF Link, LinkDown, ControlDisconnected, NoSync, history
<1>2. CASE LinkUp
  <2>1. connected' = TRUE
    BY <1>2 DEF LinkUp, ControlConnected
  <2> QED BY <1>2, <2>1 DEF Link, LinkUp, ControlConnected, history, devices
<1>3. CASE RadioChanges
  <2>1. connected /\ connected' = connected
    BY <1>3 DEF RadioChanges, StateResponse
  <2> QED BY <1>3, <2>1 DEF Link, RadioChanges, StateResponse, history, devices
<1> QED BY <1>1, <1>2, <1>3 DEF Link

LEMMA OperateQueue ==
  ASSUME QInv, Operate
  PROVE  Pressed /\ Single /\ Emit /\ UNCHANGED <<net, telq>>
  BY OperateEffect DEF Operate, Pressed, Single, QInv

LEMMA QInvInit == SysInit => QInv
<1> SUFFICES ASSUME SysInit PROVE QInv
  OBVIOUS
<1>1. calls = [c \in Cids |-> NoCall]
  BY DEF SysInit, InitCalls
<1>2. TypeOK
  BY <1>1, CallTypes DEF SysInit, InitCalls, TypeOK, DialModes
<1>3. IInv
  BY <1>1, <1>2 DEF IInv, SysInit, InitCalls, MutedMicSilent, UplinkOpensDevices, RingMatchesCalls,
     IncomingCalls, Known, RingingAnnounced, NeedsAlert, AbsentCallsBlank, IntentNeedsLink,
     GroupPlaceholderHasContext, NoCall, NoGroup
<1>4. net \in [Cids -> NetCall]
  BY DEF SysInit, IdleCall, NetCall
<1> QED BY <1>2, <1>3, <1>4 DEF QInv, SysTypeOK, SysInit

LEMMA HistoryType ==
  ASSUME QInv, UNCHANGED history \/ \E c \in Cids : Begins(c)
  PROVE  shown' \in [Cids -> BOOLEAN] /\ recorded' \in [Cids -> BOOLEAN]
  BY DEF QInv, SysTypeOK, history, Begins

LEMMA QInvStep == QInv /\ [SysNext]_sysvars => QInv'
<1> SUFFICES ASSUME QInv, [SysNext]_sysvars PROVE QInv'
  OBVIOUS
<1>1. ASSUME IInv', net' \in [Cids -> NetCall], cmdq' \in Seq(Addressed), telq' \in Seq(Event),
             shown' \in [Cids -> BOOLEAN], recorded' \in [Cids -> BOOLEAN],
             \A i \in DOMAIN telq' : KindKnown(telq'[i])
      PROVE  QInv'
  <2>1. cmdq' \in Seq(Command)
    BY <1>1 DEF Addressed
  <2> QED BY <1>1, <2>1 DEF QInv, SysTypeOK, IInv
<1>2. /\ net \in [Cids -> NetCall] /\ cmdq \in Seq(Addressed) /\ telq \in Seq(Event)
      /\ shown \in [Cids -> BOOLEAN] /\ recorded \in [Cids -> BOOLEAN] /\ IInv
      /\ \A i \in DOMAIN telq : KindKnown(telq[i])
  BY DEF QInv, SysTypeOK
<1>3. CASE Deliver
  <2>1. Taken(telq, telq') /\ telq' \in Seq(Event) /\ UNCHANGED net /\ Single /\ IInv'
    BY <1>3, DeliverEffect, AppSteps
  <2>2. /\ cmdq' \in Seq(Addressed)
        /\ shown' \in [Cids -> BOOLEAN] /\ recorded' \in [Cids -> BOOLEAN]
    BY <1>3, <2>1, EmitQueue DEF Deliver
  <2>3. \A i \in DOMAIN telq' : KindKnown(telq'[i])
    BY <1>2, <2>1 DEF Taken
  <2> QED BY <1>1, <1>2, <2>1, <2>2, <2>3
<1>4. CASE DeliverOther
  <2>1. Single /\ IInv' /\ Emit /\ UNCHANGED <<net, telq>>
    BY <1>2, <1>4, OtherEffect, AppSteps DEF Single, DeliverOther
  <2>2. /\ cmdq' \in Seq(Addressed)
        /\ shown' \in [Cids -> BOOLEAN] /\ recorded' \in [Cids -> BOOLEAN]
    BY <2>1, EmitQueue
  <2> QED BY <1>1, <1>2, <2>1, <2>2
<1>5. CASE Operate
  <2>1. Single /\ IInv' /\ Emit /\ UNCHANGED <<net, telq>>
    BY <1>5, OperateQueue, AppSteps
  <2>2. /\ cmdq' \in Seq(Addressed)
        /\ shown' \in [Cids -> BOOLEAN] /\ recorded' \in [Cids -> BOOLEAN]
    BY <2>1, EmitQueue
  <2> QED BY <1>1, <1>2, <2>1, <2>2
<1>6. CASE Link
  <2>1. IInv' /\ UNCHANGED <<net, telq, history>> /\ (cmdq' = cmdq \/ cmdq' = <<>>)
    BY <1>6, LinkEffect, AppSteps
  <2>2. cmdq' \in Seq(Addressed)
    BY <1>2, <2>1, EmptySeq
  <2> QED BY <1>1, <1>2, <2>1, <2>2 DEF history
<1>7. CASE Execute \/ Network
  <2>1. /\ AppIdle /\ StackStep /\ net' \in [Cids -> NetCall]
        /\ cmdq' = cmdq \/ (cmdq # <<>> /\ cmdq' = Tail(cmdq))
    BY <1>7, StackEffect
  <2>2. cmdq' \in Seq(Addressed)
    BY <1>2, <2>1, TakenTail
  <2>3. IInv'
    BY <1>2, <2>1, IdleInv
  <2>4. shown' \in [Cids -> BOOLEAN] /\ recorded' \in [Cids -> BOOLEAN]
    BY <2>1, HistoryType DEF StackStep
  <2>5. telq' \in Seq(Event) /\ \A i \in DOMAIN telq' : KindKnown(telq'[i])
    <3>1. CASE UNCHANGED telq
      BY <1>2, <3>1
    <3>2. ASSUME NEW c \in Cids, NEW e \in Event, Tells(c, e), telq' \in Seq(Event), Grown(telq, telq', {e})
          PROVE  telq' \in Seq(Event) /\ \A i \in DOMAIN telq' : KindKnown(telq'[i])
      BY <1>2, <3>2 DEF Tells, Grown, KindKnown
    <3> QED BY <2>1, <3>1, <3>2 DEF StackStep
  <2> QED BY <1>1, <2>1, <2>2, <2>3, <2>4, <2>5
<1>8. CASE UNCHANGED sysvars
  <2>1. IInv'
    BY <1>2, <1>8, StutterInv DEF sysvars
  <2> QED BY <1>1, <1>2, <1>8, <2>1 DEF sysvars, stack, history
<1> QED BY <1>3, <1>4, <1>5, <1>6, <1>7, <1>8 DEF SysNext

\* The call control keeps its invariant in the company of the stack, and neither
\* side sends what the other cannot read.
THEOREM SystemInvariance == SysSpec => []QInv
  BY QInvInit, QInvStep, PTL DEF SysSpec

-----------------------------------------------------------------------------
(* No call outlives the network's: the release that ends it is on its way.  *)

Ends(q, c) == {j \in DOMAIN q : q[j].cid = c /\ q[j].name = "release"}

\* For a call the network has dropped a release is under way, behind everything
\* else about it, as long as the application knows the call.
EndsAnnounced ==
  \A c \in Cids : net[c].phase = "idle" =>
    /\ \A i \in DOMAIN telq :
         telq[i].cid = c /\ telq[i].name # "release" => \E j \in Ends(telq, c) : i < j
    /\ c \in Known(calls) => Ends(telq, c) # {}

\* For a call the encoder transmits on and the network has dropped an event is
\* under way.
MicAnnounced == uplink # NoCid /\ net[uplink].phase = "idle" => Mentions(telq, uplink)

LEMMA SameKnown ==
  ASSUME NEW c \in Cids, SameCall(c) \/ calls'[c] = NoCall \/ Accepted(c)
  PROVE  c \in Known(calls') => c \in Known(calls)
  BY DEF SameCall, NoCall, Accepted, IncomingCalls, Known

\* Taking the first event moves the others up.
LEMMA EndsTaken ==
  ASSUME NEW q \in Seq(Event), NEW r \in Seq(Event), Taken(q, r), NEW c \in Cids
  PROVE  \A j \in Ends(q, c) : \/ j = 1
                               \/ j \in Int /\ 1 < j /\ j - 1 \in Ends(r, c)
  BY DEF Taken, Ends

\* Events put behind others leave them where they were.
LEMMA EndsGrown ==
  ASSUME NEW q, NEW r, NEW S, Grown(q, r, S), NEW c
  PROVE  Ends(q, c) \subseteq Ends(r, c)
  BY DEF Grown, Ends

LEMMA EndsDeliver ==
  ASSUME QInv, EndsAnnounced, Deliver
  PROVE  EndsAnnounced'
<1> DEFINE e == Head(telq)
<1>1. /\ e \in Event /\ Taken(telq, telq') /\ telq \in Seq(Event) /\ telq' \in Seq(Event) /\ UNCHANGED net
      /\ \A c \in Cids \ {e.cid} : SameCall(c)
      /\ e.name = "release" => calls'[e.cid] = NoCall
  BY DeliverEffect DEF QInv, SysTypeOK
<1>2. telq[1] = e /\ \A i \in DOMAIN telq : i \in Int /\ 1 <= i
  BY <1>1 DEF Taken
<1>3. \A i \in DOMAIN telq' : i + 1 \in DOMAIN telq /\ telq'[i] = telq[i + 1] /\ i \in Int /\ 1 <= i
  BY <1>1 DEF Taken
<1> HIDE DEF e
<1> SUFFICES ASSUME NEW c \in Cids, net'[c].phase = "idle"
             PROVE  /\ \A i \in DOMAIN telq' :
                         telq'[i].cid = c /\ telq'[i].name # "release" => \E j \in Ends(telq', c) : i < j
                    /\ c \in Known(calls') => Ends(telq', c) # {}
  BY DEF EndsAnnounced
<1>4. ASSUME NEW i \in DOMAIN telq', telq'[i].cid = c, telq'[i].name # "release"
      PROVE  \E j \in Ends(telq', c) : i < j
  <2>1. PICK j \in Ends(telq, c) : i + 1 < j
    BY <1>1, <1>3, <1>4 DEF EndsAnnounced
  <2>2. j - 1 \in Ends(telq', c) /\ i < j - 1
    BY <1>1, <1>3, <2>1, EndsTaken
  <2> QED BY <2>2
<1>5. ASSUME c \in Known(calls') PROVE Ends(telq', c) # {}
  <2>1. CASE c = e.cid /\ e.name # "release"
    <3>1. PICK j \in Ends(telq, c) : 1 < j
      BY <1>1, <1>2, <2>1 DEF EndsAnnounced, Taken
    <3> QED BY <1>1, <3>1, EndsTaken
  <2>2. CASE c # e.cid
    <3>1. c \in Known(calls)
      BY <1>1, <1>5, <2>2, SameKnown
    <3>2. PICK j \in Ends(telq, c) : TRUE
      BY <1>1, <3>1 DEF EndsAnnounced
    <3>3. j # 1
      BY <1>2, <2>2, <3>2 DEF Ends
    <3> QED BY <1>1, <3>2, <3>3, EndsTaken
  <2>3. CASE c = e.cid /\ e.name = "release"
    BY <1>1, <1>5, <2>3 DEF Known, NoCall
  <2> QED BY <2>1, <2>2, <2>3
<1> QED BY <1>4, <1>5

LEMMA EndsStack ==
  ASSUME QInv, EndsAnnounced, StackStep, UNCHANGED core
  PROVE  EndsAnnounced'
<1>1. telq \in Seq(Event) /\ Known(calls') = Known(calls)
  BY DEF QInv, SysTypeOK, core
<1>2. ASSUME NEW c \in Cids, NEW e \in Event, Tells(c, e), telq' \in Seq(Event), Grown(telq, telq', {e})
      PROVE  EndsAnnounced'
  <2> SUFFICES ASSUME NEW d \in Cids, net'[d].phase = "idle"
               PROVE  /\ \A i \in DOMAIN telq' :
                           telq'[i].cid = d /\ telq'[i].name # "release" => \E j \in Ends(telq', d) : i < j
                      /\ d \in Known(calls') => Ends(telq', d) # {}
    BY DEF EndsAnnounced
  <2>1. CASE d # c
    <3>1. net[d].phase = "idle"
      BY <1>2, <2>1 DEF Tells
    <3>2. \A i \in DOMAIN telq' : telq'[i].cid = d => i \in DOMAIN telq /\ telq'[i] = telq[i]
      BY <1>2, <2>1 DEF Tells, Grown
    <3> QED BY <1>1, <1>2, <3>1, <3>2, EndsGrown DEF EndsAnnounced
  <2>2. CASE d = c
    <3>1. e.cid = c /\ e.name = "release"
      BY <1>2, <2>2 DEF Tells
    <3>2. PICK k \in DOMAIN telq' \ DOMAIN telq : telq'[k] = e
      BY <1>2 DEF Grown
    <3>3. k \in Ends(telq', d)
      BY <2>2, <3>1, <3>2 DEF Ends
    <3>4. \A i \in DOMAIN telq' : telq'[i].name # "release" => i \in DOMAIN telq /\ i < k
      BY <1>2, <3>1, <3>2 DEF Grown
    <3> QED BY <3>3, <3>4
  <2> QED BY <2>1, <2>2
<1>3. ASSUME NEW c \in Cids, Dialled(c), UNCHANGED telq PROVE EndsAnnounced'
  <2>1. \A d \in Cids : net'[d].phase = "idle" => net[d].phase = "idle"
    BY <1>3 DEF Dialled
  <2> QED BY <1>1, <1>3, <2>1 DEF EndsAnnounced, Ends
<1>4. CASE UNCHANGED <<net, telq>>
  BY <1>1, <1>4 DEF EndsAnnounced, Ends
<1> QED BY <1>2, <1>3, <1>4 DEF StackStep

LEMMA EndsStep == QInv /\ EndsAnnounced /\ [SysNext]_sysvars => EndsAnnounced'
<1> SUFFICES ASSUME QInv, EndsAnnounced, [SysNext]_sysvars PROVE EndsAnnounced'
  OBVIOUS
<1>1. ASSUME UNCHANGED <<net, telq>>, \A c \in Cids : c \in Known(calls') => c \in Known(calls)
      PROVE  EndsAnnounced'
  BY <1>1 DEF EndsAnnounced, Ends
<1>2. CASE Deliver
  BY <1>2, EndsDeliver
<1>3. CASE DeliverOther
  BY <1>1, <1>3, OtherEffect, SameKnown DEF QInv, DeliverOther
<1>4. CASE Operate
  BY <1>1, <1>4, OperateQueue, SameKnown DEF Pressed, Dropped
<1>5. CASE Link
  BY <1>1, <1>5, LinkEffect, SameKnown DEF core
<1>6. CASE Execute \/ Network
  BY <1>6, StackEffect, EndsStack DEF AppIdle
<1>7. CASE UNCHANGED sysvars
  BY <1>1, <1>7 DEF sysvars, stack, vars, core
<1> QED BY <1>2, <1>3, <1>4, <1>5, <1>6, <1>7 DEF SysNext

\* sync_uplink points the encoder at a call in the table.
LEMMA TargetKnown ==
  ASSUME NEW cs, NEW g, NEW held, NEW muted, NEW u \in UplinkTargets(cs, g, held, muted), u # NoCid
  PROVE  u \in Known(cs)
  BY DEF UplinkTargets, ActiveGroupCalls, DuplexActive, Known

LEMMA OperateSyncs == Operate => SyncUplink \/ UNCHANGED uplink
  BY DEF Operate, Dial, UiGroupPttDown, UiGroupPttUp, UiHangupGroup, UiCallPttDown, UiCallPttUp,
         UiAnswerCall, UiRejectCall, UiHangup, UiToggleMute, NoSync

LEMMA MicStep ==
  ASSUME QInv, EndsAnnounced, MicAnnounced, [SysNext]_sysvars
  PROVE  MicAnnounced'
<1>1. EndsAnnounced' /\ uplink \in Cids \cup {NoCid}
  BY EndsStep DEF QInv, IInv, TypeOK
<1>2. CASE SyncUplink
  <2>1. uplink' # NoCid => uplink' \in Known(calls') /\ uplink' \in Cids
    BY <1>2, TargetKnown DEF SyncUplink, Known
  <2> QED BY <1>1, <2>1 DEF MicAnnounced, EndsAnnounced, Ends, Mentions
<1>3. CASE UNCHANGED <<uplink, net, telq>>
  BY <1>3 DEF MicAnnounced, Mentions
<1>4. CASE StackStep /\ UNCHANGED uplink
  <2>1. ASSUME NEW c \in Cids, NEW e \in Event, Tells(c, e), Grown(telq, telq', {e})
        PROVE  MicAnnounced'
    <3>1. \A d : Mentions(telq, d) => Mentions(telq', d)
      BY <2>1 DEF Mentions, Grown
    <3>2. Mentions(telq', c)
      BY <2>1 DEF Mentions, Grown, Tells
    <3> QED BY <1>1, <1>4, <2>1, <3>1, <3>2 DEF MicAnnounced, Tells
  <2>2. ASSUME NEW c \in Cids, Dialled(c), UNCHANGED telq PROVE MicAnnounced'
    BY <1>1, <1>4, <2>2 DEF MicAnnounced, Dialled, Mentions
  <2> QED BY <1>3, <1>4, <2>1, <2>2 DEF StackStep
<1>5. CASE Deliver
  BY <1>2, <1>5, DeliverEffect
<1>6. CASE DeliverOther
  BY <1>2, <1>6, OtherEffect DEF QInv
<1>7. CASE Operate
  BY <1>2, <1>3, <1>7, OperateSyncs DEF Operate
<1>8. CASE Link
  BY <1>3, <1>8, LinkEffect
<1>9. CASE Execute \/ Network
  BY <1>4, <1>9, StackEffect DEF AppIdle, devices
<1>10. CASE UNCHANGED sysvars
  BY <1>3, <1>10 DEF sysvars, stack, vars, devices
<1> QED BY <1>5, <1>6, <1>7, <1>8, <1>9, <1>10 DEF SysNext

\* The release of a dropped call is never lost to the application, nor overtaken.
THEOREM EndsInvariance == SysSpec => [](QInv /\ EndsAnnounced /\ MicAnnounced)
<1>1. SysInit => EndsAnnounced /\ MicAnnounced
  BY DEF SysInit, InitCalls, EndsAnnounced, MicAnnounced, Known, NoCall
<1> QED BY <1>1, QInvInit, QInvStep, EndsStep, MicStep, PTL DEF SysSpec

\* Whatever crossed a hang-up, a reject, a release or the loss of the control link
\* on the way, no call stays on the screen that the network has dropped.
THEOREM NoGhostCallsHolds == SysSpec => []NoGhostCalls
<1>1. EndsAnnounced => NoGhostCalls
  BY DEF EndsAnnounced, NoGhostCalls, Settled, Ends, Known
<1> QED BY <1>1, EndsInvariance, PTL

\* Nor does the encoder keep transmitting on one.
THEOREM MicOnNetworkCallHolds == SysSpec => []MicOnNetworkCall
<1>1. MicAnnounced => MicOnNetworkCall
  BY DEF MicAnnounced, MicOnNetworkCall, Settled, Mentions
<1> QED BY <1>1, EndsInvariance, PTL

-----------------------------------------------------------------------------
(* While the link stays up, what is under way about a call that the network *)
(* has and nobody hung up will bring the table in step with it.             *)

About(c) == {i \in DOMAIN telq : telq[i].cid = c}

Asked(c, ops) == {i \in DOMAIN cmdq : cmdq[i].cid = c /\ cmdq[i].op \in ops}

\* The release of the call is asked for.
Ending(c) == Asked(c, {"release"}) # {}

Traffic == {"tx", "notify"}

Personal(e) == e.name = "setup" /\ ~e.kind.group

Opens(e) == e.name = "connect" \/ (e.name = "setup" /\ e.kind.group)

InSetup(c) ==
  /\ \A i \in About(c) : telq[i].name \in {"proceed", "alert"}
  /\ ~calls[c].rang

InOffer(c) ==
  /\ ~net[c].group
  /\ \A i \in About(c) : Personal(telq[i])
  /\ IF c \in Known(calls) THEN calls[c].rang ELSE About(c) # {}
  /\ Asked(c, Answers) # {} => calls[c].answered

InTalk(c) ==
  /\ calls[c].rang \/ (\E i \in About(c) : Personal(telq[i])) => calls[c].answered
  /\ \/ \E i \in About(c) : /\ Opens(telq[i])
                            /\ \A j \in About(c) : i < j => telq[j].name \in Traffic
     \/ calls[c].state = "Active" /\ \A j \in About(c) : telq[j].name \in Traffic

FollowedAt(c) ==
  ~Ending(c) => /\ net[c].phase = "setup" => InSetup(c)
                /\ net[c].phase = "offered" => InOffer(c)
                /\ net[c].phase = "active" => InTalk(c)

Followed ==
  /\ connected
  /\ \A c \in Cids : /\ FollowedAt(c)
                     /\ calls[c].state = "Incoming" => calls[c].rang
                     /\ Ends(telq, c) # {} => net[c].phase = "idle"

\* A step may move the events about a call up by one, or leave them.
SameEvents(c) ==
  \E k \in {0, 1} :
    /\ \A i \in About(c) : i - k \in About(c)' /\ telq'[i - k] = telq[i]
    /\ \A i \in About(c)' : i + k \in About(c) /\ telq'[i] = telq[i + k]

\* A wish to end the call is kept until it is met, and only an accepted call is
\* answered.
Kept(c) ==
  /\ Ending(c) => Ending(c)' \/ net'[c].phase = "idle"
  /\ Asked(c, Answers)' # {} => Asked(c, Answers) # {} \/ calls'[c].answered

LEMMA AskedGrown ==
  ASSUME NEW S, Grown(cmdq, cmdq', S), NEW c, NEW ops
  PROVE  /\ Asked(c, ops) # {} => Asked(c, ops)' # {}
         /\ Asked(c, ops)' # {} => Asked(c, ops) # {} \/ \E m \in S : m.cid = c /\ m.op \in ops
  BY DEF Asked, Grown

LEMMA AskedTaken ==
  ASSUME Taken(cmdq, cmdq'), NEW c, NEW ops
  PROVE  /\ Asked(c, ops)' # {} => Asked(c, ops) # {}
         /\ Asked(c, ops) # {} => \/ Asked(c, ops)' # {}
                                  \/ Head(cmdq).cid = c /\ Head(cmdq).op \in ops
  BY DEF Asked, Taken

LEMMA CommandsKept ==
  ASSUME QInv, ~LinkFaults, [SysNext]_sysvars
  PROVE  \A c \in Cids : Kept(c)
<1> SUFFICES ASSUME NEW c \in Cids PROVE Kept(c)
  OBVIOUS
<1>1. ASSUME NEW S, Grown(cmdq, cmdq', S),
             \A m \in S : m.cid = c /\ m.op \in Answers => calls'[c].answered
      PROVE  Kept(c)
  BY <1>1, AskedGrown DEF Kept, Ending
<1>2. CASE Deliver
  <2>1. Single /\ \E d \in Cids : sent' \in {{}, {Cmd("alert", d)}}
    BY <1>2, DeliverEffect DEF Event
  <2>2. Grown(cmdq, cmdq', sent')
    BY <1>2, <2>1, EmitQueue DEF Deliver
  <2> QED BY <1>1, <2>1, <2>2 DEF Cmd, Answers
<1>3. CASE DeliverOther
  <2>1. sent' = {}
    BY <1>3, OtherEffect DEF QInv
  <2>2. Grown(cmdq, cmdq', sent')
    BY <1>3, <2>1, EmitQueue DEF DeliverOther, Single
  <2> QED BY <1>1, <2>1, <2>2
<1>4. CASE Operate
  <2>1. Pressed /\ Grown(cmdq, cmdq', sent')
    BY <1>4, OperateQueue, EmitQueue
  <2> QED BY <1>1, <2>1 DEF Pressed, Accepted
<1>5. CASE UNCHANGED cmdq
  BY <1>1, <1>5, GrownSame
<1>6. CASE Execute \/ Network
  <2>1. CASE cmdq # <<>> /\ cmdq' = Tail(cmdq) /\ Executed(Head(cmdq))
    <3>1. Taken(cmdq, cmdq')
      BY <2>1, TakenTail DEF QInv
    <3> QED BY <2>1, <3>1, AskedTaken DEF Kept, Ending, Executed
  <2> QED BY <1>5, <1>6, <2>1, StackEffect
<1>7. CASE Link
  BY <1>5, <1>7, LinkEffect
<1> QED BY <1>2, <1>3, <1>4, <1>5, <1>6, <1>7 DEF SysNext, sysvars, stack

\* A step that is not about the call.
LEMMA FollowedSame ==
  ASSUME QInv, QInv', NEW c \in Cids, FollowedAt(c), SameCall(c), SameEvents(c), net'[c] = net[c], Kept(c)
  PROVE  FollowedAt(c)'
<1>1. PICK k \in {0, 1} :
        /\ \A i \in About(c) : i - k \in About(c)' /\ telq'[i - k] = telq[i]
        /\ \A i \in About(c)' : i + k \in About(c) /\ telq'[i] = telq[i + k]
  BY DEF SameEvents
<1>2. (\A i \in About(c) : i \in Int) /\ (\A i \in About(c)' : i \in Int)
  BY DEF About, QInv, SysTypeOK
<1>3. c \in Known(calls') <=> c \in Known(calls)
  BY DEF SameCall, Known
<1> SUFFICES ASSUME ~Ending(c)'
             PROVE  /\ net'[c].phase = "setup" => InSetup(c)'
                    /\ net'[c].phase = "offered" => InOffer(c)'
                    /\ net'[c].phase = "active" => InTalk(c)'
  BY DEF FollowedAt
<1>4. ~Ending(c) \/ net'[c].phase = "idle"
  BY DEF Kept
<1>5. ASSUME net'[c].phase = "setup" PROVE InSetup(c)'
  BY <1>1, <1>4, <1>5 DEF FollowedAt, InSetup, SameCall
<1>6. ASSUME net'[c].phase = "offered" PROVE InOffer(c)'
  <2>1. InOffer(c)
    BY <1>4, <1>6 DEF FollowedAt
  <2>2. About(c) # {} => About(c)' # {}
    BY <1>1
  <2>3. \A i \in About(c)' : Personal(telq'[i])
    BY <1>1, <2>1 DEF InOffer
  <2>4. Asked(c, Answers)' # {} => calls'[c].answered
    BY <2>1 DEF InOffer, Kept, SameCall
  <2> QED BY <1>3, <2>1, <2>2, <2>3, <2>4 DEF InOffer, SameCall
<1>7. ASSUME net'[c].phase = "active" PROVE InTalk(c)'
  <2>1. InTalk(c)
    BY <1>4, <1>7 DEF FollowedAt
  <2>2. calls'[c].rang \/ (\E i \in About(c)' : Personal(telq'[i])) => calls'[c].answered
    BY <1>1, <2>1 DEF InTalk, SameCall
  <2>3. ASSUME NEW i \in About(c), Opens(telq[i]), \A j \in About(c) : i < j => telq[j].name \in Traffic
        PROVE  \E n \in About(c)' : /\ Opens(telq'[n])
                                    /\ \A j \in About(c)' : n < j => telq'[j].name \in Traffic
    <3>1. i - k \in About(c)' /\ Opens(telq'[i - k])
      BY <1>1, <2>3
    <3>2. \A j \in About(c)' : i - k < j => telq'[j].name \in Traffic
      BY <1>1, <1>2, <2>3
    <3> QED BY <3>1, <3>2
  <2>4. ASSUME calls[c].state = "Active", \A j \in About(c) : telq[j].name \in Traffic
        PROVE  calls'[c].state = "Active" /\ \A j \in About(c)' : telq'[j].name \in Traffic
    BY <1>1, <2>4 DEF SameCall
  <2> QED BY <2>1, <2>2, <2>3, <2>4 DEF InTalk
<1> QED BY <1>5, <1>6, <1>7

\* Events of others leave a call's alone.
LEMMA EventsSame ==
  ASSUME QInv, QInv', NEW c \in Cids,
         \/ UNCHANGED telq
         \/ \E e : Grown(telq, telq', {e}) /\ e.cid # c
         \/ Taken(telq, telq') /\ Head(telq).cid # c
  PROVE  SameEvents(c)
<1>1. (\A i \in DOMAIN telq : i \in Int) /\ (\A i \in DOMAIN telq' : i \in Int)
  BY DEF QInv, SysTypeOK
<1>2. CASE UNCHANGED telq
  BY <1>1, <1>2 DEF SameEvents, About
<1>3. CASE \E e : Grown(telq, telq', {e}) /\ e.cid # c
  BY <1>1, <1>3 DEF SameEvents, About, Grown
<1>4. CASE Taken(telq, telq') /\ Head(telq).cid # c
  BY <1>1, <1>4 DEF SameEvents, About, Taken
<1> QED BY <1>2, <1>3, <1>4

\* The event delivered is about this call.
LEMMA FollowedTold ==
  ASSUME QInv, QInv', Followed, Deliver, NEW c \in Cids, c = Head(telq).cid, Kept(c)
  PROVE  FollowedAt(c)'
<1> DEFINE e == Head(telq)
<1>1. /\ e \in Event /\ Taken(telq, telq') /\ UNCHANGED net
      /\ e.name # "release" => AsTold(e)
      /\ e.cid = c
  BY DeliverEffect
<1>2. /\ 1 \in About(c) /\ telq[1] = e
      /\ \A i \in About(c) : i = 1 \/ (i - 1 \in About(c)' /\ telq'[i - 1] = telq[i])
      /\ \A i \in About(c)' : i + 1 \in About(c) /\ telq'[i] = telq[i + 1]
      /\ \A i \in About(c) : i \in Int /\ 1 <= i
      /\ \A i \in About(c)' : i \in Int /\ 1 <= i
  BY <1>1 DEF About, Taken, QInv, SysTypeOK
<1> HIDE DEF e
<1>3. CASE net[c].phase = "idle"
  BY <1>1, <1>3 DEF FollowedAt
<1>4. CASE e.name = "release"
  BY <1>1, <1>2, <1>3, <1>4 DEF Followed, Ends, About
<1> SUFFICES ASSUME ~Ending(c)', e.name # "release", net[c].phase # "idle"
             PROVE  /\ net'[c].phase = "setup" => InSetup(c)'
                    /\ net'[c].phase = "offered" => InOffer(c)'
                    /\ net'[c].phase = "active" => InTalk(c)'
  BY <1>3, <1>4 DEF FollowedAt
<1>5. ~Ending(c) /\ FollowedAt(c) /\ (calls[c].state = "Incoming" => calls[c].rang)
  BY <1>1 DEF Kept, Followed
<1>6. /\ c \in Known(calls') /\ calls'[c].answered = calls[c].answered
      /\ calls'[c].rang = (calls[c].rang \/ calls'[c].state = "Incoming")
  BY <1>1 DEF AsTold, Known
<1>7. ASSUME net[c].phase = "setup" PROVE InSetup(c)'
  <2>1. InSetup(c)
    BY <1>5, <1>7 DEF FollowedAt
  <2>2. e.name \in {"proceed", "alert"} /\ \A i \in About(c)' : telq'[i].name \in {"proceed", "alert"}
    BY <1>2, <2>1 DEF InSetup
  <2>3. ~calls'[c].rang
    BY <1>1, <1>6, <2>1, <2>2 DEF InSetup, AsTold
  <2> QED BY <2>2, <2>3 DEF InSetup
<1>8. ASSUME net[c].phase = "offered" PROVE InOffer(c)'
  <2>1. InOffer(c)
    BY <1>5, <1>8 DEF FollowedAt
  <2>2. Personal(e) /\ \A i \in About(c)' : Personal(telq'[i])
    BY <1>2, <2>1 DEF InOffer
  <2>3. calls'[c].rang
    <3>1. CASE c \in Known(calls)
      BY <1>6, <2>1, <3>1 DEF InOffer
    <3>2. CASE c \notin Known(calls)
      <4>1. calls[c] = NoCall
        BY <3>2 DEF Known, QInv, IInv, AbsentCallsBlank
      <4>2. e.name = "setup" /\ ~e.kind.group /\ ~calls[c].group
        BY <2>2, <4>1 DEF Personal, NoCall
      <4>3. calls'[c].state = "Incoming"
        BY <1>1, <4>2 DEF AsTold
      <4> QED BY <1>6, <4>3
    <3> QED BY <3>1, <3>2
  <2> QED BY <1>1, <1>6, <2>1, <2>2, <2>3 DEF InOffer, Kept
<1>9. ASSUME net[c].phase = "active" PROVE InTalk(c)'
  <2>1. InTalk(c)
    BY <1>5, <1>9 DEF FollowedAt
  <2>2. calls[c].answered \/ (~calls[c].rang /\ ~Personal(e) /\ \A i \in About(c)' : ~Personal(telq'[i]))
    BY <1>2, <2>1 DEF InTalk
  <2>3. calls'[c].rang => calls[c].rang \/ Personal(e)
    BY <1>1, <1>5, <1>6 DEF AsTold, Personal, Event, EventNames
  <2>4. calls'[c].rang \/ (\E i \in About(c)' : Personal(telq'[i])) => calls'[c].answered
    BY <1>6, <2>2, <2>3
  <2>5. CASE \E i \in About(c) : /\ i # 1 /\ Opens(telq[i])
                                 /\ \A j \in About(c) : i < j => telq[j].name \in Traffic
    <3>1. PICK i \in About(c) : /\ i # 1 /\ Opens(telq[i])
                                /\ \A j \in About(c) : i < j => telq[j].name \in Traffic
      BY <2>5
    <3>2. i - 1 \in About(c)' /\ Opens(telq'[i - 1])
      BY <1>2, <3>1
    <3>3. \A j \in About(c)' : i - 1 < j => telq'[j].name \in Traffic
      BY <1>2, <3>1
    <3> QED BY <2>4, <3>2, <3>3 DEF InTalk
  <2>6. CASE Opens(e) /\ \A j \in About(c) : 1 < j => telq[j].name \in Traffic
    <3>1. calls'[c].state = "Active"
      BY <1>1, <2>6 DEF Opens, AsTold
    <3>2. \A j \in About(c)' : telq'[j].name \in Traffic
      BY <1>2, <2>6
    <3> QED BY <2>4, <3>1, <3>2 DEF InTalk
  <2>7. CASE calls[c].state = "Active" /\ \A j \in About(c) : telq[j].name \in Traffic
    <3>1. e.name \in Traffic /\ \A j \in About(c)' : telq'[j].name \in Traffic
      BY <1>2, <2>7
    <3>2. calls'[c].state = "Active"
      BY <1>1, <2>7, <3>1 DEF Traffic, AsTold
    <3> QED BY <2>4, <3>1, <3>2 DEF InTalk
  <2> QED BY <1>2, <2>1, <2>5, <2>6, <2>7 DEF InTalk
<1> QED BY <1>1, <1>7, <1>8, <1>9

\* Nothing of an earlier use is left when the identifier is given to a new call.
LEMMA FreeClean ==
  ASSUME QInv, EndsAnnounced, NEW c \in Cids, Free(c)
  PROVE  /\ calls[c] = NoCall /\ About(c) = {} /\ \A ops : Asked(c, ops) = {}
         /\ net[c].phase = "idle"
<1>1. c \notin Known(calls)
  BY DEF Free, EndsAnnounced, Ends, Mentions
<1>2. calls[c] = NoCall
  BY <1>1 DEF Known, QInv, IInv, AbsentCallsBlank
<1> QED BY <1>2 DEF Free, About, Asked, Mentions

\* The stack tells something of this call.
LEMMA FollowedTells ==
  ASSUME QInv, QInv', EndsAnnounced, Followed, UNCHANGED core, NEW c \in Cids, Kept(c),
         NEW e \in Event, Tells(c, e), Grown(telq, telq', {e}), e.name # "release" => Once(telq, telq'),
         net[c].phase = "offered" /\ net'[c].phase = "active" => Asked(c, Answers) # {}
  PROVE  FollowedAt(c)'
<1>1. (\A i \in DOMAIN telq : i \in Int) /\ (\A i \in DOMAIN telq' : i \in Int)
  BY DEF QInv, SysTypeOK
<1>2. /\ \A i \in About(c) : i \in About(c)' /\ telq'[i] = telq[i]
      /\ \A i \in About(c)' : \/ i \in About(c) /\ telq'[i] = telq[i]
                              \/ telq'[i] = e /\ \A j \in About(c) : j < i
      /\ e.name # "release" =>
           \E i \in About(c)' : telq'[i] = e /\ \A j \in About(c)' : ~(i < j)
  <2>1. /\ \A i \in About(c) : i \in About(c)' /\ telq'[i] = telq[i]
        /\ \A i \in About(c)' : \/ i \in About(c) /\ telq'[i] = telq[i]
                                \/ telq'[i] = e /\ \A j \in About(c) : j < i
    BY DEF About, Grown, Tells
  <2>2. PICK n \in DOMAIN telq' \ DOMAIN telq : telq'[n] = e
    BY DEF Grown
  <2>3. n \in About(c)'
    BY <2>2 DEF About, Tells
  <2>4. ASSUME Once(telq, telq'), NEW j \in About(c)' PROVE ~(n < j)
    <3>1. CASE j \in DOMAIN telq
      BY <1>1, <2>2, <3>1 DEF Grown
    <3>2. CASE j \notin DOMAIN telq
      BY <1>1, <2>2, <2>4, <3>2 DEF Once, About
    <3> QED BY <3>1, <3>2
  <2> QED BY <2>1, <2>2, <2>3, <2>4
<1>3. calls' = calls /\ Known(calls') = Known(calls)
  BY DEF core
<1>4. CASE net'[c].phase = "idle"
  BY <1>4 DEF FollowedAt
<1> SUFFICES ASSUME ~Ending(c)', net'[c].phase # "idle"
             PROVE  /\ net'[c].phase = "setup" => InSetup(c)'
                    /\ net'[c].phase = "offered" => InOffer(c)'
                    /\ net'[c].phase = "active" => InTalk(c)'
  BY <1>4 DEF FollowedAt
<1>5. ~Ending(c) /\ FollowedAt(c)
  BY DEF Kept, Followed
<1>6. ASSUME e.name \in Traffic, net[c].phase = "active", net'[c].phase = "active"
      PROVE  InTalk(c)'
  <2>1. InTalk(c)
    BY <1>5, <1>6 DEF FollowedAt
  <2>2. (\E i \in About(c)' : Personal(telq'[i])) => \E i \in About(c) : Personal(telq[i])
    BY <1>2, <1>6 DEF Personal, Traffic
  <2>3. ASSUME NEW i \in About(c), Opens(telq[i]), \A j \in About(c) : i < j => telq[j].name \in Traffic
        PROVE  i \in About(c)' /\ Opens(telq'[i]) /\ \A j \in About(c)' : i < j => telq'[j].name \in Traffic
    BY <1>2, <1>6, <2>3
  <2>4. (\A j \in About(c) : telq[j].name \in Traffic) => \A j \in About(c)' : telq'[j].name \in Traffic
    BY <1>2, <1>6
  <2> QED BY <1>3, <2>1, <2>2, <2>3, <2>4 DEF InTalk
<1>7. ASSUME e.name \in {"proceed", "alert"}, net[c].phase = "setup", net'[c] = net[c]
      PROVE  InSetup(c)'
  BY <1>2, <1>3, <1>5, <1>7 DEF FollowedAt, InSetup
<1>8. ASSUME e.name = "setup", Free(c), net'[c].group = e.kind.group,
             net'[c].phase = (IF e.kind.group THEN "active" ELSE "offered")
      PROVE  IF e.kind.group THEN InTalk(c)' ELSE InOffer(c)'
  <2>1. calls[c] = NoCall /\ About(c) = {} /\ Asked(c, Answers) = {}
    BY <1>8, FreeClean
  <2>2. \A i \in About(c)' : telq'[i] = e
    BY <1>2, <2>1
  <2>3. About(c)' # {}
    BY <1>2, <1>8
  <2>4. CASE e.kind.group
    <3>1. \E i \in About(c)' : Opens(telq'[i]) /\ \A j \in About(c)' : ~(i < j)
      BY <1>2, <1>8, <2>4 DEF Opens
    <3>2. ~calls'[c].rang /\ \A i \in About(c)' : ~Personal(telq'[i])
      BY <1>3, <2>1, <2>2, <2>4 DEF NoCall, Personal
    <3> QED BY <2>4, <3>1, <3>2 DEF InTalk
  <2>5. CASE ~e.kind.group
    BY <1>3, <1>8, <2>1, <2>2, <2>3, <2>5 DEF InOffer, NoCall, Known, Personal, Kept
  <2> QED BY <2>4, <2>5
<1>9. ASSUME e.name = "setup", net[c].phase = "offered", net'[c] = net[c], e.kind.group = net[c].group
      PROVE  InOffer(c)'
  <2>1. InOffer(c)
    BY <1>5, <1>9 DEF FollowedAt
  <2>2. \A i \in About(c)' : Personal(telq'[i])
    BY <1>2, <1>9, <2>1 DEF InOffer, Personal
  <2> QED BY <1>2, <1>3, <1>9, <2>1, <2>2 DEF InOffer, Kept
<1>10. ASSUME e.name = "connect", net[c].phase \in {"setup", "offered"}, net'[c].phase = "active"
       PROVE  InTalk(c)'
  <2>1. \E i \in About(c)' : Opens(telq'[i]) /\ \A j \in About(c)' : ~(i < j)
    BY <1>2, <1>10 DEF Opens
  <2>2. calls[c].rang \/ (\E i \in About(c) : Personal(telq[i])) => calls[c].answered
    BY <1>5, <1>10 DEF FollowedAt, InSetup, InOffer, Personal
  <2>3. (\E i \in About(c)' : Personal(telq'[i])) => \E i \in About(c) : Personal(telq[i])
    BY <1>2, <1>10 DEF Personal
  <2> QED BY <1>3, <2>1, <2>2, <2>3 DEF InTalk
<1>11. CASE e.name = "setup"
  BY <1>8, <1>9, <1>11 DEF Tells
<1>12. CASE e.name = "connect"
  <2>1. net[c].phase \in {"setup", "offered"} /\ net'[c].phase = "active"
    BY <1>12 DEF Tells
  <2> QED BY <1>10, <1>12, <2>1
<1>13. CASE e.name \in {"proceed", "alert"}
  <2>1. net[c].phase = "setup" /\ net'[c] = net[c]
    BY <1>13 DEF Tells
  <2> QED BY <1>7, <1>13, <2>1
<1>14. CASE e.name \in Traffic
  <2>1. net[c].phase = "active" /\ net'[c].phase = "active"
    BY <1>14 DEF Tells, Traffic
  <2> QED BY <1>6, <1>14, <2>1
<1>15. CASE e.name = "release"
  BY <1>15 DEF Tells, IdleCall
<1> QED BY <1>11, <1>12, <1>13, <1>14, <1>15 DEF Event, EventNames, Traffic

LEMMA FollowedStep ==
  ASSUME ~LinkFaults, QInv, QInv', EndsAnnounced, Followed, [SysNext]_sysvars
  PROVE  Followed'
<1>1. \A c \in Cids : Kept(c)
  BY CommandsKept
<1>2. (\A i \in DOMAIN telq : i \in Int) /\ (\A i \in DOMAIN telq' : i \in Int)
  BY DEF QInv, SysTypeOK
<1>3. ASSUME connected', \A c \in Cids : SameCall(c), UNCHANGED <<net, telq>>
      PROVE  Followed'
  <2>1. \A c \in Cids : FollowedAt(c)'
    BY <1>1, <1>3, EventsSame, FollowedSame DEF Followed
  <2> QED BY <1>3, <2>1 DEF Followed, SameCall, Ends
<1>4. CASE Deliver
  <2> DEFINE e == Head(telq)
  <2>1. /\ e \in Event /\ Taken(telq, telq') /\ UNCHANGED <<net, connected>>
        /\ \A c \in Cids \ {e.cid} : SameCall(c)
        /\ e.name # "release" => AsTold(e)
        /\ e.name = "release" => calls'[e.cid] = NoCall
    BY <1>4, DeliverEffect DEF radio
  <2> HIDE DEF e
  <2> SUFFICES ASSUME NEW c \in Cids
               PROVE  /\ FollowedAt(c)'
                      /\ calls'[c].state = "Incoming" => calls'[c].rang
                      /\ Ends(telq', c) # {} => net'[c].phase = "idle"
    BY <2>1 DEF Followed
  <2>2. Ends(telq', c) # {} => net'[c].phase = "idle"
    BY <2>1 DEF Followed, Ends, Taken
  <2>3. CASE c # e.cid
    <3>1. FollowedAt(c)'
      BY <1>1, <2>1, <2>3, EventsSame, FollowedSame DEF Followed, e
    <3> QED BY <2>1, <2>2, <2>3, <3>1 DEF Followed, SameCall
  <2>4. CASE c = e.cid
    <3>1. FollowedAt(c)'
      BY <1>1, <1>4, <2>4, FollowedTold DEF e
    <3>2. calls'[c].state = "Incoming" => calls'[c].rang
      <4>1. CASE e.name = "release"
        BY <2>1, <2>4, <4>1 DEF NoCall
      <4>2. CASE e.name # "release"
        <5>1. calls'[c].rang = (calls[c].rang \/ calls'[c].state = "Incoming")
          BY <2>1, <2>4, <4>2 DEF AsTold
        <5> QED BY <5>1
      <4> QED BY <4>1, <4>2
    <3> QED BY <2>2, <3>1, <3>2
  <2> QED BY <2>3, <2>4
<1>5. CASE DeliverOther
  BY <1>3, <1>5, OtherEffect DEF QInv, DeliverOther, Followed, radio
<1>6. CASE Operate
  <2>1. Pressed /\ Emit /\ UNCHANGED <<net, telq, connected>> /\ Single
    BY <1>6, OperateQueue DEF Pressed, radio
  <2>2. Grown(cmdq, cmdq', sent')
    BY <2>1, EmitQueue
  <2> SUFFICES ASSUME NEW c \in Cids
               PROVE  FollowedAt(c)' /\ (calls'[c].state = "Incoming" => calls'[c].rang)
    BY <2>1 DEF Followed, Ends
  <2>3. CASE SameCall(c)
    BY <1>1, <2>1, <2>3, EventsSame, FollowedSame DEF Followed, SameCall
  <2>4. CASE Dropped(c)
    <3>1. Cmd("release", c) \in sent'
      BY <2>4 DEF Dropped, Followed
    <3>2. Ending(c)'
      BY <2>2, <3>1 DEF Grown, Ending, Asked, Cmd
    <3> QED BY <2>4, <3>2 DEF FollowedAt, Dropped, NoCall
  <2>5. CASE Accepted(c)
    <3>1. /\ calls[c].rang /\ ~calls[c].answered /\ c \in Known(calls) /\ c \in Known(calls')
          /\ calls'[c].rang /\ calls'[c].answered
      BY <2>5 DEF Accepted, IncomingCalls, Known
    <3>2. UNCHANGED <<net, telq>> /\ About(c)' = About(c)
      BY <2>1 DEF About
    <3>3. Ending(c) => Ending(c)' \/ net'[c].phase = "idle"
      BY <1>1 DEF Kept
    <3>4. FollowedAt(c)
      BY DEF Followed
    <3> QED BY <3>1, <3>2, <3>3, <3>4 DEF FollowedAt, InSetup, InOffer, InTalk
  <2> QED BY <2>1, <2>3, <2>4, <2>5 DEF Pressed
<1>7. CASE Link
  BY <1>3, <1>7, LinkEffect DEF Followed, core, SameCall
<1>8. CASE Execute \/ Network
  <2>1. /\ UNCHANGED core /\ connected' /\ StackStep
        /\ \/ Network
           \/ cmdq # <<>> /\ Executed(Head(cmdq))
    BY <1>8, StackEffect DEF AppIdle, radio, Followed
  <2>2. \A c \in Cids : SameCall(c)
    BY <2>1 DEF core, SameCall
  <2>3. ASSUME NEW d \in Cids, NEW e \in Event, Tells(d, e), Grown(telq, telq', {e}),
               e.name # "release" => Once(telq, telq')
        PROVE  Followed'
    <3> SUFFICES ASSUME NEW c \in Cids
                 PROVE  FollowedAt(c)' /\ (Ends(telq', c) # {} => net'[c].phase = "idle")
      BY <2>1, <2>2 DEF Followed, SameCall
    <3>1. CASE c # d
      <4>1. net'[c] = net[c] /\ e.cid # c
        BY <2>3, <3>1 DEF Tells
      <4>2. FollowedAt(c)'
        BY <1>1, <2>2, <2>3, <4>1, EventsSame, FollowedSame DEF Followed
      <4> QED BY <2>3, <4>1, <4>2 DEF Followed, Ends, Grown
    <3>2. CASE c = d
      <4>1. net[c].phase = "offered" /\ net'[c].phase = "active" => Asked(c, Answers) # {}
        <5> SUFFICES ASSUME net[c].phase = "offered", net'[c].phase = "active"
                     PROVE  cmdq # <<>> /\ Head(cmdq).cid = c /\ Head(cmdq).op \in Answers
          BY TakenTail DEF Asked, Taken, QInv
        <5> QED BY <2>3, <3>2 DEF Tells, IdleCall, Free
      <4>2. FollowedAt(c)'
        BY <1>1, <2>1, <2>3, <3>2, <4>1, FollowedTells
      <4>3. Ends(telq', c) # {} => net'[c].phase = "idle"
        <5>1. ASSUME Ends(telq, c) # {} PROVE net'[c].phase = "idle"
          <6>1. net[c].phase = "idle"
            BY <5>1 DEF Followed
          <6>2. ~Free(c)
            BY <5>1 DEF Free, Ends, Mentions
          <6> QED BY <2>3, <3>2, <6>1, <6>2 DEF Tells
        <5>2. CASE e.name = "release"
          BY <2>3, <3>2, <5>2 DEF Tells, IdleCall
        <5>3. CASE e.name # "release"
          BY <2>3, <5>1, <5>3 DEF Ends, Grown
        <5> QED BY <5>2, <5>3
      <4> QED BY <4>2, <4>3
    <3> QED BY <3>1, <3>2
  <2>4. ASSUME NEW d \in Cids, Dialled(d), UNCHANGED telq
        PROVE  Followed'
    <3> SUFFICES ASSUME NEW c \in Cids
                 PROVE  FollowedAt(c)' /\ (Ends(telq', c) # {} => net'[c].phase = "idle")
      BY <2>1, <2>2 DEF Followed, SameCall
    <3>1. CASE c # d
      <4>1. net'[c] = net[c]
        BY <2>4, <3>1 DEF Dialled
      <4>2. FollowedAt(c)'
        BY <1>1, <2>2, <2>4, <4>1, EventsSame, FollowedSame DEF Followed
      <4> QED BY <2>4, <4>1, <4>2 DEF Followed
    <3>2. CASE c = d
      <4>1. calls[c] = NoCall /\ About(c) = {}
        BY <2>4, <3>2, FreeClean DEF Dialled
      <4>2. Ends(telq', c) = {} /\ InSetup(c)'
        BY <2>1, <2>4, <4>1 DEF Ends, About, InSetup, NoCall, core
      <4> QED BY <2>4, <3>2, <4>2 DEF FollowedAt, Dialled
    <3> QED BY <3>1, <3>2
  <2>5. CASE UNCHANGED <<net, telq>>
    BY <1>3, <2>1, <2>2, <2>5
  <2> QED BY <2>1, <2>3, <2>4, <2>5 DEF StackStep
<1>9. CASE UNCHANGED sysvars
  BY <1>3, <1>9 DEF sysvars, stack, vars, core, radio, Followed, SameCall
<1> QED BY <1>4, <1>5, <1>6, <1>7, <1>8, <1>9 DEF SysNext

\* As long as the control link stays up, every call of the network that nobody
\* wants ended is set up, offered or under way on both sides.
THEOREM FollowedInvariance ==
  ASSUME ~LinkFaults
  PROVE  SysSpec => [](QInv /\ EndsAnnounced /\ Followed)
<1>1. SysInit => EndsAnnounced /\ Followed
  BY DEF SysInit, InitCalls, IdleCall, EndsAnnounced, Followed, FollowedAt, Known, NoCall, Ends
<1>2. QInv /\ EndsAnnounced /\ Followed /\ [SysNext]_sysvars => Followed'
  BY QInvStep, FollowedStep
<1> QED BY <1>1, <1>2, QInvInit, QInvStep, EndsStep, PTL DEF SysSpec

\* Without the loss of the control link every call the network has connected is
\* Active here once nothing is under way, whatever the operator and the stack did
\* to it at the same time.
THEOREM NoLostCallsHolds ==
  ASSUME ~LinkFaults
  PROVE  SysSpec => []NoLostCalls
<1>1. QInv /\ Followed => NoLostCalls
  <2> SUFFICES ASSUME Followed, Settled, NEW c \in Cids, net[c].phase = "active"
               PROVE  calls[c].state = "Active"
    BY DEF NoLostCalls
  <2>1. About(c) = {} /\ ~Ending(c)
    BY DEF Settled, About, Ending, Asked
  <2> QED BY <2>1 DEF Followed, FollowedAt, InTalk
<1> QED BY <1>1, FollowedInvariance, PTL

-----------------------------------------------------------------------------
(* The call log.  A group call is entered in it by nobody, so the log is    *)
(* complete while the operator starts none from here.                       *)

\* Nothing about the same call is before it.
First(q, i) == \A j \in DOMAIN q : q[j].cid = q[i].cid => i <= j

\* A group call is announced once, first of all and only by its setup; what was
\* on the screen as an individual call still is, or is in the log.
Accounted ==
  /\ dialing # "group"
  /\ \A i \in DOMAIN telq : telq[i].kind.group =>
       /\ telq[i].name = "setup" /\ telq[i].cid \notin Known(calls) /\ ~shown[telq[i].cid]
       /\ First(telq, i)
  /\ \A c \in Cids : /\ net[c].phase \in {"setup", "offered"} => ~net[c].group
                     /\ shown[c] => recorded[c] \/ (c \in Known(calls) /\ ~calls[c].group)

\* What a button or an event takes out of the table it writes into the log.
LEMMA TakenOutLogged ==
  ASSUME QInv, "group" \notin LocalModes, dialing # "group", Deliver \/ Operate
  PROVE  /\ dialing' # "group"
         /\ \A c \in Known(calls) : calls'[c] = NoCall /\ ~calls[c].group => Written(c)
<1> DEFINE Kept1 == /\ dialing' # "group"
                    /\ \A c \in Known(calls) : calls'[c] = NoCall /\ ~calls[c].group => Written(c)
<1>1. \A c \in Known(calls) : c \in Cids /\ calls[c] # NoCall
  BY DEF Known, NoCall
<1>2. CASE Deliver
  <2> DEFINE e == Head(telq)
  <2>1. e \in Event /\ KindKnown(e) /\ Handle(e) /\ e.cid \in Cids /\ IInv
    BY <1>2, DeliverEffect DEF Event, QInv
  <2> HIDE DEF e
  <2>2. CASE e.name # "release"
    <3>1. /\ \A c \in Cids \ {e.cid} : SameCall(c)
          /\ AsTold(e) /\ dialing' \in {"none", dialing}
      BY <2>1, <2>2, ArmEffect
    <3>2. \A c \in Known(calls) : calls'[c] # NoCall
      BY <1>1, <3>1 DEF AsTold, SameCall, Known, NoCall
    <3> QED BY <3>1, <3>2
  <2>3. CASE e.name = "release"
    <3>1. PICK failure \in BOOLEAN : Release(e.cid, failure)
      BY <2>1, <2>3 DEF Handle
    <3>2. /\ \A c \in Cids \ {e.cid} : SameCall(c)
          /\ calls[e.cid].state # "Absent" /\ ~calls[e.cid].group => \E l \in logged' : l.cid = e.cid
          /\ dialing' = "none"
      BY <2>1, <3>1, ReleaseEffect
    <3>3. \A c \in Known(calls) \ {e.cid} : calls'[c] # NoCall
      BY <1>1, <3>2 DEF SameCall, Known, NoCall
    <3> QED BY <3>2, <3>3 DEF Written, Known
  <2> QED BY <2>2, <2>3
<1>3. CASE Operate
  <2>1. CASE \E mode \in LocalModes \ {"group"} : Dial(mode)
    BY <1>1, <2>1 DEF Dial
  <2>2. CASE UiCallPttDown \/ UiCallPttUp \/ UiToggleMute
    BY <1>1, <2>2 DEF UiCallPttDown, UiCallPttUp, UiToggleMute
  <2>3. CASE UiAnswerCall
    <3>1. PICK cid \in IncomingCalls(calls) :
            calls' = [calls EXCEPT ![cid].answered = TRUE, ![cid].state = "Connecting"]
      BY <2>3 DEF UiAnswerCall
    <3>2. calls \in [Cids -> CallRecord] /\ cid \in Cids /\ calls[cid] \in CallRecord
      BY DEF QInv, IInv, TypeOK, IncomingCalls, Known
    <3> DEFINE d == [[calls[cid] EXCEPT !.answered = TRUE] EXCEPT !.state = "Connecting"]
    <3>3. d.state = "Connecting"
      BY <3>2 DEF CallRecord
    <3>4. calls' = [calls EXCEPT ![cid] = d]
      BY <3>1, <3>2
    <3> HIDE DEF d
    <3>5. \A c \in Known(calls) : calls'[c] # NoCall
      BY <1>1, <3>2, <3>3, <3>4 DEF NoCall
    <3> QED BY <2>3, <3>5 DEF UiAnswerCall
  <2>4. ASSUME NEW cid \in Cids, calls' = Without(cid), NEW a, NEW b, RecordCall(cid, calls[cid], a, b)
        PROVE  \A c \in Known(calls) : calls'[c] = NoCall /\ ~calls[c].group => Written(c)
    <3>1. \A c \in Known(calls) \ {cid} : calls'[c] # NoCall
      BY <1>1, <2>4 DEF Without, QInv, IInv, TypeOK
    <3>2. ~calls[cid].group => Written(cid)
      BY <2>4 DEF RecordCall, EntryFor, Written
    <3> QED BY <3>1, <3>2
  <2>5. CASE UiRejectCall
    BY <2>4, <2>5 DEF UiRejectCall, IncomingCalls, Known
  <2>6. CASE UiHangup
    <3>1. CASE \E cid \in LiveCalls(calls) : HangupCall(cid)
      BY <2>4, <2>6, <3>1 DEF UiHangup, HangupCall, LiveCalls, Live
    <3>2. CASE calls' = calls
      BY <1>1, <2>6, <3>2 DEF UiHangup
    <3> QED BY <2>6, <3>1, <3>2 DEF UiHangup
  <2> QED BY <1>3, <2>1, <2>2, <2>3, <2>5, <2>6 DEF Operate
<1> QED BY <1>2, <1>3

LEMMA EventAt ==
  ASSUME QInv, NEW i \in DOMAIN telq
  PROVE  i \in Int /\ 1 <= i /\ telq[i] \in Event /\ telq[i].cid \in Cids
<1>1. telq \in Seq(Event)
  BY DEF QInv, SysTypeOK
<1>2. i \in Int /\ 1 <= i /\ telq[i] \in Event
  BY <1>1
<1> QED BY <1>2 DEF Event

LEMMA AccountedApp ==
  ASSUME QInv, QInv', "group" \notin LocalModes, Accounted, Deliver \/ DeliverOther \/ Operate
  PROVE  Accounted'
<1>1. /\ \A c \in Cids : /\ shown'[c] = (shown[c] \/ (c \in Known(calls') /\ ~calls'[c].group))
                         /\ recorded'[c] = (recorded[c] \/ Written(c))
      /\ UNCHANGED net
  BY DEF Emit, Deliver, DeliverOther, Operate
<1>2. /\ dialing' # "group"
      /\ \A c \in Known(calls) : calls'[c] = NoCall /\ ~calls[c].group => Written(c)
  <2>1. CASE DeliverOther
    <3>1. dialing' = dialing /\ \A c \in Cids : SameCall(c)
      BY <2>1, OtherEffect DEF QInv
    <3> QED BY <3>1 DEF Accounted, SameCall, Known, NoCall
  <2> QED BY <2>1, TakenOutLogged DEF Accounted
<1>3. (\A i \in DOMAIN telq : i \in Int) /\ (\A i \in DOMAIN telq' : i \in Int)
  BY DEF QInv, SysTypeOK
<1>4. CASE Deliver
  <2> DEFINE e == Head(telq)
  <2>1. /\ e \in Event /\ Taken(telq, telq') /\ e.cid \in Cids
        /\ \A c \in Cids \ {e.cid} : SameCall(c)
        /\ e.name # "release" => AsTold(e)
        /\ e.name = "release" => calls'[e.cid] = NoCall
    BY <1>4, DeliverEffect DEF Event
  <2>2. 1 \in DOMAIN telq /\ telq[1] = e
    BY <2>1 DEF Taken
  <2> HIDE DEF e
  <2>3. ASSUME NEW c \in Cids, shown'[c]
        PROVE  recorded'[c] \/ (c \in Known(calls') /\ ~calls'[c].group)
    <3>1. CASE c # e.cid
      BY <1>1, <2>1, <2>3, <3>1 DEF Accounted, SameCall, Known
    <3>2. CASE c = e.cid /\ e.name = "release"
      BY <1>1, <1>2, <2>1, <2>3, <3>2 DEF Accounted, Known, NoCall
    <3>3. CASE c = e.cid /\ e.name # "release"
      <4>1. SUFFICES ASSUME shown[c], ~recorded[c] PROVE c \in Known(calls') /\ ~calls'[c].group
        BY <1>1, <2>3
      <4>2. ~calls[c].group /\ c \in Known(calls) /\ ~e.kind.group
        BY <2>2, <3>3, <4>1 DEF Accounted
      <4> QED BY <2>1, <3>3, <4>2 DEF AsTold, Known, Accounted
    <3> QED BY <3>1, <3>2, <3>3
  <2>4. ASSUME NEW i \in DOMAIN telq', telq'[i].kind.group
        PROVE  /\ telq'[i].name = "setup" /\ telq'[i].cid \notin Known(calls') /\ ~shown'[telq'[i].cid]
               /\ First(telq', i)
    <3> DEFINE c == telq'[i].cid
    <3>1. /\ i + 1 \in DOMAIN telq /\ telq'[i] = telq[i + 1] /\ i \in Int /\ 1 <= i
          /\ telq[i + 1].kind.group /\ c \in Cids
      <4>1. i + 1 \in DOMAIN telq /\ telq'[i] = telq[i + 1]
        BY <2>1 DEF Taken
      <4>2. i \in Int /\ 1 <= i
        BY DEF QInv, SysTypeOK
      <4> QED BY <2>4, <4>1, <4>2, EventAt
    <3>2. /\ telq'[i].name = "setup" /\ c \notin Known(calls) /\ ~shown[c] /\ First(telq, i + 1)
      BY <3>1 DEF Accounted
    <3>3. c # e.cid
      BY <2>2, <3>1, <3>2 DEF First
    <3>4. c \notin Known(calls')
      BY <2>1, <3>1, <3>2, <3>3 DEF SameCall, Known
    <3>5. \A j \in DOMAIN telq' : j + 1 \in DOMAIN telq /\ telq'[j] = telq[j + 1] /\ j \in Int
      BY <1>3, <2>1 DEF Taken
    <3>6. First(telq', i)
      BY <3>1, <3>2, <3>5 DEF First
    <3> QED BY <1>1, <3>1, <3>2, <3>3, <3>4, <3>6
  <2> QED BY <1>1, <1>2, <2>3, <2>4 DEF Accounted
<1>5. CASE DeliverOther \/ Operate
  <2>1. UNCHANGED telq /\ \A c \in Cids : SameCall(c) \/ Dropped(c) \/ Accepted(c)
    BY <1>5, OtherEffect, OperateQueue DEF DeliverOther, Pressed, QInv
  <2>2. ASSUME NEW c \in Cids
        PROVE  /\ c \in Known(calls') => c \in Known(calls)
               /\ shown'[c] => recorded'[c] \/ (c \in Known(calls') /\ ~calls'[c].group)
    <3>1. CASE SameCall(c)
      BY <1>1, <3>1 DEF Accounted, SameCall, Known
    <3>2. CASE Dropped(c)
      <4>1. calls'[c] = NoCall /\ c \notin Known(calls')
        BY <3>2 DEF Dropped, Known, NoCall
      <4>2. shown'[c] => shown[c]
        BY <1>1, <4>1
      <4>3. shown[c] => recorded[c] \/ Written(c)
        BY <1>2, <4>1 DEF Accounted
      <4> QED BY <1>1, <4>1, <4>2, <4>3
    <3>3. CASE Accepted(c)
      BY <1>1, <3>3 DEF Accounted, Accepted, IncomingCalls, Known
    <3> QED BY <2>1, <3>1, <3>2, <3>3
  <2>3. \A i \in DOMAIN telq : telq[i].cid \in Cids
    BY EventAt
  <2>4. ASSUME NEW i \in DOMAIN telq, telq[i].kind.group
        PROVE  /\ telq[i].name = "setup" /\ telq[i].cid \notin Known(calls') /\ ~shown'[telq[i].cid]
               /\ First(telq, i)
    BY <1>1, <2>2, <2>3, <2>4 DEF Accounted
  <2> QED BY <1>1, <1>2, <2>1, <2>2, <2>4 DEF Accounted
<1> QED BY <1>4, <1>5

LEMMA AccountedStack ==
  ASSUME QInv, QInv', "group" \notin LocalModes, EndsAnnounced, Accounted, StackStep, UNCHANGED core
  PROVE  Accounted'
<1>1. calls' = calls /\ dialing' = dialing
  BY DEF core
<1>2. (\A i \in DOMAIN telq : i \in Int) /\ (\A i \in DOMAIN telq' : i \in Int)
  BY DEF QInv, SysTypeOK
<1>3. \A c \in Cids : Begins(c) => /\ ~shown'[c]
                                   /\ \A d \in Cids \ {c} : shown'[d] = shown[d] /\ recorded'[d] = recorded[d]
  BY DEF Begins, QInv, SysTypeOK
<1>4. ASSUME NEW c \in Cids, NEW e \in Event, Tells(c, e), Grown(telq, telq', {e}),
             e.name # "release" => Once(telq, telq'),
             IF e.name = "setup" /\ Free(c) THEN Begins(c) ELSE UNCHANGED history
      PROVE  Accounted'
  <2>1. ASSUME NEW d \in Cids
        PROVE  /\ net'[d].phase \in {"setup", "offered"} => ~net'[d].group
               /\ shown'[d] => shown[d] /\ recorded'[d] = recorded[d]
    <3>1. net'[d].phase \in {"setup", "offered"} => ~net'[d].group
      BY <1>4 DEF Tells, Accounted, IdleCall
    <3>2. shown'[d] => shown[d] /\ recorded'[d] = recorded[d]
      BY <1>3, <1>4 DEF history
    <3> QED BY <3>1, <3>2
  <2>2. ASSUME NEW i \in DOMAIN telq', telq'[i].kind.group
        PROVE  /\ telq'[i].name = "setup" /\ telq'[i].cid \notin Known(calls) /\ ~shown'[telq'[i].cid]
               /\ First(telq', i)
    <3>1. CASE i \in DOMAIN telq
      <4>1. telq'[i] = telq[i] /\ telq[i].cid \in Cids
        BY <1>4, <3>1, EventAt DEF Grown
      <4>2. telq[i].name = "setup" /\ telq[i].cid \notin Known(calls) /\ ~shown[telq[i].cid] /\ First(telq, i)
        BY <2>2, <3>1, <4>1 DEF Accounted
      <4>3. First(telq', i)
        <5> SUFFICES ASSUME NEW j \in DOMAIN telq', telq'[j].cid = telq'[i].cid PROVE i <= j
          BY DEF First
        <5>1. CASE j \in DOMAIN telq
          BY <1>4, <3>1, <4>2, <5>1 DEF First, Grown
        <5>2. CASE j \notin DOMAIN telq
          <6>1. i < j
            BY <1>4, <3>1, <5>2 DEF Grown
          <6> QED BY <1>2, <6>1
        <5> QED BY <5>1, <5>2
      <4> QED BY <2>1, <4>1, <4>2, <4>3
    <3>2. CASE i \notin DOMAIN telq
      <4>1. telq'[i] = e /\ e.kind.group
        BY <1>4, <2>2, <3>2 DEF Grown
      <4>2. e.name = "setup" /\ Free(c) /\ e.cid = c
        BY <1>4, <4>1 DEF Tells, Accounted
      <4>3. About(c) = {} /\ c \notin Known(calls)
        BY <4>2, FreeClean DEF Known, NoCall
      <4>4. \A j \in DOMAIN telq' : telq'[j].cid = c => j \in DOMAIN telq' \ DOMAIN telq
        BY <1>4, <4>3 DEF About, Grown
      <4>5. First(telq', i)
        BY <1>2, <1>4, <3>2, <4>1, <4>2, <4>4 DEF Once, First
      <4>6. Begins(c)
        BY <1>4, <4>2
      <4> QED BY <1>3, <4>1, <4>2, <4>3, <4>5, <4>6
    <3> QED BY <3>1, <3>2
  <2> QED BY <1>1, <2>1, <2>2 DEF Accounted
<1>5. ASSUME NEW c \in Cids, Dialled(c), Begins(c), UNCHANGED telq PROVE Accounted'
  <2>1. ASSUME NEW d \in Cids
        PROVE  /\ net'[d].phase \in {"setup", "offered"} => ~net'[d].group
               /\ shown'[d] => shown[d] /\ recorded'[d] = recorded[d]
    BY <1>3, <1>5 DEF Dialled, Accounted
  <2>2. ASSUME NEW i \in DOMAIN telq, telq[i].kind.group
        PROVE  /\ telq[i].name = "setup" /\ telq[i].cid \notin Known(calls) /\ ~shown'[telq[i].cid]
               /\ First(telq, i)
    BY <2>1, <2>2, EventAt DEF Accounted
  <2> QED BY <1>1, <1>5, <2>1, <2>2 DEF Accounted
<1>6. CASE UNCHANGED <<net, telq, history>>
  BY <1>1, <1>6 DEF Accounted, history
<1> QED BY <1>4, <1>5, <1>6 DEF StackStep

LEMMA AccountedStep ==
  ASSUME ~LinkFaults, "group" \notin LocalModes, QInv, QInv', EndsAnnounced, Accounted,
         [SysNext]_sysvars
  PROVE  Accounted'
<1>1. CASE Deliver \/ DeliverOther \/ Operate
  BY <1>1, AccountedApp
<1>2. CASE UNCHANGED <<core, net, telq, history>>
  BY <1>2 DEF core, Accounted, First, history
<1>3. CASE Link
  BY <1>2, <1>3, LinkEffect
<1>4. CASE Execute \/ Network
  BY <1>4, StackEffect, AccountedStack DEF AppIdle
<1>5. CASE UNCHANGED sysvars
  BY <1>2, <1>5 DEF sysvars, stack, vars, core
<1> QED BY <1>1, <1>3, <1>4, <1>5 DEF SysNext

\* Without the loss of the control link and without group calls started here,
\* every individual call that leaves the screen leaves an entry in the call log,
\* whoever ended it and however late the other side learned of it.
THEOREM EveryCallLoggedHolds ==
  ASSUME ~LinkFaults, "group" \notin LocalModes
  PROVE  SysSpec => []EveryCallLogged
<1>1. SysInit => Accounted
  BY DEF SysInit, InitCalls, IdleCall, Accounted
<1>2. QInv /\ EndsAnnounced /\ Accounted /\ [SysNext]_sysvars => Accounted'
  BY QInvStep, AccountedStep
<1>3. Accounted => EveryCallLogged
  BY DEF Accounted, EveryCallLogged
<1>4. SysInit => EndsAnnounced
  BY DEF SysInit, InitCalls, EndsAnnounced, Known, NoCall
<1> QED BY <1>1, <1>2, <1>3, <1>4, QInvInit, QInvStep, EndsStep, PTL DEF SysSpec

-----------------------------------------------------------------------------
(* The kind of a call that waits for its answer.                            *)

Agrees(c) == calls[c].group = net[c].group /\ calls[c].simplex = net[c].simplex

\* Until it is answered an individual call is only announced, always as what it is.
OfferKept(c) ==
  net[c].phase = "offered" =>
    /\ ~net[c].group
    /\ \A i \in About(c) : /\ telq[i].name = "setup"
                           /\ telq[i].kind.group = net[c].group
                           /\ telq[i].kind.simplex = net[c].simplex
    /\ c \in Known(calls) => Agrees(c)

OffersKept == \A c \in Cids : OfferKept(c)

\* A step that is not about the call, or takes it off the screen.
LEMMA OfferSame ==
  ASSUME NEW c \in Cids, OfferKept(c), SameCall(c) \/ calls'[c] = NoCall \/ Accepted(c),
         SameEvents(c), net'[c] = net[c]
  PROVE  OfferKept(c)'
<1>1. \A i \in About(c)' : \E j \in About(c) : telq'[i] = telq[j]
  BY DEF SameEvents
<1>2. c \in Known(calls') => c \in Known(calls) /\ calls'[c].group = calls[c].group
                             /\ calls'[c].simplex = calls[c].simplex
  BY DEF SameCall, Accepted, IncomingCalls, Known, NoCall
<1> QED BY <1>1, <1>2 DEF OfferKept, Agrees

\* An event about the call is delivered: if it still waits, an announcement.
LEMMA OfferDelivered ==
  ASSUME QInv, QInv', Deliver, NEW c \in Cids, c = Head(telq).cid, OfferKept(c)
  PROVE  OfferKept(c)'
<1> DEFINE e == Head(telq)
<1>1. /\ e \in Event /\ Taken(telq, telq') /\ UNCHANGED net
      /\ e.name # "release" => AsTold(e)
      /\ 1 \in DOMAIN telq /\ telq[1] = e
  BY DeliverEffect DEF Taken
<1> HIDE DEF e
<1> SUFFICES ASSUME net[c].phase = "offered"
             PROVE  /\ \A i \in About(c)' : i + 1 \in About(c) /\ telq'[i] = telq[i + 1]
                    /\ Agrees(c)'
  BY <1>1 DEF OfferKept
<1>2. \A i \in About(c)' : i + 1 \in About(c) /\ telq'[i] = telq[i + 1]
  BY <1>1 DEF Taken, About
<1>3. 1 \in About(c) /\ ~net[c].group
  BY <1>1 DEF About, OfferKept, e
<1>4. e.name = "setup" /\ ~e.kind.group /\ e.kind.simplex = net[c].simplex
  BY <1>1, <1>3 DEF OfferKept
<1>5. ~calls[c].group
  <2>1. CASE c \in Known(calls)
    BY <1>3, <2>1 DEF OfferKept, Agrees
  <2>2. CASE c \notin Known(calls)
    BY <2>2 DEF Known, NoCall, QInv, IInv, AbsentCallsBlank
  <2> QED BY <2>1, <2>2
<1>6. calls'[c].group = (calls[c].group \/ e.kind.group) /\ calls'[c].simplex = e.kind.simplex
  BY <1>1, <1>4 DEF AsTold, e
<1>7. calls'[c].group \in BOOLEAN /\ net[c].group \in BOOLEAN
  BY DEF QInv, IInv, TypeOK, CallRecord, SysTypeOK, NetCall
<1> QED BY <1>1, <1>2, <1>3, <1>4, <1>5, <1>6, <1>7 DEF Agrees

\* The stack tells something of the call, or starts one here.
LEMMA OfferTold ==
  ASSUME QInv, QInv', EndsAnnounced, NEW c \in Cids, OfferKept(c), calls' = calls,
         NEW e \in Event, Tells(c, e), Grown(telq, telq', {e})
  PROVE  OfferKept(c)'
<1> SUFFICES ASSUME net'[c].phase = "offered" PROVE OfferKept(c)'
  BY DEF OfferKept
<1>1. \A i \in About(c)' : (i \in About(c) /\ telq'[i] = telq[i]) \/ telq'[i] = e
  BY DEF About, Grown
<1>2. /\ e.name = "setup" /\ e.kind.group = net'[c].group /\ e.kind.simplex = net'[c].simplex
      /\ \/ Free(c) /\ ~e.kind.group
         \/ net[c].phase = "offered" /\ net'[c] = net[c]
  BY DEF Tells, IdleCall
<1>3. CASE Free(c) /\ ~e.kind.group
  <2>1. About(c) = {} /\ c \notin Known(calls)
    BY <1>3, FreeClean DEF Known, NoCall
  <2>2. \A i \in About(c)' : telq'[i] = e
    BY <1>1, <2>1
  <2>3. ~net'[c].group
    BY <1>2, <1>3
  <2> QED BY <1>2, <2>1, <2>2, <2>3 DEF OfferKept
<1>4. CASE net[c].phase = "offered" /\ net'[c] = net[c]
  BY <1>1, <1>2, <1>4 DEF OfferKept, Agrees
<1> QED BY <1>2, <1>3, <1>4

LEMMA OffersStep ==
  ASSUME QInv, QInv', EndsAnnounced, OffersKept, [SysNext]_sysvars
  PROVE  OffersKept'
<1> SUFFICES ASSUME NEW c \in Cids PROVE OfferKept(c)'
  BY DEF OffersKept
<1>1. OfferKept(c)
  BY DEF OffersKept
<1>2. CASE Deliver
  <2> DEFINE e == Head(telq)
  <2>1. Taken(telq, telq') /\ UNCHANGED net /\ \A d \in Cids \ {e.cid} : SameCall(d)
    BY <1>2, DeliverEffect
  <2>2. CASE c = e.cid
    BY <1>1, <1>2, <2>2, OfferDelivered
  <2>3. CASE c # e.cid
    BY <1>1, <2>1, <2>3, EventsSame, OfferSame
  <2> QED BY <2>2, <2>3
<1>3. CASE DeliverOther
  <2>1. SameCall(c)
    BY <1>3, OtherEffect DEF QInv
  <2> QED BY <1>1, <1>3, <2>1, EventsSame, OfferSame DEF DeliverOther
<1>4. CASE Operate
  <2>1. Pressed /\ UNCHANGED <<net, telq>>
    BY <1>4, OperateQueue
  <2>2. SameCall(c) \/ calls'[c] = NoCall \/ Accepted(c)
    BY <2>1 DEF Pressed, Dropped
  <2> QED BY <1>1, <2>1, <2>2, EventsSame, OfferSame
<1>5. CASE Link
  <2>1. UNCHANGED <<net, telq>> /\ (SameCall(c) \/ calls'[c] = NoCall)
    BY <1>5, LinkEffect DEF core, SameCall
  <2> QED BY <1>1, <2>1, EventsSame, OfferSame
<1>6. CASE Execute \/ Network
  <2>1. calls' = calls /\ StackStep
    BY <1>6, StackEffect DEF AppIdle, core
  <2>2. SameCall(c)
    BY <2>1 DEF SameCall
  <2>3. ASSUME NEW d \in Cids, NEW e \in Event, Tells(d, e), Grown(telq, telq', {e})
        PROVE  OfferKept(c)'
    <3>1. CASE c = d
      BY <1>1, <2>1, <2>3, <3>1, OfferTold
    <3>2. CASE c # d
      <4>1. net'[c] = net[c] /\ e.cid # c
        BY <2>3, <3>2 DEF Tells
      <4> QED BY <1>1, <2>2, <2>3, <4>1, EventsSame, OfferSame
    <3> QED BY <3>1, <3>2
  <2>4. ASSUME NEW d \in Cids, Dialled(d), UNCHANGED telq PROVE OfferKept(c)'
    <3>1. CASE c = d
      BY <2>4, <3>1 DEF Dialled, OfferKept
    <3>2. CASE c # d
      BY <1>1, <2>2, <2>4, <3>2, EventsSame, OfferSame DEF Dialled
    <3> QED BY <3>1, <3>2
  <2>5. CASE UNCHANGED <<net, telq>>
    BY <1>1, <2>2, <2>5, EventsSame, OfferSame
  <2> QED BY <2>1, <2>3, <2>4, <2>5 DEF StackStep
<1>7. CASE UNCHANGED sysvars
  <2>1. SameCall(c) /\ UNCHANGED <<net, telq>>
    BY <1>7 DEF sysvars, stack, vars, core, SameCall
  <2> QED BY <1>1, <2>1, EventsSame, OfferSame
<1> QED BY <1>2, <1>3, <1>4, <1>5, <1>6, <1>7 DEF SysNext

\* A call waiting for its answer is of the kind it was announced with, whatever
\* is dialled or hung up meanwhile and whether or not the control link is lost.
THEOREM RingingKindAgreesHolds == SysSpec => []RingingKindAgrees
<1>1. SysInit => OffersKept
  BY DEF SysInit, IdleCall, OffersKept, OfferKept
<1>2. QInv /\ EndsAnnounced /\ OffersKept /\ [SysNext]_sysvars => OffersKept'
  BY QInvStep, OffersStep
<1>3. OffersKept => RingingKindAgrees
  BY DEF OffersKept, OfferKept, Agrees, RingingKindAgrees, Known
<1> QED BY <1>1, <1>2, <1>3, EndsInvariance, PTL DEF SysSpec

-----------------------------------------------------------------------------
(* The microphone, when no indication is repeated and no group is called    *)
(* from here: the buttons that do not resynchronise the encoder act on      *)
(* calls it does not transmit on.                                           *)

Progressing == {"setup", "proceed", "alert", "connect"}

Unanswered(c) == Asked(c, Answers) = {} /\ net[c].phase \in {"offered", "idle"}

\* A call that may be answered is still Incoming, and no event under way will
\* make anything else of it.
RingingSettled ==
  \A c \in IncomingCalls(calls) :
    /\ calls[c].state = "Incoming" /\ Unanswered(c)
    /\ \A i \in About(c) : telq[i].name \notin Progressing

\* So will a call be whose indication is under way.
OffersSettled ==
  \A i \in DOMAIN telq : Personal(telq[i]) =>
    /\ telq[i].cid \notin Known(calls) /\ Unanswered(telq[i].cid) /\ First(telq, i)
    /\ \A j \in DOMAIN telq : telq[j].cid = telq[i].cid /\ j # i => telq[j].name \notin Progressing

\* UplinkJustified without a group call of ours.
MicJustified ==
  uplink # NoCid => ~mic_muted /\ (ptt_held = uplink \/ uplink \in DuplexActive(calls))

\* Who has no place in the table was not answered there.
LEMMA AnsweredKnown ==
  ASSUME QInv, NEW c \in Cids, c \notin Known(calls)
  PROVE  ~calls[c].answered /\ ~calls[c].rang /\ ~calls[c].group
  BY DEF QInv, IInv, AbsentCallsBlank, Known, NoCall

LEMMA RingingDeliver ==
  ASSUME ~LinkFaults, QInv, QInv', Followed, RingingSettled, OffersSettled, Deliver
  PROVE  RingingSettled' /\ OffersSettled'
<1> DEFINE e == Head(telq)
<1>1. /\ e \in Event /\ Taken(telq, telq') /\ UNCHANGED net /\ e.cid \in Cids
      /\ \A c \in Cids \ {e.cid} : SameCall(c)
      /\ e.name # "release" => AsTold(e)
      /\ e.name = "release" => calls'[e.cid] = NoCall
      /\ 1 \in DOMAIN telq /\ telq[1] = e
  BY DeliverEffect DEF Event, Taken
<1>2. \A c \in Cids : Kept(c)
  BY CommandsKept DEF SysNext
<1>3. \A i \in DOMAIN telq' : /\ i + 1 \in DOMAIN telq /\ telq'[i] = telq[i + 1]
                              /\ i \in Int /\ 1 <= i /\ telq'[i].cid \in Cids
  <2> TAKE i \in DOMAIN telq'
  <2>1. i + 1 \in DOMAIN telq /\ telq'[i] = telq[i + 1] /\ i \in Int /\ 1 <= i
    BY <1>1 DEF Taken, QInv, SysTypeOK
  <2> QED BY <2>1, EventAt
<1> HIDE DEF e
<1>4. ASSUME NEW c \in IncomingCalls(calls')
      PROVE  /\ calls'[c].state = "Incoming" /\ Unanswered(c)'
             /\ \A i \in About(c)' : telq'[i].name \notin Progressing
  <2>1. /\ c \in Cids /\ c \in Known(calls') /\ ~calls'[c].group /\ calls'[c].rang /\ ~calls'[c].answered
    BY <1>4 DEF IncomingCalls, Known
  <2>2. Asked(c, Answers)' # {} => Asked(c, Answers) # {}
    BY <1>2, <2>1 DEF Kept
  <2>3. \A i \in About(c)' : i + 1 \in About(c) /\ telq'[i] = telq[i + 1]
    BY <1>3 DEF About
  <2>4. CASE c # e.cid
    <3>1. c \in IncomingCalls(calls) /\ calls'[c].state = calls[c].state
      BY <1>1, <2>1, <2>4 DEF SameCall, IncomingCalls, Known
    <3> QED BY <1>1, <2>2, <2>3, <3>1 DEF RingingSettled, Unanswered
  <2>5. CASE c = e.cid
    <3>1. e.name # "release"
      BY <1>1, <2>1, <2>5 DEF Known, NoCall
    <3>2. /\ calls'[c].answered = calls[c].answered
          /\ calls'[c].rang = (calls[c].rang \/ calls'[c].state = "Incoming")
          /\ calls[c].group => calls'[c].group
      <4>1. e.name = "setup" => calls'[c].group = (calls[c].group \/ e.kind.group)
        BY <1>1, <2>5, <3>1 DEF AsTold
      <4>2. e.name # "setup" => (calls[c].group => calls'[c].group)
        BY <1>1, <2>5, <3>1 DEF AsTold
      <4>3. /\ calls'[c].answered = calls[c].answered
            /\ calls'[c].rang = (calls[c].rang \/ calls'[c].state = "Incoming")
        BY <1>1, <2>5, <3>1 DEF AsTold
      <4> QED BY <4>1, <4>2, <4>3
    <3>3. CASE c \in IncomingCalls(calls)
      <4>1. 1 \in About(c)
        BY <1>1, <2>5 DEF About
      <4>2. e.name \in {"tx", "notify"}
        BY <1>1, <3>1, <3>3, <4>1 DEF RingingSettled, Progressing, Event, EventNames
      <4>3. calls'[c].state = "Incoming"
        BY <1>1, <2>5, <3>1, <3>3, <4>2 DEF AsTold, RingingSettled
      <4> QED BY <1>1, <2>2, <2>3, <3>3, <4>3 DEF RingingSettled, Unanswered
    <3>4. CASE c \notin IncomingCalls(calls)
      <4>1. ~calls[c].rang
        BY <2>1, <3>2, <3>4, AnsweredKnown DEF IncomingCalls
      <4>2. calls'[c].state = "Incoming" /\ calls[c].state # "Incoming"
        BY <2>1, <3>2, <4>1 DEF Followed
      <4>3. e.name = "setup"
        BY <1>1, <2>5, <3>1, <4>2 DEF AsTold, Event, EventNames
      <4>4. calls'[c].group = (calls[c].group \/ e.kind.group)
        BY <1>1, <2>5, <3>1, <4>3 DEF AsTold
      <4>5. Personal(telq[1])
        BY <1>1, <2>1, <4>3, <4>4 DEF Personal
      <4>6. Unanswered(c) /\ \A j \in About(c) : j # 1 => telq[j].name \notin Progressing
        BY <1>1, <2>5, <4>5 DEF OffersSettled, About
      <4>7. \A i \in About(c)' : telq'[i].name \notin Progressing
        BY <1>3, <2>3, <4>6 DEF About
      <4> QED BY <1>1, <2>2, <4>2, <4>6, <4>7 DEF Unanswered
    <3> QED BY <3>3, <3>4
  <2> QED BY <2>4, <2>5
<1>5. ASSUME NEW i \in DOMAIN telq', Personal(telq'[i])
      PROVE  /\ telq'[i].cid \notin Known(calls')
             /\ Asked(telq'[i].cid, Answers) = {} /\ net'[telq'[i].cid].phase \in {"offered", "idle"}
             /\ First(telq', i)
             /\ \A j \in DOMAIN telq' : telq'[j].cid = telq'[i].cid /\ j # i => telq'[j].name \notin Progressing
  <2>1. i + 1 \in DOMAIN telq /\ telq'[i] = telq[i + 1] /\ i \in Int /\ 1 <= i /\ telq'[i].cid \in Cids
    BY <1>3
  <2>2. /\ telq'[i].cid \notin Known(calls) /\ Unanswered(telq'[i].cid) /\ First(telq, i + 1)
        /\ \A j \in DOMAIN telq : telq[j].cid = telq'[i].cid /\ j # i + 1 => telq[j].name \notin Progressing
    BY <1>5, <2>1 DEF OffersSettled
  <2>3. telq'[i].cid # e.cid
    BY <1>1, <2>1, <2>2 DEF First
  <2>4. telq'[i].cid \notin Known(calls')
    BY <1>1, <2>1, <2>2, <2>3 DEF SameCall, Known
  <2>5. First(telq', i)
    BY <1>3, <2>1, <2>2 DEF First
  <2>6. \A j \in DOMAIN telq' : telq'[j].cid = telq'[i].cid /\ j # i => telq'[j].name \notin Progressing
    BY <1>3, <2>1, <2>2
  <2> QED BY <1>1, <2>2, <2>4, <2>5, <2>6 DEF Unanswered
<1>6. ASSUME NEW c \in Cids, c \notin Known(calls'), Asked(c, Answers) = {} PROVE Asked(c, Answers)' = {}
  <2>1. ~calls'[c].answered
    BY <1>6 DEF QInv, IInv, AbsentCallsBlank, Known, NoCall
  <2> QED BY <1>2, <1>6, <2>1 DEF Kept
<1>7. OffersSettled'
  <2>1. ASSUME NEW i \in DOMAIN telq', NEW c, c = telq'[i].cid, Personal(telq'[i])
        PROVE  c \notin Known(calls') /\ Asked(c, Answers)' = {} /\ net'[c].phase \in {"offered", "idle"}
    BY <1>3, <1>5, <1>6, <2>1
  <2> QED BY <1>5, <2>1 DEF OffersSettled, Unanswered
<1> QED BY <1>4, <1>7 DEF RingingSettled

\* A step that tells at most of other calls leaves a call as settled as it was.
LEMMA RingingStack ==
  ASSUME ~LinkFaults, ~Repeats, QInv, QInv', EndsAnnounced, RingingSettled, OffersSettled,
         Execute \/ Network
  PROVE  RingingSettled' /\ OffersSettled'
<1>1. calls' = calls /\ Known(calls') = Known(calls) /\ IncomingCalls(calls') = IncomingCalls(calls)
  BY StackEffect DEF AppIdle, core
<1>2. StackStep
  BY StackEffect
<1>3. \A c \in Cids : calls[c].answered \/ (Asked(c, Answers) = {} => Asked(c, Answers)' = {})
  BY <1>1, CommandsKept DEF Kept, SysNext
<1>4. (\A i \in DOMAIN telq : i \in Int) /\ (\A i \in DOMAIN telq' : i \in Int)
  BY DEF QInv, SysTypeOK
<1>5. \A c \in IncomingCalls(calls) : c \in Cids /\ ~calls[c].answered /\ calls[c] # NoCall
  BY DEF IncomingCalls, Known, NoCall
<1>6. \A c \in Cids : c \notin Known(calls) => ~calls[c].answered
  BY AnsweredKnown
<1>7. ASSUME UNCHANGED <<net, telq>> PROVE RingingSettled' /\ OffersSettled'
  <2>1. \A c : About(c)' = About(c)
    BY <1>7 DEF About
  <2>2. RingingSettled'
    BY <1>1, <1>3, <1>5, <1>7, <2>1 DEF RingingSettled, Unanswered
  <2>3. OffersSettled'
    BY <1>1, <1>3, <1>6, <1>7, EventAt DEF OffersSettled, Unanswered
  <2> QED BY <2>2, <2>3
<1>8. ASSUME NEW d \in Cids, Dialled(d), UNCHANGED telq PROVE RingingSettled' /\ OffersSettled'
  <2>1. calls[d] = NoCall /\ About(d) = {} /\ \A c \in Cids \ {d} : net'[c] = net[c]
    BY <1>8, FreeClean DEF Dialled
  <2>2. \A c : About(c)' = About(c)
    BY <1>8 DEF About
  <2>3. RingingSettled'
    BY <1>1, <1>3, <1>5, <1>8, <2>1, <2>2 DEF RingingSettled, Unanswered
  <2>4. \A i \in DOMAIN telq : telq[i].cid # d
    BY <2>1 DEF About
  <2>5. OffersSettled'
    BY <1>1, <1>3, <1>6, <1>8, <2>1, <2>4, EventAt DEF OffersSettled, Unanswered
  <2> QED BY <2>3, <2>5
<1>9. ASSUME NEW d \in Cids, NEW e \in Event, Tells(d, e), Grown(telq, telq', {e}),
             e.name # "release" => Once(telq, telq')
      PROVE  RingingSettled' /\ OffersSettled'
  <2>1. \A c \in Cids \ {d} : net'[c] = net[c] /\ e.cid # c
    BY <1>9 DEF Tells
  \* Of a call that waits for an answer the stack can tell the end only.
  <2>2. ASSUME Unanswered(d), ~Free(d)
        PROVE  net'[d].phase = "idle" /\ e.name = "release"
    <3>1. Head(cmdq).cid = d /\ Head(cmdq).op \in Answers => cmdq = <<>>
      BY <2>2, TakenTail DEF Unanswered, Asked, Taken, QInv
    <3> QED BY <1>9, <2>2, <3>1 DEF Tells, Unanswered, IdleCall
  <2>3. Free(d) => calls[d] = NoCall /\ About(d) = {} /\ Asked(d, Answers) = {}
    BY FreeClean
  <2>4. ASSUME NEW c \in IncomingCalls(calls)
        PROVE  /\ calls[c].state = "Incoming" /\ Unanswered(c)'
               /\ \A i \in About(c)' : telq'[i].name \notin Progressing
    <3>1. Unanswered(c) /\ c \in Cids /\ ~calls[c].answered /\ calls[c].state = "Incoming"
      BY <1>5 DEF RingingSettled
    <3>2. \A i \in About(c)' : \/ i \in About(c) /\ telq'[i] = telq[i]
                               \/ c = d /\ telq'[i] = e
      BY <1>9, <2>1, <3>1 DEF About, Grown
    <3>3. c = d => net'[d].phase = "idle" /\ e.name = "release"
      BY <1>5, <2>2, <2>3, <3>1
    <3>4. net'[c].phase \in {"offered", "idle"}
      BY <2>1, <3>1, <3>3 DEF Unanswered
    <3>5. \A i \in About(c)' : telq'[i].name \notin Progressing
      BY <3>2, <3>3 DEF RingingSettled, Progressing
    <3> QED BY <1>3, <3>1, <3>4, <3>5 DEF Unanswered
  <2>5. ASSUME NEW i \in DOMAIN telq', Personal(telq'[i])
        PROVE  LET c == telq'[i].cid
               IN  /\ c \in Cids /\ c \notin Known(calls)
                   /\ Asked(c, Answers) = {} /\ net'[c].phase \in {"offered", "idle"}
                   /\ First(telq', i)
                   /\ \A j \in DOMAIN telq' : telq'[j].cid = c /\ j # i => telq'[j].name \notin Progressing
    <3> DEFINE c == telq'[i].cid
    <3>1. CASE i \in DOMAIN telq
      <4>1. telq'[i] = telq[i] /\ c \in Cids
        BY <1>9, <3>1, EventAt DEF Grown
      <4>2. /\ c \notin Known(calls) /\ Unanswered(c) /\ First(telq, i)
            /\ \A j \in DOMAIN telq : telq[j].cid = c /\ j # i => telq[j].name \notin Progressing
        BY <2>5, <3>1, <4>1 DEF OffersSettled
      <4>3. c = d => net'[d].phase = "idle" /\ e.name = "release"
        <5>1. c = d => i \in About(d)
          BY <3>1, <4>1 DEF About
        <5> QED BY <2>2, <2>3, <4>2, <5>1
      <4>4. net'[c].phase \in {"offered", "idle"}
        BY <2>1, <4>1, <4>2, <4>3 DEF Unanswered
      <4>5. ASSUME NEW j \in DOMAIN telq', telq'[j].cid = c
            PROVE  i <= j /\ (j # i => telq'[j].name \notin Progressing)
        <5>1. CASE j \in DOMAIN telq
          BY <1>9, <3>1, <4>1, <4>2, <4>5, <5>1 DEF First, Grown
        <5>2. CASE j \notin DOMAIN telq
          <6>1. telq'[j] = e /\ i < j
            BY <1>9, <3>1, <5>2 DEF Grown
          <6>2. c = d
            BY <1>9, <4>5, <6>1 DEF Tells
          <6> QED BY <1>4, <4>3, <6>1, <6>2 DEF Progressing
        <5> QED BY <5>1, <5>2
      <4> QED BY <4>1, <4>2, <4>4, <4>5 DEF First, Unanswered
    <3>2. CASE i \notin DOMAIN telq
      <4>1. telq'[i] = e /\ c = d /\ e.name = "setup" /\ ~e.kind.group
        BY <1>9, <2>5, <3>2 DEF Grown, Tells, Personal
      <4>2. Free(d) /\ net'[d].phase = "offered"
        BY <1>9, <4>1 DEF Tells
      <4>3. c \notin Known(calls) /\ About(d) = {} /\ Asked(d, Answers) = {}
        BY <2>3, <4>1, <4>2 DEF Known, NoCall
      <4>4. \A j \in DOMAIN telq' : telq'[j].cid = c => j = i
        BY <1>9, <3>2, <4>1, <4>3 DEF Once, Grown, About
      <4> QED BY <1>4, <4>1, <4>2, <4>3, <4>4 DEF First
    <3> QED BY <3>1, <3>2
  <2>6. OffersSettled'
    <3>1. ASSUME NEW i \in DOMAIN telq', NEW c, c = telq'[i].cid, Personal(telq'[i])
          PROVE  c \notin Known(calls') /\ Asked(c, Answers)' = {} /\ net'[c].phase \in {"offered", "idle"}
      <4>1. c \in Cids /\ c \notin Known(calls) /\ Asked(c, Answers) = {} /\ net'[c].phase \in {"offered", "idle"}
        BY <2>5, <3>1
      <4> QED BY <1>1, <1>3, <1>6, <4>1
    <3> QED BY <2>5, <3>1 DEF OffersSettled, Unanswered
  <2> QED BY <1>1, <2>4, <2>6 DEF RingingSettled
<1> QED BY <1>2, <1>7, <1>8, <1>9 DEF StackStep

LEMMA RingingStep ==
  ASSUME ~LinkFaults, ~Repeats, QInv, QInv', EndsAnnounced, Followed, RingingSettled, OffersSettled,
         [SysNext]_sysvars
  PROVE  RingingSettled' /\ OffersSettled'
<1>1. \A c \in Cids : Kept(c)
  BY CommandsKept
<1>2. ASSUME UNCHANGED <<net, telq>>, \A c \in Cids : SameCall(c) \/ Dropped(c) \/ Accepted(c)
      PROVE  RingingSettled' /\ OffersSettled'
  <2>1. ASSUME NEW c \in Cids
        PROVE  /\ c \in Known(calls') => c \in Known(calls)
               /\ c \in IncomingCalls(calls') => c \in IncomingCalls(calls) /\ calls'[c].state = calls[c].state
    <3>1. CASE SameCall(c)
      BY <3>1 DEF SameCall, IncomingCalls, Known
    <3>2. CASE Dropped(c)
      BY <3>2 DEF Dropped, NoCall, IncomingCalls, Known
    <3>3. CASE Accepted(c)
      BY <3>3 DEF Accepted, IncomingCalls, Known
    <3> QED BY <1>2, <3>1, <3>2, <3>3
  <2>2. \A c : About(c)' = About(c)
    BY <1>2 DEF About
  <2>3. \A c \in IncomingCalls(calls') : c \in Cids /\ ~calls'[c].answered
    BY DEF IncomingCalls, Known
  <2>4. RingingSettled'
    BY <1>1, <1>2, <2>1, <2>2, <2>3 DEF RingingSettled, Unanswered, Kept
  <2>5. ASSUME NEW c \in Cids, c \notin Known(calls), Asked(c, Answers) = {}
        PROVE  c \notin Known(calls') /\ Asked(c, Answers)' = {}
    <3>1. c \notin Known(calls')
      BY <2>1, <2>5
    <3>2. ~calls'[c].answered
      BY <3>1 DEF QInv, IInv, AbsentCallsBlank, Known, NoCall
    <3> QED BY <1>1, <2>5, <3>1, <3>2 DEF Kept
  <2>6. OffersSettled'
    BY <1>2, <2>5, EventAt DEF OffersSettled, Unanswered
  <2> QED BY <2>4, <2>6
<1>3. CASE Deliver
  BY <1>3, RingingDeliver
<1>4. CASE DeliverOther
  BY <1>2, <1>4, OtherEffect DEF QInv, DeliverOther
<1>5. CASE Operate
  BY <1>2, <1>5, OperateQueue DEF Pressed
<1>6. CASE Link
  BY <1>2, <1>6, LinkEffect DEF core, SameCall
<1>7. CASE Execute \/ Network
  BY <1>7, RingingStack
<1>8. CASE UNCHANGED sysvars
  BY <1>2, <1>8 DEF sysvars, stack, vars, core, SameCall
<1> QED BY <1>3, <1>4, <1>5, <1>6, <1>7, <1>8 DEF SysNext

\* sync_uplink, while no group call is talked on from here.
LEMMA SyncJustified ==
  ASSUME SyncUplink, ~grp_call'.talking
  PROVE  MicJustified'
  BY DEF SyncUplink, UplinkTargets, MicJustified

LEMMA MicJustifiedStep ==
  ASSUME ~LinkFaults, "group" \notin LocalModes, QInv, QInv', RingingSettled, MicJustified,
         grp_call = NoGroup, [SysNext]_sysvars
  PROVE  MicJustified' /\ grp_call' = NoGroup
<1>1. ~NoGroup.open /\ ~NoGroup.talking
  BY DEF NoGroup
<1>2. ASSUME SyncUplink, grp_call' = grp_call PROVE MicJustified' /\ grp_call' = NoGroup
  BY <1>1, <1>2, SyncJustified
<1>3. ASSUME UNCHANGED <<uplink, calls, grp_call, ptt_held>>, mic_muted' => mic_muted
      PROVE  MicJustified' /\ grp_call' = NoGroup
  BY <1>3 DEF MicJustified, DuplexActive
<1>4. CASE Deliver
  <2> DEFINE e == Head(telq)
  <2>1. e \in Event /\ KindKnown(e) /\ Handle(e) /\ e.cid \in Cids /\ SyncUplink
    BY <1>4, DeliverEffect DEF Event
  <2> HIDE DEF e
  <2>2. CASE e.name # "release"
    BY <1>1, <1>2, <2>1, <2>2, ArmEffect DEF QInv
  <2>3. CASE e.name = "release"
    <3>1. PICK failure \in BOOLEAN : Release(e.cid, failure)
      BY <2>1, <2>3 DEF Handle
    <3> QED BY <1>1, <1>2, <2>1, <3>1, ReleaseEffect DEF QInv
  <2> QED BY <2>2, <2>3
<1>5. CASE DeliverOther
  BY <1>2, <1>5, OtherEffect DEF QInv
<1>6. CASE Operate
  <2>1. CASE UiCallPttDown \/ UiCallPttUp \/ UiHangup \/ UiToggleMute
    BY <1>2, <2>1 DEF UiCallPttDown, UiCallPttUp, UiHangup, UiToggleMute
  <2>2. CASE \E mode \in LocalModes \ {"group"} : Dial(mode)
    BY <1>3, <2>2 DEF Dial, NoSync
  <2>3. CASE UiAnswerCall \/ UiRejectCall
    <3>1. PICK cid \in IncomingCalls(calls) : \A c \in Cids \ {cid} : calls'[c] = calls[c]
      BY <2>3 DEF UiAnswerCall, UiRejectCall, Without, QInv, IInv, TypeOK
    <3>2. UNCHANGED <<uplink, ptt_held, mic_muted, grp_call>>
      BY <2>3 DEF UiAnswerCall, UiRejectCall, NoSync
    <3>3. cid \notin DuplexActive(calls)
      BY DEF RingingSettled, DuplexActive
    <3>4. DuplexActive(calls) \subseteq DuplexActive(calls')
      BY <3>1, <3>3 DEF DuplexActive
    <3> QED BY <3>2, <3>4 DEF MicJustified
  <2> QED BY <1>6, <2>1, <2>2, <2>3 DEF Operate
<1>7. CASE Link
  BY <1>3, <1>7, LinkEffect DEF core
<1>8. CASE Execute \/ Network
  BY <1>3, <1>8, StackEffect DEF AppIdle, core, devices
<1>9. CASE UNCHANGED sysvars
  BY <1>3, <1>9 DEF sysvars, stack, vars, core, devices
<1> QED BY <1>4, <1>5, <1>6, <1>7, <1>8, <1>9 DEF SysNext

\* Without the loss of the control link, repeated indications and group calls
\* started here, speech leaves only for the call whose PTT is held or for a
\* duplex call under way, although answering, rejecting and dialling leave the
\* encoder as it was.
THEOREM UplinkJustifiedHolds ==
  ASSUME ~LinkFaults, ~Repeats, "group" \notin LocalModes
  PROVE  SysSpec => []UplinkJustified
<1>1. SysInit => RingingSettled /\ OffersSettled /\ MicJustified /\ grp_call = NoGroup
  BY DEF SysInit, InitCalls, RingingSettled, OffersSettled, MicJustified, IncomingCalls, Known, NoCall
<1>2. QInv /\ EndsAnnounced /\ Followed /\ RingingSettled /\ OffersSettled /\ MicJustified
      /\ grp_call = NoGroup /\ [SysNext]_sysvars
        => RingingSettled' /\ OffersSettled' /\ MicJustified' /\ (grp_call = NoGroup)'
  BY QInvStep, RingingStep, MicJustifiedStep
<1>3. MicJustified => UplinkJustified
  BY DEF MicJustified, UplinkJustified, DuplexActive
<1> QED BY <1>1, <1>2, <1>3, FollowedInvariance, PTL DEF SysSpec

-----------------------------------------------------------------------------
(* The floor, when the only call is keyed by its own PTT: every demand is   *)
(* behind a PTT that is still down, or before a cease or a release.         *)

Wanted(c) == net[c].floor = "ours" \/ Asked(c, {"demand"}) # {}

Covered(c) ==
  \/ Ending(c)
  \/ ptt_held = c
  \/ \E i \in Asked(c, {"cease"}) : \A j \in Asked(c, {"demand"}) : j < i

FloorCovered ==
  \A c \in Cids : /\ net[c].floor = "ours" => net[c].phase = "active"
                  /\ net[c].phase # "idle" /\ Wanted(c) => Covered(c)

\* What the buttons ask of the stack about the floor of the only call.
LEMMA OperateFloor ==
  ASSUME QInv, connected, LocalModes \subseteq {"duplex"}, Operate
  PROVE  \/ UNCHANGED ptt_held /\ \A m \in sent' : m.op # "demand"
         \/ \E c \in Cids : ptt_held' = c /\ sent' = {Cmd("demand", c)}
         \/ ptt_held # NoCid /\ ptt_held' = NoCid /\ sent' = {Cmd("cease", ptt_held)}
         \/ \E c \in Cids : sent' = {Cmd("release", c)}
<1>1. ASSUME NEW mode \in LocalModes \ {"group"}, Dial(mode)
      PROVE  UNCHANGED ptt_held /\ \A m \in sent' : m.op # "demand"
  BY <1>1 DEF Dial, Send, SetupCmd
<1>2. CASE UiCallPttDown
  BY <1>2 DEF UiCallPttDown, KeyableCalls, Send
<1>3. CASE UiCallPttUp
  BY <1>3 DEF UiCallPttUp, Send
<1>4. CASE UiAnswerCall
  BY <1>4 DEF UiAnswerCall, Send, Cmd
<1>5. CASE UiRejectCall
  BY <1>5 DEF UiRejectCall, IncomingCalls, Known, Send
<1>6. CASE UiHangup
  BY <1>6 DEF UiHangup, HangupCall, LiveCalls, Live, Send
<1>7. CASE UiToggleMute
  BY <1>7 DEF UiToggleMute
<1> QED BY <1>1, <1>2, <1>3, <1>4, <1>5, <1>6, <1>7 DEF Operate

LEMMA CommandsTyped == QInv => \A i \in DOMAIN cmdq : i \in Int /\ 1 <= i
  BY DEF QInv

\* Commands put behind others, none of them a demand, leave a call covered.
LEMMA CoveredGrown ==
  ASSUME NEW S, Grown(cmdq, cmdq', S), NEW c \in Cids, \A m \in S : m.cid = c => m.op # "demand",
         ptt_held = c => ptt_held' = c, UNCHANGED net,
         Wanted(c) => Covered(c)
  PROVE  Wanted(c)' => Covered(c)'
<1>1. Asked(c, {"demand"})' = Asked(c, {"demand"})
  BY DEF Asked, Grown
<1>2. Asked(c, {"cease"}) \subseteq Asked(c, {"cease"})'
  BY DEF Asked, Grown
<1>3. Ending(c) => Ending(c)'
  BY DEF Ending, Asked, Grown
<1> QED BY <1>1, <1>2, <1>3 DEF Wanted, Covered

LEMMA FloorApp ==
  ASSUME ~LinkFaults, LocalModes \subseteq {"duplex"}, NEW only, Cids = {only},
         QInv, QInv', Followed, FloorCovered, Deliver \/ DeliverOther \/ Operate
  PROVE  FloorCovered'
<1>1. UNCHANGED net
  BY DEF Deliver, DeliverOther, Operate
<1> SUFFICES ASSUME NEW c \in Cids, net[c].phase # "idle"
             PROVE  Wanted(c)' => Covered(c)'
  BY <1>1 DEF FloorCovered
<1>2. Wanted(c) => Covered(c)
  BY DEF FloorCovered
<1>3. CASE Deliver
  <2> DEFINE e == Head(telq)
  <2>1. /\ e \in Event /\ KindKnown(e) /\ Handle(e) /\ e.cid \in Cids /\ Single
        /\ sent' \in {{}, {Cmd("alert", e.cid)}} /\ Taken(telq, telq')
    BY <1>3, DeliverEffect DEF Event
  <2>2. Grown(cmdq, cmdq', sent') /\ \A m \in sent' : m.op # "demand"
    BY <1>3, <2>1, EmitQueue DEF Deliver, Cmd
  <2>3. e.name # "release"
    BY <2>1 DEF Followed, Ends, Taken
  <2> HIDE DEF e
  <2>4. UNCHANGED ptt_held
    BY <2>1, <2>3, ArmEffect DEF QInv
  <2> QED BY <1>1, <1>2, <2>2, <2>4, CoveredGrown
<1>4. CASE DeliverOther
  <2>1. sent' = {} /\ UNCHANGED ptt_held
    BY <1>4, OtherEffect DEF QInv
  <2>2. Grown(cmdq, cmdq', sent')
    BY <1>4, <2>1, EmitQueue DEF DeliverOther, Single
  <2> QED BY <1>1, <1>2, <2>1, <2>2, CoveredGrown
<1>5. CASE Operate
  <2>1. Grown(cmdq, cmdq', sent') /\ connected
    BY <1>5, OperateQueue, EmitQueue DEF Followed
  <2>2. CASE UNCHANGED ptt_held /\ \A m \in sent' : m.op # "demand"
    BY <1>1, <1>2, <2>1, <2>2, CoveredGrown
  <2>3. CASE \E d \in Cids : ptt_held' = d /\ sent' = {Cmd("demand", d)}
    BY <2>3 DEF Covered
  <2>4. CASE ptt_held # NoCid /\ ptt_held' = NoCid /\ sent' = {Cmd("cease", ptt_held)}
    <3>1. ptt_held = c
      BY <2>4 DEF QInv, IInv, TypeOK
    <3>2. PICK i \in DOMAIN cmdq' \ DOMAIN cmdq : cmdq'[i] = Cmd("cease", c)
      BY <2>1, <2>4, <3>1 DEF Grown
    <3>3. i \in Asked(c, {"cease"})'
      BY <3>2 DEF Asked, Cmd
    <3>4. \A j \in Asked(c, {"demand"})' : j < i
      BY <2>1, <2>4, <3>2 DEF Asked, Grown, Cmd
    <3> QED BY <3>3, <3>4 DEF Covered
  <2>5. CASE \E d \in Cids : sent' = {Cmd("release", d)}
    <3>1. Ending(c)'
      BY <2>1, <2>5 DEF Ending, Asked, Grown, Cmd
    <3> QED BY <3>1 DEF Covered
  <2> QED BY <1>5, <2>1, <2>2, <2>3, <2>4, <2>5, OperateFloor
<1> QED BY <1>3, <1>4, <1>5

LEMMA FloorStack ==
  ASSUME LocalModes \subseteq {"duplex"}, QInv, QInv', EndsAnnounced, FloorCovered, Execute \/ Network
  PROVE  FloorCovered'
<1>1. /\ UNCHANGED ptt_held /\ StackStep
      /\ \/ UNCHANGED cmdq
         \/ cmdq # <<>> /\ cmdq' = Tail(cmdq) /\ Executed(Head(cmdq))
  BY StackEffect DEF AppIdle, core
<1>2. \/ UNCHANGED cmdq
      \/ Taken(cmdq, cmdq') /\ cmdq # <<>> /\ cmdq' = Tail(cmdq) /\ Executed(Head(cmdq))
  BY <1>1, TakenTail DEF QInv
<1>3. (\A i \in DOMAIN cmdq : i \in Int /\ 1 <= i) /\ (\A i \in DOMAIN cmdq' : i \in Int /\ 1 <= i)
  BY CommandsTyped DEF QInv
<1> SUFFICES ASSUME NEW c \in Cids
             PROVE  /\ net'[c].floor = "ours" => net'[c].phase = "active"
                    /\ net'[c].phase # "idle" /\ Wanted(c)' => Covered(c)'
  BY DEF FloorCovered
<1>4. /\ net[c].floor = "ours" => net[c].phase = "active"
      /\ net[c].phase # "idle" /\ Wanted(c) => Covered(c)
  BY DEF FloorCovered
\* The floor is ours only after a demand, and a new call has neither.
<1>5. /\ net'[c].floor = "ours" => net'[c].phase = "active"
      /\ net'[c].floor = "ours" => \/ net[c].floor = "ours"
                                   \/ cmdq # <<>> /\ Head(cmdq).cid = c /\ Head(cmdq).op = "demand"
      /\ net'[c].phase = "idle" \/ net[c].phase # "idle" \/ (Free(c) /\ net'[c].floor # "ours")
  <2>1. ASSUME NEW d \in Cids, NEW e \in Event, Tells(d, e)
        PROVE  /\ net'[c].floor = "ours" => net'[c].phase = "active"
               /\ net'[c].floor = "ours" => \/ net[c].floor = "ours"
                                            \/ cmdq # <<>> /\ Head(cmdq).cid = c /\ Head(cmdq).op = "demand"
               /\ net'[c].phase = "idle" \/ net[c].phase # "idle" \/ (Free(c) /\ net'[c].floor # "ours")
    <3>1. CASE c # d
      BY <1>4, <2>1, <3>1 DEF Tells
    <3>2. CASE c = d
      BY <1>4, <2>1, <3>2 DEF Tells, IdleCall
    <3> QED BY <3>1, <3>2
  <2>2. ASSUME NEW d \in Cids, Dialled(d)
        PROVE  /\ net'[d].floor # "ours" /\ Free(d)
               /\ \A x \in Cids \ {d} : net'[x] = net[x]
    BY <2>2 DEF Dialled
  <2> QED BY <1>1, <1>4, <2>1, <2>2 DEF StackStep
<1>6. ASSUME net'[c].phase # "idle", Wanted(c)' PROVE Covered(c)'
  <2>1. Asked(c, {"demand"})' # {} => Asked(c, {"demand"}) # {}
    BY <1>2, AskedTaken DEF Asked
  <2>2. cmdq # <<>> /\ Head(cmdq).cid = c /\ Head(cmdq).op = "demand" => Asked(c, {"demand"}) # {}
    BY TakenTail DEF Asked, Taken, QInv
  <2>3. Wanted(c)
    BY <1>5, <1>6, <2>1, <2>2 DEF Wanted
  <2>4. net[c].phase # "idle"
    <3>1. Free(c) => Asked(c, {"demand"}) = {}
      BY FreeClean
    <3> QED BY <1>4, <1>5, <1>6, <2>1, <3>1 DEF Wanted
  <2>5. Covered(c)
    BY <1>4, <2>3, <2>4
  <2>6. CASE UNCHANGED cmdq
    BY <1>1, <2>5, <2>6 DEF Covered, Ending, Asked
  <2>7. CASE Taken(cmdq, cmdq') /\ cmdq # <<>> /\ Executed(Head(cmdq))
    <3>1. Ending(c) => Ending(c)'
      BY <1>6, <2>7, AskedTaken DEF Ending, Executed
    <3>2. ASSUME NEW i \in Asked(c, {"cease"}), \A j \in Asked(c, {"demand"}) : j < i
          PROVE  Covered(c)'
      <4>1. CASE i = 1
        <5>1. Asked(c, {"demand"}) = {}
          BY <1>3, <3>2, <4>1 DEF Asked
        <5>2. net'[c].floor = "ours" /\ net'[c].phase = "active"
          BY <1>5, <1>6, <2>1, <5>1 DEF Wanted
        <5>3. Head(cmdq).cid = c /\ Head(cmdq).op = "cease"
          BY <2>7, <3>2, <4>1 DEF Asked, Taken
        <5> QED BY <2>7, <5>2, <5>3 DEF Executed
      <4>2. CASE i # 1
        <5>1. i - 1 \in Asked(c, {"cease"})'
          BY <2>7, <3>2, <4>2 DEF Asked, Taken
        <5>2. \A j \in Asked(c, {"demand"})' : j < i - 1
          <6> TAKE j \in Asked(c, {"demand"})'
          <6>1. j + 1 \in Asked(c, {"demand"}) /\ j \in Int /\ i \in Int
            BY <1>3, <2>7, <3>2 DEF Asked, Taken
          <6> QED BY <3>2, <6>1
        <5> QED BY <5>1, <5>2 DEF Covered
      <4> QED BY <4>1, <4>2
    <3> QED BY <1>1, <2>5, <3>1, <3>2 DEF Covered
  <2> QED BY <1>2, <2>6, <2>7
<1> QED BY <1>5, <1>6

LEMMA FloorStep ==
  ASSUME ~LinkFaults, LocalModes \subseteq {"duplex"}, NEW only, Cids = {only},
         QInv, QInv', EndsAnnounced, Followed, FloorCovered, [SysNext]_sysvars
  PROVE  FloorCovered'
<1>1. CASE Deliver \/ DeliverOther \/ Operate
  BY <1>1, FloorApp
<1>2. CASE UNCHANGED <<net, cmdq, ptt_held>>
  BY <1>2 DEF FloorCovered, Wanted, Covered, Ending, Asked
<1>3. CASE Link
  BY <1>2, <1>3, LinkEffect DEF core
<1>4. CASE Execute \/ Network
  BY <1>4, FloorStack
<1>5. CASE UNCHANGED sysvars
  BY <1>2, <1>5 DEF sysvars, stack, vars, core
<1> QED BY <1>1, <1>3, <1>4, <1>5 DEF SysNext

\* Without the loss of the control link, and with one call that the network
\* offered or the operator dialled as a duplex call: once the PTT is up and
\* nothing is under way, the floor is not held here.  With two calls, hanging up
\* one forgets the PTT of the other.
THEOREM FloorReturnedHolds ==
  ASSUME ~LinkFaults, LocalModes \subseteq {"duplex"}, NEW only, Cids = {only}
  PROVE  SysSpec => []FloorReturned
<1>1. SysInit => FloorCovered
  BY DEF SysInit, InitCalls, IdleCall, FloorCovered
<1>2. QInv /\ EndsAnnounced /\ Followed /\ FloorCovered /\ [SysNext]_sysvars => FloorCovered'
  BY QInvStep, FloorStep
<1>3. QInv /\ FloorCovered => FloorReturned
  <2> SUFFICES ASSUME QInv, FloorCovered, Settled, ptt_held = NoCid, NEW c \in Cids
               PROVE  net[c].floor # "ours"
    BY DEF FloorReturned
  <2>1. \A ops : Asked(c, ops) = {}
    BY DEF Settled, Asked
  <2>2. ~Covered(c)
    BY <2>1, CidAssumption DEF Covered, Ending
  <2> QED BY <2>2 DEF FloorCovered, Wanted
<1> QED BY <1>1, <1>2, <1>3, FollowedInvariance, PTL DEF SysSpec
=============================================================================
