----------------------------- MODULE CallSystem -----------------------------
(***************************************************************************)
(* CallControl closed with the two sockets and a stack that follows the    *)
(* call protocol.  The stack lives outside this repository; it is modelled *)
(* from what the application sends it and what it expects back:            *)
(*   - commands reach the stack, and telemetry the application, each in    *)
(*     the order sent, but the two directions cross;                       *)
(*   - a call has a set-up, an active and a release phase, and every call  *)
(*     that was announced ends with a release event, which may be repeated *)
(*     ("the stack sends several release frames per call");                *)
(*   - a setup indication may be repeated until the call is answered;      *)
(*   - a call identifier is not given to a new call while anything about   *)
(*     the old one is still under way.                                     *)
(***************************************************************************)
EXTENDS CallControl, Naturals, Sequences, SequencesExt

CONSTANTS
  MaxCmds,        \* bound: commands in flight
  MaxEvents,      \* bound: telemetry events in flight
  Rejects,        \* the stack may reject a setup with a TnccAck
  Repeats,        \* the stack may repeat a setup indication, or a release
  LinkFaults,     \* the control link may go down and come back
  RadioFaults,    \* coverage may be lost, and the talkgroups with it
  LocalModes      \* the modes the operator dials

ASSUME BoundAssumption ==
  /\ MaxCmds \in Nat \ {0} /\ MaxEvents \in Nat \ {0}
  /\ Rejects \in BOOLEAN /\ Repeats \in BOOLEAN
  /\ LinkFaults \in BOOLEAN /\ RadioFaults \in BOOLEAN
  /\ LocalModes \subseteq {"simplex", "duplex", "group"}

VARIABLES
  net,       \* the stack's call table
  cmdq,      \* control channel, application to stack
  telq,      \* telemetry channel, stack to application
  shown,     \* history: the current use of the identifier was an individual call here
  recorded   \* history: the current use of the identifier has a log entry

history == <<shown, recorded>>
stack   == <<net, cmdq, telq, history>>
sysvars == <<vars, stack>>

NetCall == [phase: {"idle", "setup", "offered", "active"},
            group: BOOLEAN, simplex: BOOLEAN, floor: {"free", "ours", "other"}]

IdleCall == [phase |-> "idle", group |-> FALSE, simplex |-> TRUE, floor |-> "free"]

NoKind == [group |-> FALSE, simplex |-> TRUE, hook |-> FALSE]

EventNames == {"setup", "proceed", "alert", "connect", "tx", "notify", "release"}

Event == [name: EventNames, cid: Cids, kind: [group: BOOLEAN, simplex: BOOLEAN, hook: BOOLEAN],
          floor: Floors]

Ev(name, cid, kind, floor) == [name |-> name, cid |-> cid, kind |-> kind, floor |-> floor]

Plain(name, cid) == Ev(name, cid, NoKind, "keep")

\* The stack's tables and the two channels have their types: no handler sends a
\* command, and the stack no event, the other side cannot read.
SysTypeOK ==
  /\ TypeOK
  /\ net \in [Cids -> NetCall]
  /\ cmdq \in Seq(Command)
  /\ telq \in Seq(Event)
  /\ shown \in [Cids -> BOOLEAN]
  /\ recorded \in [Cids -> BOOLEAN]

\* The link is up and the first State response has been handled.
SysInit ==
  /\ connected = TRUE /\ inService = TRUE /\ attached = TRUE
  /\ InitCalls
  /\ net = [c \in Cids |-> IdleCall]
  /\ cmdq = <<>> /\ telq = <<>>
  /\ shown = [c \in Cids |-> FALSE]
  /\ recorded = [c \in Cids |-> FALSE]

-----------------------------------------------------------------------------
(* The application's side of the two sockets.                               *)

Written(c) == \E e \in logged' : e.cid = c

\* What an application step leaves on the control channel and in the log.
Emit ==
  /\ cmdq' = cmdq \o SetToSeq(sent')
  /\ shown' = [c \in Cids |-> shown[c] \/ (c \in Known(calls') /\ ~calls'[c].group)]
  /\ recorded' = [c \in Cids |-> recorded[c] \/ Written(c)]

Handle(e) ==
  \/ e.name = "setup"   /\ SetupIndication(e.cid, e.kind, e.floor)
  \/ e.name = "proceed" /\ ProceedIndication(e.cid)
  \/ e.name = "alert"   /\ AlertIndication(e.cid)
  \/ e.name = "connect" /\ ConnectConfirm(e.cid, e.kind.group, e.floor)
  \/ e.name = "tx"      /\ TxEvent(e.cid, e.floor)
  \/ e.name = "notify"  /\ OtherCallEvent(e.cid)
  \/ e.name = "release" /\ \E failure \in BOOLEAN : Release(e.cid, failure)

Deliver ==
  /\ telq # <<>>
  /\ Handle(Head(telq))
  /\ telq' = Tail(telq)
  /\ Emit
  /\ UNCHANGED net

Mentions(q, c) == \E i \in DOMAIN q : q[i].cid = c

\* Voice of the other party, which may have stopped talking since, and telemetry
\* that is not about calls.
DeliverOther ==
  /\ \/ \E cid \in Cids : /\ net[cid].floor = "other" \/ Mentions(telq, cid)
                          /\ SpeechFrame(cid, TRUE)
     \/ OtherTelemetry
  /\ Emit
  /\ UNCHANGED <<net, telq>>

\* call_live: the page with the Mute button is open.
InCallPage == InCallIndividual(calls) # {} \/ dialing \in {"simplex", "duplex"}

Operate ==
  /\ Len(cmdq) < MaxCmds
  /\ \/ \E mode \in LocalModes \ {"group"} : Dial(mode)
     \/ "group" \in LocalModes /\ (UiGroupPttDown \/ UiGroupPttUp \/ UiHangupGroup)
     \/ UiCallPttDown \/ UiCallPttUp
     \/ UiAnswerCall \/ UiRejectCall \/ UiHangup
     \/ InCallPage /\ UiToggleMute
  /\ Emit
  /\ UNCHANGED <<net, telq>>

\* The link drops with what it carried; telemetry is a socket of its own.
LinkDown == LinkFaults /\ connected /\ ControlDisconnected /\ cmdq' = <<>>

LinkUp == ~connected /\ ControlConnected /\ UNCHANGED cmdq

\* A State answer says that coverage and the talkgroups have gone, or are back.
RadioChanges ==
  /\ RadioFaults /\ connected
  /\ \E served \in BOOLEAN : StateResponse(served, served)
  /\ UNCHANGED cmdq

Link ==
  /\ LinkDown \/ LinkUp \/ RadioChanges
  /\ UNCHANGED <<net, telq, history>>

-----------------------------------------------------------------------------
(* The stack.                                                               *)

AppIdle == sent' = {} /\ Quiet /\ UNCHANGED <<radio, core, devices>>

Room == Len(telq) < MaxEvents

\* The answer to a command has a place of its own.
AnswerRoom == Len(telq) <= MaxEvents

Tell(e) == telq' = Append(telq, e)

TellRelease(c) ==
  \/ Tell(Plain("release", c))
  \/ Repeats /\ telq' = telq \o <<Plain("release", c), Plain("release", c)>>

\* The network may use the identifier for a new call.
Free(c) == net[c].phase = "idle" /\ ~Mentions(telq, c) /\ ~Mentions(cmdq, c)

StartCall(c, phase, group, simplex, floor) ==
  /\ net' = [net EXCEPT ![c] = [phase |-> phase, group |-> group,
                                simplex |-> simplex, floor |-> floor]]
  /\ shown' = [shown EXCEPT ![c] = FALSE]
  /\ recorded' = [recorded EXCEPT ![c] = FALSE]

\* A simplex setup, group or individual, demands the floor with the call.
DoSetup(mode) ==
  \/ /\ \E c \in Cids :
          /\ Free(c)
          /\ StartCall(c, "setup", mode = "group", mode # "duplex",
                       IF mode = "duplex" THEN "free" ELSE "ours")
     /\ UNCHANGED telq
  \/ /\ Rejects \/ \A c \in Cids : ~Free(c)
     /\ UNCHANGED <<net, telq, history>>

DoAnswer(c) ==
  IF net[c].phase = "offered"
  THEN /\ net' = [net EXCEPT ![c].phase = "active"]
       /\ Tell(Ev("connect", c, NoKind, "free"))
  ELSE UNCHANGED <<net, telq>>

DoRelease(c) ==
  IF net[c].phase # "idle"
  THEN net' = [net EXCEPT ![c] = IdleCall] /\ TellRelease(c)
  ELSE UNCHANGED <<net, telq>>

DoDemand(c) ==
  IF net[c].phase = "active"
  THEN /\ net' = [net EXCEPT ![c].floor = IF @ = "other" THEN @ ELSE "ours"]
       /\ Tell(Ev("tx", c, NoKind, IF net[c].floor = "other" THEN "other" ELSE "free"))
  ELSE UNCHANGED <<net, telq>>

DoCease(c) ==
  IF net[c].phase = "active" /\ net[c].floor = "ours"
  THEN net' = [net EXCEPT ![c].floor = "free"] /\ Tell(Ev("tx", c, NoKind, "free"))
  ELSE UNCHANGED <<net, telq>>

Execute ==
  /\ cmdq # <<>> /\ AnswerRoom
  /\ LET m == Head(cmdq)
     IN  \/ m.op = "setup" /\ DoSetup(m.mode)
         \/ /\ \/ m.op = "alert" /\ UNCHANGED <<net, telq>>
               \/ m.op \in {"respond", "complete"} /\ DoAnswer(m.cid)
               \/ m.op = "release" /\ DoRelease(m.cid)
               \/ m.op = "demand" /\ DoDemand(m.cid)
               \/ m.op = "cease" /\ DoCease(m.cid)
            /\ UNCHANGED history
  /\ cmdq' = Tail(cmdq)
  /\ AppIdle

\* An incoming individual call, or a group call on an attached talkgroup.
Offer(c) ==
  /\ Free(c)
  /\ \E kind \in Kinds :
       /\ StartCall(c, IF kind.group THEN "active" ELSE "offered", kind.group, kind.simplex,
                    IF kind.group THEN "other" ELSE "free")
       /\ Tell(Ev("setup", c, kind, IF kind.group THEN "other" ELSE "keep"))

\* The indication is repeated while the call waits for an answer.
Repeat(c) ==
  /\ Repeats
  /\ net[c].phase = "offered"
  /\ \E kind \in Kinds :
       /\ kind.group = net[c].group /\ kind.simplex = net[c].simplex
       /\ Tell(Ev("setup", c, kind, "keep"))
  /\ UNCHANGED <<net, history>>

Progress(c) ==
  /\ net[c].phase = "setup"
  /\ Tell(Plain("proceed", c)) \/ Tell(Plain("alert", c))
  /\ UNCHANGED <<net, history>>

Connect(c) ==
  /\ net[c].phase = "setup"
  /\ net' = [net EXCEPT ![c].phase = "active"]
  /\ Tell(Ev("connect", c, [NoKind EXCEPT !.group = net[c].group], "free"))
  /\ UNCHANGED history

\* The other party starts or stops talking.
OtherTalks(c) ==
  /\ net[c].phase = "active" /\ net[c].floor # "ours"
  /\ net' = [net EXCEPT ![c].floor = IF @ = "other" THEN "free" ELSE "other"]
  /\ Tell(Ev("tx", c, NoKind, IF net[c].floor = "other" THEN "free" ELSE "other"))
  /\ UNCHANGED history

\* An event about a call that the application has no arm for.
Notify(c) ==
  /\ net[c].phase = "active"
  /\ Tell(Plain("notify", c))
  /\ UNCHANGED <<net, history>>

NetRelease(c) ==
  /\ net[c].phase # "idle"
  /\ net' = [net EXCEPT ![c] = IdleCall]
  /\ TellRelease(c)
  /\ UNCHANGED history

Network ==
  /\ Room
  /\ \E c \in Cids : \/ Offer(c) \/ Repeat(c) \/ Progress(c)
                     \/ Connect(c) \/ OtherTalks(c) \/ Notify(c) \/ NetRelease(c)
  /\ UNCHANGED cmdq
  /\ AppIdle

SysNext == Deliver \/ DeliverOther \/ Operate \/ Link \/ Execute \/ Network

SysSpec == SysInit /\ [][SysNext]_sysvars

\* The loop takes every event it is sent, and the stack every command; nobody has
\* to press a button or make the network progress.
FairSpec == SysSpec /\ WF_sysvars(Deliver) /\ WF_sysvars(Execute)

-----------------------------------------------------------------------------
(* Agreement between the call table and the stack, once nothing is under    *)
(* way in either direction.                                                 *)

Settled == cmdq = <<>> /\ telq = <<>>

\* Every call on the screen exists in the stack: whatever crossed a hang-up, a
\* reject or a release on the way, nothing stays behind when the dust settles.
NoGhostCalls ==
  Settled => \A c \in Known(calls) : net[c].phase # "idle"

\* Every call the network has through-connected is Active here, whatever the
\* operator and the stack did to it at the same time.
NoLostCalls ==
  Settled => \A c \in Cids : net[c].phase = "active" => calls[c].state = "Active"

\* Once settled, the encoder transmits on no call the network has ended, whatever
\* was lost with the control link meanwhile.
MicOnNetworkCall == Settled /\ uplink # NoCid => net[uplink].phase # "idle"

\* The call is of the kind the stack gave it, so the right PTT, mic gate and
\* hang-up button apply to it.  Stated of calls under way, it needs a run without
\* a number being dialled: bind_dialing gives the placeholder's mode to whichever
\* call next reports progress or connects.
ModeAgrees ==
  Settled => \A c \in Known(calls) :
    net[c].phase = "active" =>
      calls[c].group = net[c].group /\ calls[c].simplex = net[c].simplex

\* Whatever number is being dialled while it rings, whatever else was called
\* before under the same identifier and however often it is announced, a call
\* waiting for an answer is of the kind it was announced with.
RingingKindAgrees ==
  \A c \in Known(calls) :
    net[c].phase = "offered" =>
      calls[c].group = net[c].group /\ calls[c].simplex = net[c].simplex

\* With no PTT down, the floor is not held here: every demand of a PTT is paired
\* with a cease that reaches the stack, in whatever order grants and releases
\* come.  (A dialled simplex call demands the floor with its setup; see README.)
FloorReturned ==
  Settled /\ ptt_held = NoCid /\ ~grp_call.talking => \A c \in Cids : net[c].floor # "ours"

-----------------------------------------------------------------------------
(* The microphone.                                                          *)

\* "Transmit only while we physically hold the PTT on an active call": speech
\* leaves for a call the operator keys, or for a duplex call under way.
UplinkJustified ==
  connected /\ uplink # NoCid =>
    /\ ~mic_muted
    /\ \/ ptt_held = uplink
       \/ grp_call.talking /\ calls[uplink].group
       \/ calls[uplink].state = "Active" /\ ~calls[uplink].simplex /\ ~calls[uplink].group

-----------------------------------------------------------------------------
(* The call log.                                                            *)

\* "One entry is recorded per finished individual call": a call that was on the
\* screen as an individual call and is gone has been recorded.
EveryCallLogged ==
  \A c \in Cids : shown[c] /\ c \notin Known(calls) => recorded[c]

-----------------------------------------------------------------------------
(* What eventually happens.                                                 *)

\* A call hung up or rejected here is eventually released by the stack.
HangupCompletes == \A c \in Cids : c \in local_end ~> c \notin local_end

\* A call the network has dropped eventually leaves the screen.
GhostsVanish ==
  \A c \in Cids : (c \in Known(calls) /\ net[c].phase = "idle")
                     ~> (c \notin Known(calls) \/ net[c].phase # "idle")

\* An answered call does not stay "Connecting": it connects or it is released.
AnswerResolves ==
  \A c \in Cids : calls[c].state = "Connecting" ~> calls[c].state # "Connecting"

=============================================================================
