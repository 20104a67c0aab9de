---------------------------- MODULE CallControl ----------------------------
(***************************************************************************)
(* The call-control part of the single-threaded application loop: the call *)
(* table, the outgoing placeholder, the group/PTT context, the microphone  *)
(* gate and the ringtone, driven by telemetry events, operator actions and *)
(* the state of the control link.                                          *)
(*                                                                         *)
(* One action is one arm of the event loop together with everything that   *)
(* arm calls before the loop takes the next event.  The environment is     *)
(* open: any telemetry event may arrive for any call at any time, because  *)
(* telemetry and control are independent sockets.  CallSystem closes the   *)
(* module with a stack that follows the call protocol.                     *)
(*                                                                         *)
(* Abstracted: SSIs, labels, talker names and timers (data the properties  *)
(* do not tell apart); a HashMap scan that takes "the first" match is a    *)
(* choice over the matches, since the iteration order is arbitrary.  An    *)
(* audio engine is present and the ring preference is on.  "sent" holds    *)
(* the call commands only: state and configuration queries belong to       *)
(* ControlLink.                                                            *)
(*                                                                         *)
(* An operator whose name ends in _X is a faulty variant of the operator   *)
(* defined after it; no behaviour of Spec uses it.  PROJECT.json pairs     *)
(* each with the property that tells the two apart.                        *)
(***************************************************************************)
EXTENDS FiniteSets

CONSTANTS Cids,    \* call identifiers the network assigns
          NoCid,   \* "no call"
          Kinds    \* kinds of call a setup indication may announce

ASSUME CidAssumption  == NoCid \notin Cids
ASSUME KindAssumption == Kinds \subseteq [group: BOOLEAN, simplex: BOOLEAN, hook: BOOLEAN]

VARIABLES
  connected,  \* control_connected, and control_out holds the live link
  inService,  \* app.state says Registered and in service
  attached,   \* effective_tx(app) is Some talkgroup
  calls,      \* calls: HashMap<u32, Call>; an absent key maps to NoCall
  dialing,    \* dialing: the outgoing placeholder, "none" when there is none
  grp_call,   \* grp_call: group PTT context; open = Some
  ptt_held,   \* ptt_held: individual call whose PTT is down
  local_end,  \* local_end: calls hung up here, their release still to come
  mic_muted,  \* mic_muted
  uplink,     \* AudioEngine: the call the encoder thread transmits on
  streams,    \* AudioEngine: the audio devices are open
  ringing,    \* RingtonePlayer: the ringtone plays
  sent,       \* output of the last step: call commands put on the link
  logged      \* output of the last step: entries added to the call log

core    == <<calls, dialing, grp_call, ptt_held, local_end, mic_muted>>
radio   == <<connected, inService, attached>>
devices == <<uplink, streams, ringing>>
outputs == <<sent, logged>>
vars    == <<radio, core, devices, outputs>>

CallStates == {"Absent", "Setup", "Proceeding", "Alerting", "Incoming", "Connecting", "Active"}

CallRecord == [state: CallStates, direction: {"none", "mo", "mt"},
               group: BOOLEAN, simplex: BOOLEAN, hook_on: BOOLEAN,
               can_request_tx: BOOLEAN, rang: BOOLEAN, answered: BOOLEAN,
               alerted: BOOLEAN, was_active: BOOLEAN]

NoCall == [state |-> "Absent", direction |-> "none",
           group |-> FALSE, simplex |-> FALSE, hook_on |-> FALSE,
           can_request_tx |-> FALSE, rang |-> FALSE, answered |-> FALSE,
           alerted |-> FALSE, was_active |-> FALSE]

\* What entry(cid).or_insert_with builds for a call not seen before.
FreshCall == [NoCall EXCEPT !.state = "Setup", !.simplex = TRUE, !.can_request_tx = TRUE]

NoGroup   == [open |-> FALSE, cid |-> NoCid, talking |-> FALSE]
GroupCtx  == [open: BOOLEAN, cid: Cids \cup {NoCid}, talking: BOOLEAN]
DialModes == {"none", "group", "simplex", "duplex"}

Outcomes == {"ANSWERED", "MISSED", "REJECTED", "NO_ANSWER", "FAILED"}
Ops      == {"setup", "alert", "respond", "complete", "release", "demand", "cease"}
Command  == [op: Ops, cid: Cids \cup {NoCid}, mode: DialModes]
Entry    == [cid: Cids, outgoing: BOOLEAN, outcome: Outcomes]

\* Every variable keeps its type, whatever the stack sends and in whatever order.
TypeOK ==
  /\ connected \in BOOLEAN /\ inService \in BOOLEAN /\ attached \in BOOLEAN
  /\ calls \in [Cids -> CallRecord]
  /\ dialing \in DialModes
  /\ grp_call \in GroupCtx
  /\ ptt_held \in Cids \cup {NoCid}
  /\ local_end \subseteq Cids
  /\ mic_muted \in BOOLEAN
  /\ uplink \in Cids \cup {NoCid}
  /\ streams \in BOOLEAN /\ ringing \in BOOLEAN
  /\ sent \subseteq Command
  /\ logged \subseteq Entry

InitCalls ==
  /\ calls = [c \in Cids |-> NoCall]
  /\ dialing = "none"
  /\ grp_call = NoGroup
  /\ ptt_held = NoCid
  /\ local_end = {}
  /\ mic_muted = FALSE
  /\ uplink = NoCid /\ streams = FALSE /\ ringing = FALSE
  /\ sent = {} /\ logged = {}

Init ==
  /\ connected = FALSE /\ inService = FALSE /\ attached = FALSE
  /\ InitCalls

-----------------------------------------------------------------------------
(* Queries over the call table.  Each is the set of calls the scan may      *)
(* return; the empty set is None.                                           *)

Known(cs) == {c \in Cids : cs[c].state # "Absent"}

LiveStates == {"Proceeding", "Alerting", "Connecting", "Active"}

Live(cs) == {c \in Cids : cs[c].state \in LiveStates}

\* live_call: an individual call if there is one, else any live call.
LiveCalls(cs) ==
  LET individual == {c \in Live(cs) : ~cs[c].group}
  IN  IF individual # {} THEN individual ELSE Live(cs)

\* live_individual_call: the simplex calls a PTT may key.
KeyableCalls(cs) ==
  {c \in Cids : cs[c].state = "Active" /\ cs[c].simplex /\ ~cs[c].group}

\* incoming_call: rang and not answered, whatever the state has become since.
IncomingCalls(cs) ==
  {c \in Known(cs) : ~cs[c].group /\ cs[c].rang /\ ~cs[c].answered}

\* in_call_individual: the call of the in-call page.
InCallIndividual(cs) ==
  {c \in Live(cs) : ~cs[c].group /\ ~(cs[c].rang /\ ~cs[c].answered)}

\* active_group_call: the bound call if it is still known, else any group
\* call under way.
ActiveGroupCalls(cs, g) ==
  IF g.cid \in Known(cs)
  THEN {g.cid}
  ELSE {c \in Cids : cs[c].group /\ cs[c].state \in {"Active", "Proceeding", "Alerting"}}

\* The simplex test is forgotten.
DuplexActive_Simplex_X(cs) == {c \in Cids : cs[c].state = "Active" /\ ~cs[c].group}

DuplexActive(cs) ==
  {c \in Cids : cs[c].state = "Active" /\ ~cs[c].simplex /\ ~cs[c].group}

\* The group call is forgotten: devices open for Active calls only.
AudioNeeded_X(cs, g) == \E c \in Cids : cs[c].state = "Active"

AudioNeeded(cs, g) ==
  \/ \E c \in Cids : cs[c].state = "Active"
  \/ ActiveGroupCalls(cs, g) # {}

\* The targets sync_uplink may hand to the encoder, in its order of priority.
UplinkTargets(cs, g, held, muted) ==
  LET heldActive == held # NoCid /\ held \in Cids /\ cs[held].state = "Active"
      group      == IF g.talking THEN ActiveGroupCalls(cs, g) ELSE {}
  IN  IF muted                 THEN {NoCid}
      ELSE IF heldActive       THEN {held}
      ELSE IF group # {}       THEN group
      ELSE IF DuplexActive(cs) # {} THEN DuplexActive(cs)
      ELSE {NoCid}

-----------------------------------------------------------------------------
(* Effects shared by the handlers.                                          *)

\* The encoder is pointed by the table the handler started from.
SyncUplink_X ==
  /\ streams' = AudioNeeded(calls', grp_call')
  /\ uplink' \in UplinkTargets(calls, grp_call', ptt_held', mic_muted')

\* sync_uplink: open or close the devices, then point the encoder.
SyncUplink ==
  /\ streams' = AudioNeeded(calls', grp_call')
  /\ uplink' \in UplinkTargets(calls', grp_call', ptt_held', mic_muted')

NoSync == UNCHANGED <<uplink, streams>>

\* The ringtone follows the table the handler started from.
PushCalls_X == ringing' = (IncomingCalls(calls) # {})

\* push_calls: redraws, and starts or stops the ringtone first.
PushCalls == ringing' = (IncomingCalls(calls') # {})

\* send: reaches the stack only while control_out holds a link.
Send(ms) == sent' = IF connected THEN ms ELSE {}

Cmd(o, c) == [op |-> o, cid |-> c, mode |-> "none"]

SetupCmd(mode) == [op |-> "setup", cid |-> NoCid, mode |-> mode]

Quiet == logged' = {}

\* The call is removed only when it is individual.
Without_Individual_X(cid) == IF calls[cid].group THEN calls ELSE [calls EXCEPT ![cid] = NoCall]

\* calls.remove(&cid)
Without(cid) == [calls EXCEPT ![cid] = NoCall]

\* record_call: the log entry for a call that has just left the table.
EntryFor(cid, c, endedLocal, failed) ==
  [cid |-> cid,
   outgoing |-> c.direction # "mt",
   outcome |->
     IF failed THEN "FAILED"
     ELSE IF c.answered \/ c.was_active THEN "ANSWERED"
     ELSE IF c.direction # "mt" THEN "NO_ANSWER"
     ELSE IF endedLocal THEN "REJECTED" ELSE "MISSED"]

\* Only what the other side ended is recorded.
RecordCall_X(cid, c, endedLocal, failed) ==
  logged' = IF c.group \/ endedLocal THEN {} ELSE {EntryFor(cid, c, endedLocal, failed)}

RecordCall(cid, c, endedLocal, failed) ==
  logged' = IF c.group THEN {} ELSE {EntryFor(cid, c, endedLocal, failed)}

\* require_service: commands that use the air interface.
RequireService == connected /\ inService

-----------------------------------------------------------------------------
(* Telemetry: apply_call_event, then emit_ringing_alerts, push_calls and    *)
(* sync_uplink, as handle_telemetry and its caller run them.                *)

\* The floor part of apply_floor that later guards read: "keep" is an absent
\* status, "other" a grant to another user, "free" everything else.
Floors == {"keep", "other", "free"}

WithFloor(c, floor) ==
  [c EXCEPT !.can_request_tx = IF floor = "keep" THEN @ ELSE floor = "free"]

\* The call is inserted anew with every event.
Entered_X(cid) == FreshCall

Entered(cid) == IF cid \in Known(calls) THEN calls[cid] ELSE FreshCall

\* The alerted flag is not looked at.
NeedsAlert_X(c) == ~c.group /\ c.hook_on /\ c.rang /\ ~c.answered

\* emit_ringing_alerts: hook-signalled calls that ring and were not announced.
NeedsAlert(c) == ~c.group /\ c.hook_on /\ c.rang /\ ~c.answered /\ ~c.alerted

Announced(table) ==
  [c \in Cids |-> IF NeedsAlert(table[c]) THEN [table[c] EXCEPT !.alerted = TRUE]
                                         ELSE table[c]]

AlertCommands(table) == {Cmd("alert", c) : c \in {d \in Cids : NeedsAlert(table[d])}}

\* bind_dialing: the placeholder's mode overwrites the call's.
Bound(c) ==
  IF dialing = "none" THEN c
  ELSE [c EXCEPT !.group = @ \/ dialing = "group", !.simplex = dialing # "duplex"]

\* The tail of apply_call_event, common to all events but the releases.
Stamped(c) == [c EXCEPT !.was_active = @ \/ c.state = "Active",
                        !.rang       = @ \/ c.state = "Incoming"]

CallEvent(cid, arm, binds) ==
  LET c     == Stamped(IF binds THEN Bound(arm) ELSE arm)
      table == [calls EXCEPT ![cid] = c]
      bind  == grp_call.open /\ grp_call.cid = NoCid /\ c.group
  IN  /\ calls' = Announced(table)
      /\ grp_call' = IF bind THEN [grp_call EXCEPT !.cid = cid] ELSE grp_call
      /\ dialing' = IF binds THEN "none" ELSE dialing
      /\ Send(AlertCommands(table))
      /\ UNCHANGED <<radio, ptt_held, local_end, mic_muted>>
      /\ Quiet /\ SyncUplink /\ PushCalls

\* The placeholder is bound to a setup indication too.
SetupIndication_X(cid, kind, floor) ==
  LET c     == Entered(cid)
      group == c.group \/ kind.group
  IN  CallEvent(cid,
        WithFloor([c EXCEPT !.group     = group,
                            !.direction = IF group THEN @ ELSE "mt",
                            !.simplex   = kind.simplex,
                            !.hook_on   = kind.hook,
                            !.state     = IF group THEN "Active" ELSE "Incoming"],
                  floor),
        TRUE)

SetupIndication(cid, kind, floor) ==
  LET c     == Entered(cid)
      group == c.group \/ kind.group
  IN  CallEvent(cid,
        WithFloor([c EXCEPT !.group     = group,
                            !.direction = IF group THEN @ ELSE "mt",
                            !.simplex   = kind.simplex,
                            !.hook_on   = kind.hook,
                            !.state     = IF group THEN "Active" ELSE "Incoming"],
                  floor),
        FALSE)

Outgoing(c) == [c EXCEPT !.direction = IF @ = "none" THEN "mo" ELSE @]

ProceedIndication(cid) ==
  CallEvent(cid, [Outgoing(Entered(cid)) EXCEPT !.state = "Proceeding"], TRUE)

AlertIndication(cid) ==
  CallEvent(cid, [Outgoing(Entered(cid)) EXCEPT !.state = "Alerting"], TRUE)

\* A confirm does not touch a call that was announced to us.
ConnectConfirm_X(cid, group, floor) ==
  CallEvent(cid,
    WithFloor([Outgoing(Entered(cid)) EXCEPT
                 !.state = IF @ \in {"Incoming", "Connecting"} THEN @ ELSE "Active",
                 !.group = @ \/ group], floor),
    TRUE)

\* TnccSetupConfirm and TnccCompleteConfirm share their arm.
ConnectConfirm(cid, group, floor) ==
  CallEvent(cid,
    WithFloor([Outgoing(Entered(cid)) EXCEPT !.state = "Active", !.group = @ \/ group], floor),
    TRUE)

\* TnccTxIndication and TnccTxConfirm.
TxEvent(cid, floor) ==
  LET c == WithFloor(Entered(cid), floor)
  IN  CallEvent(cid, [c EXCEPT !.state = IF @ = "Setup" THEN "Active" ELSE @], FALSE)

\* Any other Tncc event that carries a call identifier: it still enters the call.
OtherCallEvent(cid) == CallEvent(cid, Entered(cid), FALSE)

\* The hang-up marker is dropped only with a call that is still known.
ClearLocalEnd_X(cid) ==
  local_end' = IF cid \in Known(calls) THEN local_end \ {cid} ELSE local_end

ClearLocalEnd(cid) == local_end' = local_end \ {cid}

\* TnccReleaseIndication and TnccReleaseConfirm; failure: a setup-failure cause.
Release(cid, failure) ==
  LET gone     == calls[cid]
      known    == cid \in Known(calls)
      local    == cid \in local_end
      table    == Without(cid)
      ours     == grp_call.open /\ grp_call.cid = cid
      unbound  == /\ grp_call.open /\ grp_call.cid = NoCid
                  /\ ActiveGroupCalls(table, grp_call) = {}
      personal == \E c \in Known(table) : ~table[c].group
      failed   == failure /\ ~gone.answered /\ ~gone.was_active
  IN  /\ calls' = Announced(table)
      /\ dialing' = "none"
      /\ grp_call' = IF ours \/ unbound THEN NoGroup ELSE grp_call
      /\ ptt_held' = IF ptt_held = cid THEN NoCid ELSE ptt_held
      /\ mic_muted' = (mic_muted /\ personal)
      /\ ClearLocalEnd(cid)
      /\ IF known THEN RecordCall(cid, gone, local, failed) ELSE logged' = {}
      /\ Send(AlertCommands(table))
      /\ UNCHANGED radio
      /\ SyncUplink /\ PushCalls

\* handle_speech_frame: a frame from another talker takes the floor away.
SpeechFrame(cid, fromOther) ==
  /\ calls' = IF fromOther /\ cid \in Known(calls)
              THEN [calls EXCEPT ![cid].can_request_tx = FALSE] ELSE calls
  /\ Send({}) /\ Quiet
  /\ UNCHANGED <<radio, dialing, grp_call, ptt_held, local_end, mic_muted>>
  /\ SyncUplink
  /\ PushCalls \/ UNCHANGED ringing

\* Any telemetry that is not about calls: only sync_uplink runs.
OtherTelemetry ==
  /\ Send({}) /\ Quiet
  /\ UNCHANGED <<radio, core, ringing>>
  /\ SyncUplink

-----------------------------------------------------------------------------
(* The control link and the answers that come over it.                      *)

ControlConnected ==
  /\ connected' = TRUE
  /\ sent' = {} /\ Quiet
  /\ UNCHANGED <<inService, attached, core, devices>>

\* The arm clears the call state; it calls push_calls but not sync_uplink.
ControlDisconnected ==
  /\ connected' = FALSE
  /\ calls' = [c \in Cids |-> NoCall]
  /\ dialing' = "none"
  /\ grp_call' = NoGroup
  /\ ptt_held' = NoCid
  /\ local_end' = {}
  /\ sent' = {} /\ Quiet
  /\ UNCHANGED <<inService, attached, mic_muted>>
  /\ NoSync /\ PushCalls

\* A Management State response replaces app.state.
StateResponse(service, group) ==
  /\ inService' = service
  /\ attached' = group
  /\ sent' = {} /\ Quiet
  /\ UNCHANGED <<connected, core, devices>>

-----------------------------------------------------------------------------
(* Operator actions.                                                        *)

\* UiDialCall, UiCallContact, call_back_recent, try_start_dialer_simplex: the
\* number is valid, since an invalid one only shows an alert, and an external
\* entry of the call log has kept its number.
Dial(mode) ==
  /\ RequireService
  /\ dialing' = mode
  /\ mic_muted' = FALSE
  /\ Send({SetupCmd(mode)}) /\ Quiet
  /\ UNCHANGED <<radio, calls, grp_call, ptt_held, local_end>>
  /\ NoSync /\ PushCalls

UiCallPttDown ==
  /\ RequireService
  /\ \E cid \in KeyableCalls(calls) :
       /\ ptt_held' = cid
       /\ Send({Cmd("demand", cid)})
  /\ Quiet
  /\ UNCHANGED <<radio, calls, dialing, grp_call, local_end, mic_muted>>
  /\ SyncUplink /\ PushCalls

\* The floor is kept.
UiCallPttUp_X ==
  /\ ptt_held # NoCid
  /\ ptt_held' = NoCid
  /\ Send({}) /\ Quiet
  /\ UNCHANGED <<radio, calls, dialing, grp_call, local_end, mic_muted>>
  /\ SyncUplink /\ PushCalls

UiCallPttUp ==
  /\ ptt_held # NoCid
  /\ ptt_held' = NoCid
  /\ Send({Cmd("cease", ptt_held)}) /\ Quiet
  /\ UNCHANGED <<radio, calls, dialing, grp_call, local_end, mic_muted>>
  /\ SyncUplink /\ PushCalls

\* ptt_allowed holds for the call that is adopted; with none it always does.
GroupPttStart ==
  /\ ~grp_call.open
  /\ ActiveGroupCalls(calls, grp_call) = {}
  /\ grp_call' = [open |-> TRUE, cid |-> NoCid, talking |-> TRUE]
  /\ dialing' = "group"
  /\ Send({SetupCmd("group")})

GroupPttAdopt ==
  LET existing == ActiveGroupCalls(calls, grp_call)
  IN  /\ grp_call.open \/ existing # {}
      /\ \E cid \in IF existing # {} THEN existing ELSE {grp_call.cid} :
           /\ existing # {} => calls[cid].can_request_tx
           /\ LET target == IF grp_call.cid # NoCid THEN grp_call.cid ELSE cid
              IN  /\ grp_call' = [open |-> TRUE, cid |-> target, talking |-> TRUE]
                  /\ Send(IF target = NoCid THEN {} ELSE {Cmd("demand", target)})
      /\ UNCHANGED dialing

UiGroupPttDown ==
  /\ RequireService
  /\ attached
  /\ GroupPttStart \/ GroupPttAdopt
  /\ Quiet
  /\ UNCHANGED <<radio, calls, ptt_held, local_end, mic_muted>>
  /\ SyncUplink /\ PushCalls

\* Without a context it still resynchronises the encoder.
UiGroupPttUp ==
  /\ grp_call' = [grp_call EXCEPT !.talking = FALSE]
  /\ LET existing == ActiveGroupCalls(calls, grp_call)
         targets  == IF grp_call.cid # NoCid THEN {grp_call.cid} ELSE existing
     IN  IF grp_call.talking /\ targets # {}
         THEN \E cid \in targets : Send({Cmd("cease", cid)})
         ELSE Send({})
  /\ Quiet
  /\ UNCHANGED <<radio, calls, dialing, ptt_held, local_end, mic_muted>>
  /\ SyncUplink /\ PushCalls

UiAnswerCall ==
  /\ connected
  /\ \E cid \in IncomingCalls(calls) :
       /\ Send({Cmd(IF calls[cid].hook_on THEN "complete" ELSE "respond", cid)})
       /\ calls' = [calls EXCEPT ![cid].answered = TRUE, ![cid].state = "Connecting"]
  /\ Quiet
  /\ UNCHANGED <<radio, dialing, grp_call, ptt_held, local_end, mic_muted>>
  /\ NoSync /\ PushCalls

\* Works offline too: the call leaves the screen, the release goes nowhere.
UiRejectCall ==
  /\ \E cid \in IncomingCalls(calls) :
       /\ Send({Cmd("release", cid)})
       /\ local_end' = local_end \cup {cid}
       /\ calls' = Without(cid)
       /\ RecordCall(cid, calls[cid], TRUE, FALSE)
  /\ UNCHANGED <<radio, dialing, grp_call, ptt_held, mic_muted>>
  /\ NoSync /\ PushCalls

HangupCall(cid) ==
  /\ local_end' = local_end \cup {cid}
  /\ ptt_held' = NoCid
  /\ Send({Cmd("release", cid)})
  /\ calls' = Without(cid)
  /\ RecordCall(cid, calls[cid], TRUE, FALSE)

UiHangup ==
  /\ \/ \E cid \in LiveCalls(calls) : HangupCall(cid)
     \/ /\ LiveCalls(calls) = {}
        /\ UNCHANGED <<local_end, ptt_held, calls>>
        /\ sent' = {} /\ logged' = {}
  /\ dialing' = "none"
  /\ UNCHANGED <<radio, grp_call, mic_muted>>
  /\ SyncUplink /\ PushCalls

\* The call of the context is marked, not the one that is hung up.
HangupGroupCall_X(cid) ==
  /\ local_end' = local_end \cup {grp_call.cid}
  /\ Send({Cmd("release", cid)})
  /\ calls' = Without(cid)

HangupGroupCall(cid) ==
  /\ local_end' = local_end \cup {cid}
  /\ Send({Cmd("release", cid)})
  /\ calls' = Without(cid)

\* The placeholder is left behind.
DropGroupPlaceholder_X == dialing' = dialing

DropGroupPlaceholder == dialing' = IF dialing = "group" THEN "none" ELSE dialing

UiHangupGroup ==
  /\ LET active == ActiveGroupCalls(calls, grp_call)
     IN  \/ \E cid \in active : HangupGroupCall(cid)
         \/ /\ active = {} /\ grp_call.cid # NoCid
            /\ HangupGroupCall(grp_call.cid)
         \/ /\ active = {} /\ grp_call.cid = NoCid
            /\ UNCHANGED <<local_end, calls>> /\ sent' = {}
  /\ grp_call' = NoGroup
  /\ DropGroupPlaceholder
  /\ Quiet
  /\ UNCHANGED <<radio, ptt_held, mic_muted>>
  /\ SyncUplink /\ PushCalls

\* The encoder is left as it was.
UiToggleMute_X ==
  /\ mic_muted' = ~mic_muted
  /\ sent' = {} /\ Quiet
  /\ UNCHANGED <<radio, calls, dialing, grp_call, ptt_held, local_end>>
  /\ NoSync /\ PushCalls

UiToggleMute ==
  /\ mic_muted' = ~mic_muted
  /\ sent' = {} /\ Quiet
  /\ UNCHANGED <<radio, calls, dialing, grp_call, ptt_held, local_end>>
  /\ SyncUplink /\ PushCalls

-----------------------------------------------------------------------------

TelemetryStep ==
  \/ \E cid \in Cids :
       \/ \E kind \in Kinds, floor \in Floors : SetupIndication(cid, kind, floor)
       \/ ProceedIndication(cid)
       \/ AlertIndication(cid)
       \/ \E group \in BOOLEAN, floor \in Floors : ConnectConfirm(cid, group, floor)
       \/ \E floor \in Floors : TxEvent(cid, floor)
       \/ OtherCallEvent(cid)
       \/ \E failure \in BOOLEAN : Release(cid, failure)
       \/ \E fromOther \in BOOLEAN : SpeechFrame(cid, fromOther)
  \/ OtherTelemetry

LinkStep ==
  \/ ControlConnected
  \/ ControlDisconnected
  \/ \E service, group \in BOOLEAN : StateResponse(service, group)

OperatorStep ==
  \/ \E mode \in {"simplex", "duplex"} : Dial(mode)
  \/ UiCallPttDown \/ UiCallPttUp
  \/ UiGroupPttDown \/ UiGroupPttUp
  \/ UiAnswerCall \/ UiRejectCall
  \/ UiHangup \/ UiHangupGroup
  \/ UiToggleMute

Next == TelemetryStep \/ LinkStep \/ OperatorStep

Spec == Init /\ [][Next]_vars

-----------------------------------------------------------------------------
(* Properties.                                                              *)

\* A muted microphone is never on the air: whichever handler ran last, and
\* whatever it forgot to resynchronise, the encoder has no target while
\* mic_muted is set (sync_uplink: "Muted mic: never transmit").
MutedMicSilent == mic_muted => uplink = NoCid

\* The encoder has a target only while the audio devices are open: no handler
\* closes the devices under a call that is still being transmitted on.
UplinkOpensDevices == uplink # NoCid => streams

\* The ringtone plays exactly while some individual call rang and is neither
\* answered nor gone, through answer, reject, hang-up, release and link loss.
RingMatchesCalls == ringing <=> IncomingCalls(calls) # {}

\* No hook-signalled call rings here without having been announced to the
\* network, in whatever order its indications arrived (emit_ringing_alerts).
RingingAnnounced == \A c \in Cids : ~NeedsAlert(calls[c])

\* A placeholder, a held PTT or a group context belongs to a live link: none of
\* them outlives it or appears without it.
IntentNeedsLink ==
  dialing # "none" \/ ptt_held # NoCid \/ grp_call.open => connected

\* A group placeholder always has its group context, so releasing the PTT or
\* hanging up the group reaches it, whatever was bound or released meanwhile.
GroupPlaceholderHasContext == dialing = "group" => grp_call.open

\* A call that left the table left nothing behind: its next use starts from
\* FreshCall, never from the flags of an earlier call with the same identifier.
AbsentCallsBlank == \A c \in Cids : calls[c].state = "Absent" => calls[c] = NoCall

\* The ringing alert for a call goes out once, however often the indication is
\* repeated: it is sent by the step that sets alerted, and by no other.
AnnouncedOnce ==
  [][\A c \in Cids : Cmd("alert", c) \in sent' => ~calls[c].alerted /\ calls'[c].alerted]_vars

\* Setups and floor demands leave only while the radio is registered, in
\* service and linked, whichever button asked for them.
AirAccessNeedsService ==
  [][(\E m \in sent' : m.op \in {"setup", "demand"}) => connected /\ inService]_vars

=============================================================================
