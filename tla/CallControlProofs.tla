-------------------------- MODULE CallControlProofs --------------------------
(***************************************************************************)
(* Theorems about CallControl for every set of call identifiers and every  *)
(* set of call kinds the stack may announce.                               *)
(***************************************************************************)
EXTENDS CallControl, TLAPS

\* Every record the telemetry arms start from or build is a call record.
LEMMA CallTypes ==
  /\ NoCall \in CallRecord
  /\ FreshCall \in CallRecord
  /\ NoGroup \in GroupCtx
  BY DEF NoCall, FreshCall, CallRecord, CallStates, NoGroup, GroupCtx

\* What a telemetry event finds for its call, known or fresh, is a call record.
LEMMA EnteredType ==
  ASSUME TypeOK, NEW cid \in Cids
  PROVE  Entered(cid) \in CallRecord
  BY CallTypes DEF TypeOK, Entered, Known

\* A floor status only changes the permission flag of a record.
LEMMA FloorType ==
  ASSUME NEW c \in CallRecord, NEW floor \in Floors
  PROVE  /\ WithFloor(c, floor) \in CallRecord
         /\ WithFloor(c, floor).state = c.state
         /\ WithFloor(c, floor).alerted = c.alerted
         /\ WithFloor(c, floor).rang = c.rang
         /\ WithFloor(c, floor).answered = c.answered
  BY DEF WithFloor, CallRecord, Floors

\* Filling in the direction keeps the type and the alerted flag of a record.
LEMMA OutgoingType ==
  ASSUME NEW c \in CallRecord
  PROVE  /\ Outgoing(c) \in CallRecord
         /\ Outgoing(c).alerted = c.alerted
  BY DEF Outgoing, CallRecord

\* Binding the outgoing placeholder keeps the type and the alerted flag.
LEMMA BoundType ==
  ASSUME TypeOK, NEW c \in CallRecord
  PROVE  /\ Bound(c) \in CallRecord
         /\ Bound(c).alerted = c.alerted
         /\ Bound(c).state = c.state
<1> DEFINE g == c.group \/ dialing = "group"
           s == dialing # "duplex"
<1>1. g \in BOOLEAN /\ s \in BOOLEAN
  OBVIOUS
<1>2. ASSUME NEW x \in BOOLEAN, NEW y \in BOOLEAN
      PROVE  /\ [c EXCEPT !.group = x, !.simplex = y] \in CallRecord
             /\ [c EXCEPT !.group = x, !.simplex = y].alerted = c.alerted
             /\ [c EXCEPT !.group = x, !.simplex = y].state = c.state
  BY DEF CallRecord
<1>3. Bound(c) = IF dialing = "none" THEN c ELSE [c EXCEPT !.group = g, !.simplex = s]
  BY DEF Bound
<1> QED
  <2> HIDE DEF g, s
  <2> QED BY <1>1, <1>2, <1>3

\* The closing stamps of an event keep the type and the alerted flag.
LEMMA StampedType ==
  ASSUME NEW c \in CallRecord
  PROVE  /\ Stamped(c) \in CallRecord
         /\ Stamped(c).alerted = c.alerted
         /\ Stamped(c).state = c.state
  BY DEF Stamped, CallRecord

\* emit_ringing_alerts keeps the table typed and leaves no call to announce.
LEMMA AnnouncedType ==
  ASSUME NEW table \in [Cids -> CallRecord]
  PROVE  /\ Announced(table) \in [Cids -> CallRecord]
         /\ \A c \in Cids : ~NeedsAlert(Announced(table)[c])
         /\ \A c \in Cids : Announced(table)[c].state = table[c].state
  BY DEF Announced, NeedsAlert, CallRecord

\* The alerts it sends are commands.
LEMMA AlertCommandsType ==
  ASSUME NEW table \in [Cids -> CallRecord]
  PROVE  AlertCommands(table) \subseteq Command
  BY DEF AlertCommands, Command, Cmd, Ops, DialModes

\* What is put on the link is a set of commands.
LEMMA SendType ==
  ASSUME NEW ms \in SUBSET Command, Send(ms)
  PROVE  sent' \subseteq Command
  BY DEF Send

-----------------------------------------------------------------------------
(* What sync_uplink guarantees about the encoder's target.                  *)

\* Every target sync_uplink may choose is a call under way, and none is when muted.
LEMMA TargetSafe ==
  ASSUME NEW cs \in [Cids -> CallRecord], NEW g \in GroupCtx,
         NEW held \in Cids \cup {NoCid}, NEW muted \in BOOLEAN,
         NEW u \in UplinkTargets(cs, g, held, muted)
  PROVE  /\ u \in Cids \cup {NoCid}
         /\ muted => u = NoCid
         /\ u # NoCid => AudioNeeded(cs, g)
<1>1. ActiveGroupCalls(cs, g) \subseteq Cids
  BY DEF ActiveGroupCalls, Known
<1>2. DuplexActive(cs) \subseteq {c \in Cids : cs[c].state = "Active"}
  BY DEF DuplexActive
<1>3. CASE muted
  BY <1>3 DEF UplinkTargets
<1>4. CASE ~muted
  BY <1>1, <1>2, <1>4 DEF UplinkTargets, AudioNeeded
<1> QED BY <1>3, <1>4

\* After sync_uplink the microphone gate is safe, whatever was changed before it.
LEMMA SyncSafe ==
  ASSUME calls' \in [Cids -> CallRecord], grp_call' \in GroupCtx,
         ptt_held' \in Cids \cup {NoCid}, mic_muted' \in BOOLEAN,
         SyncUplink
  PROVE  /\ uplink' \in Cids \cup {NoCid}
         /\ streams' \in BOOLEAN
         /\ MutedMicSilent'
         /\ UplinkOpensDevices'
<1>1. AudioNeeded(calls', grp_call') \in BOOLEAN
  BY DEF AudioNeeded
<1>2. /\ streams' = AudioNeeded(calls', grp_call')
      /\ uplink' \in UplinkTargets(calls', grp_call', ptt_held', mic_muted')
  BY DEF SyncUplink
<1> QED BY <1>1, <1>2, TargetSafe DEF MutedMicSilent, UplinkOpensDevices

\* Handlers that leave the devices alone keep both facts as long as they do
\* not mute.
LEMMA NoSyncSafe ==
  ASSUME TypeOK, MutedMicSilent, UplinkOpensDevices, NoSync, mic_muted' => mic_muted
  PROVE  /\ uplink' \in Cids \cup {NoCid}
         /\ streams' \in BOOLEAN
         /\ MutedMicSilent'
         /\ UplinkOpensDevices'
  BY DEF TypeOK, NoSync, MutedMicSilent, UplinkOpensDevices

\* After push_calls the ringtone agrees with the table.
LEMMA PushSafe ==
  ASSUME PushCalls
  PROVE  ringing' \in BOOLEAN /\ RingMatchesCalls'
  BY DEF PushCalls, RingMatchesCalls

\* What record_call writes is a log entry.
LEMMA RecordType ==
  ASSUME NEW cid \in Cids, NEW c \in CallRecord, NEW a \in BOOLEAN, NEW b \in BOOLEAN,
         RecordCall(cid, c, a, b)
  PROVE  logged' \subseteq Entry
<1>1. EntryFor(cid, c, a, b) \in Entry
  BY DEF EntryFor, Entry, Outcomes
<1> QED BY <1>1 DEF RecordCall

-----------------------------------------------------------------------------
(* The inductive invariant: every conjunct is an invariant of the runs.     *)

IInv ==
  /\ TypeOK
  /\ MutedMicSilent
  /\ UplinkOpensDevices
  /\ RingMatchesCalls
  /\ RingingAnnounced
  /\ AbsentCallsBlank
  /\ IntentNeedsLink
  /\ GroupPlaceholderHasContext

\* The invariant holds before the first connection.
LEMMA InitInv == Init => IInv
<1> SUFFICES ASSUME Init PROVE IInv
  OBVIOUS
<1>1. calls = [c \in Cids |-> NoCall]
  BY DEF Init, InitCalls
<1>2. TypeOK
  BY <1>1, CallTypes DEF Init, InitCalls, TypeOK, DialModes
<1>3. MutedMicSilent /\ UplinkOpensDevices
  BY DEF Init, InitCalls, MutedMicSilent, UplinkOpensDevices
<1>4. RingMatchesCalls
  BY <1>1 DEF Init, InitCalls, RingMatchesCalls, IncomingCalls, Known, NoCall
<1>5. RingingAnnounced /\ AbsentCallsBlank
  BY <1>1 DEF RingingAnnounced, AbsentCallsBlank, NeedsAlert, NoCall
<1>6. IntentNeedsLink /\ GroupPlaceholderHasContext
  BY DEF Init, InitCalls, IntentNeedsLink, GroupPlaceholderHasContext, NoGroup
<1> QED BY <1>2, <1>3, <1>4, <1>5, <1>6 DEF IInv

\* Telemetry about a call: any arm that builds a typed, present record.
LEMMA CallEventInv ==
  ASSUME IInv, NEW cid \in Cids, NEW arm \in CallRecord, NEW binds \in BOOLEAN,
         arm.state # "Absent", CallEvent(cid, arm, binds)
  PROVE  IInv'
<1> DEFINE c     == Stamped(IF binds THEN Bound(arm) ELSE arm)
           table == [calls EXCEPT ![cid] = c]
<1> USE DEF IInv
<1>1. c \in CallRecord /\ c.state # "Absent"
  BY BoundType, StampedType
<1>2. table \in [Cids -> CallRecord]
  BY <1>1 DEF TypeOK
<1>3. /\ calls' = Announced(table)
      /\ grp_call' \in {grp_call, [grp_call EXCEPT !.cid = cid]}
      /\ dialing' \in {"none", dialing}
      /\ Send(AlertCommands(table))
      /\ UNCHANGED <<radio, ptt_held, local_end, mic_muted>>
      /\ Quiet /\ SyncUplink /\ PushCalls
  BY DEF CallEvent
<1> HIDE DEF c
<1>4. /\ calls' \in [Cids -> CallRecord]
      /\ RingingAnnounced'
      /\ \A x \in Cids : calls'[x].state = table[x].state
  BY <1>2, <1>3, AnnouncedType DEF RingingAnnounced
<1>5. AbsentCallsBlank'
  <2> SUFFICES ASSUME NEW x \in Cids, calls'[x].state = "Absent"
               PROVE  calls'[x] = NoCall
    BY DEF AbsentCallsBlank
  <2>1. x # cid
    BY <1>1, <1>4 DEF TypeOK
  <2>2. table[x] = NoCall
    BY <2>1, <1>4 DEF AbsentCallsBlank, TypeOK
  <2> QED BY <1>3, <2>2 DEF Announced, NeedsAlert, NoCall
<1>6. grp_call' \in GroupCtx /\ grp_call'.open = grp_call.open
  BY <1>3 DEF TypeOK, GroupCtx
<1>7. /\ uplink' \in Cids \cup {NoCid} /\ streams' \in BOOLEAN
      /\ MutedMicSilent' /\ UplinkOpensDevices'
  BY <1>3, <1>4, <1>6, SyncSafe DEF TypeOK
<1>8. ringing' \in BOOLEAN /\ RingMatchesCalls'
  BY <1>3, PushSafe
<1>9. sent' \subseteq Command /\ logged' \subseteq Entry
  BY <1>2, <1>3, AlertCommandsType DEF Send, Quiet
<1>10. TypeOK'
  BY <1>3, <1>4, <1>6, <1>7, <1>8, <1>9 DEF TypeOK, radio, DialModes
<1>11. IntentNeedsLink' /\ GroupPlaceholderHasContext'
  BY <1>3, <1>6 DEF IntentNeedsLink, GroupPlaceholderHasContext, radio
<1> QED BY <1>4, <1>5, <1>7, <1>8, <1>10, <1>11

-----------------------------------------------------------------------------
(* The handlers outside apply_call_event.  Each either leaves the table     *)
(* alone, removes one call from it, or updates a call without new ringing.  *)

\* The table part of the invariant when a call is removed.
LEMMA TableGone ==
  ASSUME IInv, NEW cid \in Cids \cup {NoCid}, calls' = Without(cid)
  PROVE  calls' \in [Cids -> CallRecord] /\ RingingAnnounced' /\ AbsentCallsBlank'
  BY CallTypes DEF Without, IInv, TypeOK, RingingAnnounced, AbsentCallsBlank, NeedsAlert, NoCall

\* The table part of the invariant when the table is unchanged.
LEMMA TableSame ==
  ASSUME IInv, calls' = calls
  PROVE  calls' \in [Cids -> CallRecord] /\ RingingAnnounced' /\ AbsentCallsBlank'
  BY DEF IInv, TypeOK, RingingAnnounced, AbsentCallsBlank, NeedsAlert

\* A handler that keeps the table part, ends in push_calls, and either ends in
\* sync_uplink or leaves the devices alone without muting, keeps the invariant.
LEMMA Assemble ==
  ASSUME IInv,
         connected' \in BOOLEAN, inService' \in BOOLEAN, attached' \in BOOLEAN,
         calls' \in [Cids -> CallRecord], RingingAnnounced', AbsentCallsBlank',
         dialing' \in DialModes, grp_call' \in GroupCtx,
         ptt_held' \in Cids \cup {NoCid}, local_end' \subseteq Cids,
         mic_muted' \in BOOLEAN, sent' \subseteq Command, logged' \subseteq Entry,
         IntentNeedsLink', GroupPlaceholderHasContext',
         PushCalls,
         SyncUplink \/ (NoSync /\ (mic_muted' => mic_muted))
  PROVE  IInv'
<1>1. /\ uplink' \in Cids \cup {NoCid} /\ streams' \in BOOLEAN
      /\ MutedMicSilent' /\ UplinkOpensDevices'
  BY SyncSafe, NoSyncSafe DEF IInv
<1>2. ringing' \in BOOLEAN /\ RingMatchesCalls'
  BY PushSafe
<1>3. TypeOK'
  BY <1>1, <1>2 DEF TypeOK
<1> QED BY <1>1, <1>2, <1>3 DEF IInv

\* A release removes the call, then announces any other call still ringing.
LEMMA ReleaseInv ==
  ASSUME IInv, NEW cid \in Cids, NEW failure \in BOOLEAN, Release(cid, failure)
  PROVE  IInv'
<1> DEFINE table == Without(cid)
<1>1. table \in [Cids -> CallRecord]
  BY CallTypes DEF Without, IInv, TypeOK
<1>2. /\ calls' = Announced(table)
      /\ dialing' = "none"
      /\ grp_call' \in {NoGroup, grp_call}
      /\ ptt_held' \in {NoCid, ptt_held}
      /\ mic_muted' \in BOOLEAN
      /\ local_end' = local_end \ {cid}
      /\ Send(AlertCommands(table))
      /\ UNCHANGED radio
      /\ SyncUplink /\ PushCalls
  BY DEF Without, ClearLocalEnd, Release, IInv, TypeOK
<1>3. logged' \subseteq Entry
  <2>1. CASE cid \in Known(calls)
    <3> DEFINE gone   == calls[cid]
               local  == cid \in local_end
               failed == failure /\ ~gone.answered /\ ~gone.was_active
    <3>1. RecordCall(cid, gone, local, failed)
      BY <2>1 DEF Release
    <3>2. gone \in CallRecord /\ local \in BOOLEAN /\ failed \in BOOLEAN
      BY DEF IInv, TypeOK, CallRecord
    <3> QED
      <4> HIDE DEF gone, local, failed
      <4> QED BY <3>1, <3>2, RecordType
  <2>2. CASE cid \notin Known(calls)
    BY <2>2 DEF Release
  <2> QED BY <2>1, <2>2
<1>4. calls' \in [Cids -> CallRecord] /\ RingingAnnounced'
  BY <1>1, <1>2, AnnouncedType DEF RingingAnnounced
<1>5. AbsentCallsBlank'
  <2> SUFFICES ASSUME NEW x \in Cids, calls'[x].state = "Absent"
               PROVE  calls'[x] = NoCall
    BY DEF AbsentCallsBlank
  <2>1. table[x].state = "Absent"
    BY <1>1, <1>2, AnnouncedType
  <2>2. table[x] = NoCall
    BY <2>1 DEF Without, IInv, AbsentCallsBlank, TypeOK
  <2> QED BY <1>2, <2>2 DEF Announced, NeedsAlert, NoCall
<1>6. sent' \subseteq Command
  BY <1>1, <1>2, AlertCommandsType, SendType
<1>7. IntentNeedsLink' /\ GroupPlaceholderHasContext'
  BY <1>2 DEF IInv, IntentNeedsLink, GroupPlaceholderHasContext, NoGroup, radio
<1>8. /\ grp_call' \in GroupCtx /\ dialing' \in DialModes
      /\ ptt_held' \in Cids \cup {NoCid} /\ local_end' \subseteq Cids
      /\ connected' \in BOOLEAN /\ inService' \in BOOLEAN /\ attached' \in BOOLEAN
  BY <1>2, CallTypes DEF IInv, TypeOK, DialModes, radio
<1> QED BY <1>2, <1>3, <1>4, <1>5, <1>6, <1>7, <1>8, Assemble

\* A speech frame only takes the floor flag of a known call.
LEMMA SpeechFrameInv ==
  ASSUME IInv, NEW cid \in Cids, NEW fromOther \in BOOLEAN, SpeechFrame(cid, fromOther)
  PROVE  IInv'
<1> DEFINE taken == [calls[cid] EXCEPT !.can_request_tx = FALSE]
           table == [calls EXCEPT ![cid] = taken]
<1>1. /\ sent' = {} /\ logged' = {}
      /\ UNCHANGED <<radio, dialing, grp_call, ptt_held, local_end, mic_muted>>
      /\ SyncUplink /\ (PushCalls \/ UNCHANGED ringing)
      /\ calls' = calls \/ (calls' = table /\ calls[cid].state # "Absent")
  BY DEF SpeechFrame, Send, Quiet, Known
<1>2. calls[cid] \in CallRecord
  BY DEF IInv, TypeOK
<1>3. /\ taken \in CallRecord
        /\ taken.state = calls[cid].state
        /\ taken.group = calls[cid].group
        /\ taken.hook_on = calls[cid].hook_on
        /\ taken.rang = calls[cid].rang
        /\ taken.answered = calls[cid].answered
        /\ taken.alerted = calls[cid].alerted
  BY <1>2 DEF CallRecord
<1>4. calls' \in [Cids -> CallRecord] /\ RingingAnnounced' /\ AbsentCallsBlank'
  <2> HIDE DEF taken
  <2>1. calls' \in [Cids -> CallRecord]
    BY <1>1, <1>3 DEF IInv, TypeOK
  <2> QED BY <1>1, <1>3, <2>1
          DEF IInv, TypeOK, RingingAnnounced, AbsentCallsBlank, NeedsAlert
<1>5. \A x \in Cids :
        /\ calls'[x].state = calls[x].state
        /\ calls'[x].group = calls[x].group
        /\ calls'[x].hook_on = calls[x].hook_on
        /\ calls'[x].rang = calls[x].rang
        /\ calls'[x].answered = calls[x].answered
        /\ calls'[x].alerted = calls[x].alerted
  <2> HIDE DEF taken
  <2> QED BY <1>1, <1>3 DEF IInv, TypeOK
<1>6. PushCalls
  <2>1. IncomingCalls(calls') = IncomingCalls(calls)
    BY <1>5 DEF IncomingCalls, Known
  <2> QED BY <1>1, <2>1 DEF IInv, TypeOK, RingMatchesCalls, PushCalls
<1> QED BY <1>1, <1>4, <1>6, Assemble
        DEF IInv, TypeOK, IntentNeedsLink, GroupPlaceholderHasContext, radio

\* Answering marks a ringing call answered and moves it to Connecting.
LEMMA AnswerInv == IInv /\ UiAnswerCall => IInv'
<1> SUFFICES ASSUME IInv, UiAnswerCall PROVE IInv'
  OBVIOUS
<1>1. PICK cid \in IncomingCalls(calls) :
        /\ Send({Cmd(IF calls[cid].hook_on THEN "complete" ELSE "respond", cid)})
        /\ calls' = [calls EXCEPT ![cid].answered = TRUE, ![cid].state = "Connecting"]
  BY DEF UiAnswerCall
<1>2. cid \in Cids
  BY DEF IncomingCalls, Known
<1>3. calls' \in [Cids -> CallRecord] /\ RingingAnnounced' /\ AbsentCallsBlank'
  <2> DEFINE c == [[calls[cid] EXCEPT !.answered = TRUE] EXCEPT !.state = "Connecting"]
  <2>1. c \in CallRecord /\ c.answered /\ c.state = "Connecting"
    <3>1. calls[cid] \in CallRecord
      BY <1>2 DEF IInv, TypeOK
    <3> QED BY <3>1 DEF CallRecord, CallStates
  <2>2. calls' = [calls EXCEPT ![cid] = c]
    BY <1>1, <1>2 DEF IInv, TypeOK
  <2> HIDE DEF c
  <2>3. calls' \in [Cids -> CallRecord]
    BY <2>1, <2>2 DEF IInv, TypeOK
  <2> QED BY <1>2, <2>1, <2>2, <2>3
          DEF IInv, TypeOK, RingingAnnounced, AbsentCallsBlank, NeedsAlert
<1>4. sent' \subseteq Command
  BY <1>1, <1>2 DEF Send, Cmd, Command, Ops, DialModes
<1>5. /\ UNCHANGED <<radio, dialing, grp_call, ptt_held, local_end, mic_muted>>
      /\ NoSync /\ PushCalls /\ Quiet
  BY DEF UiAnswerCall
<1> QED BY <1>3, <1>4, <1>5, Assemble
        DEF IInv, TypeOK, IntentNeedsLink, GroupPlaceholderHasContext, radio, Quiet

\* Operator actions that keep the link and the table's ringing: the rest of the
\* state is small enough to be checked conjunct by conjunct.
LEMMA DialInv ==
  ASSUME IInv, NEW mode \in {"simplex", "duplex"}, Dial(mode)
  PROVE  IInv'
<1>1. sent' \subseteq Command
  BY DEF Dial, Send, SetupCmd, Command, Ops, DialModes
<1>2. calls' = calls /\ mic_muted' = FALSE /\ dialing' = mode
  BY DEF Dial
<1>3. IntentNeedsLink' /\ GroupPlaceholderHasContext'
  BY DEF Dial, IInv, IntentNeedsLink, GroupPlaceholderHasContext, RequireService, radio
<1> QED BY <1>1, <1>2, <1>3, TableSame, Assemble DEF Dial, IInv, TypeOK, DialModes, Quiet, radio

\* Keying an individual call keeps the invariant: the PTT is a known call.
LEMMA CallPttDownInv == IInv /\ UiCallPttDown => IInv'
<1> SUFFICES ASSUME IInv, UiCallPttDown PROVE IInv'
  OBVIOUS
<1>1. PICK cid \in KeyableCalls(calls) : ptt_held' = cid /\ Send({Cmd("demand", cid)})
  BY DEF UiCallPttDown
<1>2. cid \in Cids
  BY DEF KeyableCalls
<1>3. sent' \subseteq Command
  BY <1>1, <1>2 DEF Send, Cmd, Command, Ops, DialModes
<1>4. IntentNeedsLink' /\ GroupPlaceholderHasContext'
  BY DEF UiCallPttDown, IInv, IntentNeedsLink, GroupPlaceholderHasContext, RequireService, radio
<1> QED BY <1>1, <1>2, <1>3, <1>4, TableSame, Assemble DEF UiCallPttDown, IInv, TypeOK, Quiet, radio

\* Releasing the PTT of an individual call keeps the invariant.
LEMMA CallPttUpInv == IInv /\ UiCallPttUp => IInv'
<1> SUFFICES ASSUME IInv, UiCallPttUp PROVE IInv'
  OBVIOUS
<1>1. sent' \subseteq Command
  BY DEF UiCallPttUp, IInv, TypeOK, Send, Cmd, Command, Ops, DialModes
<1>2. IntentNeedsLink' /\ GroupPlaceholderHasContext'
  BY DEF UiCallPttUp, IInv, IntentNeedsLink, GroupPlaceholderHasContext, radio
<1> QED BY <1>1, <1>2, TableSame, Assemble DEF UiCallPttUp, IInv, TypeOK, Quiet, radio

\* Opening or adopting a group call keeps the invariant: the context comes with it.
LEMMA GroupPttDownInv == IInv /\ UiGroupPttDown => IInv'
<1> SUFFICES ASSUME IInv, UiGroupPttDown PROVE IInv'
  OBVIOUS
<1>1. /\ grp_call' \in GroupCtx /\ grp_call'.open
      /\ dialing' \in {"group", dialing}
      /\ sent' \subseteq Command
  <2>1. CASE GroupPttStart
    BY <2>1 DEF GroupPttStart, GroupCtx, Send, SetupCmd, Command, Ops, DialModes
  <2>2. CASE GroupPttAdopt
    <3> DEFINE existing == ActiveGroupCalls(calls, grp_call)
    <3>1. PICK cid \in IF existing # {} THEN existing ELSE {grp_call.cid} :
            LET target == IF grp_call.cid # NoCid THEN grp_call.cid ELSE cid
            IN  /\ grp_call' = [open |-> TRUE, cid |-> target, talking |-> TRUE]
                /\ Send(IF target = NoCid THEN {} ELSE {Cmd("demand", target)})
      BY <2>2 DEF GroupPttAdopt
    <3>2. cid \in Cids \cup {NoCid} /\ grp_call.cid \in Cids \cup {NoCid}
      BY DEF ActiveGroupCalls, Known, IInv, TypeOK, GroupCtx
    <3>3. dialing' = dialing
      BY <2>2 DEF GroupPttAdopt
    <3> QED BY <3>1, <3>2, <3>3 DEF GroupCtx, Send, Cmd, Command, Ops, DialModes
  <2> QED BY <2>1, <2>2 DEF UiGroupPttDown
<1>2. IntentNeedsLink' /\ GroupPlaceholderHasContext'
  BY <1>1 DEF UiGroupPttDown, IntentNeedsLink, GroupPlaceholderHasContext, RequireService, radio
<1> QED BY <1>1, <1>2, TableSame, Assemble
        DEF UiGroupPttDown, IInv, TypeOK, DialModes, Quiet, radio

\* Releasing the group PTT keeps the context and the invariant.
LEMMA GroupPttUpInv == IInv /\ UiGroupPttUp => IInv'
<1> SUFFICES ASSUME IInv, UiGroupPttUp PROVE IInv'
  OBVIOUS
<1>1. grp_call' \in GroupCtx /\ grp_call'.open = grp_call.open
  BY DEF UiGroupPttUp, IInv, TypeOK, GroupCtx
<1>2. sent' \subseteq Command
  <2> DEFINE existing == ActiveGroupCalls(calls, grp_call)
             targets  == IF grp_call.cid # NoCid THEN {grp_call.cid} ELSE existing
  <2>1. targets \subseteq Cids \cup {NoCid}
    BY DEF ActiveGroupCalls, Known, IInv, TypeOK, GroupCtx
  <2>2. Send({}) \/ \E cid \in targets : Send({Cmd("cease", cid)})
    BY DEF UiGroupPttUp
  <2> HIDE DEF targets
  <2> QED BY <2>1, <2>2 DEF Send, Cmd, Command, Ops, DialModes
<1>3. IntentNeedsLink' /\ GroupPlaceholderHasContext'
  BY <1>1 DEF UiGroupPttUp, IInv, IntentNeedsLink, GroupPlaceholderHasContext, radio
<1> QED BY <1>1, <1>2, <1>3, TableSame, Assemble DEF UiGroupPttUp, IInv, TypeOK, Quiet, radio

\* Rejecting removes one call and records it; the invariant is kept.
LEMMA RejectInv == IInv /\ UiRejectCall => IInv'
<1> SUFFICES ASSUME IInv, UiRejectCall PROVE IInv'
  OBVIOUS
<1>1. PICK cid \in IncomingCalls(calls) :
        /\ Send({Cmd("release", cid)})
        /\ local_end' = local_end \cup {cid}
        /\ calls' = Without(cid)
        /\ RecordCall(cid, calls[cid], TRUE, FALSE)
  BY DEF UiRejectCall
<1>2. cid \in Cids
  BY DEF IncomingCalls, Known
<1>3. sent' \subseteq Command /\ logged' \subseteq Entry
  <2>1. sent' \subseteq Command
    BY <1>1, <1>2 DEF Send, Cmd, Command, Ops, DialModes
  <2>2. calls[cid] \in CallRecord
    BY <1>2 DEF IInv, TypeOK
  <2> QED BY <1>1, <1>2, <2>1, <2>2, RecordType
<1>4. IntentNeedsLink' /\ GroupPlaceholderHasContext'
  BY DEF UiRejectCall, IInv, IntentNeedsLink, GroupPlaceholderHasContext, radio
<1> QED BY <1>1, <1>2, <1>3, <1>4, TableGone, Assemble DEF UiRejectCall, IInv, TypeOK, radio

\* Hanging up removes the live call, if there is one, and keeps the invariant.
LEMMA HangupInv == IInv /\ UiHangup => IInv'
<1> SUFFICES ASSUME IInv, UiHangup PROVE IInv'
  OBVIOUS
<1>1. /\ dialing' = "none"
      /\ UNCHANGED <<radio, grp_call, mic_muted>>
      /\ SyncUplink /\ PushCalls
  BY DEF UiHangup
<1>2. /\ calls' \in [Cids -> CallRecord] /\ RingingAnnounced' /\ AbsentCallsBlank'
      /\ local_end' \subseteq Cids /\ ptt_held' \in {ptt_held, NoCid}
      /\ sent' \subseteq Command /\ logged' \subseteq Entry
  <2>1. CASE \E cid \in LiveCalls(calls) : HangupCall(cid)
    <3>1. PICK cid \in LiveCalls(calls) : HangupCall(cid)
      BY <2>1
    <3>2. cid \in Cids
      BY DEF LiveCalls, Live
    <3>3. sent' \subseteq Command /\ logged' \subseteq Entry
      <4>1. sent' \subseteq Command
        BY <3>1, <3>2 DEF HangupCall, Send, Cmd, Command, Ops, DialModes
      <4>2. calls[cid] \in CallRecord
        BY <3>2 DEF IInv, TypeOK
      <4> QED BY <3>1, <3>2, <4>1, <4>2, RecordType DEF HangupCall
    <3> QED BY <3>1, <3>2, <3>3, TableGone DEF HangupCall, IInv, TypeOK
  <2>2. CASE UNCHANGED <<local_end, ptt_held, calls>> /\ sent' = {} /\ logged' = {}
    BY <2>2, TableSame DEF IInv, TypeOK
  <2> QED BY <2>1, <2>2 DEF UiHangup
<1>3. IntentNeedsLink' /\ GroupPlaceholderHasContext'
  BY <1>1, <1>2 DEF IInv, IntentNeedsLink, GroupPlaceholderHasContext, radio
<1> QED BY <1>1, <1>2, <1>3, Assemble DEF IInv, TypeOK, DialModes, radio

\* Hanging up the group drops its context and its placeholder together.
LEMMA HangupGroupInv == IInv /\ UiHangupGroup => IInv'
<1> SUFFICES ASSUME IInv, UiHangupGroup PROVE IInv'
  OBVIOUS
<1>1. /\ grp_call' = NoGroup
      /\ dialing' \in {"none", dialing} /\ dialing' # "group"
      /\ logged' = {}
      /\ UNCHANGED <<radio, ptt_held, mic_muted>>
      /\ SyncUplink /\ PushCalls
  BY DEF DropGroupPlaceholder, UiHangupGroup, Quiet
<1>2. /\ calls' \in [Cids -> CallRecord] /\ RingingAnnounced' /\ AbsentCallsBlank'
      /\ local_end' \subseteq Cids
      /\ sent' \subseteq Command
  <2>1. CASE \E cid \in Cids : HangupGroupCall(cid)
    <3>1. PICK cid \in Cids : HangupGroupCall(cid)
      BY <2>1
    <3>2. sent' \subseteq Command
      BY <3>1 DEF HangupGroupCall, Send, Cmd, Command, Ops, DialModes
    <3> QED BY <3>1, <3>2, TableGone DEF HangupGroupCall, IInv, TypeOK
  <2>2. CASE UNCHANGED <<local_end, calls>> /\ sent' = {}
    BY <2>2, TableSame DEF IInv, TypeOK
  <2>3. ActiveGroupCalls(calls, grp_call) \subseteq Cids
    BY DEF ActiveGroupCalls, Known
  <2>4. grp_call.cid \in Cids \cup {NoCid}
    BY DEF IInv, TypeOK, GroupCtx
  <2> QED BY <2>1, <2>2, <2>3, <2>4 DEF UiHangupGroup
<1>3. IntentNeedsLink' /\ GroupPlaceholderHasContext'
  BY <1>1 DEF IInv, IntentNeedsLink, GroupPlaceholderHasContext, NoGroup, radio
<1> QED BY <1>1, <1>2, <1>3, CallTypes, Assemble DEF IInv, TypeOK, DialModes, radio

\* Muting resynchronises the encoder, which is what keeps it silent.
LEMMA ToggleMuteInv == IInv /\ UiToggleMute => IInv'
<1> SUFFICES ASSUME IInv, UiToggleMute PROVE IInv'
  OBVIOUS
<1>1. IntentNeedsLink' /\ GroupPlaceholderHasContext'
  BY DEF UiToggleMute, IInv, IntentNeedsLink, GroupPlaceholderHasContext, radio
<1> QED BY <1>1, TableSame, Assemble DEF UiToggleMute, IInv, TypeOK, Quiet, radio

\* The link arms: connecting changes only the link, losing it clears every call.
LEMMA LinkInv == IInv /\ LinkStep => IInv'
<1> SUFFICES ASSUME IInv, LinkStep PROVE IInv'
  OBVIOUS
<1>1. CASE ControlConnected
  <2>1. PushCalls /\ NoSync
    BY <1>1 DEF ControlConnected, PushCalls, NoSync, IInv, RingMatchesCalls, TypeOK,
                core, devices
  <2>2. IntentNeedsLink' /\ GroupPlaceholderHasContext'
    BY <1>1 DEF ControlConnected, IInv, IntentNeedsLink, GroupPlaceholderHasContext, core
  <2> QED BY <1>1, <2>1, <2>2, TableSame, Assemble
          DEF ControlConnected, IInv, TypeOK, Quiet, core
<1>2. CASE ControlDisconnected
  <2>1. calls' \in [Cids -> CallRecord] /\ RingingAnnounced' /\ AbsentCallsBlank'
    BY <1>2, CallTypes DEF ControlDisconnected, RingingAnnounced, AbsentCallsBlank,
                           NeedsAlert, NoCall
  <2>2. IntentNeedsLink' /\ GroupPlaceholderHasContext'
    BY <1>2 DEF ControlDisconnected, IntentNeedsLink, GroupPlaceholderHasContext, NoGroup
  <2> QED BY <1>2, <2>1, <2>2, CallTypes, Assemble
          DEF ControlDisconnected, IInv, TypeOK, DialModes, Quiet
<1>3. ASSUME NEW service \in BOOLEAN, NEW group \in BOOLEAN, StateResponse(service, group)
      PROVE  IInv'
  <2>1. PushCalls /\ NoSync
    BY <1>3 DEF StateResponse, PushCalls, NoSync, IInv, RingMatchesCalls, TypeOK,
                core, devices
  <2>2. IntentNeedsLink' /\ GroupPlaceholderHasContext'
    BY <1>3 DEF StateResponse, IInv, IntentNeedsLink, GroupPlaceholderHasContext, core
  <2> QED BY <1>3, <2>1, <2>2, TableSame, Assemble
          DEF StateResponse, IInv, TypeOK, Quiet, core
<1> QED BY <1>1, <1>2, <1>3 DEF LinkStep

\* Telemetry that is not about calls only resynchronises the encoder.
LEMMA OtherTelemetryInv == IInv /\ OtherTelemetry => IInv'
<1> SUFFICES ASSUME IInv, OtherTelemetry PROVE IInv'
  OBVIOUS
<1>1. PushCalls
  BY DEF OtherTelemetry, PushCalls, IInv, RingMatchesCalls, TypeOK, core
<1>2. IntentNeedsLink' /\ GroupPlaceholderHasContext'
  BY DEF OtherTelemetry, IInv, IntentNeedsLink, GroupPlaceholderHasContext, core, radio
<1> QED BY <1>1, <1>2, TableSame, Assemble
        DEF OtherTelemetry, IInv, TypeOK, Send, Quiet, core, radio

\* The record each telemetry arm builds is typed, present, and announced exactly
\* if the record it started from was.
LEMMA ArmType ==
  ASSUME IInv, NEW cid \in Cids
  PROVE  /\ Entered(cid) \in CallRecord
         /\ Entered(cid).state # "Absent"
         /\ Entered(cid).alerted = calls[cid].alerted
<1>1. Entered(cid) \in CallRecord
  BY EnteredType DEF IInv
<1>2. CASE cid \in Known(calls)
  BY <1>1, <1>2 DEF Entered, Known
<1>3. CASE cid \notin Known(calls)
  BY <1>1, <1>3 DEF Entered, Known, FreshCall, NoCall, IInv, AbsentCallsBlank
<1> QED BY <1>1, <1>2, <1>3

\* Every telemetry arm of apply_call_event except the releases is a CallEvent
\* on a typed and present record that keeps the alerted flag.
LEMMA EventArms ==
  ASSUME IInv, NEW cid \in Cids,
         \/ \E kind \in Kinds, floor \in Floors : SetupIndication(cid, kind, floor)
         \/ ProceedIndication(cid)
         \/ AlertIndication(cid)
         \/ \E group \in BOOLEAN, floor \in Floors : ConnectConfirm(cid, group, floor)
         \/ \E floor \in Floors : TxEvent(cid, floor)
         \/ OtherCallEvent(cid)
  PROVE  \E arm \in CallRecord, binds \in BOOLEAN :
           /\ arm.state # "Absent"
           /\ arm.alerted = calls[cid].alerted
           /\ CallEvent(cid, arm, binds)
<1> DEFINE c == Entered(cid)
<1>1. c \in CallRecord /\ c.state # "Absent" /\ c.alerted = calls[cid].alerted
  BY ArmType
<1> HIDE DEF c
<1>2. ASSUME NEW kind \in Kinds, NEW floor \in Floors, SetupIndication(cid, kind, floor)
      PROVE  \E arm \in CallRecord, binds \in BOOLEAN :
               /\ arm.state # "Absent"
               /\ arm.alerted = calls[cid].alerted
               /\ CallEvent(cid, arm, binds)
  <2> DEFINE group == c.group \/ kind.group
             set   == [c EXCEPT !.group     = group,
                                !.direction = IF group THEN @ ELSE "mt",
                                !.simplex   = kind.simplex,
                                !.hook_on   = kind.hook,
                                !.state     = IF group THEN "Active" ELSE "Incoming"]
  <2>1. group \in BOOLEAN
    OBVIOUS
  <2>2. CallEvent(cid, WithFloor(set, floor), FALSE)
    BY <1>2 DEF SetupIndication, c
  <2> HIDE DEF group
  <2>3. set \in CallRecord /\ set.state # "Absent" /\ set.alerted = c.alerted
    BY <1>1, <2>1, KindAssumption DEF CallRecord, CallStates
  <2> HIDE DEF set
  <2> QED BY <1>1, <2>2, <2>3, FloorType
<1>3. ASSUME NEW state \in {"Proceeding", "Alerting"},
             CallEvent(cid, [Outgoing(c) EXCEPT !.state = state], TRUE)
      PROVE  \E arm \in CallRecord, binds \in BOOLEAN :
               /\ arm.state # "Absent"
               /\ arm.alerted = calls[cid].alerted
               /\ CallEvent(cid, arm, binds)
  <2> DEFINE o == Outgoing(c)
  <2>1. o \in CallRecord /\ o.alerted = c.alerted
    BY <1>1, OutgoingType
  <2> HIDE DEF o
  <2>2. LET arm == [o EXCEPT !.state = state]
        IN  arm \in CallRecord /\ arm.state # "Absent" /\ arm.alerted = o.alerted
    BY <2>1 DEF CallRecord, CallStates
  <2> QED BY <1>1, <1>3, <2>1, <2>2 DEF o
<1>4. ASSUME NEW group \in BOOLEAN, NEW floor \in Floors, ConnectConfirm(cid, group, floor)
      PROVE  \E arm \in CallRecord, binds \in BOOLEAN :
               /\ arm.state # "Absent"
               /\ arm.alerted = calls[cid].alerted
               /\ CallEvent(cid, arm, binds)
  <2> DEFINE o   == Outgoing(c)
             set == [o EXCEPT !.state = "Active", !.group = @ \/ group]
  <2>1. o \in CallRecord /\ o.alerted = c.alerted
    BY <1>1, OutgoingType
  <2>2. CallEvent(cid, WithFloor(set, floor), TRUE)
    BY <1>4 DEF ConnectConfirm, c
  <2> HIDE DEF o
  <2>3. set \in CallRecord /\ set.state = "Active" /\ set.alerted = o.alerted
    BY <2>1 DEF CallRecord, CallStates
  <2> HIDE DEF set
  <2> QED BY <1>1, <2>1, <2>2, <2>3, FloorType
<1>5. ASSUME NEW floor \in Floors, TxEvent(cid, floor)
      PROVE  \E arm \in CallRecord, binds \in BOOLEAN :
               /\ arm.state # "Absent"
               /\ arm.alerted = calls[cid].alerted
               /\ CallEvent(cid, arm, binds)
  <2> DEFINE w   == WithFloor(c, floor)
             set == [w EXCEPT !.state = IF @ = "Setup" THEN "Active" ELSE @]
  <2>1. w \in CallRecord /\ w.alerted = c.alerted /\ w.state = c.state
    BY <1>1, FloorType
  <2>2. CallEvent(cid, set, FALSE)
    BY <1>5 DEF TxEvent, c
  <2> HIDE DEF w
  <2>3. set \in CallRecord /\ set.state # "Absent" /\ set.alerted = w.alerted
    BY <1>1, <2>1 DEF CallRecord, CallStates
  <2> QED BY <1>1, <2>1, <2>2, <2>3
<1>6. CASE OtherCallEvent(cid)
  BY <1>1, <1>6 DEF OtherCallEvent, c
<1>7. CASE ProceedIndication(cid) \/ AlertIndication(cid)
  BY <1>3, <1>7 DEF ProceedIndication, AlertIndication, c
<1> QED BY <1>2, <1>4, <1>5, <1>6, <1>7

\* Every telemetry arm keeps the invariant, in whatever order events arrive.
LEMMA TelemetryInv == IInv /\ TelemetryStep => IInv'
<1> SUFFICES ASSUME IInv, TelemetryStep PROVE IInv'
  OBVIOUS
<1>1. ASSUME NEW cid \in Cids, NEW arm \in CallRecord, NEW binds \in BOOLEAN,
             arm.state # "Absent", CallEvent(cid, arm, binds)
      PROVE  IInv'
  BY <1>1, CallEventInv
<1> QED BY <1>1, EventArms, ReleaseInv, SpeechFrameInv, OtherTelemetryInv DEF TelemetryStep

\* One step of the operator keeps the invariant.
LEMMA OperatorInv == IInv /\ OperatorStep => IInv'
  BY DialInv, CallPttDownInv, CallPttUpInv, GroupPttDownInv, GroupPttUpInv, AnswerInv,
     RejectInv, HangupInv, HangupGroupInv, ToggleMuteInv DEF OperatorStep

\* A step that changes nothing keeps it too.
LEMMA StutterInv == IInv /\ UNCHANGED vars => IInv'
  BY DEF IInv, TypeOK, MutedMicSilent, UplinkOpensDevices, RingMatchesCalls, IncomingCalls,
         Known, RingingAnnounced, NeedsAlert, AbsentCallsBlank, IntentNeedsLink,
         GroupPlaceholderHasContext, vars, radio, core, devices, outputs

\* The invariant holds in every reachable state, for any set of calls and any
\* order of telemetry, operator actions and link changes.
THEOREM Invariance == Spec => []IInv
<1>1. IInv /\ [Next]_vars => IInv'
  BY TelemetryInv, LinkInv, OperatorInv, StutterInv DEF Next
<1> QED BY InitInv, <1>1, PTL DEF Spec

\* The state of the call control stays typed, whatever the stack sends.
THEOREM TypeCorrect == Spec => []TypeOK
  BY Invariance, PTL DEF IInv

\* A muted microphone is never on the air, although several handlers leave the
\* encoder as it was.
THEOREM MutedMicSilentHolds == Spec => []MutedMicSilent
  BY Invariance, PTL DEF IInv

\* The encoder never transmits through closed devices.
THEOREM UplinkOpensDevicesHolds == Spec => []UplinkOpensDevices
  BY Invariance, PTL DEF IInv

\* The ringtone follows the unanswered incoming calls exactly.
THEOREM RingMatchesCallsHolds == Spec => []RingMatchesCalls
  BY Invariance, PTL DEF IInv

\* Every hook-signalled call that rings has been marked as announced.
THEOREM RingingAnnouncedHolds == Spec => []RingingAnnounced
  BY Invariance, PTL DEF IInv

\* No flag of a finished call survives into the next use of its identifier.
THEOREM AbsentCallsBlankHolds == Spec => []AbsentCallsBlank
  BY Invariance, PTL DEF IInv

\* No placeholder, held PTT or group context exists without the control link.
THEOREM IntentNeedsLinkHolds == Spec => []IntentNeedsLink
  BY Invariance, PTL DEF IInv

\* A group placeholder never loses its group context.
THEOREM GroupPlaceholderHasContextHolds == Spec => []GroupPlaceholderHasContext
  BY Invariance, PTL DEF IInv

-----------------------------------------------------------------------------
(* What a step may send.                                                    *)

\* The part of a step's commands both action properties are about.
SendsWell ==
  /\ (\E m \in sent' : m.op \in {"setup", "demand"}) => RequireService
  /\ \A c \in Cids : Cmd("alert", c) \in sent' => ~calls[c].alerted /\ calls'[c].alerted

\* A handler that announces what rings in a table it did not mark itself.
LEMMA AnnouncesWell ==
  ASSUME NEW table \in [Cids -> CallRecord],
         \A c \in Cids : NeedsAlert(table[c]) => table[c].alerted = calls[c].alerted,
         calls' = Announced(table), Send(AlertCommands(table))
  PROVE  SendsWell
<1>1. \A m \in sent' : \E c \in Cids : m = Cmd("alert", c) /\ NeedsAlert(table[c])
  BY DEF Send, AlertCommands
<1>2. \A m \in sent' : m.op = "alert"
  BY <1>1 DEF Cmd
<1>3. ASSUME NEW c \in Cids, Cmd("alert", c) \in sent'
      PROVE  ~calls[c].alerted /\ calls'[c].alerted
  <2>1. NeedsAlert(table[c])
    BY <1>1, <1>3 DEF Cmd
  <2>2. table[c] \in CallRecord
    OBVIOUS
  <2>3. calls'[c] = [table[c] EXCEPT !.alerted = TRUE]
    BY <2>1 DEF Announced
  <2> QED BY <2>1, <2>2, <2>3 DEF NeedsAlert, CallRecord
<1> QED BY <1>2, <1>3 DEF SendsWell

\* A handler whose command, if any, is not an alert and needs no service.
LEMMA OtherSends ==
  ASSUME \A m \in sent' : m.op \in {"respond", "complete", "release", "cease"}
  PROVE  SendsWell
  BY DEF SendsWell, Cmd

\* The telemetry arms: only alerts leave, each for a call not announced before.
LEMMA TelemetrySends == IInv /\ TelemetryStep => SendsWell
<1> SUFFICES ASSUME IInv, TelemetryStep PROVE SendsWell
  OBVIOUS
<1>1. ASSUME NEW cid \in Cids, NEW arm \in CallRecord, NEW binds \in BOOLEAN,
             arm.alerted = calls[cid].alerted, CallEvent(cid, arm, binds)
      PROVE  SendsWell
  <2> DEFINE c     == Stamped(IF binds THEN Bound(arm) ELSE arm)
             table == [calls EXCEPT ![cid] = c]
  <2>1. c \in CallRecord /\ c.alerted = calls[cid].alerted
    BY <1>1, BoundType, StampedType DEF IInv
  <2>2. calls' = Announced(table) /\ Send(AlertCommands(table))
    BY <1>1 DEF CallEvent
  <2> HIDE DEF c
  <2>3. /\ table \in [Cids -> CallRecord]
        /\ \A x \in Cids : table[x].alerted = calls[x].alerted
    BY <2>1 DEF IInv, TypeOK
  <2> HIDE DEF table
  <2> QED BY <2>2, <2>3, AnnouncesWell
<1>2. ASSUME NEW cid \in Cids, NEW failure \in BOOLEAN, Release(cid, failure)
      PROVE  SendsWell
  <2> DEFINE table == Without(cid)
  <2>1. calls' = Announced(table) /\ Send(AlertCommands(table))
    BY <1>2 DEF Release
  <2>2. /\ table \in [Cids -> CallRecord]
        /\ \A x \in Cids : NeedsAlert(table[x]) => table[x].alerted = calls[x].alerted
    BY CallTypes DEF Without, IInv, TypeOK, NeedsAlert, NoCall
  <2> HIDE DEF table
  <2> QED BY <2>1, <2>2, AnnouncesWell
<1>3. CASE OtherTelemetry \/ \E cid \in Cids, other \in BOOLEAN : SpeechFrame(cid, other)
  BY <1>3, OtherSends DEF OtherTelemetry, SpeechFrame, Send
<1> QED BY <1>1, <1>2, <1>3, EventArms DEF TelemetryStep

\* The buttons: setups and demands leave only past require_service.
LEMMA OperatorSends == IInv /\ OperatorStep => SendsWell
<1> SUFFICES ASSUME IInv, OperatorStep PROVE SendsWell
  OBVIOUS
<1>1. ASSUME RequireService, \A m \in sent' : m.op \in {"setup", "demand"}
      PROVE  SendsWell
  BY <1>1 DEF SendsWell, Cmd
<1>2. CASE \E mode \in {"simplex", "duplex"} : Dial(mode)
  BY <1>1, <1>2 DEF Dial, Send, SetupCmd
<1>3. CASE UiCallPttDown
  BY <1>1, <1>3 DEF UiCallPttDown, Send, Cmd
<1>4. CASE UiGroupPttDown
  <2>1. \A m \in sent' : m.op \in {"setup", "demand"}
    BY <1>4 DEF UiGroupPttDown, GroupPttStart, GroupPttAdopt, Send, Cmd, SetupCmd
  <2> QED BY <1>1, <1>4, <2>1 DEF UiGroupPttDown
<1>5. CASE UiCallPttUp \/ UiGroupPttUp \/ UiToggleMute
  BY <1>5, OtherSends DEF UiCallPttUp, UiGroupPttUp, UiToggleMute, Send, Cmd
<1>6. CASE UiAnswerCall
  <2>1. PICK cid : Send({Cmd(IF calls[cid].hook_on THEN "complete" ELSE "respond", cid)})
    BY <1>6 DEF UiAnswerCall
  <2> QED BY <2>1, OtherSends DEF Send, Cmd
<1>7. CASE UiRejectCall \/ UiHangup \/ UiHangupGroup
  <2>1. sent' = {} \/ \E cid : Send({Cmd("release", cid)})
    BY <1>7 DEF UiRejectCall, UiHangup, HangupCall, UiHangupGroup, HangupGroupCall
  <2> QED BY <2>1, OtherSends DEF Send, Cmd
<1> QED BY <1>2, <1>3, <1>4, <1>5, <1>6, <1>7 DEF OperatorStep

\* The link arms send nothing about calls.
LEMMA LinkSends == LinkStep => SendsWell
  BY OtherSends DEF LinkStep, ControlConnected, ControlDisconnected, StateResponse

\* Setups and floor demands leave only while linked, registered and in service.
THEOREM AirAccessHolds == Spec => AirAccessNeedsService
<1>1. IInv /\ [Next]_vars =>
        [(\E m \in sent' : m.op \in {"setup", "demand"}) => connected /\ inService]_vars
  BY TelemetrySends, OperatorSends, LinkSends DEF SendsWell, RequireService, Next
<1> QED BY Invariance, <1>1, PTL DEF Spec, AirAccessNeedsService

\* However often an indication is repeated, a call is announced at most once.
THEOREM AnnouncedOnceHolds == Spec => AnnouncedOnce
<1>1. IInv /\ [Next]_vars =>
        [\A c \in Cids :
           Cmd("alert", c) \in sent' => ~calls[c].alerted /\ calls'[c].alerted]_vars
  BY TelemetrySends, OperatorSends, LinkSends DEF SendsWell, Next
<1> QED BY Invariance, <1>1, PTL DEF Spec, AnnouncedOnce

=============================================================================
