-------------------------------- MODULE Home --------------------------------
(***************************************************************************)
(* The home screen's talkgroup and the alert in front of it: what the loop *)
(* knows of the radio and of the codeplug, the cycler the operator browses *)
(* with, the talkgroup that is keyed, and what was last drawn of them.     *)
(*                                                                         *)
(* The stack is modelled from what the loop sends it and reads from it:    *)
(* it serves commands in order, may refuse one, changes groups and         *)
(* registration by itself, and says so on the telemetry socket, which may  *)
(* lose it.  A connection that ends takes along the commands and answers   *)
(* under way; ControlLink has that channel in detail.  A configuration is  *)
(* the talkgroups of its folders, and none is without one (see             *)
(* Programming); registration is one Boolean; a scan list has one member.  *)
(*                                                                         *)
(* An operator whose name ends in _X is a faulty variant of the operator   *)
(* defined after it; no behaviour of Spec uses it.                         *)
(***************************************************************************)
EXTENDS Integers, SequencesExt

CONSTANTS
  Gssis, NoGssi,
  Layouts,     \* configurations: the talkgroups of each folder
  MaxFlight,   \* bound: commands and answers under way
  MaxNudges,   \* bound: telemetry under way
  MaxMoves,    \* bound: commands, edits and network events that change the stack
  MaxAlerts    \* bound: alerts raised

NoCodeplug == <<>>

ASSUME HomeAssumption ==
  /\ NoGssi \notin Gssis
  /\ Layouts \subseteq Seq(Seq(Gssis)) \ {NoCodeplug}
  /\ \A cp \in Layouts : \A i \in DOMAIN cp : cp[i] # <<>>
  /\ MaxFlight \in Nat \ {0} /\ MaxNudges \in Nat
  /\ MaxMoves \in Nat /\ MaxAlerts \in Nat

VARIABLES
  connected,     \* control_connected
  have_config,   \* have_config
  state,         \* state: registered and attached_groups
  codeplug,      \* codeplug, its folders
  sel_folder,    \* sel_folder, counted from 1
  cycle_gssi,    \* cycle_gssi
  selected_tx,   \* selected_tx
  shown,         \* what push_ui drew last
  alert_visible, \* alert_visible of the window
  alert_gen,     \* alert_gen
  timers,        \* alert timers that have still to fire
  net,           \* the stack's state
  text,          \* the stack's configuration
  cmdq, ansq,    \* the control channel
  nudges,        \* state-changing telemetry under way
  moves          \* commands, edits and network events so far

link   == <<connected, have_config>>
cycler == <<sel_folder, cycle_gssi>>
home   == <<state, codeplug, cycler, selected_tx, shown>>
alerts == <<alert_visible, alert_gen, timers>>
remote == <<net, text>>
wires  == <<cmdq, ansq, nudges>>
vars   == <<link, home, alerts, remote, wires, moves>>

RadioState == [registered: BOOLEAN, groups: Seq(Gssis)]
Command    == [op: {"get_state", "get_config", "switch", "attach", "detach"}, gssi: Gssis \cup {NoGssi}]
              \cup [op: {"apply_config"}, text: Layouts]
Answer     == [kind: {"state"}, state: RadioState] \cup [kind: {"config"}, text: Layouts]
              \cup [kind: {"refused"}]
Picture    == [gssi: Gssis \cup {NoGssi}, badge: {"on_air", "scanning", "not_selected", "none"},
               select: BOOLEAN]

\* Types; a group is attached once.
HomeTypeOK ==
  /\ connected \in BOOLEAN /\ have_config \in BOOLEAN
  /\ state \in RadioState /\ net \in RadioState
  /\ IsInjective(state.groups) /\ IsInjective(net.groups)
  /\ codeplug \in Layouts \cup {NoCodeplug} /\ text \in Layouts
  /\ sel_folder \in Nat \ {0}
  /\ cycle_gssi \in Gssis \cup {NoGssi} /\ selected_tx \in Gssis \cup {NoGssi}
  /\ shown \in Picture
  /\ alert_visible \in BOOLEAN /\ alert_gen \in 0..MaxAlerts /\ timers \subseteq 1..alert_gen
  /\ cmdq \in Seq(Command) /\ ansq \in Seq(Answer)
  /\ nudges \in 0..MaxNudges /\ moves \in 0..MaxMoves

-----------------------------------------------------------------------------
(* Where the cycler points, and which talkgroup is keyed.                   *)

\* The first folder with the talkgroup, or 0.
OwnerOf(cp, g) == SelectInSeq(cp, LAMBDA folder : Contains(folder, g))

EffectiveTx(st, tx) ==
  IF Contains(st.groups, tx) THEN tx
  ELSE IF st.groups = <<>> THEN NoGssi ELSE Head(st.groups)

\* The talkgroup of the cycler in a folder: the first if it points elsewhere.
Pointed(folder, g) == IF Contains(folder, g) THEN g ELSE folder[1]

\* A folder out of range is the last one.
CycleTarget ==
  IF codeplug = NoCodeplug THEN NoGssi
  ELSE LET f == IF sel_folder <= Len(codeplug) THEN sel_folder ELSE Len(codeplug)
       IN  Pointed(codeplug[f], cycle_gssi)

\* reconcile_home_view: a selection in the folder stays; without one the cycler goes to
\* the keyed talkgroup, or to the first of the folder.
Reconcile(cp, sel, cyc, tx) ==
  LET f     == IF sel <= Len(cp) THEN sel ELSE 1
      owner == OwnerOf(cp, tx)
  IN  IF cp = NoCodeplug THEN sel_folder' = sel /\ cycle_gssi' = cyc
      ELSE IF Contains(cp[f], cyc) THEN sel_folder' = f /\ cycle_gssi' = cyc
      ELSE IF owner # 0 THEN sel_folder' = owner /\ cycle_gssi' = tx
      ELSE sel_folder' = f /\ cycle_gssi' = cp[f][1]

\* push_ui: here a folder out of range is the first one.
View(st, cp, sel, cyc, seltx) ==
  LET tx    == EffectiveTx(st, seltx)
      f     == IF sel <= Len(cp) THEN sel ELSE 1
      g     == IF cp = NoCodeplug THEN tx ELSE Pointed(cp[f], cyc)
      keyed == g = tx /\ tx # NoGssi
  IN  IF cp = NoCodeplug
      THEN [gssi |-> g, badge |-> IF ~keyed THEN "none"
                                  ELSE IF st.registered THEN "on_air" ELSE "not_selected",
            select |-> FALSE]
      ELSE [gssi |-> g, badge |-> IF keyed THEN "on_air"
                                  ELSE IF Contains(st.groups, g) THEN "scanning" ELSE "not_selected",
            select |-> st.registered /\ ~keyed]

PushUi == shown' = View(state', codeplug', sel_folder', cycle_gssi', selected_tx')

NoState == [registered |-> FALSE, groups |-> <<>>]

Init ==
  /\ connected = FALSE /\ have_config = FALSE
  /\ state = NoState /\ codeplug = NoCodeplug
  /\ sel_folder = 1 /\ cycle_gssi = NoGssi /\ selected_tx = NoGssi
  /\ shown = View(state, codeplug, sel_folder, cycle_gssi, selected_tx)
  /\ alert_visible = FALSE /\ alert_gen = 0 /\ timers = {}
  /\ net = NoState /\ text \in Layouts
  /\ cmdq = <<>> /\ ansq = <<>> /\ nudges = 0 /\ moves = 0

-----------------------------------------------------------------------------
(* Alerts.                                                                  *)

NoAlert == UNCHANGED alerts

\* notify: shown at once, with a timer of its own.  Alerts past the bound are left out.
Notify ==
  IF alert_gen < MaxAlerts
  THEN /\ alert_gen' = alert_gen + 1
       /\ alert_visible' = TRUE
       /\ timers' = timers \cup {alert_gen + 1}
  ELSE NoAlert

UiAlertDismiss ==
  /\ alert_visible /\ alert_gen < MaxAlerts
  /\ alert_gen' = alert_gen + 1
  /\ alert_visible' = FALSE
  /\ UNCHANGED <<timers, link, home, remote, wires, moves>>

\* Any timer hides the alert.
AlertExpire_X(gen) ==
  /\ gen \in timers
  /\ timers' = timers \ {gen}
  /\ alert_visible' = FALSE
  /\ UNCHANGED <<alert_gen, link, home, remote, wires, moves>>

AlertExpire(gen) ==
  /\ gen \in timers
  /\ timers' = timers \ {gen}
  /\ alert_visible' = (alert_visible /\ gen # alert_gen)
  /\ UNCHANGED <<alert_gen, link, home, remote, wires, moves>>

\* require_online refuses: an alert, unless one was raised a moment ago.
Offline ==
  /\ ~connected
  /\ Notify \/ (alert_gen > 0 /\ NoAlert)
  /\ UNCHANGED <<link, home, remote, wires, moves>>

\* require_registered refuses.
Unregistered ==
  \/ Offline
  \/ /\ connected /\ ~state.registered
     /\ Notify
     /\ UNCHANGED <<link, home, remote, wires, moves>>

-----------------------------------------------------------------------------
(* The link and what comes over it.                                         *)

Ask(op) == [op |-> op, gssi |-> NoGssi]

Room(n) == Len(cmdq) + Len(ansq) + n <= MaxFlight

GetState == IF have_config THEN <<Ask("get_state")>> ELSE <<Ask("get_state"), Ask("get_config")>>

\* The interface version, asked for and never used, is left out.
ControlConnected ==
  /\ ~connected
  /\ connected' = TRUE /\ have_config' = FALSE
  /\ cmdq' = <<Ask("get_state"), Ask("get_config")>>
  /\ UNCHANGED <<state, codeplug, cycler, selected_tx, alerts, remote, ansq, nudges, moves>>
  /\ PushUi

\* What the loop knows of the radio stays.
ControlDisconnected ==
  /\ connected
  /\ connected' = FALSE
  /\ cmdq' = <<>> /\ ansq' = <<>>
  /\ UNCHANGED <<have_config, state, codeplug, cycler, selected_tx, alerts, remote, nudges, moves>>
  /\ PushUi

\* The state is left to telemetry once a configuration is known.
PollTick_X ==
  /\ connected /\ ~have_config
  /\ Room(Len(GetState))
  /\ cmdq' = cmdq \o GetState
  /\ UNCHANGED <<link, home, alerts, remote, ansq, nudges, moves>>

PollTick ==
  /\ connected
  /\ Room(Len(GetState))
  /\ cmdq' = cmdq \o GetState
  /\ UNCHANGED <<link, home, alerts, remote, ansq, nudges, moves>>

\* Telemetry about groups or registration asks for the state at once.
Nudge ==
  /\ nudges > 0
  /\ nudges' = nudges - 1
  /\ connected => Room(Len(GetState))
  /\ cmdq' = IF connected THEN cmdq \o GetState ELSE cmdq
  /\ UNCHANGED <<link, home, alerts, remote, ansq, moves>>

StateAnswer(new) ==
  /\ state' = new
  /\ Reconcile(codeplug, sel_folder, cycle_gssi, EffectiveTx(new, selected_tx))
  /\ UNCHANGED <<link, codeplug, selected_tx, alerts>>
  /\ PushUi

\* The cycler starts anew.
ConfigAnswer(cp) ==
  /\ have_config' = TRUE
  /\ codeplug' = cp
  /\ Reconcile(cp, 1, NoGssi, EffectiveTx(state, selected_tx))
  /\ UNCHANGED <<connected, state, selected_tx, alerts>>
  /\ PushUi

Rejected ==
  /\ Notify
  /\ UNCHANGED <<link, home>>

HandleAnswer ==
  /\ ansq # <<>>
  /\ ansq' = Tail(ansq)
  /\ LET a == Head(ansq)
     IN  \/ a.kind = "state" /\ StateAnswer(a.state)
         \/ a.kind = "config" /\ ConfigAnswer(a.text)
         \/ a.kind = "refused" /\ Rejected
  /\ UNCHANGED <<remote, cmdq, nudges, moves>>

-----------------------------------------------------------------------------
(* The operator.                                                            *)

Browse ==
  /\ UNCHANGED <<link, state, codeplug, selected_tx, alerts, remote, wires, moves>>
  /\ PushUi

\* cycle, from the talkgroup shown to its neighbour, around the folder.
Cycle(step) ==
  /\ codeplug # NoCodeplug
  /\ LET f      == IF sel_folder <= Len(codeplug) THEN sel_folder ELSE 1
         folder == codeplug[f]
         at     == SelectInSeq(folder, LAMBDA t : t = Pointed(folder, cycle_gssi))
     IN  /\ sel_folder' = f
         /\ cycle_gssi' = folder[1 + ((at - 1 + step) % Len(folder))]
  /\ Browse

UiCycleNext == Cycle(1)

UiCyclePrev == Cycle(-1)

UiSelectFolder(f) ==
  /\ f \in DOMAIN codeplug
  /\ sel_folder' = f /\ cycle_gssi' = codeplug[f][1]
  /\ Browse

\* Back to the talkgroup that is keyed, whatever folder it is in.
UiCancelSelect ==
  LET tx    == EffectiveTx(state, selected_tx)
      owner == OwnerOf(codeplug, tx)
  IN  /\ tx # NoGssi
      /\ sel_folder' = IF owner # 0 THEN owner ELSE sel_folder
      /\ cycle_gssi' = tx
      /\ Browse

Move == moves < MaxMoves /\ moves' = moves + 1

Order(op, g) ==
  /\ Room(2)
  /\ cmdq' = cmdq \o <<[op |-> op, gssi |-> g], Ask("get_state")>>
  /\ Move
  /\ UNCHANGED <<remote, ansq, nudges>>

\* The button on the home screen.  Nothing is redrawn until the state comes back.
UiSelectTalkgroup ==
  /\ shown.select
  /\ \/ Offline
     \/ /\ connected /\ CycleTarget # NoGssi
        /\ Order("switch", CycleTarget)
        /\ selected_tx' = CycleTarget
        /\ UNCHANGED <<link, state, codeplug, cycler, shown, alerts>>

\* A talkgroup of the picker, attached or not.
UiGroupSelect(g) ==
  \/ Unregistered
  \/ /\ connected /\ state.registered
     /\ Order("switch", g)
     /\ selected_tx' = g
     /\ sel_folder' = IF OwnerOf(codeplug, g) # 0 THEN OwnerOf(codeplug, g) ELSE sel_folder
     /\ cycle_gssi' = g
     /\ UNCHANGED <<link, state, codeplug, alerts>>
     /\ PushUi

\* UiGroupAttach, UiGroupDetach and UiScanlistToggle.
UiGroupChange(op, g) ==
  \/ Unregistered
  \/ /\ connected /\ state.registered
     /\ Order(op, g)
     /\ UNCHANGED <<link, home, alerts>>

\* The edited text is adopted as it is, without reconcile_home_view.
ApplyCodeplug_X(cp) ==
  /\ connected /\ codeplug # NoCodeplug /\ cp # codeplug
  /\ Room(2)
  /\ cmdq' = cmdq \o <<[op |-> "apply_config", text |-> cp], Ask("get_config")>>
  /\ Move
  /\ codeplug' = cp
  /\ UNCHANGED <<link, state, cycler, selected_tx, alerts, remote, ansq, nudges>>
  /\ PushUi

\* apply_codeplug, after an edit on a programming screen.
ApplyCodeplug(cp) ==
  /\ connected /\ codeplug # NoCodeplug /\ cp # codeplug
  /\ Room(2)
  /\ cmdq' = cmdq \o <<[op |-> "apply_config", text |-> cp], Ask("get_config")>>
  /\ Move
  /\ codeplug' = cp
  /\ Reconcile(cp, sel_folder, cycle_gssi, EffectiveTx(state, selected_tx))
  /\ UNCHANGED <<link, state, selected_tx, alerts, remote, ansq, nudges>>
  /\ PushUi

-----------------------------------------------------------------------------
(* The stack.                                                               *)

LoopIdle == UNCHANGED <<link, home, alerts>>

\* A group is attached once.
Without(groups, g) == RemoveFirst(groups, g)

\* Telemetry says so, if it arrives.
Becomes(new) ==
  /\ net' = new
  /\ nudges' \in {nudges} \cup (IF new = net THEN {} ELSE {nudges + 1} \cap (0..MaxNudges))

Refuse == ansq' = Append(ansq, [kind |-> "refused"]) /\ UNCHANGED <<remote, nudges>>

\* An acknowledgement that accepts changes nothing in the loop and is left out.
Obey(c) ==
  \/ Refuse
  \/ /\ c.op # "apply_config"
     /\ net.registered
     /\ Becomes([net EXCEPT !.groups =
          IF c.op = "switch" THEN <<c.gssi>>
          ELSE IF c.op = "attach" /\ ~Contains(net.groups, c.gssi) THEN Append(@, c.gssi)
          ELSE IF c.op = "detach" THEN Without(@, c.gssi) ELSE @])
     /\ UNCHANGED <<text, ansq>>
  \/ /\ c.op = "apply_config"
     /\ text' = c.text
     /\ UNCHANGED <<net, nudges, ansq>>

Execute ==
  /\ cmdq # <<>>
  /\ cmdq' = Tail(cmdq)
  /\ LET c == Head(cmdq)
     IN  \/ /\ c.op = "get_state"
            /\ ansq' = Append(ansq, [kind |-> "state", state |-> net])
            /\ UNCHANGED <<remote, nudges>>
         \/ /\ c.op = "get_config"
            /\ ansq' = Append(ansq, [kind |-> "config", text |-> text])
            /\ UNCHANGED <<remote, nudges>>
         \/ c.op \notin {"get_state", "get_config"} /\ Obey(c)
  /\ UNCHANGED moves
  /\ LoopIdle

\* Registration is gained or lost, and the groups with it, or the network detaches them.
NetworkChanges ==
  /\ Move
  /\ \/ \E groups \in {<<>>} \cup {<<g>> : g \in Gssis} :
          ~net.registered /\ Becomes([registered |-> TRUE, groups |-> groups])
     \/ net.registered /\ Becomes(NoState)
     \/ net.registered /\ Becomes([net EXCEPT !.groups = <<>>])
  /\ UNCHANGED <<text, cmdq, ansq>>
  /\ LoopIdle

-----------------------------------------------------------------------------

Loop ==
  \/ ControlConnected \/ ControlDisconnected
  \/ PollTick \/ Nudge \/ HandleAnswer
  \/ \E gen \in timers : AlertExpire(gen)

Operator ==
  \/ UiAlertDismiss
  \/ UiCycleNext \/ UiCyclePrev \/ UiCancelSelect \/ UiSelectTalkgroup
  \/ \E f \in DOMAIN codeplug : UiSelectFolder(f)
  \/ \E g \in Gssis : UiGroupSelect(g) \/ UiGroupChange("attach", g) \/ UiGroupChange("detach", g)
  \/ \E cp \in Layouts : ApplyCodeplug(cp)

Next == Loop \/ Operator \/ Execute \/ NetworkChanges

Spec == Init /\ [][Next]_vars

\* The stack serves, the loop takes its answers, and the tick comes every two seconds
\* however full the channel is when it does.
FairSpec == Spec /\ WF_vars(Execute) /\ WF_vars(HandleAnswer) /\ SF_vars(PollTick)

-----------------------------------------------------------------------------
(* Properties.                                                              *)

\* What the Select button acts on is the talkgroup drawn above it, and a talkgroup drawn
\* as on the air is the one the PTT keys: cycle_target, push_ui and effective_tx clamp and
\* fall back each in its own way, and every handler has to reconcile and redraw.
SelectActsOnShown ==
  codeplug # NoCodeplug =>
    /\ shown.gssi = CycleTarget
    /\ shown.badge = "on_air" => shown.gssi = EffectiveTx(state, selected_tx)

\* Whatever was refused, lost with a link or not told by telemetry: on a link that stays,
\* the loop ends up with the stack's groups, registration and configuration.
StateCatchesUp ==
  <>[]connected => <>[](state = net /\ codeplug = text)

\* The alert on the screen is taken away by its own timer or by the operator, never by the
\* timer of an earlier one, and none is left there without a timer.
AlertStaysItsTime ==
  [][ /\ alert_visible' => alert_gen' \in timers'
      /\ alert_visible /\ ~alert_visible' => alert_gen' # alert_gen \/ alert_gen \notin timers'
    ]_vars
=============================================================================
