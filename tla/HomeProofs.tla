----------------------------- MODULE HomeProofs -----------------------------
(***************************************************************************)
(* Theorems about Home for every set of talkgroups, every set of           *)
(* configurations and every bound.                                         *)
(***************************************************************************)
EXTENDS Home, SequenceTheorems, WellFoundedInduction, TLAPS

-----------------------------------------------------------------------------
(* Lists the model only puts in and takes from, whatever is in them.        *)

IsList(q) == \E S : q \in Seq(S)

LEMMA ListTail ==
  ASSUME NEW q, IsList(q), q # <<>>
  PROVE  /\ IsList(Tail(q)) /\ 1 \in DOMAIN q /\ Head(q) = q[1]
         /\ \A i \in DOMAIN Tail(q) : \E j \in DOMAIN q : Tail(q)[i] = q[j]
<1>1. PICK S : q \in Seq(S)
  BY DEF IsList
<1>2. /\ Tail(q) \in Seq(S) /\ Len(Tail(q)) = Len(q) - 1 /\ Len(q) \in Nat \ {0}
      /\ \A i \in 1 .. Len(Tail(q)) : Tail(q)[i] = q[i + 1]
      /\ Head(q) = q[1]
  BY <1>1, HeadTailProperties, EmptySeq
<1>3. \A i \in DOMAIN Tail(q) : i + 1 \in DOMAIN q /\ Tail(q)[i] = q[i + 1]
  BY <1>1, <1>2
<1> QED BY <1>1, <1>2, <1>3 DEF IsList

LEMMA ListConcat ==
  ASSUME NEW q, IsList(q), NEW r, IsList(r)
  PROVE  /\ IsList(q \o r)
         /\ \A i \in DOMAIN (q \o r) : \/ \E j \in DOMAIN q : (q \o r)[i] = q[j]
                                       \/ \E j \in DOMAIN r : (q \o r)[i] = r[j]
<1>1. PICK S : q \in Seq(S)
  BY DEF IsList
<1>2. PICK T : r \in Seq(T)
  BY DEF IsList
<1>3. q \in Seq(S \cup T) /\ r \in Seq(S \cup T)
  BY <1>1, <1>2
<1>4. /\ q \o r \in Seq(S \cup T) /\ Len(q \o r) = Len(q) + Len(r)
      /\ \A i \in 1 .. Len(q) + Len(r) :
           (q \o r)[i] = IF i <= Len(q) THEN q[i] ELSE r[i - Len(q)]
  BY <1>3, ConcatProperties
<1>5. ASSUME NEW i \in DOMAIN (q \o r)
      PROVE  \/ \E j \in DOMAIN q : (q \o r)[i] = q[j]
             \/ \E j \in DOMAIN r : (q \o r)[i] = r[j]
  <2>1. CASE i <= Len(q)
    <3>1. i \in DOMAIN q /\ (q \o r)[i] = q[i]
      BY <1>3, <1>4, <2>1
    <3> QED BY <3>1
  <2>2. CASE ~(i <= Len(q))
    <3>1. i - Len(q) \in DOMAIN r /\ (q \o r)[i] = r[i - Len(q)]
      BY <1>3, <1>4, <2>2
    <3> QED BY <3>1
  <2> QED BY <2>1, <2>2
<1> QED BY <1>4, <1>5 DEF IsList

-----------------------------------------------------------------------------
(* The operators of the cycler.                                             *)

LEMMA LeastOf ==
  ASSUME NEW I, I \subseteq Nat, I # {}
  PROVE  Min(I) \in I
<1>1. \E x \in I : \A y \in I : ~(<<y, x>> \in OpToRel(<, Nat))
  BY NatLessThanWellFounded, WFMin
<1>2. \A x, y \in Nat : <<y, x>> \in OpToRel(<, Nat) <=> y < x
  BY DEF OpToRel
<1>3. \E x \in I : \A y \in I : x =< y
  <2>1. PICK x \in I : \A y \in I : ~(<<y, x>> \in OpToRel(<, Nat))
    BY <1>1
  <2>2. ASSUME NEW y \in I PROVE x =< y
    <3>1. ~(y < x) /\ x \in Nat /\ y \in Nat
      BY <1>2, <2>1
    <3> QED BY <3>1
  <2> QED BY <2>2
<1> QED BY <1>3 DEF Min

\* The folder of a talkgroup is one of the codeplug, or none.
LEMMA OwnerInRange ==
  ASSUME NEW cp, Len(cp) \in Nat, NEW g
  PROVE  OwnerOf(cp, g) \in 0 .. Len(cp)
<1> DEFINE I == {i \in 1 .. Len(cp) : Contains(cp[i], g)}
<1>1. OwnerOf(cp, g) = IF I # {} THEN Min(I) ELSE 0
  BY DEF OwnerOf, SelectInSeq
<1>2. I # {} => Min(I) \in I
  <2>1. I \subseteq Nat
    OBVIOUS
  <2> HIDE DEF I
  <2> QED BY <2>1, LeastOf
<1> QED BY <1>1, <1>2

\* The drawing and the buttons agree on the talkgroup while the folder is in range.
LEMMA ViewRight ==
  ASSUME NEW st, NEW cp, cp # NoCodeplug, NEW sel \in 1 .. Len(cp), NEW cyc, NEW tx,
         Len(cp) \in Nat
  PROVE  LET v == View(st, cp, sel, cyc, tx)
         IN  /\ v.gssi = Pointed(cp[sel], cyc)
             /\ v.badge = "on_air" => v.gssi = EffectiveTx(st, tx)
             /\ v.select => v.badge # "on_air"
<1> DEFINE t == EffectiveTx(st, tx)
           g == Pointed(cp[sel], cyc)
           keyed == g = t /\ t # NoGssi
           badge == IF keyed THEN "on_air"
                    ELSE IF Contains(st.groups, g) THEN "scanning" ELSE "not_selected"
           selectable == st.registered /\ ~keyed
           v == View(st, cp, sel, cyc, tx)
<1>1. v = [gssi |-> g, badge |-> badge, select |-> selectable]
  BY DEF View
<1>2. badge = "on_air" <=> keyed
  OBVIOUS
<1>3. /\ badge = "on_air" => g = t
      /\ selectable => badge # "on_air"
  BY <1>2
<1> HIDE DEF g, t, badge, selectable, v
<1>4. v.gssi = g /\ v.badge = badge /\ v.select = selectable
  BY <1>1
<1>5. v.gssi = g /\ (v.badge = "on_air" => v.gssi = t) /\ (v.select => v.badge # "on_air")
  BY <1>3, <1>4
<1> QED BY <1>5 DEF v, g, t

LEMMA LayoutLen == \A cp \in Layouts : Len(cp) \in Nat \ {0} /\ cp # NoCodeplug
<1> SUFFICES ASSUME NEW cp \in Layouts PROVE Len(cp) \in Nat \ {0} /\ cp # NoCodeplug
  OBVIOUS
<1>1. cp \in Seq(Seq(Gssis)) /\ cp # <<>>
  BY HomeAssumption DEF NoCodeplug
<1> QED BY <1>1, EmptySeq DEF NoCodeplug

-----------------------------------------------------------------------------
(* The inductive invariant.                                                 *)

CommandsOK(q) == IsList(q) /\ \A i \in DOMAIN q : q[i].op = "apply_config" => q[i].text \in Layouts
AnswersOK(q)  == IsList(q) /\ \A i \in DOMAIN q : q[i].kind = "config" => q[i].text \in Layouts

\* Every configuration on its way is one of the stack's.
Texts == codeplug \in Layouts \cup {NoCodeplug} /\ text \in Layouts
         /\ CommandsOK(cmdq) /\ AnswersOK(ansq)

\* Push_ui takes a folder out of range for the first and cycle_target for the last, so that
\* they agree only while none is.
FolderInRange == sel_folder \in Nat \ {0} /\ (codeplug # NoCodeplug => sel_folder <= Len(codeplug))

\* Selecting is only offered for a talkgroup that is not keyed: it may change the keyed one
\* without a drawing.
Drawn ==
  codeplug # NoCodeplug =>
    /\ shown.gssi = Pointed(codeplug[sel_folder], cycle_gssi)
    /\ shown.badge = "on_air" => shown.gssi = EffectiveTx(state, selected_tx)
    /\ shown.select => shown.badge # "on_air"

\* The alert on the screen has a timer, and no timer is of an alert to come.
AlertTimed ==
  /\ alert_visible \in BOOLEAN /\ alert_gen \in Nat /\ timers \subseteq 1..alert_gen
  /\ alert_visible => alert_gen \in timers

HInv == Texts /\ FolderInRange /\ Drawn /\ AlertTimed

LEMMA Pair ==
  ASSUME NEW a, NEW b
  PROVE  /\ IsList(<<a, b>>) /\ \A i \in DOMAIN <<a, b>> : <<a, b>>[i] = a \/ <<a, b>>[i] = b
         /\ IsList(<<a>>) /\ \A i \in DOMAIN <<a>> : <<a>>[i] = a
<1>1. <<a, b>> \in Seq({a, b}) /\ <<a>> \in Seq({a})
  OBVIOUS
<1>2. \A i \in DOMAIN <<a, b>> : i = 1 \/ i = 2
  OBVIOUS
<1>3. \A i \in DOMAIN <<a>> : i = 1
  OBVIOUS
<1>4. IsList(<<a, b>>) /\ IsList(<<a>>)
  BY <1>1 DEF IsList
<1>5. \A i \in DOMAIN <<a, b>> : <<a, b>>[i] = a \/ <<a, b>>[i] = b
  BY <1>2
<1>6. \A i \in DOMAIN <<a>> : <<a>>[i] = a
  BY <1>3
<1> QED BY <1>4, <1>5, <1>6

\* No list the loop sends for a reason of its own carries a configuration.
LEMMA Asked ==
  /\ CommandsOK(<<Ask("get_state"), Ask("get_config")>>) /\ CommandsOK(GetState)
  /\ CommandsOK(<<>>) /\ AnswersOK(<<>>)
<1>1. Ask("get_state").op # "apply_config" /\ Ask("get_config").op # "apply_config"
  BY DEF Ask
<1>2. CommandsOK(<<Ask("get_state"), Ask("get_config")>>) /\ CommandsOK(<<Ask("get_state")>>)
  BY <1>1, Pair DEF CommandsOK
<1>3. IsList(<<>>) /\ DOMAIN <<>> = {}
  BY EmptySeq DEF IsList
<1> QED BY <1>2, <1>3 DEF GetState, CommandsOK, AnswersOK

LEMMA HInvInit == Init => HInv
<1> SUFFICES ASSUME Init PROVE HInv
  OBVIOUS
<1>1. Texts
  BY Asked DEF Init, Texts
<1>2. FolderInRange /\ Drawn /\ AlertTimed
  <2>1. codeplug = NoCodeplug /\ sel_folder = 1 /\ alert_visible = FALSE /\ alert_gen = 0 /\ timers = {}
    BY DEF Init
  <2>2. FolderInRange /\ Drawn
    BY <2>1 DEF FolderInRange, Drawn
  <2>3. AlertTimed
    BY <2>1 DEF AlertTimed
  <2> QED BY <2>2, <2>3
<1> QED BY <1>1, <1>2 DEF HInv

-----------------------------------------------------------------------------
(* What the handlers are made of.                                           *)

\* A drawing is right whatever was changed before it.
LEMMA DrawnAnew ==
  ASSUME codeplug' \in Layouts \cup {NoCodeplug}, FolderInRange', PushUi
  PROVE  Drawn'
<1> SUFFICES ASSUME codeplug' # NoCodeplug
             PROVE  /\ shown'.gssi = Pointed(codeplug'[sel_folder'], cycle_gssi')
                    /\ shown'.badge = "on_air" => shown'.gssi = EffectiveTx(state', selected_tx')
                    /\ shown'.select => shown'.badge # "on_air"
  BY DEF Drawn
<1>1. Len(codeplug') \in Nat /\ sel_folder' \in 1 .. Len(codeplug')
  BY LayoutLen DEF FolderInRange
<1> QED BY <1>1, ViewRight DEF PushUi

\* Reconcile_home_view leaves the folder in range, wherever it was.
LEMMA ReconcileInRange ==
  ASSUME NEW cp \in Layouts \cup {NoCodeplug}, NEW sel \in Nat \ {0}, NEW cyc, NEW tx,
         Reconcile(cp, sel, cyc, tx)
  PROVE  sel_folder' \in Nat \ {0} /\ (cp # NoCodeplug => sel_folder' <= Len(cp))
<1>1. CASE cp = NoCodeplug
  BY <1>1 DEF Reconcile
<1>2. CASE cp # NoCodeplug
  <2>1. Len(cp) \in Nat \ {0}
    BY <1>2, LayoutLen
  <2>2. OwnerOf(cp, tx) \in 0 .. Len(cp)
    BY <2>1, OwnerInRange
  <2>3. sel_folder' = (IF sel <= Len(cp) THEN sel ELSE 1)
        \/ (OwnerOf(cp, tx) # 0 /\ sel_folder' = OwnerOf(cp, tx))
    BY <1>2 DEF Reconcile
  <2> QED BY <2>1, <2>2, <2>3
<1> QED BY <1>1, <1>2

LEMMA SentOK ==
  ASSUME NEW q, CommandsOK(q), NEW r, CommandsOK(r)
  PROVE  CommandsOK(q \o r)
BY ListConcat DEF CommandsOK

LEMMA NotifyStep ==
  ASSUME AlertTimed, Notify
  PROVE  AlertTimed' /\ (alert_visible => alert_visible')
<1>1. CASE alert_gen < MaxAlerts
  <2>1. alert_gen' = alert_gen + 1 /\ alert_visible' = TRUE /\ timers' = timers \cup {alert_gen + 1}
    BY <1>1 DEF Notify
  <2>2. alert_gen' \in Nat /\ timers' \subseteq 1..alert_gen' /\ alert_gen' \in timers'
    BY <2>1 DEF AlertTimed
  <2> QED BY <2>1, <2>2 DEF AlertTimed
<1>2. CASE ~(alert_gen < MaxAlerts)
  <2>1. alert_gen' = alert_gen /\ alert_visible' = alert_visible /\ timers' = timers
    BY <1>2 DEF Notify, NoAlert, alerts
  <2> QED BY <2>1 DEF AlertTimed
<1> QED BY <1>1, <1>2

\* What an alert may not do in a step.
AlertStays == alert_visible /\ ~alert_visible' => alert_gen' # alert_gen \/ alert_gen \notin timers'

LEMMA AlertStep ==
  ASSUME HInv, [Next]_vars
  PROVE  AlertTimed' /\ AlertStays
<1>1. AlertTimed
  BY DEF HInv
<1>2. CASE UNCHANGED alerts
  BY <1>1, <1>2 DEF alerts, AlertTimed, AlertStays
<1>3. CASE Notify
  BY <1>1, <1>3, NotifyStep DEF AlertStays
<1>4. CASE UiAlertDismiss
  <2>1. alert_gen' = alert_gen + 1 /\ alert_visible' = FALSE /\ timers' = timers
    BY <1>4 DEF UiAlertDismiss
  <2>2. alert_gen' \in Nat /\ timers' \subseteq 1..alert_gen' /\ alert_gen' # alert_gen
    BY <1>1, <2>1 DEF AlertTimed
  <2> QED BY <2>1, <2>2 DEF AlertTimed, AlertStays
<1>5. ASSUME NEW gen \in timers, AlertExpire(gen)
      PROVE  AlertTimed' /\ AlertStays
  BY <1>1, <1>5 DEF AlertExpire, AlertTimed, AlertStays
<1>6. CASE Loop
  <2>1. CASE HandleAnswer
    BY <1>2, <1>3, <2>1 DEF HandleAnswer, StateAnswer, ConfigAnswer, Rejected
  <2> QED BY <1>2, <1>5, <1>6, <2>1 DEF Loop, ControlConnected, ControlDisconnected, PollTick, Nudge
<1>7. CASE Operator
  <2>1. CASE Offline
    BY <1>2, <1>3, <2>1 DEF Offline, NoAlert
  <2>2. CASE Unregistered
    BY <1>3, <2>1, <2>2 DEF Unregistered
  <2>3. CASE UiSelectTalkgroup
    BY <1>2, <2>1, <2>3 DEF UiSelectTalkgroup
  <2>4. ASSUME NEW g \in Gssis,
               UiGroupSelect(g) \/ UiGroupChange("attach", g) \/ UiGroupChange("detach", g)
        PROVE  AlertTimed' /\ AlertStays
    BY <1>2, <2>2, <2>4 DEF UiGroupSelect, UiGroupChange
  <2> QED BY <1>2, <1>4, <1>7, <2>3, <2>4 DEF Operator, UiCycleNext, UiCyclePrev, Cycle, Browse,
          UiCancelSelect, UiSelectFolder, ApplyCodeplug
<1>8. CASE Execute \/ NetworkChanges \/ UNCHANGED vars
  BY <1>2, <1>8 DEF Execute, NetworkChanges, LoopIdle, vars
<1> QED BY <1>6, <1>7, <1>8 DEF Next

-----------------------------------------------------------------------------
(* The configurations under way.                                            *)

LEMMA TextsStep ==
  ASSUME HInv, [Next]_vars
  PROVE  Texts'
<1>1. /\ codeplug \in Layouts \cup {NoCodeplug} /\ text \in Layouts
      /\ CommandsOK(cmdq) /\ AnswersOK(ansq)
  BY DEF HInv, Texts
<1>2. ASSUME codeplug' \in Layouts \cup {NoCodeplug}, text' = text, CommandsOK(cmdq'), ansq' = ansq
      PROVE  Texts'
  BY <1>1, <1>2 DEF Texts
<1>3. CASE UNCHANGED <<codeplug, text, cmdq, ansq>>
  BY <1>1, <1>3 DEF Texts
<1>4. CASE ControlConnected
  BY <1>1, <1>2, <1>4, Asked DEF ControlConnected, remote
<1>5. CASE ControlDisconnected
  BY <1>1, <1>5, Asked DEF ControlDisconnected, Texts, remote
<1>6. CASE PollTick \/ Nudge
  <2>1. CommandsOK(cmdq \o GetState)
    BY <1>1, Asked, SentOK
  <2> QED BY <1>1, <1>2, <1>6, <2>1 DEF PollTick, Nudge, home, remote
<1>7. CASE HandleAnswer
  <2>1. /\ ansq # <<>> /\ ansq' = Tail(ansq) /\ text' = text /\ cmdq' = cmdq
        /\ \/ codeplug' = codeplug
           \/ Head(ansq).kind = "config" /\ codeplug' = Head(ansq).text
    BY <1>7 DEF HandleAnswer, StateAnswer, ConfigAnswer, Rejected, home, remote
  <2>2. /\ IsList(Tail(ansq)) /\ 1 \in DOMAIN ansq /\ Head(ansq) = ansq[1]
        /\ \A i \in DOMAIN Tail(ansq) : \E j \in DOMAIN ansq : Tail(ansq)[i] = ansq[j]
    BY <1>1, <2>1, ListTail DEF AnswersOK
  <2>3. AnswersOK(ansq')
    BY <1>1, <2>1, <2>2 DEF AnswersOK
  <2>4. codeplug' \in Layouts \cup {NoCodeplug}
    BY <1>1, <2>1, <2>2 DEF AnswersOK
  <2> QED BY <1>1, <2>1, <2>3, <2>4 DEF Texts
<1>8. ASSUME NEW gen \in timers, AlertExpire(gen)
      PROVE  Texts'
  BY <1>3, <1>8 DEF AlertExpire, home, remote, wires
<1>9. ASSUME NEW op \in {"switch", "attach", "detach"}, NEW g, Order(op, g), codeplug' = codeplug
      PROVE  Texts'
  <2> DEFINE c == [op |-> op, gssi |-> g]
  <2>1. cmdq' = cmdq \o <<c, Ask("get_state")>> /\ text' = text /\ ansq' = ansq
    BY <1>9 DEF Order, remote
  <2>2. c.op # "apply_config" /\ Ask("get_state").op # "apply_config"
    BY DEF Ask
  <2> HIDE DEF c
  <2>3. CommandsOK(<<c, Ask("get_state")>>)
    BY <2>2, Pair DEF CommandsOK
  <2> QED BY <1>1, <1>2, <1>9, <2>1, <2>3, SentOK
<1>10. CASE Unregistered
  BY <1>3, <1>10 DEF Unregistered, Offline, home, remote, wires
<1>11. CASE UiSelectTalkgroup
  <2>1. CASE Offline
    BY <1>10, <2>1 DEF Unregistered
  <2>2. CASE Order("switch", CycleTarget) /\ codeplug' = codeplug
    BY <1>9, <2>2
  <2> QED BY <1>11, <2>1, <2>2 DEF UiSelectTalkgroup
<1>12. ASSUME NEW g \in Gssis, UiGroupSelect(g)
       PROVE  Texts'
  <2>1. CASE Order("switch", g) /\ codeplug' = codeplug
    BY <1>9, <2>1
  <2> QED BY <1>10, <1>12, <2>1 DEF UiGroupSelect
<1>13. ASSUME NEW g \in Gssis, NEW op \in {"attach", "detach"}, UiGroupChange(op, g)
       PROVE  Texts'
  <2>1. CASE Order(op, g) /\ codeplug' = codeplug
    BY <1>9, <2>1
  <2> QED BY <1>10, <1>13, <2>1 DEF UiGroupChange, home
<1>14. ASSUME NEW cp \in Layouts, ApplyCodeplug(cp)
       PROVE  Texts'
  <2> DEFINE c == [op |-> "apply_config", text |-> cp]
  <2>1. /\ cmdq' = cmdq \o <<c, Ask("get_config")>> /\ text' = text /\ ansq' = ansq
        /\ codeplug' = cp
    BY <1>14 DEF ApplyCodeplug, remote
  <2>2. c.text \in Layouts /\ Ask("get_config").op # "apply_config"
    BY DEF Ask
  <2> HIDE DEF c
  <2>3. CommandsOK(<<c, Ask("get_config")>>)
    BY <2>2, Pair DEF CommandsOK
  <2> QED BY <1>1, <1>2, <2>1, <2>3, SentOK
<1>15. CASE Execute
  <2> DEFINE c == Head(cmdq)
  <2>1. cmdq # <<>> /\ cmdq' = Tail(cmdq) /\ codeplug' = codeplug
    BY <1>15 DEF Execute, LoopIdle, home
  <2>2. /\ IsList(Tail(cmdq)) /\ 1 \in DOMAIN cmdq /\ c = cmdq[1]
        /\ \A i \in DOMAIN Tail(cmdq) : \E j \in DOMAIN cmdq : Tail(cmdq)[i] = cmdq[j]
    BY <1>1, <2>1, ListTail DEF CommandsOK
  <2>3. CommandsOK(cmdq')
    BY <1>1, <2>1, <2>2 DEF CommandsOK
  <2>4. c.op = "apply_config" => c.text \in Layouts
    BY <1>1, <2>2 DEF CommandsOK
  <2>5. ASSUME NEW a, a.kind = "config" => a.text \in Layouts, ansq' = Append(ansq, a), text' = text
        PROVE  Texts'
    <3>1. PICK S : ansq \in Seq(S)
      BY <1>1 DEF AnswersOK, IsList
    <3>2. ansq \in Seq(S \cup {a}) /\ a \in S \cup {a}
      BY <3>1
    <3>3. /\ ansq' \in Seq(S \cup {a}) /\ Len(ansq') = Len(ansq) + 1
          /\ \A i \in 1 .. Len(ansq) : ansq'[i] = ansq[i]
          /\ ansq'[Len(ansq) + 1] = a
      BY <2>5, <3>2, AppendProperties
    <3>4. ASSUME NEW i \in DOMAIN ansq' PROVE ansq'[i] = a \/ \E j \in DOMAIN ansq : ansq'[i] = ansq[j]
      <4>1. i \in 1 .. Len(ansq) \/ i = Len(ansq) + 1
        BY <3>2, <3>3
      <4> QED BY <3>2, <3>3, <4>1
    <3>5. AnswersOK(ansq')
      BY <1>1, <2>5, <3>3, <3>4 DEF AnswersOK, IsList
    <3> QED BY <1>1, <2>1, <2>3, <2>5, <3>5 DEF Texts
  <2>6. ASSUME text' = text \/ (c.op = "apply_config" /\ text' = c.text), ansq' = ansq
        PROVE  Texts'
    BY <1>1, <2>1, <2>3, <2>4, <2>6 DEF Texts
  <2>7. CASE ansq' = Append(ansq, [kind |-> "state", state |-> net]) /\ UNCHANGED remote
    <3> DEFINE a == [kind |-> "state", state |-> net]
    <3>1. a.kind # "config" /\ ansq' = Append(ansq, a) /\ text' = text
      BY <2>7 DEF remote
    <3> HIDE DEF a
    <3> QED BY <2>5, <3>1
  <2>8. CASE ansq' = Append(ansq, [kind |-> "config", text |-> text]) /\ UNCHANGED remote
    <3> DEFINE a == [kind |-> "config", text |-> text]
    <3>1. a.text \in Layouts /\ ansq' = Append(ansq, a) /\ text' = text
      BY <1>1, <2>8 DEF remote
    <3> HIDE DEF a
    <3> QED BY <2>5, <3>1
  <2>9. CASE ansq' = Append(ansq, [kind |-> "refused"]) /\ UNCHANGED remote
    <3> DEFINE a == [kind |-> "refused"]
    <3>1. a.kind # "config" /\ ansq' = Append(ansq, a) /\ text' = text
      BY <2>9 DEF remote
    <3> HIDE DEF a
    <3> QED BY <2>5, <3>1
  <2>10. CASE Obey(c)
    BY <2>6, <2>9, <2>10 DEF Obey, Refuse
  <2> QED BY <1>15, <2>7, <2>8, <2>10 DEF Execute
<1>16. CASE NetworkChanges \/ UNCHANGED vars
  BY <1>3, <1>16 DEF NetworkChanges, LoopIdle, vars, home, remote, wires
<1>17. CASE UiAlertDismiss \/ UiCycleNext \/ UiCyclePrev \/ UiCancelSelect
            \/ \E f \in DOMAIN codeplug : UiSelectFolder(f)
  BY <1>3, <1>17 DEF UiAlertDismiss, UiCycleNext, UiCyclePrev, Cycle, Browse, UiCancelSelect,
     UiSelectFolder, home, remote, wires
<1> QED BY <1>4, <1>5, <1>6, <1>7, <1>8, <1>11, <1>12, <1>13, <1>14, <1>15, <1>16, <1>17
        DEF Next, Loop, Operator

-----------------------------------------------------------------------------
(* The drawing.                                                             *)

LEMMA DrawnStep ==
  ASSUME HInv, [Next]_vars
  PROVE  FolderInRange' /\ Drawn'
<1>1. /\ codeplug \in Layouts \cup {NoCodeplug} /\ FolderInRange /\ Drawn
      /\ codeplug' \in Layouts \cup {NoCodeplug}
  BY TextsStep DEF HInv, Texts
<1>2. sel_folder \in Nat \ {0} /\ (codeplug # NoCodeplug => sel_folder <= Len(codeplug))
  BY <1>1 DEF FolderInRange
<1>3. ASSUME sel_folder' \in Nat \ {0}, codeplug' # NoCodeplug => sel_folder' <= Len(codeplug'), PushUi
      PROVE  FolderInRange' /\ Drawn'
  BY <1>1, <1>3, DrawnAnew DEF FolderInRange
<1>4. CASE UNCHANGED home
  BY <1>1, <1>4 DEF home, cycler, FolderInRange, Drawn
<1>5. CASE ControlConnected \/ ControlDisconnected
  BY <1>2, <1>3, <1>5 DEF ControlConnected, ControlDisconnected, cycler
<1>6. CASE HandleAnswer
  <2>1. ASSUME NEW new, StateAnswer(new) PROVE FolderInRange' /\ Drawn'
    <3>1. codeplug' = codeplug /\ PushUi
          /\ Reconcile(codeplug, sel_folder, cycle_gssi, EffectiveTx(new, selected_tx))
      BY <2>1 DEF StateAnswer
    <3>2. sel_folder' \in Nat \ {0} /\ (codeplug # NoCodeplug => sel_folder' <= Len(codeplug))
      BY <1>1, <1>2, <3>1, ReconcileInRange
    <3> QED BY <1>3, <3>1, <3>2
  <2>2. ASSUME NEW cp, ConfigAnswer(cp) PROVE FolderInRange' /\ Drawn'
    <3>1. codeplug' = cp /\ PushUi /\ Reconcile(cp, 1, NoGssi, EffectiveTx(state, selected_tx))
      BY <2>2 DEF ConfigAnswer
    <3>2. sel_folder' \in Nat \ {0} /\ (cp # NoCodeplug => sel_folder' <= Len(cp))
      BY <1>1, <3>1, ReconcileInRange
    <3> QED BY <1>3, <3>1, <3>2
  <2> QED BY <1>4, <1>6, <2>1, <2>2 DEF HandleAnswer, Rejected
<1>7. CASE UiCycleNext \/ UiCyclePrev
  <2>1. /\ codeplug # NoCodeplug /\ codeplug' = codeplug /\ PushUi
        /\ sel_folder' = IF sel_folder <= Len(codeplug) THEN sel_folder ELSE 1
    BY <1>7 DEF UiCycleNext, UiCyclePrev, Cycle, Browse
  <2> QED BY <1>2, <1>3, <2>1
<1>8. ASSUME NEW f \in DOMAIN codeplug, UiSelectFolder(f)
      PROVE  FolderInRange' /\ Drawn'
  <2>1. codeplug' = codeplug /\ PushUi /\ sel_folder' = f
    BY <1>8 DEF UiSelectFolder, Browse
  <2>2. codeplug \in Seq(Seq(Gssis))
    <3>1. NoCodeplug \in Seq(Seq(Gssis))
      BY EmptySeq DEF NoCodeplug
    <3> QED BY <1>1, <3>1, HomeAssumption
  <2>3. f \in 1 .. Len(codeplug)
    BY <2>2
  <2> QED BY <1>3, <2>1, <2>2, <2>3
<1>9. ASSUME NEW g, sel_folder' = (IF OwnerOf(codeplug, g) # 0 THEN OwnerOf(codeplug, g) ELSE sel_folder),
             codeplug' = codeplug, PushUi
      PROVE  FolderInRange' /\ Drawn'
  <2>1. Len(codeplug) \in Nat
    BY <1>1, LayoutLen, EmptySeq DEF NoCodeplug
  <2>2. OwnerOf(codeplug, g) \in 0 .. Len(codeplug)
    BY <2>1, OwnerInRange
  <2>3. sel_folder' \in Nat \ {0} /\ (codeplug # NoCodeplug => sel_folder' <= Len(codeplug))
    BY <1>2, <1>9, <2>1, <2>2
  <2> QED BY <1>3, <1>9, <2>3
<1>10. CASE UiCancelSelect
  BY <1>9, <1>10 DEF UiCancelSelect, Browse
<1>11. CASE Unregistered
  BY <1>4, <1>11 DEF Unregistered, Offline
<1>12. ASSUME NEW g \in Gssis, UiGroupSelect(g)
       PROVE  FolderInRange' /\ Drawn'
  BY <1>9, <1>11, <1>12 DEF UiGroupSelect
<1>13. CASE UiSelectTalkgroup
  <2>1. CASE Offline
    BY <1>11, <2>1 DEF Unregistered
  <2>2. CASE ~Offline
    <3>1. shown.select /\ UNCHANGED <<state, codeplug, sel_folder, cycle_gssi, shown>>
      BY <1>13, <2>2 DEF UiSelectTalkgroup, cycler
    <3>2. codeplug # NoCodeplug => shown.badge # "on_air"
      BY <1>1, <3>1 DEF Drawn
    <3> QED BY <1>1, <3>1, <3>2 DEF Drawn, FolderInRange
  <2> QED BY <2>1, <2>2
<1>14. ASSUME NEW cp \in Layouts, ApplyCodeplug(cp)
       PROVE  FolderInRange' /\ Drawn'
  <2>1. /\ codeplug' = cp /\ PushUi
        /\ Reconcile(cp, sel_folder, cycle_gssi, EffectiveTx(state, selected_tx))
    BY <1>14 DEF ApplyCodeplug
  <2>2. sel_folder' \in Nat \ {0} /\ (cp # NoCodeplug => sel_folder' <= Len(cp))
    BY <1>2, <2>1, ReconcileInRange
  <2> QED BY <1>3, <2>1, <2>2
<1>15. CASE PollTick \/ Nudge \/ UiAlertDismiss \/ Execute \/ NetworkChanges \/ UNCHANGED vars
            \/ \E gen \in timers : AlertExpire(gen)
  BY <1>4, <1>15 DEF PollTick, Nudge, UiAlertDismiss, Execute, NetworkChanges, LoopIdle, AlertExpire,
     vars
<1>16. ASSUME NEW g \in Gssis, UiGroupChange("attach", g) \/ UiGroupChange("detach", g)
       PROVE  FolderInRange' /\ Drawn'
  BY <1>4, <1>11, <1>16 DEF UiGroupChange
<1> QED BY <1>5, <1>6, <1>7, <1>8, <1>10, <1>12, <1>13, <1>14, <1>15, <1>16 DEF Next, Loop, Operator

LEMMA HInvHolds == Spec => []HInv
<1>1. HInv /\ [Next]_vars => HInv'
  BY TextsStep, DrawnStep, AlertStep DEF HInv
<1> QED BY <1>1, HInvInit, PTL DEF Spec

-----------------------------------------------------------------------------
(* Types.                                                                   *)

Talkgroup  == Gssis \cup {NoGssi}
SoundState == {st \in RadioState : IsInjective(st.groups)}

\* What asks for a group names one, and an answer with the state has each group once.
SoundCommand == [op: {"get_state", "get_config"}, gssi: {NoGssi}]
                \cup [op: {"switch", "attach", "detach"}, gssi: Gssis]
                \cup [op: {"apply_config"}, text: Layouts]
SoundAnswer  == [kind: {"state"}, state: SoundState] \cup [kind: {"config"}, text: Layouts]
                \cup [kind: {"refused"}]

LoopTypes ==
  /\ connected \in BOOLEAN /\ have_config \in BOOLEAN
  /\ state \in SoundState
  /\ cycle_gssi \in Talkgroup /\ selected_tx \in Talkgroup
  /\ shown \in Picture
  /\ alert_gen <= MaxAlerts

StackTypes ==
  /\ net \in SoundState
  /\ cmdq \in Seq(SoundCommand) /\ ansq \in Seq(SoundAnswer)
  /\ nudges \in 0..MaxNudges /\ moves \in 0..MaxMoves

\* A folder has a talkgroup, and what the cycler points at in it is one.
LEMMA FolderType ==
  ASSUME NEW cp \in Layouts, NEW f \in 1 .. Len(cp)
  PROVE  /\ cp[f] \in Seq(Gssis) /\ Len(cp[f]) \in Nat \ {0}
         /\ \A i \in 1 .. Len(cp[f]) : cp[f][i] \in Gssis
         /\ cp[f][1] \in Gssis
         /\ \A g : Pointed(cp[f], g) \in Gssis
<1>1. cp \in Seq(Seq(Gssis)) /\ cp[f] \in Seq(Gssis) /\ cp[f] # <<>>
  BY HomeAssumption
<1> DEFINE folder == cp[f]
<1> HIDE DEF folder
<1>2. folder \in Seq(Gssis) /\ Len(folder) \in Nat \ {0}
  BY <1>1, EmptySeq DEF folder
<1>3. \A i \in 1 .. Len(folder) : folder[i] \in Gssis
  BY <1>2
<1>4. \A g : Pointed(folder, g) \in Gssis
  BY <1>2, <1>3 DEF Pointed, Contains
<1> QED BY <1>2, <1>3, <1>4 DEF folder

LEMMA StateType ==
  ASSUME NEW st \in SoundState
  PROVE  /\ st \in RadioState /\ st.registered \in BOOLEAN
         /\ st.groups \in Seq(Gssis) /\ IsInjective(st.groups)
         /\ \A tx \in Talkgroup : EffectiveTx(st, tx) \in Talkgroup
<1>1. /\ st \in RadioState /\ st.registered \in BOOLEAN
      /\ st.groups \in Seq(Gssis) /\ IsInjective(st.groups)
  BY DEF SoundState, RadioState
<1> DEFINE groups == st.groups
<1>2. groups # <<>> => Head(groups) \in Gssis
  BY <1>1, HeadTailProperties
<1> QED BY <1>1, <1>2 DEF EffectiveTx, Talkgroup

LEMMA ViewType ==
  ASSUME NEW st \in SoundState, NEW cp \in Layouts \cup {NoCodeplug}, NEW sel \in Nat \ {0},
         NEW cyc \in Talkgroup, NEW seltx \in Talkgroup
  PROVE  View(st, cp, sel, cyc, seltx) \in Picture
<1> DEFINE tx    == EffectiveTx(st, seltx)
           f     == IF sel <= Len(cp) THEN sel ELSE 1
           g     == IF cp = NoCodeplug THEN tx ELSE Pointed(cp[f], cyc)
           keyed == g = tx /\ tx # NoGssi
           plain == IF ~keyed THEN "none" ELSE IF st.registered THEN "on_air" ELSE "not_selected"
           badge == IF keyed THEN "on_air"
                    ELSE IF Contains(st.groups, g) THEN "scanning" ELSE "not_selected"
           offer == st.registered /\ ~keyed
<1>1. tx \in Talkgroup
  BY StateType
<1>2. g \in Talkgroup
  <2>1. CASE cp # NoCodeplug
    <3>1. f \in 1 .. Len(cp)
      BY <2>1, LayoutLen
    <3> QED BY <2>1, <3>1, FolderType DEF Talkgroup
  <2> QED BY <1>1, <2>1
<1>3. /\ plain \in {"on_air", "scanning", "not_selected", "none"}
      /\ badge \in {"on_air", "scanning", "not_selected", "none"}
  OBVIOUS
<1>4. offer \in BOOLEAN
  OBVIOUS
<1>5. View(st, cp, sel, cyc, seltx) = IF cp = NoCodeplug
                                      THEN [gssi |-> g, badge |-> plain, select |-> FALSE]
                                      ELSE [gssi |-> g, badge |-> badge, select |-> offer]
  BY DEF View
<1> HIDE DEF g, plain, badge, offer
<1> QED BY <1>2, <1>3, <1>4, <1>5 DEF Picture, Talkgroup

LEMMA ReconcileType ==
  ASSUME NEW cp \in Layouts \cup {NoCodeplug}, NEW sel \in Nat \ {0}, NEW cyc \in Talkgroup,
         NEW tx \in Talkgroup, Reconcile(cp, sel, cyc, tx)
  PROVE  cycle_gssi' \in Talkgroup
<1>1. CASE cp # NoCodeplug
  <2> DEFINE f == IF sel <= Len(cp) THEN sel ELSE 1
  <2>1. f \in 1 .. Len(cp)
    BY <1>1, LayoutLen
  <2>2. cp[f][1] \in Talkgroup
    BY <1>1, <2>1, FolderType DEF Talkgroup
  <2> QED BY <1>1, <2>2 DEF Reconcile
<1> QED BY <1>1 DEF Reconcile

\* The neighbour of a talkgroup around its folder, at the position of the talkgroup or none.
LEMMA NeighbourType ==
  ASSUME NEW folder \in Seq(Gssis), Len(folder) \in Nat \ {0}, NEW at \in Int, NEW step \in Int
  PROVE  folder[1 + ((at - 1 + step) % Len(folder))] \in Gssis
<1> DEFINE n == Len(folder)
<1> HIDE DEF n
<1>1. n \in Nat \ {0} /\ at - 1 + step \in Int
  BY DEF n
<1>2. (at - 1 + step) % n \in 0 .. (n - 1)
  BY <1>1
<1>3. 1 + ((at - 1 + step) % n) \in 1 .. n
  BY <1>1, <1>2
<1>4. folder[1 + ((at - 1 + step) % n)] \in Gssis
  BY <1>3 DEF n
<1> QED BY <1>4 DEF n

\* Whatever was drawn is a picture.
LEMMA DrawnType ==
  ASSUME state' \in SoundState, codeplug' \in Layouts \cup {NoCodeplug}, sel_folder' \in Nat \ {0},
         cycle_gssi' \in Talkgroup, selected_tx' \in Talkgroup, PushUi
  PROVE  shown' \in Picture
BY ViewType DEF PushUi

\* What the Select button acts on.
LEMMA CycleTargetType ==
  ASSUME codeplug \in Layouts \cup {NoCodeplug}, sel_folder \in Nat \ {0}
  PROVE  CycleTarget \in Talkgroup
<1>1. CASE codeplug # NoCodeplug
  <2> DEFINE f == IF sel_folder <= Len(codeplug) THEN sel_folder ELSE Len(codeplug)
  <2>1. codeplug \in Layouts /\ f \in 1 .. Len(codeplug)
    BY <1>1, LayoutLen
  <2>2. CycleTarget = Pointed(codeplug[f], cycle_gssi)
    BY <1>1 DEF CycleTarget
  <2> HIDE DEF f
  <2> QED BY <2>1, <2>2, FolderType DEF Talkgroup
<1> QED BY <1>1 DEF CycleTarget, Talkgroup

LEMMA LoopTypesStep ==
  ASSUME HInv, HInv', LoopTypes, StackTypes, [Next]_vars
  PROVE  LoopTypes'
<1>1. /\ codeplug \in Layouts \cup {NoCodeplug} /\ codeplug' \in Layouts \cup {NoCodeplug}
      /\ sel_folder \in Nat \ {0} /\ sel_folder' \in Nat \ {0}
      /\ codeplug # NoCodeplug => sel_folder <= Len(codeplug)
  BY DEF HInv, Texts, FolderInRange
<1>2. /\ connected \in BOOLEAN /\ have_config \in BOOLEAN /\ state \in SoundState
      /\ cycle_gssi \in Talkgroup /\ selected_tx \in Talkgroup /\ shown \in Picture
      /\ alert_gen <= MaxAlerts /\ alert_gen \in Nat /\ NoGssi \in Talkgroup
  BY DEF LoopTypes, HInv, AlertTimed, Talkgroup
<1>3. EffectiveTx(state, selected_tx) \in Talkgroup
  BY <1>2, StateType
<1>4. Notify => alert_gen' <= MaxAlerts
  BY <1>2, HomeAssumption DEF Notify, NoAlert, alerts
<1>5. NoAlert => alert_gen' <= MaxAlerts
  BY <1>2 DEF NoAlert, alerts
<1>6. ASSUME UNCHANGED link, UNCHANGED home, alert_gen' <= MaxAlerts
      PROVE  LoopTypes'
  BY <1>2, <1>6 DEF LoopTypes, link, home, cycler
<1>7. ASSUME connected' \in BOOLEAN, have_config' \in BOOLEAN, state' \in SoundState,
             cycle_gssi' \in Talkgroup, selected_tx' \in Talkgroup, UNCHANGED alerts, PushUi
      PROVE  LoopTypes'
  BY <1>1, <1>2, <1>7, DrawnType DEF LoopTypes, alerts
<1>8. CASE ControlConnected \/ ControlDisconnected
  BY <1>2, <1>7, <1>8 DEF ControlConnected, ControlDisconnected, cycler
<1>9. CASE PollTick \/ Nudge \/ UNCHANGED vars
  BY <1>2, <1>6, <1>9 DEF PollTick, Nudge, alerts, vars
<1>10. CASE HandleAnswer
  <2>1. CASE Head(ansq).kind = "state" /\ StateAnswer(Head(ansq).state)
    <3>1. Head(ansq).state \in SoundState
      <4>1. ansq \in Seq(SoundAnswer) /\ ansq # <<>>
        BY <1>10 DEF StackTypes, HandleAnswer
      <4>2. Head(ansq) \in SoundAnswer
        BY <4>1, HeadTailProperties
      <4> QED BY <2>1, <4>2 DEF SoundAnswer
    <3>2. cycle_gssi' \in Talkgroup
      <4>1. EffectiveTx(Head(ansq).state, selected_tx) \in Talkgroup
        BY <1>2, <3>1, StateType
      <4> QED BY <1>1, <1>2, <2>1, <4>1, ReconcileType DEF StateAnswer
    <3> QED BY <1>2, <1>7, <2>1, <3>1, <3>2 DEF StateAnswer, link
  <2>2. CASE ConfigAnswer(Head(ansq).text)
    <3>1. codeplug' = Head(ansq).text
      BY <2>2 DEF ConfigAnswer
    <3>2. Reconcile(codeplug', 1, NoGssi, EffectiveTx(state, selected_tx))
      BY <2>2, <3>1 DEF ConfigAnswer
    <3>3. cycle_gssi' \in Talkgroup
      BY <1>1, <1>2, <1>3, <3>2, ReconcileType
    <3> QED BY <1>2, <1>7, <2>2, <3>3 DEF ConfigAnswer
  <2>3. CASE Rejected
    BY <1>4, <1>6, <2>3 DEF Rejected
  <2> QED BY <1>10, <2>1, <2>2, <2>3 DEF HandleAnswer
<1>11. ASSUME NEW gen \in timers, AlertExpire(gen)
       PROVE  LoopTypes'
  BY <1>2, <1>6, <1>11 DEF AlertExpire
<1>12. CASE UiAlertDismiss
  <2>1. alert_gen' <= MaxAlerts
    BY <1>2, <1>12, HomeAssumption DEF UiAlertDismiss
  <2> QED BY <1>6, <1>12, <2>1 DEF UiAlertDismiss
<1>13. ASSUME NEW step \in Int, Cycle(step)
       PROVE  LoopTypes'
  <2>1. codeplug # NoCodeplug /\ codeplug \in Layouts /\ sel_folder \in 1 .. Len(codeplug)
    BY <1>1, <1>13, LayoutLen DEF Cycle
  <2> DEFINE folder == codeplug[sel_folder]
             g      == Pointed(folder, cycle_gssi)
             I      == {i \in 1 .. Len(folder) : folder[i] = g}
             at     == IF I # {} THEN Min(I) ELSE 0
  <2>2. folder \in Seq(Gssis) /\ Len(folder) \in Nat \ {0}
    BY <2>1, FolderType
  <2>3. cycle_gssi' = folder[1 + ((at - 1 + step) % Len(folder))]
    BY <1>13, <2>1 DEF Cycle, SelectInSeq
  <2>4. at \in Int
    <3>1. I \subseteq Nat /\ Nat \subseteq Int
      OBVIOUS
    <3> HIDE DEF I
    <3> QED BY <3>1, LeastOf
  <2> HIDE DEF folder, g, at
  <2>5. cycle_gssi' \in Talkgroup
    BY <2>2, <2>3, <2>4, NeighbourType DEF Talkgroup
  <2> QED BY <1>2, <1>7, <1>13, <2>5 DEF Cycle, Browse, link
<1>14. ASSUME NEW f \in DOMAIN codeplug, UiSelectFolder(f)
       PROVE  LoopTypes'
  <2>1. codeplug \in Layouts /\ f \in 1 .. Len(codeplug)
    <3>1. codeplug \in Seq(Seq(Gssis)) /\ codeplug # <<>>
      BY <1>1, HomeAssumption, EmptySeq DEF NoCodeplug
    <3> QED BY <1>1, <3>1 DEF NoCodeplug
  <2>2. cycle_gssi' \in Talkgroup
    BY <1>14, <2>1, FolderType DEF UiSelectFolder, Talkgroup
  <2> QED BY <1>2, <1>7, <1>14, <2>2 DEF UiSelectFolder, Browse, link
<1>15. CASE UiCancelSelect
  BY <1>2, <1>3, <1>7, <1>15 DEF UiCancelSelect, Browse, link
<1>16. CASE Offline
  BY <1>4, <1>5, <1>6, <1>16 DEF Offline
<1>17. CASE Unregistered
  BY <1>4, <1>6, <1>16, <1>17 DEF Unregistered
<1>18. CASE UiSelectTalkgroup
  <2>1. ASSUME connected, CycleTarget # NoGssi, selected_tx' = CycleTarget,
               UNCHANGED <<link, state, codeplug, cycler, shown, alerts>>
        PROVE  LoopTypes'
    <3>1. CycleTarget \in Talkgroup
      BY <1>1, CycleTargetType
    <3> QED BY <1>2, <2>1, <3>1 DEF LoopTypes, link, cycler, alerts
  <2> QED BY <1>16, <1>18, <2>1 DEF UiSelectTalkgroup
<1>19. ASSUME NEW g \in Gssis, UiGroupSelect(g)
       PROVE  LoopTypes'
  BY <1>2, <1>7, <1>17, <1>19 DEF UiGroupSelect, link, Talkgroup
<1>20. ASSUME NEW g \in Gssis, UiGroupChange("attach", g) \/ UiGroupChange("detach", g)
       PROVE  LoopTypes'
  BY <1>2, <1>6, <1>17, <1>20 DEF UiGroupChange, alerts
<1>21. ASSUME NEW cp \in Layouts, ApplyCodeplug(cp)
       PROVE  LoopTypes'
  <2>1. cycle_gssi' \in Talkgroup
    BY <1>1, <1>2, <1>3, <1>21, ReconcileType DEF ApplyCodeplug
  <2> QED BY <1>2, <1>7, <1>21, <2>1 DEF ApplyCodeplug, link
<1>22. CASE Execute \/ NetworkChanges
  BY <1>2, <1>6, <1>22 DEF Execute, NetworkChanges, LoopIdle, alerts
<1> QED BY <1>8, <1>9, <1>10, <1>11, <1>12, <1>13, <1>14, <1>15, <1>18, <1>19, <1>20, <1>21, <1>22
        DEF Next, Loop, Operator, UiCycleNext, UiCyclePrev

-----------------------------------------------------------------------------
(* Types of the stack and of the channel.                                   *)

\* Another group attached.
LEMMA AttachedType ==
  ASSUME NEW q \in Seq(Gssis), IsInjective(q), NEW g \in Gssis, ~Contains(q, g)
  PROVE  Append(q, g) \in Seq(Gssis) /\ IsInjective(Append(q, g))
<1> DEFINE r == Append(q, g)
           n == Len(q)
<1>1. /\ r \in Seq(Gssis) /\ Len(r) = n + 1 /\ n \in Nat /\ r[n + 1] = g
      /\ \A i \in 1 .. n : r[i] = q[i]
  BY AppendProperties
<1>2. \A i \in 1 .. n : q[i] # g
  BY DEF Contains
<1> HIDE DEF r
<1>3. \A i, j \in 1 .. n : q[i] = q[j] => i = j
  BY DEF IsInjective
<1> HIDE DEF n
<1>4. DOMAIN r = 1 .. (n + 1)
  BY <1>1
<1>5. \A i \in DOMAIN r : i \in 1 .. n \/ i = n + 1
  BY <1>1, <1>4
<1>6. IsInjective(r)
  BY <1>1, <1>2, <1>3, <1>5 DEF IsInjective
<1> QED BY <1>1, <1>6 DEF r

\* One taken out.
LEMMA TakenOutType ==
  ASSUME NEW q \in Seq(Gssis), IsInjective(q), NEW i \in DOMAIN q
  PROVE  RemoveAt(q, i) \in Seq(Gssis) /\ IsInjective(RemoveAt(q, i))
<1> DEFINE a   == SubSeq(q, 1, i - 1)
           b   == SubSeq(q, i + 1, Len(q))
           n   == Len(q)
           new == RemoveAt(q, i)
           pos == [j \in 1 .. (n - 1) |-> IF j < i THEN j ELSE j + 1]
<1>1. n \in Nat /\ DOMAIN q = 1 .. n /\ i \in 1 .. n /\ \A j \in 1 .. n : q[j] \in Gssis
  BY LenProperties, ElementOfSeq
<1>2. /\ a \in Seq(Gssis) /\ Len(a) = i - 1
      /\ \A j \in 1 .. (i - 1) : a[j] = q[j]
  <2>1. \A j \in 1 .. (i - 1) : q[j] \in Gssis
    BY <1>1
  <2>2. /\ a \in Seq(Gssis) /\ Len(a) = IF 1 <= i - 1 THEN (i - 1) - 1 + 1 ELSE 0
        /\ \A j \in 1 .. ((i - 1) - 1 + 1) : a[j] = q[1 + j - 1]
    BY <1>1, <2>1, SubSeqProperties
  <2> QED BY <1>1, <2>2
<1>3. /\ b \in Seq(Gssis) /\ Len(b) = n - i
      /\ \A j \in 1 .. (n - i) : b[j] = q[j + i]
  <2>1. \A j \in (i + 1) .. n : q[j] \in Gssis
    BY <1>1
  <2>2. /\ b \in Seq(Gssis) /\ Len(b) = IF i + 1 <= n THEN n - (i + 1) + 1 ELSE 0
        /\ \A j \in 1 .. (n - (i + 1) + 1) : b[j] = q[(i + 1) + j - 1]
    BY <1>1, <2>1, SubSeqProperties
  <2> HIDE DEF a, b, new, pos
  <2>3. n - (i + 1) + 1 = n - i /\ Len(b) = n - i
    BY <1>1, <2>2
  <2>4. \A j \in 1 .. (n - i) : (i + 1) + j - 1 = j + i
    BY <1>1
  <2>5. \A j \in 1 .. (n - i) : b[j] = q[j + i]
    BY <2>2, <2>3, <2>4
  <2> QED BY <2>2, <2>3, <2>5
<1>4. new = a \o b
  BY DEF RemoveAt
<1> HIDE DEF a, b, new
<1>5. /\ new \in Seq(Gssis) /\ Len(new) = n - 1
      /\ \A j \in 1 .. (n - 1) : new[j] = IF j <= i - 1 THEN a[j] ELSE b[j - (i - 1)]
  <2>1. /\ a \o b \in Seq(Gssis) /\ Len(a \o b) = Len(a) + Len(b)
        /\ \A j \in 1 .. (Len(a) + Len(b)) :
             (a \o b)[j] = IF j <= Len(a) THEN a[j] ELSE b[j - Len(a)]
    BY <1>2, <1>3, ConcatProperties
  <2>2. Len(a) + Len(b) = n - 1 /\ Len(a) = i - 1
    BY <1>1, <1>2, <1>3
  <2> QED BY <1>4, <2>1, <2>2
<1>6. ASSUME NEW j \in 1 .. (n - 1)
      PROVE  new[j] = q[pos[j]]
  <2>1. CASE j < i
    BY <1>1, <1>2, <1>5, <2>1
  <2>2. CASE ~(j < i)
    <3>1. j - (i - 1) \in 1 .. (n - i) /\ j - (i - 1) + i = j + 1 /\ ~(j <= i - 1)
      BY <1>1, <2>2
    <3>2. new[j] = b[j - (i - 1)]
      BY <1>5, <3>1
    <3> QED BY <1>3, <2>2, <3>1, <3>2
  <2> QED BY <2>1, <2>2
<1>7. \A j, k \in 1 .. (n - 1) : pos[j] \in 1 .. n /\ (pos[j] = pos[k] => j = k)
  BY <1>1
<1> HIDE DEF pos
<1>8. DOMAIN new = 1 .. (n - 1)
  BY <1>5
<1>9. IsInjective(new)
  BY <1>1, <1>6, <1>7, <1>8 DEF IsInjective
<1> QED BY <1>5, <1>9 DEF new

LEMMA WithoutType ==
  ASSUME NEW q \in Seq(Gssis), IsInjective(q), NEW g
  PROVE  Without(q, g) \in Seq(Gssis) /\ IsInjective(Without(q, g))
<1> DEFINE I == {i \in 1 .. Len(q) : q[i] = g}
<1>1. Without(q, g) = IF I # {} THEN RemoveAt(q, Min(I)) ELSE q
  BY DEF Without, RemoveFirst, SelectInSeq
<1>2. I \subseteq Nat /\ I \subseteq DOMAIN q
  BY LenProperties
<1> HIDE DEF I
<1>3. I # {} => Min(I) \in DOMAIN q
  BY <1>2, LeastOf
<1> QED BY <1>1, <1>3, TakenOutType

LEMMA BecomesType ==
  ASSUME StackTypes, NEW new \in SoundState, Becomes(new)
  PROVE  net' \in SoundState /\ nudges' \in 0..MaxNudges
BY DEF StackTypes, Becomes

\* A command obeyed leaves each group attached once.
LEMMA ObeyedType ==
  ASSUME StackTypes, NEW c \in SoundCommand, c.op \notin {"get_state", "get_config"}, Obey(c)
  PROVE  net' \in SoundState /\ nudges' \in 0..MaxNudges /\ ansq' \in Seq(SoundAnswer)
<1>1. net \in SoundState /\ nudges \in 0..MaxNudges /\ ansq \in Seq(SoundAnswer)
  BY DEF StackTypes
<1>2. CASE Refuse
  <2>1. [kind |-> "refused"] \in SoundAnswer
    BY DEF SoundAnswer
  <2> QED BY <1>1, <1>2, <2>1, AppendProperties DEF Refuse, remote
<1>3. CASE c.op # "apply_config" /\ ~Refuse
  <2> DEFINE old == net.groups
             new == IF c.op = "switch" THEN <<c.gssi>>
                    ELSE IF c.op = "attach" /\ ~Contains(old, c.gssi) THEN Append(old, c.gssi)
                    ELSE IF c.op = "detach" THEN Without(old, c.gssi) ELSE old
  <2>1. c.gssi \in Gssis
    BY <1>3 DEF SoundCommand
  <2>2. old \in Seq(Gssis) /\ IsInjective(old) /\ net \in RadioState
    BY <1>1, StateType
  <2>3. <<c.gssi>> \in Seq(Gssis) /\ IsInjective(<<c.gssi>>)
    BY <2>1 DEF IsInjective
  <2>4. new \in Seq(Gssis) /\ IsInjective(new)
    BY <2>1, <2>2, <2>3, AttachedType, WithoutType
  <2>5. Becomes([net EXCEPT !.groups = new]) /\ ansq' = ansq
    BY <1>3 DEF Obey
  <2> HIDE DEF new
  <2>6. [net EXCEPT !.groups = new] \in SoundState
    BY <2>2, <2>4 DEF SoundState, RadioState
  <2> QED BY <1>1, <2>5, <2>6, BecomesType
<1>4. CASE c.op = "apply_config" /\ ~Refuse
  BY <1>1, <1>4 DEF Obey
<1> QED BY <1>2, <1>3, <1>4

LEMMA AskedType ==
  /\ Ask("get_state") \in SoundCommand /\ Ask("get_config") \in SoundCommand
  /\ GetState \in Seq(SoundCommand)
  /\ <<Ask("get_state"), Ask("get_config")>> \in Seq(SoundCommand)
<1>1. Ask("get_state") \in SoundCommand /\ Ask("get_config") \in SoundCommand
  BY DEF Ask, SoundCommand
<1> QED BY <1>1 DEF GetState

LEMMA StackTypesStep ==
  ASSUME HInv, LoopTypes, StackTypes, [Next]_vars
  PROVE  StackTypes'
<1>1. /\ net \in SoundState /\ cmdq \in Seq(SoundCommand) /\ ansq \in Seq(SoundAnswer)
      /\ nudges \in 0..MaxNudges /\ moves \in 0..MaxMoves
  BY DEF StackTypes
<1>2. /\ codeplug \in Layouts \cup {NoCodeplug} /\ sel_folder \in Nat \ {0} /\ text \in Layouts
      /\ state \in SoundState
  BY DEF HInv, Texts, FolderInRange, LoopTypes
<1>3. CASE UNCHANGED <<net, cmdq, ansq, nudges, moves>>
  BY <1>1, <1>3 DEF StackTypes
<1>4. Move => moves' \in 0..MaxMoves
  BY <1>1, HomeAssumption DEF Move
<1>5. ASSUME NEW c \in SoundCommand, NEW d \in SoundCommand, cmdq' = cmdq \o <<c, d>>, Move,
             UNCHANGED <<remote, ansq, nudges>>
      PROVE  StackTypes'
  <2>1. <<c, d>> \in Seq(SoundCommand)
    OBVIOUS
  <2>2. cmdq' \in Seq(SoundCommand)
    BY <1>1, <1>5, <2>1, ConcatProperties
  <2> QED BY <1>1, <1>4, <1>5, <2>2 DEF StackTypes, remote
<1>6. ASSUME NEW op \in {"switch", "attach", "detach"}, NEW g \in Gssis, Order(op, g)
      PROVE  StackTypes'
  <2> DEFINE c == [op |-> op, gssi |-> g]
  <2>1. c \in SoundCommand
    BY DEF SoundCommand
  <2>2. cmdq' = cmdq \o <<c, Ask("get_state")>> /\ Move /\ UNCHANGED <<remote, ansq, nudges>>
    BY <1>6 DEF Order
  <2> HIDE DEF c
  <2> QED BY <1>5, <2>1, <2>2, AskedType
<1>7. CASE ControlConnected
  BY <1>1, <1>7, AskedType DEF ControlConnected, StackTypes, remote
<1>8. CASE ControlDisconnected
  <2>1. <<>> \in Seq(SoundCommand) /\ <<>> \in Seq(SoundAnswer)
    OBVIOUS
  <2> QED BY <1>1, <1>8, <2>1 DEF ControlDisconnected, StackTypes, remote
<1>9. CASE PollTick \/ Nudge
  <2>1. cmdq \o GetState \in Seq(SoundCommand)
    BY <1>1, AskedType, ConcatProperties
  <2>2. cmdq' \in Seq(SoundCommand)
    BY <1>1, <1>9, <2>1 DEF PollTick, Nudge
  <2>3. nudges > 0 => nudges - 1 \in 0..MaxNudges
    BY <1>1, HomeAssumption
  <2>4. nudges' \in 0..MaxNudges
    BY <1>1, <1>9, <2>3 DEF PollTick, Nudge
  <2> QED BY <1>1, <1>9, <2>2, <2>4 DEF PollTick, Nudge, StackTypes, remote
<1>10. CASE HandleAnswer
  <2>1. ansq' \in Seq(SoundAnswer)
    BY <1>1, <1>10, HeadTailProperties DEF HandleAnswer
  <2> QED BY <1>1, <1>10, <2>1 DEF HandleAnswer, StackTypes, remote
<1>11. ASSUME NEW gen \in timers, AlertExpire(gen)
       PROVE  StackTypes'
  BY <1>3, <1>11 DEF AlertExpire, remote, wires
<1>12. CASE UiAlertDismiss \/ UiCycleNext \/ UiCyclePrev \/ UiCancelSelect
            \/ \E f \in DOMAIN codeplug : UiSelectFolder(f)
  BY <1>3, <1>12 DEF UiAlertDismiss, UiCycleNext, UiCyclePrev, Cycle, Browse, UiCancelSelect,
     UiSelectFolder, remote, wires
<1>13. CASE Unregistered
  BY <1>3, <1>13 DEF Unregistered, Offline, remote, wires
<1>14. CASE UiSelectTalkgroup
  <2>1. ASSUME CycleTarget # NoGssi, Order("switch", CycleTarget)
        PROVE  StackTypes'
    <3>1. CycleTarget \in Gssis
      BY <1>2, <2>1, CycleTargetType DEF Talkgroup
    <3> QED BY <1>6, <2>1, <3>1
  <2>2. CASE Offline
    BY <1>13, <2>2 DEF Unregistered
  <2> QED BY <1>14, <2>1, <2>2 DEF UiSelectTalkgroup
<1>15. ASSUME NEW g \in Gssis,
              UiGroupSelect(g) \/ UiGroupChange("attach", g) \/ UiGroupChange("detach", g)
       PROVE  StackTypes'
  BY <1>6, <1>13, <1>15 DEF UiGroupSelect, UiGroupChange
<1>16. ASSUME NEW cp \in Layouts, ApplyCodeplug(cp)
       PROVE  StackTypes'
  <2> DEFINE c == [op |-> "apply_config", text |-> cp]
  <2>1. c \in SoundCommand
    BY DEF SoundCommand
  <2>2. cmdq' = cmdq \o <<c, Ask("get_config")>> /\ Move /\ UNCHANGED <<remote, ansq, nudges>>
    BY <1>16 DEF ApplyCodeplug
  <2> HIDE DEF c
  <2> QED BY <1>5, <2>1, <2>2, AskedType
<1>17. CASE Execute
  <2> DEFINE c == Head(cmdq)
             s == [kind |-> "state", state |-> net]
             t == [kind |-> "config", text |-> text]
  <2>1. c \in SoundCommand /\ cmdq' \in Seq(SoundCommand) /\ moves' = moves
    BY <1>1, <1>17, HeadTailProperties DEF Execute
  <2>2. s \in SoundAnswer /\ t \in SoundAnswer
    BY <1>1, <1>2 DEF SoundAnswer
  <2>3. CASE ansq' = Append(ansq, s) /\ UNCHANGED <<remote, nudges>>
    <3> HIDE DEF s
    <3>1. ansq' \in Seq(SoundAnswer)
      BY <1>1, <2>2, <2>3, AppendProperties
    <3> QED BY <1>1, <2>1, <2>3, <3>1 DEF StackTypes, remote
  <2>4. CASE ansq' = Append(ansq, t) /\ UNCHANGED <<remote, nudges>>
    <3> HIDE DEF t
    <3>1. ansq' \in Seq(SoundAnswer)
      BY <1>1, <2>2, <2>4, AppendProperties
    <3> QED BY <1>1, <2>1, <2>4, <3>1 DEF StackTypes, remote
  <2>5. CASE c.op \notin {"get_state", "get_config"} /\ Obey(c)
    <3> HIDE DEF c
    <3>1. net' \in SoundState /\ nudges' \in 0..MaxNudges /\ ansq' \in Seq(SoundAnswer)
      BY <2>1, <2>5, ObeyedType
    <3> QED BY <1>1, <2>1, <3>1 DEF StackTypes
  <2> QED BY <1>17, <2>3, <2>4, <2>5 DEF Execute
<1>18. CASE NetworkChanges
  <2>1. ASSUME NEW q \in Seq(Gssis), IsInjective(q)
        PROVE  /\ [registered |-> TRUE, groups |-> q] \in SoundState
               /\ [net EXCEPT !.groups = q] \in SoundState
    <3>1. net \in RadioState
      BY <1>1, StateType
    <3> QED BY <2>1, <3>1 DEF SoundState, RadioState
  <2>2. <<>> \in Seq(Gssis) /\ IsInjective(<<>>)
    BY DEF IsInjective
  <2>3. \A g \in Gssis : <<g>> \in Seq(Gssis) /\ IsInjective(<<g>>)
    BY DEF IsInjective
  <2>4. NoState \in SoundState
    BY <2>2 DEF NoState, SoundState, RadioState
  <2>5. \E new \in SoundState : Becomes(new)
    BY <1>18, <2>1, <2>2, <2>3, <2>4 DEF NetworkChanges
  <2>6. net' \in SoundState /\ nudges' \in 0..MaxNudges
    BY <2>5, BecomesType
  <2> QED BY <1>1, <1>4, <1>18, <2>6 DEF NetworkChanges, StackTypes
<1>19. CASE UNCHANGED vars
  BY <1>3, <1>19 DEF vars, remote, wires
<1> QED BY <1>7, <1>8, <1>9, <1>10, <1>11, <1>12, <1>14, <1>15, <1>16, <1>17, <1>18, <1>19
        DEF Next, Loop, Operator

LEMMA TypesInit == Init => LoopTypes /\ StackTypes
<1> SUFFICES ASSUME Init PROVE LoopTypes /\ StackTypes
  OBVIOUS
<1>1. NoState \in SoundState
  BY DEF NoState, SoundState, RadioState, IsInjective
<1>2. NoGssi \in Talkgroup /\ 1 \in Nat \ {0}
  BY DEF Talkgroup
<1>3. shown \in Picture
  BY <1>1, <1>2, ViewType DEF Init
<1>4. <<>> \in Seq(SoundCommand) /\ <<>> \in Seq(SoundAnswer)
  OBVIOUS
<1>5. 0 <= MaxAlerts /\ 0 \in 0..MaxNudges /\ 0 \in 0..MaxMoves
  BY HomeAssumption
<1>6. LoopTypes
  BY <1>1, <1>2, <1>3, <1>5 DEF Init, LoopTypes
<1>7. StackTypes
  BY <1>1, <1>4, <1>5 DEF Init, StackTypes
<1> QED BY <1>6, <1>7

-----------------------------------------------------------------------------
(* Theorems.                                                                *)

\* The loop, the stack and the channel between them keep their types for any talkgroups and
\* configurations: what is drawn, cycled to or keyed is a talkgroup of the radio or none, and
\* the stack never attaches one twice.
THEOREM HomeTypeCorrect == Spec => []HomeTypeOK
<1>1. HInv /\ HInv' /\ LoopTypes /\ StackTypes /\ [Next]_vars => (LoopTypes /\ StackTypes)'
  BY LoopTypesStep, StackTypesStep
<1>2. HInv /\ LoopTypes /\ StackTypes => HomeTypeOK
  <2> SUFFICES ASSUME HInv, LoopTypes, StackTypes PROVE HomeTypeOK
    OBVIOUS
  <2>1. /\ codeplug \in Layouts \cup {NoCodeplug} /\ text \in Layouts /\ sel_folder \in Nat \ {0}
        /\ alert_visible \in BOOLEAN /\ alert_gen \in Nat /\ timers \subseteq 1..alert_gen
    BY DEF HInv, Texts, FolderInRange, AlertTimed
  <2>2. alert_gen \in 0..MaxAlerts
    BY <2>1, HomeAssumption DEF LoopTypes
  <2>3. /\ state \in RadioState /\ IsInjective(state.groups)
        /\ net \in RadioState /\ IsInjective(net.groups)
    BY StateType DEF LoopTypes, StackTypes
  <2>4. SoundCommand \subseteq Command /\ SoundAnswer \subseteq Answer
    BY DEF SoundCommand, SoundAnswer, SoundState, Command, Answer
  <2>5. cmdq \in Seq(Command) /\ ansq \in Seq(Answer)
    BY <2>4 DEF StackTypes
  <2> QED BY <2>1, <2>2, <2>3, <2>5 DEF HomeTypeOK, LoopTypes, StackTypes, Talkgroup
<1> QED BY <1>1, <1>2, TypesInit, HInvHolds, PTL DEF Spec

\* The Select button acts on the talkgroup drawn above it, and the one drawn as on the air
\* is the one the PTT keys: every handler leaves the folder in range, where the clamps of
\* push_ui and cycle_target agree, and redraws, but for the one that is not offered while
\* the talkgroup is keyed.
THEOREM SelectActsOnShownHolds == Spec => []SelectActsOnShown
<1>1. HInv => SelectActsOnShown
  <2> SUFFICES ASSUME HInv, codeplug # NoCodeplug
               PROVE  /\ shown.gssi = CycleTarget
                      /\ shown.badge = "on_air" => shown.gssi = EffectiveTx(state, selected_tx)
    BY DEF SelectActsOnShown
  <2>1. CycleTarget = Pointed(codeplug[sel_folder], cycle_gssi)
    BY DEF HInv, FolderInRange, CycleTarget
  <2> QED BY <2>1 DEF HInv, Drawn
<1> QED BY <1>1, HInvHolds, PTL

\* An alert is taken away by its own timer or by the operator, and none is left on the screen
\* without a timer.
THEOREM AlertStaysItsTimeHolds == Spec => AlertStaysItsTime
<1>1. HInv /\ [Next]_vars =>
        [ /\ alert_visible' => alert_gen' \in timers'
          /\ alert_visible /\ ~alert_visible' => alert_gen' # alert_gen \/ alert_gen \notin timers'
        ]_vars
  BY AlertStep DEF AlertTimed, AlertStays
<1> QED BY <1>1, HInvHolds, PTL DEF Spec, AlertStaysItsTime
=============================================================================
