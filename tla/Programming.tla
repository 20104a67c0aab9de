---------------------------- MODULE Programming ----------------------------
(***************************************************************************)
(* Programming the radio from its own screens: the operator edits the      *)
(* configuration document on a form, the loop writes the edited text to    *)
(* the stack, adopts it at once and asks for it back, while answers to     *)
(* earlier requests are still on their way and the link may be lost.       *)
(*                                                                         *)
(* The stack is outside the repository: it takes the commands of one       *)
(* connection in order, may refuse to apply what was staged (SetConfig and *)
(* the ApplyConfig behind it are taken as one), and always answers         *)
(* GetConfig with what it has.  What was typed on a form is chosen when it *)
(* is saved; texts the writers refuse for their form (not a number, out of *)
(* range) change nothing and are left out.  The contact editor and the     *)
(* programming form are one here: the operator has one of them open.       *)
(*                                                                         *)
(* An operator whose name ends in _X is a faulty variant of the operator   *)
(* defined after it; no behaviour of Spec uses it.                         *)
(***************************************************************************)
EXTENDS Codeplug

CONSTANTS
  NoDoc,
  Editable,    \* sections the operator edits
  FormKeys,    \* identities and
  FormNames,   \* names the operator types
  InitialDocs, \* what the stack may be configured with at first
  MaxEdits,    \* bound: edits saved
  MaxConns,    \* bound: connections the stack opens
  MaxOut       \* bound: commands and answers under way when the loop asks on its own

ASSUME FormAssumption ==
  /\ Editable \subseteq Sections
  /\ FormKeys \subseteq Ids /\ FormNames \subseteq Ids
  /\ MaxEdits \in Nat /\ MaxConns \in Nat /\ MaxOut \in Nat
ASSUME DocAssumption ==
  /\ InitialDocs \subseteq Doc /\ NoDoc \notin Doc
  /\ \A doc \in InitialDocs : \A s \in Keyed : UniqueKeys(doc[s])

VARIABLES
  toml,         \* last_config_toml
  codeplug,     \* codeplug: the text it was parsed from
  have_config,  \* have_config
  control_out,  \* connection the loop writes to, 0 for none
  draft,        \* prog_draft or contact_draft: the form that is open
  alive,        \* the loop has not panicked
  events,       \* the AppEvent queue, control channel only
  wire,         \* commands of the live connection the stack has not taken
  live, conns,  \* the live connection, connections so far
  config,       \* the stack's configuration
  edits,        \* history: edits saved
  settled       \* history: last text saved, if it reached a stack that took it

stack   == <<live, conns, config>>
vars    == <<toml, codeplug, have_config, control_out, draft, alive, events, wire, stack,
             edits, settled>>

Form    == [key: Nat, name: Nat, ord: Int \cup {NoOrder}, refs: SUBSET Ids]
Draft   == [section: Sections, key: Nat, index: Nat, shown: Nat, form: Form, offered: SUBSET Ids]
NoDraft == [section |-> "none"]
Blank   == [key |-> NoKey, name |-> NoKey, ord |-> 0, refs |-> {}]

MaybeDoc  == Doc \cup {NoDoc}
LinkEvent == [name: {"connected"}, conn: 1..MaxConns]
             \cup [name: {"disconnected"}] \cup [name: {"config"}, doc: Doc]
Command   == [name: {"set"}, doc: Doc] \cup [name: {"apply", "get"}]

\* Text, drafts, queues and the stack's documents have their types.
ProgTypeOK ==
  /\ toml \in MaybeDoc /\ codeplug \in MaybeDoc
  /\ have_config \in BOOLEAN /\ alive \in BOOLEAN
  /\ control_out \in 0..MaxConns /\ live \in 0..MaxConns /\ conns \in 0..MaxConns
  /\ draft \in Draft \cup {NoDraft}
  /\ events \in Seq(LinkEvent) /\ wire \in Seq(Command)
  /\ config \in Doc /\ settled \in MaybeDoc
  /\ edits \in 0..MaxEdits

Init ==
  /\ toml = NoDoc /\ codeplug = NoDoc
  /\ have_config = FALSE /\ control_out = 0
  /\ draft = NoDraft
  /\ alive = TRUE
  /\ events = <<>> /\ wire = <<>> /\ live = 0 /\ conns = 0
  /\ config \in InitialDocs
  /\ edits = 0 /\ settled = NoDoc

-----------------------------------------------------------------------------
(* The stack and the link.                                                  *)

Connect ==
  /\ live = 0 /\ conns < MaxConns
  /\ conns' = conns + 1 /\ live' = conns'
  /\ events' = Append(events, [name |-> "connected", conn |-> conns'])
  /\ UNCHANGED <<toml, codeplug, have_config, control_out, draft, alive, wire, config, edits,
                 settled>>

\* What was under way is lost; the last connection stays.
Disconnect ==
  /\ live # 0 /\ conns < MaxConns
  /\ live' = 0 /\ wire' = <<>> /\ settled' = NoDoc
  /\ events' = Append(events, [name |-> "disconnected"])
  /\ UNCHANGED <<toml, codeplug, have_config, control_out, draft, alive, conns, config, edits>>

\* What is staged is applied, or refused; staging alone changes nothing.
TakeEdit ==
  /\ Head(wire).name # "get"
  /\ IF Len(wire) > 1 /\ wire[1].name = "set" /\ wire[2].name = "apply"
     THEN /\ wire' = SubSeq(wire, 3, Len(wire))
          /\ \/ config' = wire[1].doc /\ UNCHANGED settled
             \/ UNCHANGED config /\ settled' = NoDoc
     ELSE wire' = Tail(wire) /\ UNCHANGED <<config, settled>>
  /\ UNCHANGED events

TakeGet ==
  /\ Head(wire).name = "get"
  /\ wire' = Tail(wire)
  /\ events' = Append(events, [name |-> "config", doc |-> config])
  /\ UNCHANGED <<config, settled>>

Serve ==
  /\ wire # <<>>
  /\ TakeEdit \/ TakeGet
  /\ UNCHANGED <<toml, codeplug, have_config, control_out, draft, alive, live, conns, edits>>

-----------------------------------------------------------------------------
(* The loop: the control channel.                                           *)

Get   == [name |-> "get"]
Apply == [name |-> "apply"]

Reaches == control_out # 0 /\ control_out = live

Send(cmds) == wire' = IF Reaches THEN wire \o cmds ELSE wire

\* Drawing the home screen takes the first folder of the cycler without asking
\* whether there is one.
Draws(cp) == cp = NoDoc \/ CyclerFolders(cp) # {}

HandleConnected ==
  /\ events # <<>> /\ Head(events).name = "connected"
  /\ control_out' = Head(events).conn
  /\ have_config' = FALSE
  /\ wire' = IF control_out' = live THEN Append(wire, Get) ELSE wire
  /\ events' = Tail(events)
  /\ UNCHANGED <<toml, codeplug, draft, alive, stack, edits, settled>>

HandleDisconnected ==
  /\ events # <<>> /\ Head(events).name = "disconnected"
  /\ control_out' = 0
  /\ events' = Tail(events)
  /\ UNCHANGED <<toml, codeplug, have_config, draft, alive, wire, stack, edits, settled>>

\* The text is taken as it is; a form that is open stays.
HandleConfig ==
  /\ events # <<>> /\ Head(events).name = "config"
  /\ LET doc == Head(events).doc IN
       /\ toml' = doc
       /\ codeplug' = IF Parses(doc) THEN doc ELSE codeplug
  /\ have_config' = TRUE
  /\ alive' = Draws(codeplug')
  /\ events' = Tail(events)
  /\ UNCHANGED <<control_out, draft, wire, stack, edits, settled>>

PollTick ==
  /\ control_out # 0 /\ ~have_config
  /\ Len(wire) + Len(events) < MaxOut
  /\ Send(<<Get>>)
  /\ UNCHANGED <<toml, codeplug, have_config, control_out, draft, alive, events, stack, edits,
                 settled>>

UiRefresh ==
  /\ control_out # 0
  /\ Len(wire) + Len(events) < MaxOut
  /\ Send(<<Get>>)
  /\ UNCHANGED <<toml, codeplug, have_config, control_out, draft, alive, events, stack, edits,
                 settled>>

\* The text is not asked back.
ApplyCodeplug_Blind_X(doc) ==
  /\ edits' = edits + 1
  /\ toml' = doc
  /\ codeplug' = IF Parses(doc) THEN doc ELSE codeplug
  /\ alive' = Draws(codeplug')
  /\ Send(<<[name |-> "set", doc |-> doc], Apply>>)
  /\ settled' = IF Reaches THEN doc ELSE NoDoc
  /\ UNCHANGED <<have_config, control_out, events, stack>>

\* Applied before it is staged.
ApplyCodeplug_Swapped_X(doc) ==
  /\ edits' = edits + 1
  /\ toml' = doc
  /\ codeplug' = IF Parses(doc) THEN doc ELSE codeplug
  /\ alive' = Draws(codeplug')
  /\ Send(<<Apply, [name |-> "set", doc |-> doc]>> \o (IF alive' THEN <<Get>> ELSE <<>>))
  /\ settled' = IF Reaches THEN doc ELSE NoDoc
  /\ UNCHANGED <<have_config, control_out, events, stack>>

\* apply_codeplug: stage, apply, adopt, redraw, and ask for what the stack made of it.
\* Whether there is a link is not asked.
ApplyCodeplug(doc) ==
  /\ edits' = edits + 1
  /\ toml' = doc
  /\ codeplug' = IF Parses(doc) THEN doc ELSE codeplug
  /\ alive' = Draws(codeplug')
  /\ Send(<<[name |-> "set", doc |-> doc], Apply>> \o (IF alive' THEN <<Get>> ELSE <<>>))
  /\ settled' = IF Reaches THEN doc ELSE NoDoc
  /\ UNCHANGED <<have_config, control_out, events, stack>>

Quietly == UNCHANGED <<toml, codeplug, have_config, control_out, alive, events, wire, stack,
                       edits, settled>>

-----------------------------------------------------------------------------
(* The programming form.                                                    *)

\* Identity of the entry at a position of a section's list, NoKey past its end.
KeyAt(doc, s, p) ==
  IF doc = NoDoc \/ p \notin DOMAIN doc[s] THEN NoKey ELSE doc[s][Shown(doc, s)[p]].key

EntryAt(doc, s, p) == doc[s][Shown(doc, s)[p]]

\* Talkgroups a scan list's form has switches for, gateways a contact may be behind.
Offered(s) ==
  IF codeplug = NoDoc THEN {}
  ELSE CASE s = "scanlist" -> KeysOf(codeplug["talkgroup"])
         [] s = "contact"  -> KeysOf(codeplug["gateway"])
         [] OTHER          -> {}

NewDraft(s, folder) ==
  [section |-> s, key |-> NoKey, index |-> 0, shown |-> NoKey,
   form |-> [Blank EXCEPT !.refs = folder], offered |-> Offered(s)]

\* A form for each entry; a scan list's has a switch for each talkgroup there is.
EditDraft(s, e) ==
  [section |-> s, key |-> e.key, index |-> 0, shown |-> e.key,
   form |-> IF s = "scanlist" THEN [e EXCEPT !.refs = @ \cap Offered(s)] ELSE e,
   offered |-> Offered(s)]

\* The row's position among the networks in priority order stands for its position
\* in the text.
NetworkDraft(p) ==
  IF p <= HomeShown(codeplug) THEN EditDraft("net_info", codeplug["net_info"][p])
  ELSE LET i == p - HomeShown(codeplug)
           e == EntryAt(codeplug, "network", i)
       IN  [EditDraft("network", e) EXCEPT !.key = NoKey, !.index = i]

Rows(doc, s) ==
  IF doc = NoDoc THEN {}
  ELSE IF s = "network" THEN 1..(HomeShown(doc) + Len(doc["network"]))
  ELSE DOMAIN doc[s]

BuildDraft(s, p) == IF s = "network" THEN NetworkDraft(p) ELSE EditDraft(s, EntryAt(codeplug, s, p))

SettingsDraft ==
  IF codeplug # NoDoc /\ codeplug["home_display"] # <<>>
  THEN EditDraft("home_display", codeplug["home_display"][1])
  ELSE NewDraft("home_display", {})

\* The settings have no list: UiProgSection opens their form at once.
OpenSettings == draft' = SettingsDraft /\ Quietly

\* UiProgOpen, UiTreeFolder, UiTreeGroup, UiContactEdit: the rows on the screen may have
\* been drawn from an earlier codeplug; the form shows whatever is at the position now.
UiProgOpen(s, p) ==
  /\ draft' = BuildDraft(s, p)
  /\ Quietly

\* UiProgAdd, UiTreeAddFolder, UiTreeAddGroup, UiContactNew: a talkgroup added in the
\* tree is filed where it was added.
UiProgAdd(s) ==
  /\ codeplug # NoDoc \/ s = "contact"
  /\ \/ draft' = NewDraft(s, {})
     \/ /\ s = "talkgroup"
        /\ \E f \in KeysOf(codeplug["folder"]) : draft' = NewDraft(s, {f})
  /\ Quietly

\* What the operator may have made of the fields when it is saved; gateways are picked
\* from those there are now.
Forms(d) ==
  LET named(refs) == [key: FormKeys, name: FormNames, ord: {d.form.ord}, refs: refs]
  IN  CASE d.section = "folder"   -> {[d.form EXCEPT !.name = n] : n \in FormNames}
        [] d.section = "scanlist" -> {[f EXCEPT !.name = f.key] : f \in named(SUBSET d.offered)}
        [] d.section = "contact"  -> {[f EXCEPT !.name = f.key] :
                                        f \in named({{}, d.form.refs}
                                                     \cup {{g} : g \in Offered("contact")})}
        [] d.section = "network"  -> {[f EXCEPT !.ord = f.name] : f \in named({{}})}
        [] OTHER                  -> named({d.form.refs})

\* A folder's id is made from its name, and told from the ids there are.
UniqueFolderSlug(name) ==
  LET taken == IF codeplug = NoDoc THEN {} ELSE KeysOf(codeplug["folder"])
      free  == (1..(Cardinality(taken) + 1)) \ taken
  IN  IF name \notin taken THEN name ELSE CHOOSE k \in free : \A j \in free : k <= j

\* The row that is written.
Input(d, f) ==
  IF d.section # "folder" THEN f
  ELSE [f EXCEPT !.key = IF d.key = NoKey THEN UniqueFolderSlug(f.name) ELSE d.key]

\* Rows are found in the text, the gateway of a contact in what was parsed.
CanSave(d, f) ==
  /\ toml # NoDoc
  /\ d.section = "network" => CanUpsertNetwork(toml, d.index)
  /\ d.section \in Keyed => CanUpsert(toml[d.section], Input(d, f), d.key)
  /\ d.section = "contact" => codeplug # NoDoc /\ f.refs \subseteq KeysOf(codeplug["gateway"])

Saved(d, f) ==
  CASE d.section \in Single   -> SetSingle(toml, d.section, f)
    [] d.section = "network"  -> UpsertNetwork(toml, f, d.index)
    [] OTHER                  -> UpsertKeyed(toml, d.section, Input(d, f), d.key)

\* UiFormSave, UiContactSave.  A form that is refused stays open.
UiFormSave ==
  /\ draft # NoDraft
  /\ \E f \in Forms(draft) : CanSave(draft, f) /\ ApplyCodeplug(Saved(draft, f))
  /\ draft' = NoDraft

UiFormCancel ==
  /\ draft # NoDraft
  /\ draft' = NoDraft
  /\ Quietly

CanDeleteDraft(d) ==
  /\ toml # NoDoc
  /\ d.section \notin Single \cup {"contact"}
  /\ IF d.section = "network" THEN CanDeleteNetwork(toml, d.index)
     ELSE d.key # NoKey /\ CanDelete(toml, d.section, d.key)

UiFormDelete ==
  /\ draft # NoDraft /\ CanDeleteDraft(draft)
  /\ ApplyCodeplug(IF draft.section = "network" THEN DeleteNetwork(toml, draft.index)
                   ELSE DeleteKeyed(toml, draft.section, draft.key))
  /\ draft' = NoDraft

\* Position of the neighbour a talkgroup is exchanged with.
Neighbour(pos, up) == IF up THEN pos - 1 ELSE pos + 1

Exchanged(seq, i, j) == [seq EXCEPT ![i] = seq[j], ![j] = seq[i]]

KeysAt(members) == [n \in DOMAIN members |-> codeplug["talkgroup"][members[n]].key]

\* The two talkgroups alone are numbered, from nought.
Reordered_Pair_X(members, pos, up) ==
  SetTalkgroupOrders(toml, SubSeq(KeysAt(Exchanged(members, pos, Neighbour(pos, up))),
                                  IF up THEN pos - 1 ELSE pos, IF up THEN pos ELSE pos + 1))

\* The whole folder is numbered in its new order.
Reordered(members, pos, up) ==
  SetTalkgroupOrders(toml, KeysAt(Exchanged(members, pos, Neighbour(pos, up))))

\* Members of the folder a talkgroup is filed under, and its place among them.
SiblingsOf(p) == FolderMembers(codeplug, TreeFolder(codeplug, Shown(codeplug, "talkgroup")[p]))
PlaceOf(p)    == CHOOSE n \in DOMAIN SiblingsOf(p) : SiblingsOf(p)[n] = Shown(codeplug, "talkgroup")[p]

UiTreeMove(p, up) ==
  /\ Neighbour(PlaceOf(p), up) \in DOMAIN SiblingsOf(p)
  /\ ApplyCodeplug(Reordered(SiblingsOf(p), PlaceOf(p), up))
  /\ UNCHANGED draft

\* The page of a contact is drawn once: what goes is the contact at its position, whoever
\* that is by now.
UiContactDelete(p) ==
  /\ CanDelete(toml, "contact", KeyAt(codeplug, "contact", p))
  /\ ApplyCodeplug(DeleteKeyed(toml, "contact", KeyAt(codeplug, "contact", p)))
  /\ UNCHANGED draft

-----------------------------------------------------------------------------
HandleEvent == HandleConnected \/ HandleDisconnected \/ HandleConfig

Lists == {"network", "folder", "talkgroup", "scanlist", "gateway", "contact"} \cap Editable

OnSettings == "home_display" \in Editable /\ OpenSettings
OnLists    == \E s \in Lists : UiProgAdd(s) \/ \E p \in Rows(codeplug, s) : UiProgOpen(s, p)
OnForm     == UiFormSave \/ UiFormCancel \/ UiFormDelete
OnTree     == /\ "talkgroup" \in Editable
              /\ \E p \in Rows(codeplug, "talkgroup"), up \in BOOLEAN : UiTreeMove(p, up)
OnContact  == /\ "contact" \in Editable
              /\ \E p \in Rows(codeplug, "contact") : UiContactDelete(p)

\* The operator leaves the screens alone after the last edit.
Operator == edits < MaxEdits /\ (OnSettings \/ OnLists \/ OnForm \/ OnTree \/ OnContact)

Loop == alive /\ (HandleEvent \/ PollTick \/ UiRefresh \/ Operator)

Next == Connect \/ Disconnect \/ Serve \/ Loop

Spec == Init /\ [][Next]_vars

-----------------------------------------------------------------------------
(* Properties.                                                              *)

Docs == ({toml, codeplug, config, settled}
         \cup {events[i].doc : i \in {j \in DOMAIN events : events[j].name = "config"}}
         \cup {wire[i].doc : i \in {j \in DOMAIN wire : wire[j].name = "set"}}) \ {NoDoc}

\* Whatever is edited on whichever text, renamed, moved or added, no two folders,
\* talkgroups, scan lists, gateways or contacts of one document have the same identity:
\* the writers find rows by it, and would change the wrong one.
KeysStayUnique == \A doc \in Docs : \A s \in Keyed : UniqueKeys(doc[s])

\* The rows of the old text but the one with the given identity are in the new text, in
\* the same order; a row that has none of their identities is new there.
OthersKept(old, new, k) ==
  LET kept == {i \in DOMAIN old : old[i].key # k}
      same == {m \in DOMAIN new : new[m].key # k /\ new[m].key \in KeysOf(old)}
  IN  /\ {old[i] : i \in kept} = {new[m] : m \in same}
      /\ \A i, j \in kept, m, n \in same :
           old[i] = new[m] /\ old[j] = new[n] => (i < j <=> m < n)

\* A single table has no other rows, and a network is addressed by its row and not by
\* what it is.
OnlyTouches(s, k) ==
  /\ s \in Single \cup {"network"} \/ OthersKept(toml[s], toml'[s], k)
  /\ \A t \in Sections \ {s} :
       \/ toml'[t] = toml[t]
       \/ s = "talkgroup" /\ t = "scanlist" /\ toml'[t] = Pruned(toml[t], k)

\* Saving or deleting changes the entry whose form was on the screen and no other,
\* although the text may have been replaced since the form was opened; a deleted
\* talkgroup also leaves the scan lists.  Of a network it is said only that nothing else
\* in the text changes: which network does is another matter.
FormEditsItsEntry ==
  [][UiFormSave \/ UiFormDelete => OnlyTouches(draft.section, draft.shown)]_vars

FolderKeys(doc, folder) ==
  LET members == FolderMembers(doc, folder)
  IN  [n \in DOMAIN members |-> doc["talkgroup"][members[n]].key]

AllFolders(doc) == {TreeFolder(doc, i) : i \in DOMAIN doc["talkgroup"]}

\* Moving a talkgroup exchanges it with the row above or below it in its folder, and
\* no talkgroup of any folder appears elsewhere, whatever numbers the text had.  A text
\* without anything to show leaves the lists of the text before it on the screens: a move
\* there is of rows that are no more, and changes nothing.
MoveExchangesRows ==
  [][\A p \in Rows(codeplug, "talkgroup"), up \in BOOLEAN :
       toml = codeplug /\ edits' # edits /\ UNCHANGED draft /\ UiTreeMove(p, up) =>
       \A f \in AllFolders(codeplug) :
         FolderKeys(codeplug', f) =
           IF f = TreeFolder(codeplug, Shown(codeplug, "talkgroup")[p])
           THEN Exchanged(FolderKeys(codeplug, f), PlaceOf(p), Neighbour(PlaceOf(p), up))
           ELSE FolderKeys(codeplug, f)]_vars

\* Nothing under way in either direction, and the loop uses the live link.
Quiet == /\ alive
         /\ events = <<>> /\ wire = <<>>
         /\ control_out # 0 /\ control_out = live

\* Once nothing is under way the program shows and edits what the stack has, however
\* edits, refreshes, refusals and lost links were interleaved.
InStepWhenQuiet == Quiet => toml = config

\* A saved text that reached the stack and was not refused is the stack's once nothing
\* is under way: no late answer puts an earlier one back.
LastSaveStands == Quiet /\ settled # NoDoc => config = settled

\* No edit and no answer stops the loop.
LoopSurvives == alive
=============================================================================
