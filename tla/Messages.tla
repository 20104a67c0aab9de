------------------------------ MODULE Messages ------------------------------
(***************************************************************************)
(* SDS messages: the store of sent and received texts, the file that       *)
(* survives a restart, the conversation that is open, and the reports that *)
(* go both ways.                                                           *)
(*                                                                         *)
(* Peers and the network are outside: texts arrive at any time, and a      *)
(* report about a text that was sent may arrive late, again, out of order  *)
(* or never.  The control link comes and goes; telemetry has a connection  *)
(* of its own.  Without a link or without service a text is not sent and   *)
(* nothing changes, so Send is the case with both; a receipt is dropped    *)
(* without a link, and counts as sent when a link is handed it, even one   *)
(* that has died unnoticed.  Texts, times and names are abstracted, and    *)
(* only texts are stored: other protocol identifiers change nothing here.  *)
(*                                                                         *)
(* An operator whose name ends in _X is a faulty variant of the operator   *)
(* defined after it; no behaviour of Spec uses it.                         *)
(***************************************************************************)
EXTENDS Naturals, FiniteSets

CONSTANTS
  Ssis,      \* peers
  NoConv,    \* no conversation
  RefMod,    \* message references are counted modulo this; 256 in the code
  MaxSent,   \* bound: texts sent
  MaxRecv,   \* bound: texts received
  MaxTold    \* bound: different reports that come in

Convs == [ssi: Ssis, group: BOOLEAN]

ASSUME ConvAssumption == NoConv \notin Convs
ASSUME RefAssumption  == RefMod \in Nat \ {0} /\ MaxSent \in Nat /\ MaxRecv \in Nat
                         /\ MaxTold \in Nat

VARIABLES
  messages,  \* MessageStore.messages
  next_ref,  \* MessageStore.next_ref
  next_id,   \* MessageStore.next_id
  disk,      \* messages.json
  thread,    \* msg_thread_peer
  draft,     \* msg_draft: the conversation it was typed in, NoConv when blank
  page,      \* the screen shows the conversation
  linked,    \* control_out is Some; control_connected
  sds,       \* history: texts handed to the network with a report request
  told,      \* history: the reports that came in, by the text they were about
  asked,     \* history: received texts that asked for a read receipt
  receipts,  \* history: read receipts handed to the link, by text
  missed     \* history: texts whose receipt was dropped for want of a link

store   == <<messages, next_ref, next_id>>
view    == <<thread, draft, page>>
history == <<sds, told, asked, receipts, missed>>
vars    == <<store, disk, view, linked, history>>

Ids    == 0..(MaxSent + MaxRecv - 1)
Refs   == 0..(RefMod - 1)
States == {"SENDING", "DELIVERED", "READ", "FAILED", "INBOUND"}

StoredMessage == [id: Ids, conv: Convs, outgoing: BOOLEAN, reference: Refs,
                  state: States, read: BOOLEAN, wants_consumed: BOOLEAN]

Reports == {"received", "consumed", "failure"}

\* The store, the file and the view have their types, and no two messages share an id.
MsgTypeOK ==
  /\ messages \subseteq StoredMessage
  /\ \A m, n \in messages : m.id = n.id => m = n
  /\ next_ref \in Refs /\ next_id \in Nat
  /\ disk \in [messages: SUBSET StoredMessage, next_ref: Refs, next_id: Nat]
  /\ thread \in Convs \cup {NoConv} /\ draft \in Convs \cup {NoConv} /\ page \in BOOLEAN
  /\ sds \subseteq [id: Ids, ssi: Ssis, reference: Refs]
  /\ told \subseteq Ids \X Reports
  /\ asked \subseteq Ids
  /\ receipts \in [Ids -> 0..2] /\ missed \subseteq Ids /\ linked \in BOOLEAN

Init ==
  /\ messages = {} /\ next_ref = 0 /\ next_id = 0
  /\ disk = [messages |-> {}, next_ref |-> 0, next_id |-> 0]
  /\ thread = NoConv /\ draft = NoConv /\ page = FALSE /\ linked = FALSE
  /\ sds = {} /\ told = {} /\ asked = {} /\ missed = {}
  /\ receipts = [i \in Ids |-> 0]

-----------------------------------------------------------------------------
(* Effects shared by the handlers.                                          *)

Outgoing == {m \in messages : m.outgoing}
Inbound  == {m \in messages : ~m.outgoing}

\* MessageStore::save: the file is replaced as a whole.
Save == disk' = [messages |-> messages', next_ref |-> next_ref', next_id |-> next_id']

From(conv, ms) == {m \in ms : ~m.outgoing /\ m.conv = conv}

\* "Consumed reports are only meaningful for individual messages."  AppState::send
\* drops them without a link, and when the connection's thread has ended and the loop
\* has not been told; its answer is not looked at.
SendReceipts(conv, ms) ==
  LET due == {m.id : m \in {n \in ms : n.wants_consumed /\ ~conv.group}}
  IN  \/ /\ linked
         /\ receipts' = [i \in Ids |-> IF i \in due /\ receipts[i] < 2
                                       THEN receipts[i] + 1 ELSE receipts[i]]
         /\ UNCHANGED missed
      \/ missed' = missed \cup due /\ UNCHANGED receipts

\* The receipts stay owed.
MarkPeerRead_X(conv, ms) ==
  LET mine == From(conv, ms)
  IN  /\ messages' = (ms \ mine) \cup {[m EXCEPT !.read = TRUE] : m \in mine}
      /\ SendReceipts(conv, mine)

\* mark_peer_read: what the peer sent is read, and the receipts it asked for are no
\* longer owed, link or no link.
MarkPeerRead(conv, ms) ==
  LET mine == From(conv, ms)
  IN  /\ messages' = (ms \ mine)
                       \cup {[m EXCEPT !.read = TRUE, !.wants_consumed = FALSE] : m \in mine}
      /\ SendReceipts(conv, mine)

\* The file is left as it was.
SaveIfRead_X(conv) == UNCHANGED disk

SaveIfRead(conv) ==
  IF \E m \in Inbound : m.conv = conv /\ ~m.read THEN Save ELSE UNCHANGED disk

-----------------------------------------------------------------------------
(* The operator.                                                            *)

\* The draft is kept for the next conversation.
ClearDraft_X == UNCHANGED draft

ClearDraft == draft' = NoConv

\* open_thread, from the list, a contact, the call log or a typed number: always
\* the individual conversation.
OpenThread(ssi) ==
  LET conv == [ssi |-> ssi, group |-> FALSE]
  IN  /\ thread' = conv /\ page' = TRUE /\ ClearDraft
      /\ MarkPeerRead(conv, messages)
      /\ UNCHANGED <<next_ref, next_id, linked, sds, told, asked>>
      /\ SaveIfRead(conv)

\* UiOpenMessages: the list of conversations.
OpenMessages ==
  /\ ~page
  /\ thread' = NoConv
  /\ UNCHANGED <<store, disk, draft, page, linked, history>>

\* Back, Home or a call leaves the conversation; the loop is not told.
LeavePage ==
  /\ page /\ page' = FALSE
  /\ UNCHANGED <<store, disk, thread, draft, linked, history>>

\* Back from the in-call screen shows the same conversation again.
ReturnToPage ==
  /\ ~page /\ thread # NoConv
  /\ page' = TRUE
  /\ UNCHANGED <<store, disk, thread, draft, linked, history>>

\* UiMsgKey
TypeText ==
  /\ page /\ draft = NoConv
  /\ draft' = thread
  /\ UNCHANGED <<store, disk, thread, page, linked, history>>

NextReference == next_ref' = (next_ref + 1) % RefMod

\* send_message, past require_service
Send ==
  /\ linked
  /\ page /\ thread # NoConv /\ draft # NoConv
  /\ Cardinality(sds) < MaxSent /\ next_id \in Ids
  /\ messages' = messages \cup
       {[id |-> next_id, conv |-> thread, outgoing |-> TRUE, reference |-> next_ref,
         state |-> "SENDING", read |-> TRUE, wants_consumed |-> FALSE]}
  /\ sds' = sds \cup {[id |-> next_id, ssi |-> thread.ssi, reference |-> next_ref]}
  /\ next_id' = next_id + 1
  /\ NextReference /\ ClearDraft /\ Save
  /\ UNCHANGED <<thread, page, linked, told, asked, receipts, missed>>

\* UiMsgDelete: by the id of the bubble, on the page of the conversation.
Delete(m) ==
  /\ page /\ m.conv = thread
  /\ messages' = messages \ {m}
  /\ UNCHANGED <<next_ref, next_id, view, linked, history>>
  /\ Save

\* UiMsgDeleteThread: from the list; an open conversation is closed with it.
DeleteThread(conv) ==
  /\ ~page
  /\ \E m \in messages : m.conv = conv
  /\ messages' = {m \in messages : m.conv # conv}
  /\ thread' = IF thread = conv THEN NoConv ELSE thread
  /\ UNCHANGED <<next_ref, next_id, draft, page, linked, history>>
  /\ Save

-----------------------------------------------------------------------------
(* Telemetry.                                                               *)

\* handle_sds_message_in, for a text.  Its reference only matters to the sender, who
\* gets it back in the receipt; here it is always 0.
MessageIn(conv, receipt) ==
  LET open == thread = conv
      m    == [id |-> next_id, conv |-> conv, outgoing |-> FALSE, reference |-> 0,
               state |-> "INBOUND", read |-> open, wants_consumed |-> receipt /\ ~conv.group]
  IN  /\ next_id \in Ids /\ next_id - Cardinality(sds) < MaxRecv
      /\ next_id' = next_id + 1
      /\ asked' = IF m.wants_consumed THEN asked \cup {next_id} ELSE asked
      /\ IF open THEN MarkPeerRead(conv, messages \cup {m})
                 ELSE messages' = messages \cup {m} /\ UNCHANGED <<receipts, missed>>
      /\ UNCHANGED <<next_ref, view, linked, sds, told>>
      /\ Save

\* The report that came last wins.
Newer_X(state, new) == new

Newer(state, new) ==
  IF new = "FAILED" THEN new
  ELSE IF state = "SENDING" \/ (state = "DELIVERED" /\ new = "READ") THEN new ELSE state

\* The reference is not compared.
About_X(m, ssi, reference) == m.outgoing /\ m.conv.ssi = ssi

About(m, ssi, reference) == m.outgoing /\ m.conv.ssi = ssi /\ m.reference = reference

\* handle_sds_report_in
ReportIn(ssi, reference, report) ==
  LET hit == {m \in messages : About(m, ssi, reference)}
      new == CASE report = "failure"  -> "FAILED"
               [] report = "consumed" -> "READ"
               [] OTHER               -> "DELIVERED"
  IN  /\ messages' = (messages \ hit) \cup {[m EXCEPT !.state = Newer(@, new)] : m \in hit}
      /\ UNCHANGED <<next_ref, next_id, view, linked>>
      /\ IF hit # {} THEN Save ELSE UNCHANGED disk

\* The network reports about a text it was given, perhaps not for the first time.
Report ==
  \E s \in sds, report \in Reports :
    /\ ReportIn(s.ssi, s.reference, report)
    /\ told' = told \cup {<<s.id, report>>}
    /\ Cardinality(told') <= MaxTold
    /\ UNCHANGED <<sds, asked, receipts, missed>>

\* ControlConnected and ControlDisconnected, at any time.
LinkChange ==
  /\ linked' = ~linked
  /\ UNCHANGED <<store, disk, view, history>>

\* The program ends and is started again: MessageStore::load.
Restart ==
  /\ messages' = disk.messages /\ next_ref' = disk.next_ref /\ next_id' = disk.next_id
  /\ thread' = NoConv /\ draft' = NoConv /\ page' = FALSE /\ linked' = FALSE
  /\ UNCHANGED <<disk, history>>

-----------------------------------------------------------------------------

Operator ==
  \/ \E ssi \in Ssis : OpenThread(ssi)
  \/ OpenMessages \/ LeavePage \/ ReturnToPage \/ TypeText \/ Send
  \/ \E m \in messages : Delete(m)
  \/ \E conv \in Convs : DeleteThread(conv)

Network ==
  \/ \E conv \in Convs, receipt \in BOOLEAN : MessageIn(conv, receipt)
  \/ Report \/ LinkChange

Next == Operator \/ Network \/ Restart

Spec == Init /\ [][Next]_vars

-----------------------------------------------------------------------------
(* Properties.                                                              *)

\* Whatever the operator sees would survive a restart: no handler changes the store
\* and forgets to save it ("so conversations survive a UI restart").
StoredAsShown == disk = [messages |-> messages, next_ref |-> next_ref, next_id |-> next_id]

\* The ticks tell the truth: a text is shown as delivered, read or failed only if
\* such a report came for a text to that peer with that reference; while the
\* references of the peer's texts are distinct, that is this very text.
TicksJustified ==
  \A m \in Outgoing :
    LET Came(report) == \E s \in sds : /\ s.ssi = m.conv.ssi /\ s.reference = m.reference
                                       /\ <<s.id, report>> \in told
    IN  CASE m.state = "FAILED"    -> Came("failure")
          [] m.state = "READ"      -> Came("consumed")
          [] m.state = "DELIVERED" -> Came("received")
          [] OTHER                 -> TRUE

\* A late or repeated report never takes a tick back: a read text does not become
\* delivered again, and a failed one stays failed.
TicksNeverRegress ==
  [][\A m \in messages, n \in messages' :
       m.id = n.id => \/ n.state = m.state
                      \/ n.state = "FAILED"
                      \/ m.state = "SENDING"
                      \/ m.state = "DELIVERED" /\ n.state = "READ"]_vars

\* A read receipt that was asked for is owed until the text is read; then it is sent
\* exactly once, or dropped for want of a link and never sent: neither reading again nor
\* a restart sends a second one or makes up for one that was dropped.
ReceiptOwedOnce ==
  \A m \in Inbound :
    m.id \in asked =>
      receipts[m.id] = IF m.wants_consumed \/ m.id \in missed THEN 0 ELSE 1

\* What is typed for one peer is not sent to another.
DraftStaysWithPeer == draft # NoConv /\ thread # NoConv => draft = thread
=============================================================================
