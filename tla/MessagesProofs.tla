--------------------------- MODULE MessagesProofs ---------------------------
(***************************************************************************)
(* Theorems about Messages for every set of peers, every size of the       *)
(* reference counter and every number of texts and reports.                *)
(***************************************************************************)
EXTENDS Messages, TLAPS

-----------------------------------------------------------------------------
(* The inductive invariant.                                                 *)

\* Texts, the receipts handed out for them, those dropped and those asked for, as
\* mark_peer_read keeps them: a text is owed a receipt until it was sent or dropped.
Owed(ms, given, lost, due) ==
  /\ ms \subseteq StoredMessage
  /\ \A m, n \in ms : m.id = n.id => m = n
  /\ \A m \in ms : m.wants_consumed =>
       ~m.outgoing /\ ~m.conv.group /\ m.id \in due /\ m.id \notin lost
  /\ \A m \in ms : ~m.outgoing /\ m.id \in due =>
       given[m.id] = IF m.wants_consumed \/ m.id \in lost THEN 0 ELSE 1

\* No receipt is owed for what is read already, which is why open_thread may leave the
\* file alone when it finds nothing unread.
ReadIsAnswered(ms) == \A m \in ms : m.wants_consumed => ~m.read

\* Ids are counted, so what comes next is new to every history.
FreshIds ==
  /\ \A m \in messages : m.id < next_id
  /\ \A i \in Ids : i >= next_id => receipts[i] = 0 /\ i \notin asked /\ i \notin missed

MInv ==
  /\ MsgTypeOK
  /\ Owed(messages, receipts, missed, asked) /\ ReadIsAnswered(messages) /\ FreshIds
  /\ StoredAsShown /\ TicksJustified /\ DraftStaysWithPeer
  /\ thread # NoConv => ~thread.group

\* What no step may do to a tick.
NoTickBack ==
  \A m \in messages, n \in messages' :
    m.id = n.id => \/ n.state = m.state
                   \/ n.state = "FAILED"
                   \/ m.state = "SENDING"
                   \/ m.state = "DELIVERED" /\ n.state = "READ"

\* A report came for a text to this peer with this reference.
Came(ssi, reference, report) ==
  \E s \in sds : s.ssi = ssi /\ s.reference = reference /\ <<s.id, report>> \in told

\* The state of a text that was sent is shown for a reason.
Justified(m) ==
  /\ m.state = "FAILED"    => Came(m.conv.ssi, m.reference, "failure")
  /\ m.state = "READ"      => Came(m.conv.ssi, m.reference, "consumed")
  /\ m.state = "DELIVERED" => Came(m.conv.ssi, m.reference, "received")

LEMMA TicksAre == TicksJustified <=> \A m \in messages : m.outgoing => Justified(m)
BY DEF TicksJustified, Outgoing, Justified, Came

LEMMA MInvInit == Init => MInv
<1> SUFFICES ASSUME Init PROVE MInv
  OBVIOUS
<1>1. /\ messages = {} /\ next_ref = 0 /\ next_id = 0 /\ thread = NoConv /\ draft = NoConv
      /\ page = FALSE /\ linked = FALSE /\ sds = {} /\ told = {} /\ asked = {}
      /\ missed = {} /\ receipts = [i \in Ids |-> 0]
      /\ disk = [messages |-> {}, next_ref |-> 0, next_id |-> 0]
  BY DEF Init
<1>2. 0 \in Refs
  BY RefAssumption DEF Refs
<1>3. MsgTypeOK
  <2>1. disk \in [messages: SUBSET StoredMessage, next_ref: Refs, next_id: Nat]
    BY <1>1, <1>2
  <2>2. receipts \in [Ids -> 0..2]
    BY <1>1
  <2> QED BY <1>1, <1>2, <2>1, <2>2 DEF MsgTypeOK
<1>4. Owed(messages, receipts, missed, asked) /\ ReadIsAnswered(messages) /\ FreshIds
  BY <1>1 DEF Owed, ReadIsAnswered, FreshIds
<1>5. StoredAsShown /\ TicksJustified /\ DraftStaysWithPeer
  BY <1>1 DEF StoredAsShown, TicksJustified, Outgoing, DraftStaysWithPeer
<1> QED BY <1>1, <1>3, <1>4, <1>5 DEF MInv

-----------------------------------------------------------------------------
(* mark_peer_read.                                                          *)

\* It changes nothing of a text but the two flags, and clears both together.
LEMMA MarkedRead ==
  ASSUME NEW ms \in SUBSET StoredMessage, NEW conv, MarkPeerRead(conv, ms)
  PROVE  \A n \in messages' : \E m \in ms :
           /\ n \in StoredMessage
           /\ n.id = m.id /\ n.conv = m.conv /\ n.outgoing = m.outgoing
           /\ n.reference = m.reference /\ n.state = m.state
           /\ IF ~m.outgoing /\ m.conv = conv THEN n.read = TRUE /\ n.wants_consumed = FALSE
              ELSE n = m
<1>1. messages' = (ms \ From(conv, ms))
                    \cup {[m EXCEPT !.read = TRUE, !.wants_consumed = FALSE] : m \in From(conv, ms)}
  BY DEF MarkPeerRead
<1> SUFFICES ASSUME NEW n \in messages'
             PROVE  \E m \in ms :
                      /\ n \in StoredMessage
                      /\ n.id = m.id /\ n.conv = m.conv /\ n.outgoing = m.outgoing
                      /\ n.reference = m.reference /\ n.state = m.state
                      /\ IF ~m.outgoing /\ m.conv = conv THEN n.read = TRUE /\ n.wants_consumed = FALSE
                         ELSE n = m
  OBVIOUS
<1>2. CASE n \in ms \ From(conv, ms)
  BY <1>2 DEF From
<1>3. ASSUME NEW m \in From(conv, ms), n = [m EXCEPT !.read = TRUE, !.wants_consumed = FALSE]
      PROVE  /\ m \in ms /\ n \in StoredMessage /\ ~m.outgoing /\ m.conv = conv
             /\ n.id = m.id /\ n.conv = m.conv /\ n.outgoing = m.outgoing
             /\ n.reference = m.reference /\ n.state = m.state
             /\ n.read = TRUE /\ n.wants_consumed = FALSE
  BY <1>3 DEF From, StoredMessage
<1> QED BY <1>1, <1>2, <1>3

\* Every receipt that is owed for the conversation goes out, once, or is dropped; no
\* other is touched.
LEMMA MarkReadKeeps ==
  ASSUME NEW ms, NEW due, NEW conv \in Convs, ~conv.group,
         Owed(ms, receipts, missed, due), receipts \in [Ids -> 0..2], due \subseteq Ids,
         missed \subseteq Ids, MarkPeerRead(conv, ms)
  PROVE  /\ Owed(messages', receipts', missed', due)
         /\ receipts' \in [Ids -> 0..2] /\ missed' \subseteq Ids
         /\ \A i \in Ids : (\A m \in ms : m.id # i) =>
              receipts'[i] = receipts[i] /\ (i \in missed' <=> i \in missed)
<1>1. ms \in SUBSET StoredMessage /\ \A m \in ms : m.id \in Ids
  BY DEF Owed, StoredMessage
<1>2. \A n \in messages' : \E m \in ms :
           /\ n \in StoredMessage
           /\ n.id = m.id /\ n.conv = m.conv /\ n.outgoing = m.outgoing
           /\ n.reference = m.reference /\ n.state = m.state
           /\ IF ~m.outgoing /\ m.conv = conv THEN n.read = TRUE /\ n.wants_consumed = FALSE
              ELSE n = m
  BY <1>1, MarkedRead
<1> DEFINE now == {m.id : m \in {n \in From(conv, ms) : n.wants_consumed /\ ~conv.group}}
<1> DEFINE handed == /\ receipts' = [i \in Ids |-> IF i \in now /\ receipts[i] < 2
                                                   THEN receipts[i] + 1 ELSE receipts[i]]
                     /\ missed' = missed
           dropped == missed' = missed \cup now /\ receipts' = receipts
<1>3. handed \/ dropped
  BY DEF MarkPeerRead, SendReceipts
<1>4. \A i \in Ids : receipts[i] \in 0..2
  OBVIOUS
<1>5. ASSUME NEW m \in ms
      PROVE  m.id \in now <=> ~m.outgoing /\ m.conv = conv /\ m.wants_consumed
  <2>1. \A n \in ms : n.id = m.id => n = m
    BY DEF Owed
  <2> QED BY <2>1 DEF From
<1>6. now \subseteq Ids
  BY <1>1 DEF From
<1>7. \A i \in Ids : (\A m \in ms : m.id # i) => i \notin now
  BY DEF From
<1> HIDE DEF now
<1>8. receipts' \in [Ids -> 0..2] /\ missed' \subseteq Ids
  <2>1. CASE handed
    <3>1. \A i \in Ids : (IF i \in now /\ receipts[i] < 2
                          THEN receipts[i] + 1 ELSE receipts[i]) \in 0..2
      BY <1>4
    <3> QED BY <2>1, <3>1
  <2>2. CASE dropped
    BY <1>6, <2>2
  <2> QED BY <1>3, <2>1, <2>2
<1>9. \A i \in Ids : (\A m \in ms : m.id # i) =>
        receipts'[i] = receipts[i] /\ (i \in missed' <=> i \in missed)
  BY <1>3, <1>7
<1>10. ASSUME NEW n \in messages', NEW k \in messages', n.id = k.id
       PROVE  n = k
  <2>1. PICK m \in ms : /\ n \in StoredMessage
                        /\ n.id = m.id /\ n.conv = m.conv /\ n.outgoing = m.outgoing
                        /\ n.reference = m.reference /\ n.state = m.state
                        /\ IF ~m.outgoing /\ m.conv = conv
                           THEN n.read = TRUE /\ n.wants_consumed = FALSE ELSE n = m
    BY <1>2
  <2>2. PICK l \in ms : /\ k \in StoredMessage
                        /\ k.id = l.id /\ k.conv = l.conv /\ k.outgoing = l.outgoing
                        /\ k.reference = l.reference /\ k.state = l.state
                        /\ IF ~l.outgoing /\ l.conv = conv
                           THEN k.read = TRUE /\ k.wants_consumed = FALSE ELSE k = l
    BY <1>2
  <2>3. m = l
    BY <1>10, <2>1, <2>2 DEF Owed
  <2> QED BY <2>1, <2>2, <2>3 DEF StoredMessage
<1>11. ASSUME NEW n \in messages'
       PROVE  /\ n \in StoredMessage
              /\ n.wants_consumed =>
                   ~n.outgoing /\ ~n.conv.group /\ n.id \in due /\ n.id \notin missed'
              /\ ~n.outgoing /\ n.id \in due =>
                   receipts'[n.id] = IF n.wants_consumed \/ n.id \in missed' THEN 0 ELSE 1
  <2>1. PICK m \in ms : /\ n \in StoredMessage
                        /\ n.id = m.id /\ n.conv = m.conv /\ n.outgoing = m.outgoing
                        /\ n.reference = m.reference /\ n.state = m.state
                        /\ IF ~m.outgoing /\ m.conv = conv
                           THEN n.read = TRUE /\ n.wants_consumed = FALSE ELSE n = m
    BY <1>2
  <2>2. /\ m.wants_consumed =>
             ~m.outgoing /\ ~m.conv.group /\ m.id \in due /\ m.id \notin missed
        /\ ~m.outgoing /\ m.id \in due =>
             receipts[m.id] = IF m.wants_consumed \/ m.id \in missed THEN 0 ELSE 1
    BY DEF Owed
  <2>3. m.id \in Ids
    BY <1>1
  <2>4. CASE handed
    <3>1. missed' = missed
      BY <2>4
    <3>2. m.id \in now => receipts[m.id] = 0
      BY <1>5, <2>2
    <3>3. receipts'[m.id] = IF m.id \in now THEN 1 ELSE receipts[m.id]
      BY <2>3, <2>4, <3>2
    <3> QED BY <1>5, <2>1, <2>2, <3>1, <3>3
  <2>5. CASE dropped
    <3>1. missed' = missed \cup now /\ receipts' = receipts
      BY <2>5
    <3> QED BY <1>5, <2>1, <2>2, <3>1
  <2> QED BY <1>3, <2>4, <2>5
<1> QED BY <1>8, <1>9, <1>10, <1>11 DEF Owed

-----------------------------------------------------------------------------
(* The steps.                                                               *)

\* Reports come in and texts are sent; neither is ever taken back.
LEMMA StillCame ==
  ASSUME sds \subseteq sds', told \subseteq told', NEW m, NEW n, Justified(m),
         n.state = m.state, n.conv = m.conv, n.reference = m.reference
  PROVE  Justified(n)'
BY DEF Justified, Came

\* What is saved has its types.
LEMMA Saved ==
  ASSUME messages' \subseteq StoredMessage, next_ref' \in Refs, next_id' \in Nat, Save
  PROVE  /\ StoredAsShown'
         /\ disk' \in [messages: SUBSET StoredMessage, next_ref: Refs, next_id: Nat]
BY DEF Save, StoredAsShown

\* The screen changes, the store does not.
LEMMA ViewStep ==
  ASSUME MInv, UNCHANGED <<store, disk, history>>,
         thread' \in Convs \cup {NoConv}, draft' \in Convs \cup {NoConv}, page' \in BOOLEAN,
         linked' \in BOOLEAN,
         thread' # NoConv => ~thread'.group, DraftStaysWithPeer'
  PROVE  MInv' /\ NoTickBack
<1>1. /\ messages' = messages /\ next_ref' = next_ref /\ next_id' = next_id /\ disk' = disk
      /\ sds' = sds /\ told' = told /\ asked' = asked /\ receipts' = receipts /\ missed' = missed
  BY DEF store, history
<1>2. MsgTypeOK' /\ StoredAsShown' /\ TicksJustified'
  BY <1>1 DEF MInv, MsgTypeOK, StoredAsShown, TicksJustified, Outgoing
<1>3. Owed(messages, receipts, missed, asked)' /\ ReadIsAnswered(messages)' /\ FreshIds'
  BY <1>1 DEF MInv, FreshIds
<1>4. NoTickBack
  BY <1>1 DEF MInv, Owed, NoTickBack
<1> QED BY <1>2, <1>3, <1>4 DEF MInv

LEMMA QuietStep ==
  ASSUME MInv,
         OpenMessages \/ LeavePage \/ ReturnToPage \/ TypeText \/ LinkChange \/ UNCHANGED vars
  PROVE  MInv' /\ NoTickBack
<1>1. /\ thread \in Convs \cup {NoConv} /\ draft \in Convs \cup {NoConv} /\ page \in BOOLEAN
      /\ linked \in BOOLEAN
      /\ thread # NoConv => ~thread.group
      /\ DraftStaysWithPeer
  BY DEF MInv, MsgTypeOK
<1>2. UNCHANGED <<store, disk, history>>
  BY DEF OpenMessages, LeavePage, ReturnToPage, TypeText, LinkChange, vars
<1>3. CASE OpenMessages
  BY <1>1, <1>2, <1>3, ViewStep DEF OpenMessages, DraftStaysWithPeer
<1>4. CASE LeavePage
  BY <1>1, <1>2, <1>4, ViewStep DEF LeavePage, DraftStaysWithPeer
<1>5. CASE ReturnToPage
  BY <1>1, <1>2, <1>5, ViewStep DEF ReturnToPage, DraftStaysWithPeer
<1>6. CASE TypeText
  BY <1>1, <1>2, <1>6, ViewStep DEF TypeText, DraftStaysWithPeer
<1>7. CASE UNCHANGED vars
  BY <1>1, <1>2, <1>7, ViewStep DEF vars, view, DraftStaysWithPeer
<1>8. CASE LinkChange
  BY <1>1, <1>2, <1>8, ViewStep DEF LinkChange, view, DraftStaysWithPeer
<1> QED BY <1>3, <1>4, <1>5, <1>6, <1>7, <1>8

LEMMA OpenThreadStep ==
  ASSUME MInv, NEW ssi \in Ssis, OpenThread(ssi)
  PROVE  MInv' /\ NoTickBack
<1> DEFINE conv == [ssi |-> ssi, group |-> FALSE]
<1>1. /\ thread' = conv /\ page' = TRUE /\ draft' = NoConv
      /\ MarkPeerRead(conv, messages)
      /\ UNCHANGED <<next_ref, next_id, linked, sds, told, asked>>
      /\ SaveIfRead(conv)
  BY DEF OpenThread, ClearDraft
<1>2. conv \in Convs /\ ~conv.group
  BY DEF Convs
<1> HIDE DEF conv
<1>3. /\ MsgTypeOK /\ Owed(messages, receipts, missed, asked) /\ ReadIsAnswered(messages) /\ FreshIds
      /\ StoredAsShown /\ TicksJustified /\ messages \in SUBSET StoredMessage
      /\ receipts \in [Ids -> 0..2] /\ asked \subseteq Ids /\ missed \subseteq Ids
      /\ linked \in BOOLEAN
  BY DEF MInv, MsgTypeOK
<1>4. /\ Owed(messages', receipts', missed', asked) /\ receipts' \in [Ids -> 0..2] /\ missed' \subseteq Ids
      /\ \A i \in Ids : (\A m \in messages : m.id # i) =>
           receipts'[i] = receipts[i] /\ (i \in missed' <=> i \in missed)
  BY <1>1, <1>2, <1>3, MarkReadKeeps
<1>5. \A n \in messages' : \E m \in messages :
           /\ n \in StoredMessage
           /\ n.id = m.id /\ n.conv = m.conv /\ n.outgoing = m.outgoing
           /\ n.reference = m.reference /\ n.state = m.state
           /\ IF ~m.outgoing /\ m.conv = conv THEN n.read = TRUE /\ n.wants_consumed = FALSE
              ELSE n = m
  BY <1>1, <1>3, MarkedRead
<1>6. ReadIsAnswered(messages')
  BY <1>3, <1>5 DEF ReadIsAnswered
<1>7. FreshIds'
  <2>1. \A m \in messages' : m.id < next_id'
    BY <1>1, <1>3, <1>5 DEF FreshIds
  <2>2. ASSUME NEW i \in Ids, i >= next_id
        PROVE  receipts'[i] = 0 /\ i \notin asked /\ i \notin missed'
    <3>1. \A m \in messages : m.id # i
      <4> SUFFICES ASSUME NEW m \in messages, m.id = i PROVE FALSE
        OBVIOUS
      <4>1. m.id < next_id /\ next_id \in Nat /\ i \in Nat
        BY <1>3, RefAssumption DEF FreshIds, MsgTypeOK, Ids
      <4> QED BY <4>1, <2>2
    <3> QED BY <1>3, <1>4, <2>2, <3>1 DEF FreshIds
  <2> QED BY <1>1, <2>1, <2>2 DEF FreshIds
<1>8. TicksJustified'
  <2> SUFFICES ASSUME NEW n \in messages', n.outgoing PROVE Justified(n)'
    BY TicksAre DEF TicksJustified, Outgoing, Justified, Came
  <2>1. PICK m \in messages : /\ n.conv = m.conv /\ n.outgoing = m.outgoing
                              /\ n.reference = m.reference /\ n.state = m.state
    BY <1>5
  <2>2. Justified(m)
    BY <1>3, <2>1, TicksAre
  <2> QED BY <1>1, <2>1, <2>2, StillCame
<1>9. StoredAsShown' /\ disk' \in [messages: SUBSET StoredMessage, next_ref: Refs, next_id: Nat]
  <2>1. CASE \E m \in Inbound : m.conv = conv /\ ~m.read
    <3>1. Save
      BY <1>1, <2>1 DEF SaveIfRead
    <3>2. messages' \subseteq StoredMessage /\ next_ref' \in Refs /\ next_id' \in Nat
      BY <1>1, <1>3, <1>5 DEF MsgTypeOK
    <3> QED BY <3>1, <3>2, Saved
  <2>2. CASE ~\E m \in Inbound : m.conv = conv /\ ~m.read
    <3>1. disk' = disk
      BY <1>1, <2>2 DEF SaveIfRead
    <3>2. \A m \in From(conv, messages) : m.read = TRUE /\ m.wants_consumed = FALSE
      BY <1>3, <2>2 DEF From, Inbound, ReadIsAnswered, StoredMessage
    <3>3. \A m \in From(conv, messages) : [m EXCEPT !.read = TRUE, !.wants_consumed = FALSE] = m
      <4> SUFFICES ASSUME NEW m \in From(conv, messages)
                   PROVE  [m EXCEPT !.read = TRUE, !.wants_consumed = FALSE] = m
        OBVIOUS
      <4>1. m \in StoredMessage
        BY <1>3 DEF From
      <4> QED BY <3>2, <4>1 DEF StoredMessage
    <3>4. messages' = messages
      BY <1>1, <3>3 DEF MarkPeerRead, From
    <3> QED BY <1>1, <1>3, <3>1, <3>4 DEF StoredAsShown, MsgTypeOK
  <2> QED BY <2>1, <2>2
<1>10. MsgTypeOK'
  BY <1>1, <1>2, <1>3, <1>4, <1>9 DEF MsgTypeOK, Owed
<1>11. DraftStaysWithPeer' /\ (thread' # NoConv => ~thread'.group)
  BY <1>1, <1>2 DEF DraftStaysWithPeer
<1>12. NoTickBack
  BY <1>3, <1>5 DEF NoTickBack, Owed
<1> QED BY <1>1, <1>4, <1>6, <1>7, <1>8, <1>9, <1>10, <1>11, <1>12 DEF MInv

\* The text that is sent has an id and a record of its own.
LEMMA SendStep ==
  ASSUME MInv, Send
  PROVE  MInv' /\ NoTickBack
<1> DEFINE new == [id |-> next_id, conv |-> thread, outgoing |-> TRUE, reference |-> next_ref,
                   state |-> "SENDING", read |-> TRUE, wants_consumed |-> FALSE]
<1>1. /\ thread # NoConv /\ next_id \in Ids
      /\ messages' = messages \cup {new}
      /\ sds' = sds \cup {[id |-> next_id, ssi |-> thread.ssi, reference |-> next_ref]}
      /\ next_id' = next_id + 1 /\ next_ref' = (next_ref + 1) % RefMod
      /\ draft' = NoConv /\ Save
      /\ UNCHANGED <<thread, page, linked, told, asked, receipts, missed>>
  BY DEF Send, NextReference, ClearDraft
<1>2. /\ MsgTypeOK /\ Owed(messages, receipts, missed, asked) /\ ReadIsAnswered(messages) /\ FreshIds
      /\ TicksJustified /\ thread \in Convs /\ next_ref \in Refs /\ next_id \in Nat
  BY <1>1 DEF MInv, MsgTypeOK
<1>3. new \in StoredMessage
  BY <1>1, <1>2 DEF StoredMessage, States
<1>4. /\ new.id = next_id /\ new.outgoing = TRUE /\ new.wants_consumed = FALSE
      /\ new.state = "SENDING"
  OBVIOUS
<1> HIDE DEF new
<1>5. next_ref' \in Refs
  BY <1>1, <1>2, RefAssumption DEF Refs
<1>6. \A m \in messages : m.id < next_id /\ m.id \in Nat
  BY <1>2, RefAssumption DEF FreshIds, Owed, StoredMessage, Ids
<1>7. Owed(messages', receipts', missed', asked')
  BY <1>1, <1>2, <1>3, <1>4, <1>6 DEF Owed
<1>8. ReadIsAnswered(messages')
  BY <1>1, <1>2, <1>4 DEF ReadIsAnswered
<1>9. FreshIds'
  BY <1>1, <1>2, <1>4, <1>6, RefAssumption DEF FreshIds, Ids
<1>10. TicksJustified'
  <2> SUFFICES ASSUME NEW n \in messages', n.outgoing PROVE Justified(n)'
    BY TicksAre DEF TicksJustified, Outgoing, Justified, Came
  <2>1. CASE n = new
    BY <1>4, <2>1 DEF Justified
  <2>2. CASE n \in messages
    <3>1. Justified(n)
      BY <1>2, <2>2, TicksAre
    <3> QED BY <1>1, <3>1, StillCame
  <2> QED BY <1>1, <2>1, <2>2
<1>11. messages' \subseteq StoredMessage /\ next_id' \in Nat
  BY <1>1, <1>2, <1>3 DEF Owed
<1>12. StoredAsShown' /\ disk' \in [messages: SUBSET StoredMessage, next_ref: Refs, next_id: Nat]
  BY <1>1, <1>5, <1>11, Saved
<1>13. sds' \subseteq [id: Ids, ssi: Ssis, reference: Refs]
  BY <1>1, <1>2 DEF MsgTypeOK, Convs
<1>14. MsgTypeOK'
  BY <1>1, <1>2, <1>5, <1>7, <1>11, <1>12, <1>13 DEF MsgTypeOK, Owed
<1>15. DraftStaysWithPeer' /\ (thread' # NoConv => ~thread'.group)
  BY <1>1 DEF DraftStaysWithPeer, MInv
<1>16. NoTickBack
  BY <1>1, <1>2, <1>4, <1>6 DEF NoTickBack, Owed
<1> QED BY <1>7, <1>8, <1>9, <1>10, <1>12, <1>14, <1>15, <1>16 DEF MInv

LEMMA DeletesStep ==
  ASSUME MInv, messages' \subseteq messages, Save,
         UNCHANGED <<next_ref, next_id, draft, page, linked, history>>,
         thread' = thread \/ thread' = NoConv
  PROVE  MInv' /\ NoTickBack
<1>1. /\ MsgTypeOK /\ Owed(messages, receipts, missed, asked) /\ ReadIsAnswered(messages) /\ FreshIds
      /\ TicksJustified /\ DraftStaysWithPeer /\ (thread # NoConv => ~thread.group)
  BY DEF MInv
<1>2. /\ sds' = sds /\ told' = told /\ asked' = asked /\ receipts' = receipts /\ missed' = missed
      /\ next_ref' = next_ref /\ next_id' = next_id /\ draft' = draft /\ page' = page
  BY DEF history
<1>3. Owed(messages', receipts', missed', asked')
  BY <1>1, <1>2 DEF Owed
<1>4. ReadIsAnswered(messages') /\ FreshIds'
  BY <1>1, <1>2 DEF ReadIsAnswered, FreshIds
<1>5. StoredAsShown' /\ disk' \in [messages: SUBSET StoredMessage, next_ref: Refs, next_id: Nat]
  BY <1>1, <1>2, Saved DEF MsgTypeOK
<1>6. TicksJustified'
  <2> SUFFICES ASSUME NEW n \in messages', n.outgoing PROVE Justified(n)'
    BY TicksAre DEF TicksJustified, Outgoing, Justified, Came
  <2>1. Justified(n)
    BY <1>1, TicksAre
  <2> QED BY <1>2, <2>1, StillCame
<1>7. MsgTypeOK'
  BY <1>1, <1>2, <1>5 DEF MsgTypeOK
<1>8. DraftStaysWithPeer' /\ (thread' # NoConv => ~thread'.group)
  BY <1>1, <1>2 DEF DraftStaysWithPeer
<1>9. NoTickBack
  BY <1>1 DEF NoTickBack, Owed
<1> QED BY <1>3, <1>4, <1>5, <1>6, <1>7, <1>8, <1>9 DEF MInv

\* A text that comes in is filed with what it asks for; on the page of its conversation it
\* is read, and answered, at once.
LEMMA MessageInStep ==
  ASSUME MInv, NEW conv \in Convs, NEW receipt \in BOOLEAN, MessageIn(conv, receipt)
  PROVE  MInv' /\ NoTickBack
<1> DEFINE new == [id |-> next_id, conv |-> conv, outgoing |-> FALSE, reference |-> 0,
                   state |-> "INBOUND", read |-> (thread = conv),
                   wants_consumed |-> receipt /\ ~conv.group]
<1>1. /\ next_id \in Ids
      /\ next_id' = next_id + 1
      /\ asked' = IF new.wants_consumed THEN asked \cup {next_id} ELSE asked
      /\ IF thread = conv THEN MarkPeerRead(conv, messages \cup {new})
                          ELSE messages' = messages \cup {new} /\ UNCHANGED <<receipts, missed>>
      /\ UNCHANGED <<next_ref, view, linked, sds, told>>
      /\ Save
  BY DEF MessageIn
<1>2. /\ MsgTypeOK /\ Owed(messages, receipts, missed, asked) /\ ReadIsAnswered(messages) /\ FreshIds
      /\ TicksJustified /\ DraftStaysWithPeer /\ (thread # NoConv => ~thread.group)
      /\ next_ref \in Refs /\ next_id \in Nat
      /\ receipts \in [Ids -> 0..2] /\ asked \subseteq Ids /\ missed \subseteq Ids
      /\ linked \in BOOLEAN
  BY DEF MInv, MsgTypeOK
<1>3. new \in StoredMessage
  <2>1. 0 \in Refs
    BY RefAssumption DEF Refs
  <2>2. conv.group \in BOOLEAN
    BY DEF Convs
  <2> QED BY <1>1, <2>1, <2>2 DEF StoredMessage, States
<1>4. /\ new.id = next_id /\ new.outgoing = FALSE /\ new.conv = conv /\ new.state = "INBOUND"
      /\ (new.wants_consumed => ~conv.group) /\ (new.read <=> thread = conv)
  OBVIOUS
<1> HIDE DEF new
<1>5. \A m \in messages : m.id < next_id /\ m.id \in Nat /\ m.id # next_id
  BY <1>2, RefAssumption DEF FreshIds, Owed, StoredMessage, Ids
<1>6. receipts[next_id] = 0 /\ next_id \notin asked /\ next_id \notin missed
  BY <1>1, <1>2 DEF FreshIds
<1>7. asked' \subseteq Ids /\ (next_id \in asked' <=> new.wants_consumed)
      /\ asked \subseteq asked' /\ asked' \subseteq asked \cup {next_id}
  BY <1>1, <1>2, <1>6
<1> DEFINE ms == messages \cup {new}
<1>8. Owed(ms, receipts, missed, asked')
  <2>1. ms \subseteq StoredMessage /\ \A m, n \in ms : m.id = n.id => m = n
    BY <1>2, <1>3, <1>4, <1>5 DEF Owed
  <2>2. \A m \in ms : m.wants_consumed =>
          ~m.outgoing /\ ~m.conv.group /\ m.id \in asked' /\ m.id \notin missed
    BY <1>2, <1>4, <1>6, <1>7 DEF Owed
  <2>3. ASSUME NEW m \in ms, ~m.outgoing, m.id \in asked'
        PROVE  receipts[m.id] = IF m.wants_consumed \/ m.id \in missed THEN 0 ELSE 1
    <3>1. CASE m = new
      BY <1>4, <1>6, <1>7, <2>3, <3>1
    <3>2. CASE m \in messages
      BY <1>2, <1>5, <1>7, <2>3, <3>2 DEF Owed
    <3> QED BY <3>1, <3>2
  <2> QED BY <2>1, <2>2, <2>3 DEF Owed
<1> HIDE DEF ms
<1>9. /\ Owed(messages', receipts', missed', asked') /\ receipts' \in [Ids -> 0..2] /\ missed' \subseteq Ids
      /\ \A i \in Ids : (\A m \in ms : m.id # i) =>
           receipts'[i] = receipts[i] /\ (i \in missed' <=> i \in missed)
      /\ \A n \in messages' : \E m \in ms :
           /\ n.id = m.id /\ n.conv = m.conv /\ n.outgoing = m.outgoing
           /\ n.reference = m.reference /\ n.state = m.state
           /\ IF thread = conv /\ ~m.outgoing /\ m.conv = conv
              THEN n.read = TRUE /\ n.wants_consumed = FALSE ELSE n = m
  <2>1. CASE thread = conv
    <3>1. MarkPeerRead(conv, ms) /\ ~conv.group
      BY <1>1, <1>2, <2>1, ConvAssumption DEF ms
    <3>2. ms \in SUBSET StoredMessage
      BY <1>8 DEF Owed
    <3>3. \A n \in messages' : \E m \in ms :
             /\ n \in StoredMessage
             /\ n.id = m.id /\ n.conv = m.conv /\ n.outgoing = m.outgoing
             /\ n.reference = m.reference /\ n.state = m.state
             /\ IF ~m.outgoing /\ m.conv = conv THEN n.read = TRUE /\ n.wants_consumed = FALSE
                ELSE n = m
      BY <3>1, <3>2, MarkedRead
    <3>4. /\ Owed(messages', receipts', missed', asked')
          /\ receipts' \in [Ids -> 0..2] /\ missed' \subseteq Ids
          /\ \A i \in Ids : (\A m \in ms : m.id # i) =>
               receipts'[i] = receipts[i] /\ (i \in missed' <=> i \in missed)
      BY <1>2, <1>7, <1>8, <3>1, MarkReadKeeps
    <3> QED BY <2>1, <3>3, <3>4
  <2>2. CASE thread # conv
    <3>1. messages' = ms /\ receipts' = receipts /\ missed' = missed
      BY <1>1, <2>2 DEF ms
    <3> QED BY <1>2, <1>8, <2>2, <3>1
  <2> QED BY <2>1, <2>2
<1>10. ReadIsAnswered(messages')
  <2> SUFFICES ASSUME NEW n \in messages', n.wants_consumed PROVE ~n.read
    BY DEF ReadIsAnswered
  <2>1. PICK m \in ms : IF thread = conv /\ ~m.outgoing /\ m.conv = conv
                        THEN n.read = TRUE /\ n.wants_consumed = FALSE ELSE n = m
    BY <1>9
  <2>2. n = m /\ ~(thread = conv /\ ~m.outgoing /\ m.conv = conv)
    BY <2>1
  <2>3. CASE m = new
    BY <1>4, <2>2, <2>3
  <2>4. CASE m \in messages
    BY <1>2, <2>2, <2>4 DEF ReadIsAnswered
  <2> QED BY <2>3, <2>4 DEF ms
<1>11. FreshIds'
  <2>1. \A m \in ms : m.id < next_id + 1
    BY <1>2, <1>4, <1>5 DEF ms
  <2>2. ASSUME NEW i \in Ids, i >= next_id + 1
        PROVE  receipts'[i] = 0 /\ i \notin asked' /\ i \notin missed'
    <3>1. i \in Nat
      BY RefAssumption DEF Ids
    <3>2. \A m \in ms : m.id # i
      BY <1>2, <1>4, <1>5, <2>2, <3>1 DEF ms
    <3>3. receipts[i] = 0 /\ i \notin asked /\ i \notin missed /\ i # next_id
      BY <1>2, <2>2, <3>1 DEF FreshIds
    <3> QED BY <1>7, <1>9, <3>2, <3>3
  <2> QED BY <1>1, <1>9, <2>1, <2>2 DEF FreshIds
<1>12. TicksJustified'
  <2> SUFFICES ASSUME NEW n \in messages', n.outgoing PROVE Justified(n)'
    BY TicksAre DEF TicksJustified, Outgoing, Justified, Came
  <2>1. PICK m \in ms : /\ n.conv = m.conv /\ n.outgoing = m.outgoing
                        /\ n.reference = m.reference /\ n.state = m.state
    BY <1>9
  <2>2. Justified(m)
    BY <1>2, <1>4, <2>1, TicksAre DEF ms
  <2> QED BY <1>1, <2>1, <2>2, StillCame
<1>13. messages' \subseteq StoredMessage /\ next_id' \in Nat /\ next_ref' \in Refs
  BY <1>1, <1>2, <1>9 DEF Owed
<1>14. StoredAsShown' /\ disk' \in [messages: SUBSET StoredMessage, next_ref: Refs, next_id: Nat]
  BY <1>1, <1>13, Saved
<1>15. MsgTypeOK'
  BY <1>1, <1>2, <1>7, <1>9, <1>13, <1>14 DEF MsgTypeOK, Owed, view
<1>16. DraftStaysWithPeer' /\ (thread' # NoConv => ~thread'.group)
  BY <1>1, <1>2 DEF DraftStaysWithPeer, view
<1>17. NoTickBack
  <2> SUFFICES ASSUME NEW m \in messages, NEW n \in messages', m.id = n.id PROVE n.state = m.state
    BY DEF NoTickBack
  <2>1. PICK k \in ms : n.id = k.id /\ n.state = k.state
    BY <1>9
  <2>2. k = m
    BY <1>2, <1>4, <1>5, <2>1 DEF ms, Owed
  <2> QED BY <2>1, <2>2
<1> QED BY <1>9, <1>10, <1>11, <1>12, <1>14, <1>15, <1>16, <1>17 DEF MInv

\* A report changes the ticks of the texts it is about, and only forward.
LEMMA ReportStep ==
  ASSUME MInv, Report
  PROVE  MInv' /\ NoTickBack
<1>1. /\ MsgTypeOK /\ Owed(messages, receipts, missed, asked) /\ ReadIsAnswered(messages) /\ FreshIds
      /\ StoredAsShown /\ TicksJustified /\ DraftStaysWithPeer
      /\ (thread # NoConv => ~thread.group) /\ messages \subseteq StoredMessage
  BY DEF MInv, MsgTypeOK
<1>2. PICK s \in sds, report \in Reports :
        /\ ReportIn(s.ssi, s.reference, report)
        /\ told' = told \cup {<<s.id, report>>}
        /\ UNCHANGED <<sds, asked, receipts, missed>>
  BY DEF Report
<1> DEFINE hit == {m \in messages : About(m, s.ssi, s.reference)}
           new == CASE report = "failure"  -> "FAILED"
                    [] report = "consumed" -> "READ"
                    [] OTHER               -> "DELIVERED"
           Told(m) == [m EXCEPT !.state = Newer(@, new)]
<1>3. /\ messages' = (messages \ hit) \cup {Told(m) : m \in hit}
      /\ UNCHANGED <<next_ref, next_id, view, linked>>
      /\ IF hit # {} THEN Save ELSE UNCHANGED disk
  BY <1>2 DEF ReportIn
<1>4. new \in States
  BY DEF States
<1>5. ASSUME NEW m \in StoredMessage
      PROVE  /\ Told(m) \in StoredMessage /\ Told(m).state = Newer(m.state, new)
             /\ Told(m).id = m.id /\ Told(m).conv = m.conv /\ Told(m).outgoing = m.outgoing
             /\ Told(m).reference = m.reference /\ Told(m).read = m.read
             /\ Told(m).wants_consumed = m.wants_consumed
  <2> HIDE DEF new
  <2>1. Newer(m.state, new) \in States
    BY <1>4 DEF StoredMessage, Newer
  <2> QED BY <2>1 DEF StoredMessage
<1>6. \A n \in messages' : \E m \in messages :
        /\ n = IF m \in hit THEN Told(m) ELSE m
        /\ n \in StoredMessage
        /\ n.id = m.id /\ n.conv = m.conv /\ n.outgoing = m.outgoing
        /\ n.reference = m.reference /\ n.read = m.read /\ n.wants_consumed = m.wants_consumed
        /\ n.state = IF m \in hit THEN Newer(m.state, new) ELSE m.state
  <2> SUFFICES ASSUME NEW n \in messages'
               PROVE  \E m \in messages :
                        /\ n = IF m \in hit THEN Told(m) ELSE m
                        /\ n \in StoredMessage
                        /\ n.id = m.id /\ n.conv = m.conv /\ n.outgoing = m.outgoing
                        /\ n.reference = m.reference /\ n.read = m.read
                        /\ n.wants_consumed = m.wants_consumed
                        /\ n.state = IF m \in hit THEN Newer(m.state, new) ELSE m.state
    OBVIOUS
  <2> HIDE DEF new, Told
  <2>1. CASE n \in messages \ hit
    BY <1>1, <2>1
  <2>2. ASSUME NEW m \in hit, n = Told(m) PROVE m \in messages /\ m \in StoredMessage
    BY <1>1
  <2> HIDE DEF hit
  <2>3. ASSUME NEW m \in hit, n = Told(m)
        PROVE  \E k \in messages :
                        /\ n = IF k \in hit THEN Told(k) ELSE k
                        /\ n \in StoredMessage
                        /\ n.id = k.id /\ n.conv = k.conv /\ n.outgoing = k.outgoing
                        /\ n.reference = k.reference /\ n.read = k.read
                        /\ n.wants_consumed = k.wants_consumed
                        /\ n.state = IF k \in hit THEN Newer(k.state, new) ELSE k.state
    BY <1>5, <2>2, <2>3
  <2> QED BY <1>3, <2>1, <2>3 DEF hit
<1>7. Owed(messages', receipts', missed', asked')
  <2>1. ASSUME NEW n \in messages', NEW k \in messages', n.id = k.id PROVE n = k
    <3> HIDE DEF new, Told, hit
    <3>1. PICK m \in messages : n = (IF m \in hit THEN Told(m) ELSE m) /\ n.id = m.id
      BY <1>6
    <3>2. PICK l \in messages : k = (IF l \in hit THEN Told(l) ELSE l) /\ k.id = l.id
      BY <1>6
    <3>3. m = l
      BY <1>1, <2>1, <3>1, <3>2 DEF Owed
    <3> QED BY <3>1, <3>2, <3>3
  <2>2. ASSUME NEW n \in messages'
        PROVE  /\ n \in StoredMessage
               /\ n.wants_consumed =>
                    ~n.outgoing /\ ~n.conv.group /\ n.id \in asked /\ n.id \notin missed
               /\ ~n.outgoing /\ n.id \in asked =>
                    receipts[n.id] = IF n.wants_consumed \/ n.id \in missed THEN 0 ELSE 1
    <3> HIDE DEF new, Told, hit
    <3>1. PICK m \in messages :
            /\ n \in StoredMessage /\ n.id = m.id /\ n.conv = m.conv /\ n.outgoing = m.outgoing
            /\ n.wants_consumed = m.wants_consumed
      BY <1>6
    <3> QED BY <1>1, <3>1 DEF Owed
  <2> QED BY <1>2, <2>1, <2>2 DEF Owed
<1> HIDE DEF new, Told, hit
<1>8. ReadIsAnswered(messages')
  BY <1>1, <1>6 DEF ReadIsAnswered
<1>9. FreshIds'
  BY <1>1, <1>2, <1>3, <1>6 DEF FreshIds
<1>10. TicksJustified'
  <2> SUFFICES ASSUME NEW n \in messages', n.outgoing PROVE Justified(n)'
    BY TicksAre DEF TicksJustified, Outgoing, Justified, Came
  <2>1. PICK m \in messages :
          /\ n.conv = m.conv /\ n.outgoing = m.outgoing /\ n.reference = m.reference
          /\ n.state = IF m \in hit THEN Newer(m.state, new) ELSE m.state
    BY <1>6
  <2>2. Justified(m)
    BY <1>1, <2>1, TicksAre
  <2>3. CASE n.state = m.state
    BY <1>2, <2>1, <2>2, <2>3, StillCame
  <2>4. CASE m \in hit /\ n.state = new
    <3>1. s.ssi = n.conv.ssi /\ s.reference = n.reference
      BY <2>1, <2>4 DEF hit, About
    <3>2. Came(n.conv.ssi, n.reference, report)'
      BY <1>2, <3>1 DEF Came
    <3>3. /\ new = "FAILED" => report = "failure"
          /\ new = "READ" => report = "consumed"
          /\ new = "DELIVERED" => report = "received"
      BY DEF new, Reports
    <3> QED BY <2>4, <3>2, <3>3 DEF Justified
  <2> QED BY <2>1, <2>3, <2>4 DEF Newer
<1>11. messages' \subseteq StoredMessage
  BY <1>7 DEF Owed
<1>12. StoredAsShown' /\ disk' \in [messages: SUBSET StoredMessage, next_ref: Refs, next_id: Nat]
  <2>1. CASE hit # {}
    BY <1>1, <1>3, <1>11, <2>1, Saved DEF MsgTypeOK
  <2>2. CASE hit = {}
    <3>1. messages' = messages /\ disk' = disk
      BY <1>3, <2>2
    <3> QED BY <1>1, <1>3, <3>1 DEF StoredAsShown, MsgTypeOK
  <2> QED BY <2>1, <2>2
<1>13. told' \subseteq Ids \X Reports
  BY <1>1, <1>2 DEF MsgTypeOK
<1>14. MsgTypeOK'
  BY <1>1, <1>2, <1>3, <1>7, <1>12, <1>13 DEF MsgTypeOK, Owed, view
<1>15. DraftStaysWithPeer' /\ (thread' # NoConv => ~thread'.group)
  BY <1>1, <1>3 DEF DraftStaysWithPeer, view
<1>16. NoTickBack
  <2> SUFFICES ASSUME NEW m \in messages, NEW n \in messages', m.id = n.id
               PROVE  \/ n.state = m.state \/ n.state = "FAILED" \/ m.state = "SENDING"
                      \/ m.state = "DELIVERED" /\ n.state = "READ"
    BY DEF NoTickBack
  <2>1. PICK k \in messages :
          n.id = k.id /\ n.state = IF k \in hit THEN Newer(k.state, new) ELSE k.state
    BY <1>6
  <2>2. k = m
    BY <1>1, <2>1 DEF Owed
  <2> QED BY <2>1, <2>2 DEF Newer
<1> QED BY <1>7, <1>8, <1>9, <1>10, <1>12, <1>14, <1>15, <1>16 DEF MInv

\* What is read back is what was shown.
LEMMA RestartStep ==
  ASSUME MInv, Restart
  PROVE  MInv' /\ NoTickBack
<1>1. /\ messages' = messages /\ next_ref' = next_ref /\ next_id' = next_id
  BY DEF MInv, StoredAsShown, Restart
<1>2. UNCHANGED <<store, disk, history>>
  BY <1>1 DEF store, Restart
<1> QED BY <1>2, ViewStep DEF Restart, DraftStaysWithPeer

LEMMA MInvStep == MInv /\ [Next]_vars => MInv' /\ NoTickBack
<1> SUFFICES ASSUME MInv, [Next]_vars PROVE MInv' /\ NoTickBack
  OBVIOUS
<1>1. ASSUME NEW m \in messages, Delete(m) PROVE MInv' /\ NoTickBack
  BY <1>1, DeletesStep DEF Delete, view
<1>2. ASSUME NEW conv \in Convs, DeleteThread(conv) PROVE MInv' /\ NoTickBack
  BY <1>2, DeletesStep DEF DeleteThread
<1> QED BY <1>1, <1>2, QuietStep, OpenThreadStep, SendStep, MessageInStep, ReportStep, RestartStep
        DEF Next, Operator, Network

LEMMA MInvHolds == Spec => []MInv
BY MInvInit, MInvStep, PTL DEF Spec

-----------------------------------------------------------------------------
(* Theorems.                                                                *)

\* Types, and no two texts share an id: restarts and deletions included.
THEOREM MsgTypeCorrect == Spec => []MsgTypeOK
<1>1. MInv => MsgTypeOK
  BY DEF MInv
<1> QED BY <1>1, MInvHolds, PTL

\* No handler changes the store and leaves the file behind: open_thread does not save when
\* it finds nothing unread, and then it has changed nothing.
THEOREM StoredAsShownHolds == Spec => []StoredAsShown
<1>1. MInv => StoredAsShown
  BY DEF MInv
<1> QED BY <1>1, MInvHolds, PTL

\* A tick is shown only when such a report came for a text to that peer with that reference,
\* however often the references wrap around and the program restarts.
THEOREM TicksJustifiedHolds == Spec => []TicksJustified
<1>1. MInv => TicksJustified
  BY DEF MInv
<1> QED BY <1>1, MInvHolds, PTL

\* A read receipt that was asked for is owed until the text is read; it is then sent exactly
\* once with a link and never without one, whatever comes later.
THEOREM ReceiptOwedOnceHolds == Spec => []ReceiptOwedOnce
<1>1. MInv => ReceiptOwedOnce
  BY DEF MInv, Owed, ReceiptOwedOnce, Inbound
<1> QED BY <1>1, MInvHolds, PTL

\* What is typed for one peer is not sent to another.
THEOREM DraftStaysWithPeerHolds == Spec => []DraftStaysWithPeer
<1>1. MInv => DraftStaysWithPeer
  BY DEF MInv
<1> QED BY <1>1, MInvHolds, PTL

\* A late or repeated report never takes a tick back.
THEOREM TicksNeverRegressHolds == Spec => TicksNeverRegress
<1>1. MInv /\ [Next]_vars =>
        [\A m \in messages, n \in messages' :
           m.id = n.id => \/ n.state = m.state
                          \/ n.state = "FAILED"
                          \/ m.state = "SENDING"
                          \/ m.state = "DELIVERED" /\ n.state = "READ"]_vars
  BY MInvStep DEF NoTickBack
<1> QED BY <1>1, MInvHolds, PTL DEF Spec, TicksNeverRegress
=============================================================================
