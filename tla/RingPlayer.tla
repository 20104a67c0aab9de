----------------------------- MODULE RingPlayer -----------------------------
(***************************************************************************)
(* The ringtone player and everything in the loop that drives it: calls    *)
(* that ring, alert tones, previews with their timers, the preference and  *)
(* the clock tick.                                                         *)
(*                                                                         *)
(* The loop and the output callback share five atomics and no lock.  play, *)
(* beep and stop are sequences of writes (loop_todo), the callback a       *)
(* sequence of reads and then of writes (cb_reads, cb_stores); any order   *)
(* of the two is a behaviour.  The waves, the volume and the position in   *)
(* the wave are left out: one sample stands for one callback, and the      *)
(* tones of the three call categories for one preference.                  *)
(*                                                                         *)
(* An operator whose name ends in _X is a faulty variant of the operator   *)
(* defined after it; no behaviour of Spec uses it.                         *)
(***************************************************************************)
EXTENDS Naturals, Sequences

CONSTANTS
  Rings,       \* ringtones
  Alert,       \* an alert tone, played once
  NoTone,
  ToneLength,  \* callbacks an alert tone lasts
  MaxPreviews  \* bound: previews started

ASSUME RingAssumption ==
  /\ Alert \notin Rings /\ NoTone \notin Rings /\ Alert # NoTone
  /\ ToneLength \in Nat \ {0} /\ MaxPreviews \in Nat

VARIABLES
  shared,      \* Shared: buf, active, oneshot, remaining; and whether stream is open
  current,     \* current
  open_failed, \* history: the output device refused to open the last time it was asked
  cb_reads,    \* what the callback on its way has still to load
  cb_got,      \* what it has loaded
  cb_stores,   \* what it has still to store
  loop_todo,   \* what play, beep or stop has still to store
  sync_due,    \* the handler on its way has still to call sync_ringtone
  calls,       \* the call table is not empty
  incoming,    \* incoming_call is Some
  ring_enabled,     \* prefs.ring_enabled
  preferred,        \* prefs.ringtone_for the category of the call
  ring_preview_gen, \* ring_preview_gen
  timers            \* preview timers that have still to fire

device   == <<shared, open_failed>>
player   == <<device, current>>
callback == <<cb_reads, cb_got, cb_stores>>
handler  == <<loop_todo, sync_due>>
table    == <<calls, incoming>>
prefs    == <<ring_enabled, preferred>>
previews == <<ring_preview_gen, timers>>
vars     == <<player, callback, handler, table, prefs, previews>>

Tones == Rings \cup {Alert}

Flags  == {"active", "oneshot"}
Fields == Flags \cup {"buf", "remaining", "stream"}
Store  == ((Flags \cup {"stream"}) \X BOOLEAN)
          \cup ({"buf"} \X Tones) \cup ({"remaining"} \X (0..ToneLength))

Shared == [active: BOOLEAN, oneshot: BOOLEAN, stream: BOOLEAN,
           buf: Tones \cup {NoTone}, remaining: 0..ToneLength]

\* Every variable keeps its type; at most one timer per preview is pending.
RingTypeOK ==
  /\ shared \in Shared
  /\ current \in Tones \cup {NoTone} /\ open_failed \in BOOLEAN
  /\ cb_reads \in Seq(Fields) /\ cb_got \in Shared /\ cb_stores \in Seq(Store)
  /\ loop_todo \in Seq(Store) /\ sync_due \in BOOLEAN
  /\ calls \in BOOLEAN /\ incoming \in BOOLEAN /\ (incoming => calls)
  /\ ring_enabled \in BOOLEAN /\ preferred \in Rings
  /\ ring_preview_gen \in 0..MaxPreviews
  /\ timers \subseteq 1..ring_preview_gen

Silent == [active |-> FALSE, oneshot |-> FALSE, stream |-> FALSE,
           buf |-> NoTone, remaining |-> 0]

Init ==
  /\ shared = Silent /\ current = NoTone /\ open_failed = FALSE
  /\ cb_reads = <<>> /\ cb_got = Silent /\ cb_stores = <<>>
  /\ loop_todo = <<>> /\ sync_due = FALSE
  /\ calls = FALSE /\ incoming = FALSE
  /\ ring_enabled \in BOOLEAN /\ preferred \in Rings
  /\ ring_preview_gen = 0 /\ timers = {}

-----------------------------------------------------------------------------
(* The output callback.                                                     *)

CallbackIdle == cb_reads = <<>> /\ cb_stores = <<>>

Closing == loop_todo # <<>> /\ Head(loop_todo) = <<"stream", FALSE>>

CallbackStarts ==
  /\ shared.stream /\ ~Closing
  /\ CallbackIdle
  /\ cb_reads' = <<"active", "oneshot", "buf", "remaining">>
  /\ UNCHANGED <<player, cb_got, cb_stores, handler, table, prefs, previews>>

\* What the callback stores, from what it has loaded: a one-shot counts down, and
\* at its end both flags are cleared.
Outcome(got) ==
  LET left == IF got.active /\ got.remaining > 0 THEN got.remaining - 1 ELSE got.remaining
  IN  IF ~got.oneshot THEN <<>>
      ELSE <<<<"remaining", left>>>>
           \o (IF left = 0 THEN <<<<"active", FALSE>>, <<"oneshot", FALSE>>>> ELSE <<>>)

CallbackReads ==
  /\ cb_reads # <<>>
  /\ cb_got' = [cb_got EXCEPT ![Head(cb_reads)] = shared[Head(cb_reads)]]
  /\ cb_reads' = Tail(cb_reads)
  /\ cb_stores' = IF Len(cb_reads) = 1 THEN Outcome(cb_got') ELSE <<>>
  /\ UNCHANGED <<player, handler, table, prefs, previews>>

CallbackStores ==
  /\ cb_stores # <<>>
  /\ shared' = [shared EXCEPT ![Head(cb_stores)[1]] = Head(cb_stores)[2]]
  /\ cb_stores' = Tail(cb_stores)
  /\ UNCHANGED <<current, open_failed, cb_reads, cb_got, handler, table, prefs, previews>>

-----------------------------------------------------------------------------
(* play, beep and stop: what they test at once, what they store in order.   *)

\* The device is asked to open, unless it is open, and refuses.
OpenFails(field, value) ==
  /\ field = "stream" /\ value /\ ~shared.stream
  /\ open_failed' = TRUE
  /\ UNCHANGED shared

\* The loop's next store.  Closing the device waits for the callback.
LoopStores ==
  /\ loop_todo # <<>>
  /\ loop_todo' = Tail(loop_todo)
  /\ LET field == Head(loop_todo)[1]
         value == Head(loop_todo)[2]
     IN  /\ (Closing => CallbackIdle)
         /\ \/ /\ shared' = [shared EXCEPT ![field] = value]
               /\ open_failed' = (open_failed /\ ~(field = "stream" /\ value))
            \/ OpenFails(field, value)
  /\ UNCHANGED <<current, callback, sync_due, table, prefs, previews>>

\* A tone that is loaded is taken to be playing.
Play_Loaded_X(id) ==
  IF current = id
  THEN UNCHANGED <<loop_todo, current>>
  ELSE /\ loop_todo' = <<<<"buf", id>>, <<"oneshot", FALSE>>, <<"active", TRUE>>,
                         <<"stream", TRUE>>>>
       /\ current' = id

\* A tone that is on already is not restarted; the volume and the position left out,
\* an unknown tone never asked for.
Play(id) ==
  IF shared.active /\ current = id
  THEN UNCHANGED <<loop_todo, current>>
  ELSE /\ loop_todo' = <<<<"buf", id>>, <<"oneshot", FALSE>>, <<"active", TRUE>>,
                         <<"stream", TRUE>>>>
       /\ current' = id

\* Never over something that sounds.
Beep ==
  IF shared.active
  THEN UNCHANGED <<loop_todo, current>>
  ELSE /\ loop_todo' = <<<<"buf", Alert>>, <<"remaining", ToneLength>>, <<"oneshot", TRUE>>,
                         <<"active", TRUE>>, <<"stream", TRUE>>>>
       /\ current' = Alert

\* An alert tone is left to end by itself, and the device stays open.
Stop ==
  IF shared.oneshot /\ shared.active
  THEN UNCHANGED <<loop_todo, current>>
  ELSE /\ loop_todo' = <<<<"active", FALSE>>, <<"oneshot", FALSE>>, <<"stream", FALSE>>>>
       /\ current' = NoTone

NoSound == UNCHANGED <<loop_todo, current>>

-----------------------------------------------------------------------------
(* The loop.                                                                *)

LoopFree == loop_todo = <<>> /\ ~sync_due

\* sync_ringtone, at the start of push_calls.
SyncRingtone ==
  /\ loop_todo = <<>> /\ sync_due
  /\ sync_due' = FALSE
  /\ IF ring_enabled /\ incoming THEN Play(preferred) ELSE Stop
  /\ UNCHANGED <<device, callback, table, prefs, previews>>

\* A handler that changes the call table, with the floor tone of a call in it, and
\* ends in push_calls.  The call that rings may be of another category.
CallsChange ==
  /\ LoopFree
  /\ calls' \in BOOLEAN /\ incoming' \in BOOLEAN /\ (incoming' => calls')
  /\ sync_due' = TRUE
  /\ preferred' \in IF incoming' THEN Rings ELSE {preferred}
  /\ \/ NoSound
     \/ calls' /\ Beep
  /\ UNCHANGED <<device, callback, ring_enabled, previews>>

\* Only for a call that rings.
ClockTick_X ==
  /\ LoopFree
  /\ calls
  /\ sync_due' = incoming
  /\ UNCHANGED <<player, callback, loop_todo, table, prefs, previews>>

\* The clock of the main loop refreshes the calls.
ClockTick ==
  /\ LoopFree
  /\ calls
  /\ sync_due' = TRUE
  /\ UNCHANGED <<player, callback, loop_todo, table, prefs, previews>>

\* A ringtone is chosen, for the category of the call or for another: a preview,
\* unless a call rings.
UiRingSelect(id) ==
  /\ LoopFree
  /\ preferred' \in {id, preferred}
  /\ IF incoming
     THEN NoSound /\ UNCHANGED previews
     ELSE /\ ring_preview_gen < MaxPreviews
          /\ Play(id)
          /\ ring_preview_gen' = ring_preview_gen + 1
          /\ timers' = timers \cup {ring_preview_gen + 1}
  /\ UNCHANGED <<device, callback, sync_due, table, ring_enabled>>

UiRingToggle ==
  /\ LoopFree
  /\ ring_enabled' = ~ring_enabled
  /\ IF ring_enabled THEN Stop ELSE NoSound
  /\ UNCHANGED <<device, callback, sync_due, table, preferred, previews>>

\* Not during any call, ringing or not.
UiRingStopPreview_X(gen) ==
  /\ LoopFree
  /\ gen \in timers
  /\ timers' = timers \ {gen}
  /\ IF gen = ring_preview_gen /\ ~calls THEN Stop ELSE NoSound
  /\ UNCHANGED <<device, callback, sync_due, table, prefs, ring_preview_gen>>

\* The timer of a preview: only the latest stops the sound, and not a call's.
UiRingStopPreview(gen) ==
  /\ LoopFree
  /\ gen \in timers
  /\ timers' = timers \ {gen}
  /\ IF gen = ring_preview_gen /\ ~incoming THEN Stop ELSE NoSound
  /\ UNCHANGED <<device, callback, sync_due, table, prefs, ring_preview_gen>>

-----------------------------------------------------------------------------

Callback == CallbackStarts \/ CallbackReads \/ CallbackStores

Operator ==
  \/ \E id \in Rings : UiRingSelect(id)
  \/ UiRingToggle

Next ==
  \/ Callback \/ LoopStores \/ SyncRingtone
  \/ CallsChange \/ ClockTick \/ Operator
  \/ \E gen \in timers : UiRingStopPreview(gen)

Spec == Init /\ [][Next]_vars

\* A handler runs to its end, the clock ticks, and a callback that has started
\* returns.  Calls, buttons and timers may stay away.
FairSpec ==
  /\ Spec
  /\ WF_vars(LoopStores) /\ WF_vars(SyncRingtone) /\ SF_vars(ClockTick)
  /\ WF_vars(Callback)

-----------------------------------------------------------------------------
(* Properties.                                                              *)

Wanted  == ring_enabled /\ incoming
Looping == shared.active /\ ~shared.oneshot

\* A ringtone that loops between two handlers rings for a call, or is the latest
\* preview and its timer is still to fire: none is left to ring for ever.
RingsForAReason ==
  LoopFree /\ Looping /\ shared.buf \in Rings
    => Wanted \/ ring_preview_gen \in timers

\* The ringtone is in the buffer, loops, and the device that plays it is open.
Sounding == Looping /\ shared.buf \in Rings /\ shared.stream

\* While a call rings, the ringtone sounds or comes back, unless the device refused to
\* open: an alert tone that ends in the callback just as the ringtone starts silences it
\* until the next tick at most.
RingComesBack == Wanted ~> (Sounding \/ open_failed \/ ~Wanted)

\* During a call, a device that is open and plays nothing is closed again, or plays
\* again: the tick sees the end of an alert tone, which the callback does not report.
DeviceClosesInCall ==
  (shared.stream /\ ~shared.active /\ calls) ~> (~shared.stream \/ shared.active \/ ~calls)
=============================================================================
