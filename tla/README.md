# Verification of the TETRA bluestation MMI

TLA+ models of the radio's user-interface program, TLC configurations that check them on
small instances, and TLAPS proofs for every instance. File names below are relative to the
repository; `app.rs` stands for `src/app.rs` and so on.

    tlc -config CallSettle.cfg MCCallSystem.tla      # any run of the table below
    tlapm CallControlProofs.tla                      # the proofs: every *Proofs.tla

## 1. The system

The MMI is one process. The protocol stack of the radio is another process, outside this
repository, that dials two WebSocket servers of the MMI: a *control* channel (commands and
their answers) and a *telemetry* channel (events).

    stack --telemetry--> thread per connection --\
    stack <--control---> thread per connection ---+--> one unbounded queue --> app loop --> UI
    timers (2 s poll, 1 s clock), UI callbacks,  -/      of AppEvent           |      \
    encoder thread, alert and preview timers                                   |       audio, ringtone
                                     control_out channel  <--------------------/

Everything that matters is decided in the single-threaded loop `app::run`, one event at a
time, so a handler is atomic with respect to the others. What is hard is what lies between
two handlers: the two sockets are not ordered with respect to each other, a command and the
event it crosses are both true, a connection may end and be replaced while events of the old
one are queued, and state that several handlers clear is cleared by each of them differently.

| Component | State | Operations | Correct when |
|---|---|---|---|
| Call control (`app.rs`) | call table, outgoing placeholder, group context, held PTT, hang-up markers, mute latch | telemetry arms, nine buttons, the link arms | the table agrees with the stack once nothing is under way; the microphone is open only for a call that may have it; ring tone, alert and log follow the calls |
| Control channel (`net.rs`, `app.rs`) | a thread and an out channel per connection; `control_out`, `have_config`, `pending` | accept, flush, read, end; connect, disconnect, message, poll | one session at a time; the loop uses the connection that works, with its own configuration, and goes back to no other |
| Telemetry channel (`net.rs`) | connection flag | forwards events, answers pings | events are handled in order |
| Messages (`app.rs`, `store.rs`) | message list, rolling reference, file, open conversation, draft | send, receive, report, open, delete, restart | ticks tell the truth, a receipt that is owed goes out once and only for what was read, nothing shown is lost |
| Call log (`calllog.rs`) | list of 200, missed count | add, delete, clear, mark seen | one entry per finished individual call |
| Ringtone (`ringtone.rs`) | flags shared with the output callback, the device | play, stop, one-shot tones, preview | rings while a call rings, and only then; the device is closed when nothing sounds |
| Audio engine (`audio.rs`) | streams, encoder target, queues of 3 and 8 frames, jitter buffer | open, close, point, play, capture, encode, decode | delay stays bounded and the newest speech gets through; no frame reaches a call left before it was spoken; each call starts with a full buffer |
| Talkgroups (`app.rs`) | selected and attached groups, cycler, folders, scan lists | cycle, select, attach, reconcile | what is shown is what the button acts on, and ends up as what the stack has |
| Codeplug (`codeplug.rs`, `app.rs`) | configuration text and what was parsed from it, the form that is open | edit, add, delete, move, apply | an edit changes the entry it was made on and no other; identities stay apart; what is shown is what the stack has |
| Alerts (`app.rs`) | generation counter, a timer thread per alert | show, dismiss, expire | an alert is hidden by its own timer or the operator |
| Cell survey, event log, preferences | rows, ring of 200, small files | scan; append; save | |

The hazards this code is exposed to, at the line where each bites, are listed in
`PROJECT.json` with the properties that cover them.

## 2. Modules

| Module | Models |
|---|---|
| `CallControl` | the call-control part of the loop, every arm as one action, in an environment that may send any event at any time |
| `CallControlProofs` | theorems about it, for every set of calls |
| `CallSystem` | `CallControl` closed with the two channels and a stack that follows the call protocol; refined by nothing, used for agreement and liveness |
| `CallSystemProofs` | theorems about the two sides together, for every set of calls and every bound |
| `LinkSessions` | abstract specification: one control session at a time |
| `ControlLink` | threads, out channels, event queue and loop of the control channel; connections may be up together; implements `LinkSessions` |
| `FreshQueue` | abstract specification: what a bounded voice queue promises when the producer must not wait |
| `VoiceQueue` | the channel `audio.rs` uses for it, with a receiver at the producer's end |
| `AudioPath` | the voice engine: loop, two callbacks, two threads and the two `VoiceQueue`s between them; each implements `FreshQueue` |
| `RingPlayer` | the ringtone player with its output callback, and the handlers and timers that drive it |
| `Home` | talkgroups, the home cycler and its drawing, alerts, and the state and configuration answers they depend on |
| `Messages` | the SDS store, its file, the open conversation and the reports |
| `Codeplug` | the configuration document: how it is read into sorted lists, and every operation that rewrites its text |
| `Programming` | the programming screens over a control channel that may be lost: forms, edits, late answers, refusals; uses `Codeplug` |
| `ProgrammingProofs` | what the readers and writers of `Codeplug` guarantee for every document, and theorems about `Programming` for every set of sections, identities, configurations and bounds |
| `ControlLinkProofs`, `AudioPathProofs`, `RingPlayerProofs`, `MessagesProofs`, `HomeProofs` | theorems about the module each is named after, for every value of its constants |
| `MC*` | the sets TLC uses for each of them |

Operators whose name ends in `_X` are faulty variants of the operator that follows them
(a dropped guard, a missing reset). No behaviour uses them; `PROJECT.json` pairs each with
the property that must notice it.

### CallControl

Variables carry the names of `AppState` fields (`calls`, `dialing`, `grp_call`, `ptt_held`,
`local_end`, `mic_muted`); an absent key of the table is the record `NoCall`. `uplink` and
`streams` are what the loop has told the audio engine, `ringing` what it has told the ringtone
player, `sent` and `logged` what the last handler put on the link and in the log. `connected`
stands for both `control_connected` and `control_out`, which the link arms set together;
`inService` and `attached` are the two queries on the stack's state that guards read.

A telemetry action is the whole tail of `handle_telemetry` and its caller:
`apply_call_event`, then `emit_ringing_alerts`, `push_calls` (which drives the ringtone) and
`sync_uplink`. Whether a handler calls `sync_uplink` or `push_calls` is taken from the code
arm by arm: answer, reject and the loss of the link do not resynchronise the microphone
(`NoSync`), and that is where the interesting states come from. A scan of the call map that
takes the first match is a choice over the matches, since the order of a hash map is
arbitrary. SSIs, labels and times are abstracted; an audio engine is present and the ring
preference is on.

### CallSystem

Two queues, `cmdq` and `telq`, and a call table `net` of the stack. The stack is external and
modelled from the commands `protocol.rs` builds and the events `apply_call_event` expects: a
call is set up, active and released; a setup indication may be repeated until the call is
answered, a release may be told twice ("the stack sends several release frames per call",
`app.rs:2310`); a setup may be rejected; an identifier is used again only when nothing about
the old call is under way. A simplex setup demands the floor, as `tncc_setup` asks. When the
control link drops, commands in flight are lost and telemetry is not. The telemetry socket
stays up.

### ControlLink and LinkSessions

One thread per accepted connection announces it, forwards, flushes and reports the end; the
loop hears of it through the queue only. The listener accepts at any time (`net.rs:166`), so
connections may be up together, typically an old one whose end nobody has noticed and its
successor; the history `overlapped` remembers which were. `PeerGone` is separate from `Break`:
until the thread notices, commands disappear. The handles of `pending` are issued as the code
issues them, the clock is abstracted (a command may be overdue when all older ones are).
`MaxHandle` bounds the commands; `Budget` keeps enough of it for the bootstrap of each
connection, so that the bound never blocks the loop on a connection. `MaxWire` and `MaxWaiting`
bound what is under way: a thread flushes, and the stack answers, only while there is room; announcing
and ending a connection need none. The refinement maps the session to `control_out`, its
configuration to `have_config` while a link is up, and the past sessions to the connections
that were heard of and are not in use. `LinkSessions` lets a session begin while another is in
progress, as `ControlConnected` does, and never lets one begin twice.

### AudioPath, VoiceQueue and FreshQueue

Variables carry the names of the fields of `AudioEngine`. `set_active` and `set_uplink` are
sequences of writes to atomics that the callbacks and threads read at any time, so after
`SyncUplink` has decided, each write is a step (`loop_todo`); dropping a stream waits for a
callback that is under way. What `CallControl` decides, whether devices are needed and which
call the encoder is pointed at, is an input here. `VoiceQueue` splits the send into the attempt
and, when the channel is full, the taking of the oldest item and the second attempt; the
consumer works between the two. The encoder thread takes, encodes and only then reads the call
and the hold. A frame is a number with the press it was captured in, a press being one pointing
of the encoder at a call; half a frame may stay in `acc`. A device may fail to open; a frame may
fail to decode. The output callback holds the lock of the buffer throughout and is one step that
asks for one frame.

### RingPlayer

`play`, `beep` and `stop` test first and then store field by field, and the callback loads
field by field and then stores: `loop_todo`, `cb_reads` and `cb_stores` hold what is left of
each, and any order is a behaviour. `stop` and the callback meet at the device: closing it waits
for the callback. A handler of the loop is done when `loop_todo` is empty and the `sync_ringtone`
it ends with has run. The device may refuse to open (`open_failed` remembers it). One callback plays one sample; a one-shot lasts `ToneLength` of them.

### Home

`state`, `codeplug`, `sel_folder`, `cycle_gssi` and `selected_tx` are the fields of `AppState`;
`shown` is what `push_ui` drew last, so a handler that forgets to draw is seen. Each function that
picks a folder or a talkgroup clamps and falls back as its code does: `CycleTarget`, `View`,
`Reconcile` and `Cycle` differ. Alerts are raised by the guards that refuse (`Offline`,
`Unregistered`) and by refused commands. Of the control channel only what this needs is kept:
commands and answers in order, lost with the connection. A scan list is a talkgroup. Telemetry
that moves the state is a count of nudges, any of which may never come.

### Messages

`thread` is `msg_thread_peer`; `page` is what the screen shows, which the loop does not know:
Back, Home and the in-call page leave the conversation without an event. `disk` is the file.
`linked` is whether `control_out` is there: a text is sent only with it, a conversation is opened
and a text comes in without it as well (telemetry is a socket of its own), and then the read
receipt is dropped by `send`, as it is when the thread of the connection has ended and the loop
has not been told. `receipts` and `missed` record what became of each receipt.
`told` records which reports really came, so that ticks can be compared with the truth.

### Codeplug and Programming

A document is a function from sections to sequences of entries, in the order of the text. An
entry keeps what the operations look at: its identity, its name, its `order` (or priority) and
the identities it refers to. Identities and names are numbers that compare like the strings
they stand for. `Listed` is the sorting of `Codeplug::parse`: a list on a screen maps positions
in the list to positions in the text. Every `upsert_*`, `delete_*`, `set_*` function of
`codeplug.rs` is an operator on documents with its refusals (`CanUpsert`, `CanDelete`) beside
it; a section addressed by identity (`Keyed`), the networks (addressed by position) and the
single tables are told apart as the code does.

`toml`, `codeplug`, `have_config`, `control_out` carry the names of `AppState` fields; `codeplug`
holds the text it was parsed from, since a text that does not parse leaves the old one. `draft`
is the form that is open (`prog_draft` or `contact_draft`; the screens let one be open at a
time), with the key or index it will be saved under and, as a history, the identity that was on
the screen when it was opened. `ApplyCodeplug` is the function of the code: stage, apply,
adopt, redraw, ask. The row a button names may have been drawn from an earlier text, so it is
any position of the present one. What was typed is chosen when the form is saved; texts the
writers refuse change nothing and are left out.

The stack is external: it serves one connection in order, applies what was staged or refuses
it, and answers a request with what it has. `SetConfig` and the `ApplyConfig` behind it are
taken as one, because the loop always sends them together. Commands and answers under way are
lost with the connection. `alive` is whether the loop has not panicked: drawing the home screen
indexes the first folder of the cycler.

## 3. Runs

| Run | Instance | Shows |
|---|---|---|
| `sys_settle` | one identifier used again and again, duplex and group calls from the network, simplex and group calls from here, 2 commands and 2 events in flight, rejects, repeats, link loss | no ghost call, no microphone on a call that ended; microphone, ringtone and placeholders agree with the table at every step; a call that waits for an answer keeps its kind |
| `sys_two` | two calls of any kind, 2 + 2 in flight | microphone, kind and log with two calls at once |
| `sys_live` | one call of any kind and duplex calls from here, 2 + 2 in flight, repeats, rejects, coverage that goes and comes back, with fairness | each floor demand of a PTT is paired with a cease; no connected call is lost; one ringing alert per call; hang-ups complete, dropped calls leave, answers resolve |
| `control_link` | two connections in any overlap, 8 commands, 1 on each wire, an answer joins no event that waits, with fairness | refinement of `LinkSessions`; the connection that comes alone is used, with its configuration, and for good if it stays up; a dead one does not stay in use |
| `messages` | two peers, 2 references, 3 texts out, 1 in, 2 different reports, a link that comes and goes | ticks, receipts, draft and file |
| `programming` | two talkgroups of a folder that were never numbered, a scan list, a gateway, a contact, two networks whose priorities are not in the order of the text; two edits of any section, two connections, refusals | identities stay apart, a form changes its own entry although the text was replaced, moves move one row, the program ends in step with the stack and no accepted edit is undone by a late answer |
| `audio_path` | two calls, queues of 3, cushion of 2 frames, 5 frames captured in 2 presses with 2 waiting for the loop, or 6 received | refinement of `FreshQueue` twice; speech and presses; the jitter buffer |
| `ring_player` | two ringtones, alert tones of 2 callbacks, 2 previews, any number of calls and handlers, a device that may refuse to open, with fairness | the ringtone and the device follow the calls whatever the callback does in between |
| `home` | three talkgroups in three folders, the last of which can be deleted, 3 commands and answers and 1 nudge under way, 2 changes of the stack, 2 alerts, with fairness | what is drawn, what the button does and what is keyed agree; the loop catches up with the stack; alerts and timers |
| `mic_after_loss`, `link_overlap`, `last_talkgroup` | smallest instance that shows it | disagreements of code and comments, section 6 |

*Bounds.* One identifier suffices where the property is about a call and its past: the
identifier is reused, so the past is there. Relations between calls (which one is keyed, bound
or logged) need two, in `sys_two`. Two messages in flight in each direction are enough for a
command and a telemetry event to cross while a second pair is on its way (a hang-up crossing a
confirm that is followed by a release). Two connections are an old one and a new one, which may overlap or not; what
holds with more of them the theorems of section 4 say. A bootstrap is three commands, so eight are two bootstraps and
a poll for state and configuration, and one on the wire with two in the out channel
are in the order they were sent.
Three texts with two references make the references wrap and two texts share one.

The encoder's queue has its real capacity of 3 and the decoder's 8 is cut to 3: the model of
the channel does not look at the number except to compare with it. Five captured frames fill the
queue, the encoder and the producer's hand; two presses give a call left and a call joined. The
directions of the audio path share nothing but the loop, the devices and the order of its
writes, so each behaviour of `MCAudioPath` exercises one of them with the other at rest: the sum
of two state spaces and not their product. Two callbacks give an alert tone a middle and an end;
two previews an early and a late timer. In `home`, three moves under way are an order, the
question behind it and an answer before it; deleting the last folder while it is shown is
what makes the clamps differ.

Two edits let the second start from a text that an answer to a request before the first has
put back; two connections lose what was under way between them. `MaxOut = 1` keeps the loop from
asking on its own while something is under way; what an edit and a connection ask for still
queues behind each other. One identity and one name that can be typed are enough for a clash
(the operator may add it twice) and for a rename. A configuration with
its only talkgroup has a run of its own, because what deleting it does is a finding.

*What is left out of a run's scope.* `sys_two` has no calls dialled here and `sys_live` none
but duplex ones, because `ModeAgrees`, `EveryCallLogged` and `FloorReturned` are not
true otherwise, for reasons known from their counterexamples: a call hung up before it had an
identifier connects without its placeholder; an incoming individual call may take a group
placeholder; a group PTT tapped before the call has an identifier never ceases; a dialled
simplex call demands the floor with its setup. Each is a hazard with its line in
`PROJECT.json`. With two calls, hanging up one clears the PTT of the other without a cease,
so `FloorReturned` is checked with one. `NoLostCalls` is checked with the link up: after a
loss of the link the table is empty on purpose. Coverage comes and goes in `sys_live` only: in
`sys_settle` it would double the states for properties whose guards it only closes. The type
invariants other than `TypeOK` (`SysTypeOK`, `LinkTypeOK`, `MsgTypeOK`, `ProgTypeOK`,
`AudioTypeOK`, `RingTypeOK`, `HomeTypeOK`) state the ranges for the reader and for the proofs of
section 4; they are not among the properties of the runs.

*Fairness.* `FairSpec` of `CallSystem` assumes that the loop takes the events it is sent (an
unbounded queue, a loop that blocks only on it) and that the stack executes the commands it
is sent. Nobody has to press a button and the network need not make progress. `FairSpec` of
`ControlLink` assumes the loop, and that the end of the connection the loop writes to is noticed
(`WF(control_out = c /\ Break(c))`): the poll of `main.rs:163` writes to it every two seconds. Of
a connection the loop has let go of nothing is assumed: nobody writes to it, and it may stay
half open for ever. Flushing
and answering are not assumed. In `RingPlayer` a handler that has begun ends, a callback that has
begun returns, and the clock ticks (`main.rs:174`): the tick is strongly fair because it waits
in the loop's queue while handlers run and is never dropped. In `Home` the stack serves, the loop
takes its answers and the two-second poll is strongly fair: the bound on commands under way, which the
code does not have, must not stop it for ever. Buttons, calls, timers and telemetry
are not fair anywhere.

*Deadlock* is checked in every run but those of `Programming`: there the operator stops after
the last edit, the last connection is not lost and the loop asks nothing while something is under
way, so the model comes to rest, and after a panic of the loop nothing happens at all.

## 4. Proofs

### Call control

`CallControlProofs` proves, for any set of call identifiers and any set of call kinds, with no
assumption beyond `NoCid \notin Cids` and the type of `Kinds`:

- `Invariance`: `Spec => []IInv`, where `IInv` is the conjunction of type correctness and
  `MutedMicSilent`, `UplinkOpensDevices`, `RingMatchesCalls`, `RingingAnnounced`,
  `AbsentCallsBlank`, `IntentNeedsLink` and `GroupPlaceholderHasContext`; the theorems for the
  single invariants follow from it;
- `AnnouncedOnceHolds` and `AirAccessHolds`, the two action properties.

The conjuncts need each other. An answer does not resynchronise the encoder, so
`UplinkOpensDevices` survives it only because the step keeps target and devices together; a
dial clears the mute latch without resynchronising, which is harmless only because a muted
microphone had no target. `RingingAnnounced` makes `AnnouncedOnce` provable: a step may send
an alert only for the call it makes ring, because no other was waiting. `AbsentCallsBlank`
is what `EnteredType` needs to say that a call that enters the table starts unmarked, and
`IntentNeedsLink` is carried through `GroupPlaceholderHasContext` in the PTT arms.

The argument has three layers. Lemmas about the operators (`BoundType`, `StampedType`,
`AnnouncedType`, `TargetSafe`, `SyncSafe`, `PushSafe`) say what each shared effect guarantees
whatever table it is given. `CallEventInv` combines them once for all the telemetry arms that
end alike; `ReleaseInv` and one lemma per button treat the others. `TelemetryInv`, `LinkInv`
and `OperatorInv` join them along the disjuncts of `Next`.

### Calls and the stack

`CallSystemProofs` proves the seven properties that relate the application's table to the network's
calls, for any set of identifiers, any bounds on the queues and any kinds. `SystemInvariance`
carries `IInv` over to `SysSpec` (a step of the system is a step of the call control or leaves it
alone) with the types of both queues. What remains is an invariant on the queues for each
property: what may be under way about a call, in which order, given what the two sides hold.

| Theorem | Invariant | Assumes |
|---|---|---|
| `NoGhostCallsHolds` | `EndsAnnounced`: for a call the network dropped, a release is under way behind everything else about it, as long as the table has it | nothing |
| `MicOnNetworkCallHolds` | `MicAnnounced`: the encoder is on such a call only with an event about it still to come | nothing |
| `NoLostCallsHolds` | `Followed`: per phase of the network's call, what is under way brings the table there, unless an end was asked for | no link loss |
| `EveryCallLoggedHolds` | `Accounted`: a call that was on the screen still is or is in the log, and group setups come first | no link loss, no group call dialled |
| `RingingKindAgreesHolds` | `OffersKept`: about an individual call that waits for its answer nothing is under way but announcements of its kind | nothing |
| `UplinkJustifiedHolds` | `MicJustified`, `RingingSettled`, `OffersSettled`: a call that can be answered is Incoming and nothing under way makes anything else of it | no link loss, no repeated indication, no group call dialled |
| `FloorReturnedHolds` | `FloorCovered`: a floor that is held or asked for is the held PTT's, or a cease is behind the demand, or the call is being ended | no link loss, one call, duplex dialled only |

The three without an assumption hold although commands may be lost at any moment, because the stack's
events are not, and the third whatever is dialled: `bind_dialing` works on events that only come once a call
is answered.

Once a call is answered its kind may be overwritten when a number is being dialled (section 6);
`ModeAgrees`, which says otherwise, is checked by TLC for calls of the other side and not proved.

The assumptions of the others are those of the runs that check them, and none can be dropped: TLC
finds a counterexample without it. After a link loss the encoder stays on its call (run
`mic_after_loss`). An indication that is repeated after a hang-up brings the call back as an
incoming one, a connect that was under way makes it Active, and it can still be answered: the
answer puts it back to Connecting and leaves the encoder on it. A dialled call that is
hung up before it has an identifier connects without a placeholder to take its kind from, and a
group placeholder may be taken by another call. With two calls, hanging up one forgets the PTT of the
other (`app.rs:1367`), and a simplex call demands the floor with its setup.

The proofs have one shape. `DeliverEffect`, `OperateEffect`, `StackEffect` and `LinkEffect` say once what a telemetry event, a button, a
command or a step of the network does to the table and the queues, in terms of the calls a step is
about; `Grown` and `Taken` say what appending and taking do to positions in a queue. Each invariant
is then judged call by call: one that the step is not about keeps it because its events have moved up by
one at most (`SameEvents`), and the one that it is about is a case per kind of event.

### Codeplug and programming screens

The first half of `ProgrammingProofs` is about documents of any size. Its lemmas say, operation by operation, that a
document whose sections have no identity twice stays that way (`UpsertKeyedSound`,
`DeleteKeyedSound`, `SetTalkgroupOrdersSound` and so on); they rest on lemmas about one section
with a row added, replaced, removed or rewritten, and on `GreatestInteger` and `LeastNatural`
for what the code computes with a scan (`NextOrder`, `FirstWith`, `UniqueFolderSlug`). The theorem
`ShownRows` is about the lists: `Before` is a strict total order whatever numbers and names the
rows have, missing and equal ones included, so counting the rows before a row is an injection
of a finite set into its positions, hence a bijection; every row is shown exactly once.

The rest proves, for any constants that satisfy `FormAssumption` and `DocAssumption`
(the bounds are natural numbers; the stack's first configuration has no identity twice):

- `TextsStaySound`: `Spec => []IInv`. `KeysStayUnique` alone is not inductive: a save must
  find a text to change, so `IInv` adds that there is one wherever a codeplug is shown, and it
  carries the types of the form that is open, whose fields become a row when it is saved.
- `ProgTypeCorrect` and `KeysStayUniqueHolds`, the type invariant and the safety invariant
  that no section has one identity twice. A new folder's id is found by the pigeonhole principle (`SlugType`).

Each action that edits is reduced to `ApplyInv` with the document lemma of its writer.

*What is under way.* `InStepWhenQuietHolds` and `LastSaveStandsHolds` need no assumption: links may be
lost, edits refused and answers late in any order. `IInv` says nothing about queues, so `WireInvariance`
adds `WireInv`. `AnswerToCome` is why the screens catch up: while the loop writes to the live
link, the last command on the wire is a `get`; with the wire empty, the last event to come is an answer
with what the stack has; with nothing to come the two texts are the same. `StagedApplied` says that a
text on the wire has its `apply` right behind it, and `SettledToCome` that the last text saved is the
last one staged or, with none staged, the stack's. `apply_codeplug` keeps the first by asking last and
the others by its order, and the two mutants that break the properties break these.

*What a form and a move change.* `FormEditsItsEntryHolds` needs no assumption. Of a network, which is
addressed by its row, it says only that the other sections stay as they were; which network changes is in section
6. `FormOfEntry` ties the form to the identity that was on the screen, and
`UpsertKeeps` and `RemoveKeeps` say of texts of any length that the other rows stay, in their order.
`MoveExchangesRowsHolds` rests on `ListedIs`: a list is determined by its order, because the number of
rows before a row is its place. `Renumbered` says what `set_talkgroup_orders` writes, from which the
moved folder is listed in the order asked for (`RenumberedFolders`), and the others, none of whose
rows were written, as before (`ListedSame`).

### Control channel

`ControlLinkProofs` has two invariants.

- `TInv` holds for any finite set of connections, overlapping ones included, and gives
  `LinkTypeCorrect`. Types alone are not inductive because of `next_handle`: a bootstrap issues three
  handles at once, so `BootstrapsLeft` counts the connections that are still to be heard of,
  and for the count to go down by one with each `connected`, `HeardOnce` says that a connection is
  announced once and not used before.
- `SInv` is about the connections that never overlapped with another, whatever the others did, and
  needs no assumption. `InUse(c)` says of such a connection that the loop has it and no event under way will take
  it away, or that its announcement is the last thing under way about links. `LoneInUse` says this of one that is up. It is kept when an old
  connection ends late because that end is already queued by the time the new one is accepted
  (`EndsInQueue`): a thread that is still to report its end is up, and then the two overlap. `MessagesInside` says that an
  answer meets no session of such a connection but its own: any other is over before the answer is heard. From it
  `ConfigOfThisLink`, the last conjunct, follows.

`LoneLinkUsedHolds` is `LoneInUse` with an empty queue; `ConfigOfThisLinkHolds` is a conjunct.
`OneSessionAtATimeHolds`, the refinement of `LinkSessions`, rests on `TInv` alone: handling an
announcement begins a session that was never begun before because a connection is announced once
(`HeardOnce`), handling an end closes the session in progress or is a stutter; an answer with a configuration is
`Learn` or a stutter; everything in the sockets is a stutter.

### Audio engine

`AudioPathProofs` needs no assumption beyond those of the module. `AInv` has a part per thread of
control: `LoopPart` says which writes `sync_uplink` may have left, in which order, and that a
press has been counted before the gate opens; `CapturePart` and `EncoderPart` that no frame is
of a press to come. These three make `NotToAnEarlierCall` inductive: the encoder thread reads the
call after the frame, so it reads it in the frame's press or in a later one, and that is true at any
point between two writes of the loop. `SpeakerPart` ties the `playing` flag of the jitter
buffer to the call and the sound, from which `CushionBeforeSpeechHolds` follows.

`QueuesKeepNewestHolds` proves both channels to implement `FreshQueue`, for every capacity. The
backlog of the abstract queue is the queue followed by the item a full channel refused. Lemmas
about sequences (`BacklogOffered`, `BacklogRoomMade`, `BacklogTaken`) say what the attempt, the making of
room and a take do to it; the consumer may run between the refusal and the second attempt.

### Ringtone player

The theorem is `RingsForAReason`, and the question is what a handler that is half done
promises. `RInv` judges it by what the player *will* hold: `WillBe(f, v)` is the store of `f` that is
left, or the field as it is. The callback's stores left of a frame may land anywhere in between;
`OnlyClears` says that they only take a sound back, `OnceIsAlert` that a sound that ends by itself is
not a ringtone, and `Reason` is stricter than the property: while a call rings, a preview
is no reason, since its timer would leave the sound to the call. TLC checked the parts of `RInv`
before they were proved. They hold for any ringtones, any length of a tone and any previews.

### Messages

`MInv` is for any peers, any size of the reference counter and any number of texts and reports.
The receipts need `ReadIsAnswered`: `open_thread` leaves the file alone when it finds
nothing unread, which is right only because no read text is owed a receipt. `Owed` says that a receipt that is no longer owed was either handed to the link once or dropped; it is stated of a
table and not of the state, because it has to hold of `disk` as well, where a restart takes the table
from; `StoredAsShown` makes the two the same. `FreshIds` is why a new text meets no history of an
old one although references wrap. `TicksNeverRegressHolds` is proved with the invariant, step by
step, from `NoTickBack`.

### Home

`SelectActsOnShown` is not inductive, and `HInv` says why it holds: `push_ui` takes a folder out
of range for the first one and `cycle_target` for the last, so they agree only as long as the folder is
in range (`FolderInRange`), whatever configuration comes: hence `Texts`, that every configuration
on its way is one of the stack's and has a folder. `Drawn` is the property with the
folder in range, and the badge drawn last. `AlertTimed` gives `AlertStaysItsTimeHolds`: no timer
is of an alert to come.

`HomeTypeCorrect` needs more than types in the queues: that a command about a group names one
(`CycleTarget` may be none, and the button asks), and that every answer with the state has each
group once, which the stack's side keeps by asking before it attaches (`AttachedType`, `WithoutType`).

### Not proved

- Liveness (`LinkRecovers`, `RingComesBack`, `DeviceClosesInCall`, `StateCatchesUp`, `HangupCompletes`,
  `GhostsVanish`, `AnswerResolves`): fairness and ENABLED are out of the prover's reach.

- `ModeAgrees`, for the reason given above.

Every other property that a passing run checks is stated by a theorem. The assumptions of those
that need one are in the tables and lists above.

No module uses a RECURSIVE operator.

## 5. Not modelled

Signal processing (codec, resampler), ring waves and volume, JSON construction and parsing,
layout of the screens, deployment scripts: no state, or data no property looks at. The cell
survey and the event log are a table and a ring that one arm each writes; the stored call log with
its badge likewise. Of the modelled components: DTMF echo, the talker display and the call
clock; authentication and framing of the channels; the loss of the telemetry socket in a call;
the home display text, status messages and the typed number of a new conversation; of the
programming screens, values that a writer refuses, obsolete keys that a writer drops, collapsed
folders, the focus of a field and dialling a contact; the expansion and the search of the
talkgroup picker. A key pressed while an event is queued is handled after it, but the screen the
operator saw is taken to be current, except for `page` in `Messages`.

## 6. Disagreements found

Each is a run that expects a violation and a finding in `PROJECT.json`:

- `mic_after_loss`: losing the control link in a keyed call leaves the encoder on that call.
- `link_overlap`: when the stack connects again before the thread of the old connection has
  noticed its end, the old thread's last event takes the new link away: `ControlDisconnected` does not say
  which connection ended (`net.rs:275`, `app.rs:752`), though `README.md:141-143` promises "automatic
  reconnect".
- `last_talkgroup`: without a talkgroup the home screen has no folder to show, and the loop
  panics; the edit has reached the stack, so it panics again at every start.

Seen in counterexamples and not kept as runs:

- *Calls.* `bind_dialing` (`app.rs:2514`) gives the placeholder to whatever call an event is about: an incoming
  duplex call that is answered while a simplex number is being dialled becomes a simplex call, its microphone
  stays closed, and the dialled call is left without a placeholder; `app.rs:2513` says "Absorb the outgoing
  placeholder into the real call once its id is known". A rejected group setup leaves its context, and the panel, for ever. Telemetry that crosses a
  hang-up enters the call again and its release records it a second time. Calls under way when
  the link drops leave no entry. The mute latch survives a link loss into the next call. The
  ringing alert is marked as sent when the link was down. A group PTT pressed while another group
  is called adopts that call although the screen names the selected group (`app.rs:1303-1309`).
- *Voice.* Speech still in the encoder's channel, or half a frame in the capture callback, when a
  PTT is released goes out on the next press, whatever call that is for; the talk-permit tone
  that was captured during the hold is sent when it is encoded after it. The decoder's channel is
  not emptied when the devices close, so its frames are heard in the next call. A device
  that failed to open is not tried again in the same call (`audio.rs:466`). What is left of the buffer after an underrun and
  shorter than the cushion is not heard.
- *Tones.* When the sound device refuses to open for a ringtone, `play` has stored `active` already and every later
  `play` returns at `ringtone.rs:186` ("already ringing with this tone"): the call rings in silence. An alert tone that ends after the last call leaves the device open until the next
  call, where `ringtone.rs:62-65` says "we never hold it open while idle". The callback's late store
  of the one-shot flag can turn the next alert tone into one that loops until the next tick, or
  with no call left, until the next call.
- *Talkgroups.* A start learns the configuration before it is registered, `reconcile_home_view`
  falls back to the first talkgroup and later takes that for a selection the operator browsed
  to: the home screen does not go to the attached group, where `app.rs:3254` says "Keep the home
  cycler pointed at the attached TX group by default". A configuration answer, in turn, does
  override what the operator browsed to, and a Select still queued behind it acts on another
  group. The group of a refused switch stays in `selected_tx`, so a scan that attaches it
  later silently makes it the group that is keyed.
- *Others.* The badge of missed calls counts entries that were deleted (`calllog.rs:112`). A scan
  result that comes in after Stop shows the survey as running again.
- *Messages.* A read receipt that finds no link is dropped after `mark_peer_read` has cleared the debt
  (`app.rs:3663`), and never sent, though `store.rs:40` says that it "is owed to the sender once read". A text that comes in after Back is reported as read. Every way to a conversation opens the individual one, so group texts stay
  unread.
- *Programming.* A network is shown by its place in priority order (`codeplug.rs:303`) and saved or deleted by that
  number in the order of the text (`codeplug.rs:807`, `828`), so when the two orders differ the form shows one
  network and another changes. An edit made on a text that a late answer has put back drops the edit before it.
  An edit made without a link says that it was saved. A gateway that is renamed leaves its
  contacts behind, though one that is used cannot be deleted; a talkgroup whose number is changed
  leaves the scan lists' members as they were. The talkgroups of a deleted folder appear in the
  home cycler under a folder with the old id, where `codeplug.rs:1018` says they fall back to
  "Other". A contact's page deletes by position, and Move up and down act on a row number, so
  either may act on another entry after a late answer. A text without any section is no codeplug
  (`codeplug.rs:265-279`): the lists of the text before it stay on the screens, and a move there writes
  numbers to no row. Editing an entry that had no `order`
  gives it its position in the text.

## 7. Plan

1. **Floor properties without their assumptions**: which of the assumptions of section 4 can be
   exchanged for weaker properties that hold without them, for a start what a lost link leaves of
   `MicOnNetworkCall` and of `EveryCallLogged`.
2. **Floor**: grants and talker display, dialled simplex calls and early group taps, with the
   floor properties restated for them.
3. **Recents**: missed count, limit and deletion.
4. **Telemetry loss**: `CallSystem` with a telemetry socket that drops, and the composition of
   `CallControl` with `ControlLink` in place of the link flag.

A new module takes the place of shallower properties of the modules before it: what is proved for
every instance needs no run of its own, and the number of runs stays one a reader can survey.
