----------------------------- MODULE AudioPath -----------------------------
(***************************************************************************)
(* The voice engine: the loop that opens the devices and points the        *)
(* encoder, the capture callback, the encoder thread, the decoder thread   *)
(* and the output callback, with the bounded queues between them.          *)
(*                                                                         *)
(* The loop's call to sync_uplink is a sequence of writes to variables the *)
(* other threads read, so each write is a step of its own (loop_todo).     *)
(* Which call the encoder is pointed at is decided by CallControl; here it *)
(* is an input, with the one fact proved there: a target only with devices *)
(* open.  A speech frame is a number and the press it was captured in;     *)
(* samples, gain and the codec are left out.  Opening a device may fail.   *)
(*                                                                         *)
(* An operator whose name ends in _X is a faulty variant of the operator   *)
(* defined after it; no behaviour of Spec uses it.                         *)
(***************************************************************************)
EXTENDS Naturals, Sequences

CONSTANTS
  Cids, NoCid,
  EncCap,       \* capacity of the channel to the encoder
  DecCap,       \* capacity of the channel to the decoder
  Cushion,      \* prebuffer, in frames; 0 plays at once
  LongestLag,   \* playback without a cushion is cut to this many frames
  MaxCaptured,  \* bound: frames captured
  MaxReceived,  \* bound: frames received
  MaxPresses,   \* bound: times the encoder is pointed at a call
  MaxRelayed    \* bound: encoded frames that wait for the loop

ASSUME AudioAssumption ==
  /\ NoCid \notin Cids
  /\ EncCap \in Nat \ {0} /\ DecCap \in Nat \ {0}
  /\ Cushion \in Nat /\ LongestLag \in Nat \ {0}
  /\ MaxCaptured \in Nat /\ MaxReceived \in Nat
  /\ MaxPresses \in Nat /\ MaxRelayed \in Nat

VARIABLES
  active,         \* AudioEngine.active: set_active(true) was the last call
  in_stream,      \* the capture device is open
  out_stream,     \* the output device is open
  loop_todo,      \* writes of sync_uplink the loop has still to do
  goal,           \* the call set_uplink was given
  uplink_cid,     \* uplink_cid, 0 being NoCid
  uplink_active,  \* uplink_active
  press,          \* history: how often uplink_cid was pointed at a call
  masked,         \* now_ms() < uplink_mute_until
  acc,            \* acc: half a frame is captured and kept
  captured,       \* history: number of frames captured
  encq,           \* channel to the encoder
  enc_refused,    \* frame the capture callback is making room for
  encoding,       \* the encoder thread
  relayq,         \* UplinkAudio events that wait for the loop
  received,       \* history: number of downlink frames received
  decq,           \* channel to the decoder
  dec_refused,    \* frame play_downlink is making room for
  decoding,       \* the decoder thread
  playback,       \* frames in the jitter buffer
  playing,        \* playing
  sound           \* what the loudspeaker gave last since it was opened

loop     == <<active, loop_todo, goal>>
streams  == <<in_stream, out_stream>>
gate     == <<uplink_cid, uplink_active, press>>
capture  == <<acc, captured, encq, enc_refused>>
encoder  == <<encoding, relayq>>
decoder  == <<received, decq, dec_refused, decoding>>
speaker  == <<playback, playing, sound>>
vars     == <<loop, streams, gate, masked, capture, encoder, decoder, speaker>>

Frame   == [n: 1..MaxCaptured, press: 1..MaxPresses]
NoFrame == [n |-> 0, press |-> 0]
Relay   == [cid: Cids, press: 1..MaxPresses, frame: Frame]

EncChannel == INSTANCE VoiceQueue WITH Cap <- EncCap, queue <- encq, refused <- enc_refused
DecChannel == INSTANCE VoiceQueue WITH Cap <- DecCap, queue <- decq, refused <- dec_refused

\* Types, and the two channels never hold more than they are made for.
AudioTypeOK ==
  /\ active \in BOOLEAN /\ in_stream \in BOOLEAN /\ out_stream \in BOOLEAN
  /\ loop_todo \in Seq({"reset", "point", "gate"}) /\ goal \in Cids \cup {NoCid}
  /\ uplink_cid \in Cids \cup {NoCid} /\ uplink_active \in BOOLEAN
  /\ press \in 0..MaxPresses
  /\ masked \in BOOLEAN /\ acc \in BOOLEAN /\ captured \in 0..MaxCaptured
  /\ encq \in Seq(Frame) /\ Len(encq) <= EncCap
  /\ enc_refused \in {<<>>} \cup {<<f>> : f \in Frame}
  /\ encoding \in [phase: {"waiting", "encoding", "sending"}, frame: Frame \cup {NoFrame},
                   cid: Cids \cup {NoCid}, press: 0..MaxPresses]
  /\ relayq \in Seq(Relay) /\ Len(relayq) <= MaxRelayed
  /\ received \in 0..MaxReceived
  /\ decq \in Seq(1..MaxReceived) /\ Len(decq) <= DecCap
  /\ dec_refused \in {<<>>} \cup {<<n>> : n \in 1..MaxReceived}
  /\ decoding \in [busy: BOOLEAN, frame: 0..MaxReceived]
  /\ playback \in Nat /\ playing \in BOOLEAN /\ sound \in {"silence", "speech"}

Init ==
  /\ active = FALSE /\ in_stream = FALSE /\ out_stream = FALSE
  /\ loop_todo = <<>> /\ goal = NoCid
  /\ uplink_cid = NoCid /\ uplink_active = FALSE /\ press = 0
  /\ masked = FALSE /\ acc = FALSE /\ captured = 0
  /\ encq = <<>> /\ enc_refused = <<>>
  /\ encoding = [phase |-> "waiting", frame |-> NoFrame, cid |-> NoCid, press |-> 0]
  /\ relayq = <<>>
  /\ received = 0 /\ decq = <<>> /\ dec_refused = <<>>
  /\ decoding = [busy |-> FALSE, frame |-> 0]
  /\ playback = 0 /\ playing = FALSE /\ sound = "silence"

-----------------------------------------------------------------------------
(* The loop.  A handler runs to its end: nothing else of the loop happens   *)
(* while writes are left or play_downlink is making room.                   *)

LoopFree == loop_todo = <<>> /\ DecChannel!Settled

\* Set_active(true): each device is opened or not; neither is tried again.
OpenStreams ==
  /\ active' = TRUE
  /\ in_stream' \in BOOLEAN /\ out_stream' \in BOOLEAN
  /\ acc' = FALSE
  /\ sound' = "silence"

\* Set_active(false): dropping a stream waits for its callback.  The capture
\* callback is the only one that may be on its way.
CloseStreams ==
  /\ EncChannel!Settled
  /\ in_stream' = FALSE /\ out_stream' = FALSE
  /\ UNCHANGED <<active, acc, sound>>

\* sync_uplink, with what audio_needed and the call table have decided.
SyncUplink(needed, cid) ==
  /\ LoopFree
  /\ goal' = cid
  /\ loop_todo' = (IF active /\ ~needed THEN <<"reset">> ELSE <<>>) \o <<"point", "gate">>
  /\ \/ needed /\ ~active /\ OpenStreams
     \/ ~needed /\ active /\ CloseStreams
     \/ needed = active /\ UNCHANGED <<active, streams, acc, sound>>
  /\ UNCHANGED <<gate, masked, captured, encq, enc_refused, encoder, decoder, playback, playing>>

LoopStep(w) == loop_todo # <<>> /\ Head(loop_todo) = w /\ loop_todo' = Tail(loop_todo)

\* playing is left as the last call had it.
ResetPlayback_X ==
  /\ LoopStep("reset")
  /\ uplink_active' = FALSE
  /\ playback' = 0
  /\ active' = FALSE
  /\ UNCHANGED <<goal, streams, uplink_cid, press, masked, capture, encoder, decoder, playing, sound>>

\* The rest of set_active(false), once the streams are gone.
ResetPlayback ==
  /\ LoopStep("reset")
  /\ uplink_active' = FALSE
  /\ playing' = FALSE /\ playback' = 0
  /\ active' = FALSE
  /\ UNCHANGED <<goal, streams, uplink_cid, press, masked, capture, encoder, decoder, sound>>

\* set_uplink: the call first.
PointEncoder ==
  /\ LoopStep("point")
  /\ uplink_cid' = goal
  /\ press' = IF goal \in {NoCid, uplink_cid} THEN press ELSE press + 1
  /\ UNCHANGED <<active, goal, streams, uplink_active, masked, capture, encoder, decoder, speaker>>

\* set_uplink: then the gate.
GateCapture ==
  /\ LoopStep("gate")
  /\ uplink_active' = (goal # NoCid)
  /\ UNCHANGED <<active, goal, streams, uplink_cid, press, masked, capture, encoder, decoder, speaker>>

\* hold_uplink, as the talk-permit tone starts.
HoldUplink ==
  /\ LoopFree
  /\ masked' = TRUE
  /\ UNCHANGED <<loop, streams, gate, capture, encoder, decoder, speaker>>

\* The time in uplink_mute_until passes.
HoldEnds ==
  /\ masked
  /\ masked' = FALSE
  /\ UNCHANGED <<loop, streams, gate, capture, encoder, decoder, speaker>>

\* UplinkAudio: handed to the link if there is one.
RelaySpeech ==
  /\ LoopFree
  /\ relayq # <<>>
  /\ relayq' = Tail(relayq)
  /\ UNCHANGED <<loop, streams, gate, masked, capture, encoding, decoder, speaker>>

\* play_downlink, for a frame handle_speech_frame does not block; the devices need
\* not be open.
PlayDownlink ==
  /\ LoopFree
  /\ received < MaxReceived
  /\ received' = received + 1
  /\ DecChannel!Offer(received + 1)
  /\ UNCHANGED <<loop, streams, gate, masked, capture, encoder, decoding, speaker>>

PlayDownlinkMakesRoom ==
  /\ DecChannel!MakeRoom
  /\ UNCHANGED <<loop, streams, gate, masked, capture, encoder, received, decoding, speaker>>

-----------------------------------------------------------------------------
(* The capture callback and the encoder thread.                             *)

\* Half a frame of samples comes in while the gate is open.  What does not fill a
\* frame stays until the stream is closed.
Capture ==
  /\ in_stream /\ uplink_active
  /\ EncChannel!Settled
  /\ acc' = ~acc
  /\ IF acc
     THEN /\ captured < MaxCaptured
          /\ captured' = captured + 1
          /\ EncChannel!Offer([n |-> captured + 1, press |-> press])
     ELSE UNCHANGED <<captured, encq, enc_refused>>
  /\ UNCHANGED <<loop, streams, gate, masked, encoder, decoder, speaker>>

CaptureMakesRoom ==
  /\ EncChannel!MakeRoom
  /\ UNCHANGED <<loop, streams, gate, masked, acc, captured, encoder, decoder, speaker>>

EncoderTakes ==
  /\ encoding.phase = "waiting"
  /\ EncChannel!Take
  /\ encoding' = [encoding EXCEPT !.phase = "encoding", !.frame = Head(encq)]
  /\ UNCHANGED <<loop, streams, gate, masked, acc, captured, relayq, decoder, speaker>>

\* The call is read once, when the thread has none.
EncoderReads_X ==
  /\ encoding.phase = "encoding"
  /\ encoding' = IF uplink_cid = NoCid \/ masked
                 THEN [encoding EXCEPT !.phase = "waiting"]
                 ELSE IF encoding.cid # NoCid THEN [encoding EXCEPT !.phase = "sending"]
                 ELSE [encoding EXCEPT !.phase = "sending", !.cid = uplink_cid, !.press = press]
  /\ UNCHANGED <<loop, streams, gate, masked, capture, relayq, decoder, speaker>>

\* The frame is encoded; only now the call and the hold are read.
EncoderReads ==
  /\ encoding.phase = "encoding"
  /\ encoding' = IF uplink_cid = NoCid \/ masked
                 THEN [encoding EXCEPT !.phase = "waiting"]
                 ELSE [encoding EXCEPT !.phase = "sending", !.cid = uplink_cid, !.press = press]
  /\ UNCHANGED <<loop, streams, gate, masked, capture, relayq, decoder, speaker>>

EncoderSends ==
  /\ encoding.phase = "sending"
  /\ Len(relayq) < MaxRelayed
  /\ relayq' = Append(relayq, [cid |-> encoding.cid, press |-> encoding.press,
                               frame |-> encoding.frame])
  /\ encoding' = [encoding EXCEPT !.phase = "waiting"]
  /\ UNCHANGED <<loop, streams, gate, masked, capture, decoder, speaker>>

-----------------------------------------------------------------------------
(* The decoder thread and the output callback.                              *)

DecoderTakes ==
  /\ ~decoding.busy
  /\ DecChannel!Take
  /\ decoding' = [busy |-> TRUE, frame |-> Head(decq)]
  /\ UNCHANGED <<loop, streams, gate, masked, capture, encoder, received, speaker>>

MostBuffered == IF Cushion > 0 THEN 4 * Cushion ELSE LongestLag

\* Decoded and appended under the lock, the oldest cut off; or not decodable.
DecoderPlays ==
  /\ decoding.busy
  /\ decoding' = [decoding EXCEPT !.busy = FALSE]
  /\ \/ playback' = IF playback < MostBuffered THEN playback + 1 ELSE MostBuffered
     \/ UNCHANGED playback
  /\ UNCHANGED <<loop, streams, gate, masked, capture, encoder, received, decq, dec_refused,
                 playing, sound>>

\* The output callback asks for one frame, all of it under the lock.
OutputCallback ==
  /\ out_stream
  /\ LET open == playing \/ Cushion = 0 \/ playback >= Cushion
     IN  IF open /\ playback > 0
         THEN playback' = playback - 1 /\ playing' = TRUE /\ sound' = "speech"
         ELSE /\ sound' = "silence"
              /\ playing' = (open /\ Cushion = 0)
              /\ UNCHANGED playback
  /\ UNCHANGED <<loop, streams, gate, masked, capture, encoder, decoder>>

-----------------------------------------------------------------------------

MayPoint(cid) == cid \in {NoCid, uplink_cid} \/ press < MaxPresses

Loop ==
  \/ \E needed \in BOOLEAN : \E cid \in IF needed THEN Cids \cup {NoCid} ELSE {NoCid} :
       MayPoint(cid) /\ SyncUplink(needed, cid)
  \/ ResetPlayback \/ PointEncoder \/ GateCapture
  \/ HoldUplink \/ RelaySpeech \/ PlayDownlink \/ PlayDownlinkMakesRoom

Microphone == Capture \/ CaptureMakesRoom \/ EncoderTakes \/ EncoderReads \/ EncoderSends

Loudspeaker == DecoderTakes \/ DecoderPlays \/ OutputCallback

Next == Loop \/ HoldEnds \/ Microphone \/ Loudspeaker

Spec == Init /\ [][Next]_vars

-----------------------------------------------------------------------------
(* Properties.                                                              *)

\* Speech is never sent to a call the encoder had left before it was captured.  The
\* encoder reads the call when it has encoded, so the reverse does happen: speech that
\* waited in the channel, and half a frame kept since the last press, go to the next one.
NotToAnEarlierCall ==
  \A i \in DOMAIN relayq : relayq[i].press >= relayq[i].frame.press

UplinkQueue == INSTANCE FreshQueue WITH
  Cap <- EncCap, Items <- Frame, Nothing <- NoFrame,
  backlog <- EncChannel!Backlog, last <- encoding.frame

DownlinkQueue == INSTANCE FreshQueue WITH
  Cap <- DecCap, Items <- 1..MaxReceived, Nothing <- 0,
  backlog <- DecChannel!Backlog, last <- decoding.frame

\* The channels to the encoder and to the decoder are FreshQueues, with two threads at
\* work on each: frames come out in their order, the backlog is bounded, and the newest
\* frame is never the one that is given up.
QueuesKeepNewest == UplinkQueue!Spec /\ DownlinkQueue!Spec

\* After silence, at the start of a call as after an underrun, speech starts with a full
\* cushion in the buffer: no call inherits the playing state of the one before.
CushionBeforeSpeech ==
  [][sound = "silence" /\ sound' = "speech" => playback >= Cushion]_vars
=============================================================================
