-------------------------- MODULE AudioPathProofs --------------------------
(***************************************************************************)
(* Theorems about AudioPath for every capacity of the two channels, every  *)
(* cushion and every bound.                                                *)
(***************************************************************************)
EXTENDS AudioPath, SequenceTheorems, TLAPS

-----------------------------------------------------------------------------
(* The inductive invariant, part by part.                                   *)

\* What sync_uplink may have left to write.
AllLeft   == <<"reset", "point", "gate">>
PointLeft == <<"point", "gate">>
GateLeft  == <<"gate">>

\* sync_uplink writes in its order; a press is counted before the gate opens.
LoopPart ==
  /\ active \in BOOLEAN /\ in_stream \in BOOLEAN /\ out_stream \in BOOLEAN
  /\ loop_todo \in {<<>>, GateLeft, PointLeft, AllLeft}
  /\ goal \in Cids \cup {NoCid}
  /\ uplink_cid \in Cids \cup {NoCid} /\ uplink_active \in BOOLEAN
  /\ press \in 0..MaxPresses
  /\ masked \in BOOLEAN
  /\ loop_todo \in {PointLeft, AllLeft} => MayPoint(goal)
  /\ loop_todo = GateLeft => goal = uplink_cid
  /\ uplink_cid # NoCid \/ uplink_active => press > 0
  /\ ~active \/ loop_todo = AllLeft => ~in_stream /\ ~out_stream

\* Frames that wait were captured in a press that has begun.
CapturePart ==
  /\ acc \in BOOLEAN /\ captured \in 0..MaxCaptured
  /\ encq \in Seq(Frame) /\ Len(encq) <= EncCap
  /\ enc_refused \in {<<>>} \cup {<<f>> : f \in Frame}
  /\ \A i \in DOMAIN encq : encq[i].press <= press
  /\ \A i \in DOMAIN enc_refused : enc_refused[i].press <= press

\* The encoder reads the call after the frame, so in the same press or a later one.
EncoderPart ==
  /\ encoding \in [phase: {"waiting", "encoding", "sending"}, frame: Frame \cup {NoFrame},
                   cid: Cids \cup {NoCid}, press: 0..MaxPresses]
  /\ relayq \in Seq(Relay) /\ Len(relayq) <= MaxRelayed
  /\ encoding.phase # "waiting" => encoding.frame \in Frame
  /\ encoding.frame.press <= press
  /\ encoding.phase = "sending" =>
       /\ encoding.cid # NoCid /\ encoding.press > 0
       /\ encoding.press >= encoding.frame.press
  /\ NotToAnEarlierCall

DecoderPart ==
  /\ received \in 0..MaxReceived
  /\ decq \in Seq(1..MaxReceived) /\ Len(decq) <= DecCap
  /\ dec_refused \in {<<>>} \cup {<<n>> : n \in 1..MaxReceived}
  /\ decoding \in [busy: BOOLEAN, frame: 0..MaxReceived]

\* playing outlives neither the call nor the sound.
SpeakerPart ==
  /\ playback \in Nat /\ playing \in BOOLEAN /\ sound \in {"silence", "speech"}
  /\ ~active => ~playing
  /\ playing => sound = "speech" \/ Cushion = 0

AInv == LoopPart /\ CapturePart /\ EncoderPart /\ DecoderPart /\ SpeakerPart

\* The loop's lists of writes, and how one becomes the other.
LEMMA Todos ==
  /\ AllLeft # <<>> /\ PointLeft # <<>> /\ GateLeft # <<>>
  /\ AllLeft # PointLeft /\ AllLeft # GateLeft /\ PointLeft # GateLeft
  /\ Head(AllLeft) = "reset" /\ Tail(AllLeft) = PointLeft
  /\ Head(PointLeft) = "point" /\ Tail(PointLeft) = GateLeft
  /\ Head(GateLeft) = "gate" /\ Tail(GateLeft) = <<>>
  /\ <<"reset">> \o <<"point", "gate">> = AllLeft
  /\ <<>> \o <<"point", "gate">> = PointLeft
<1> DEFINE S == {"reset", "point", "gate"}
           E == <<"reset">>
<1>1. AllLeft \in Seq(S) /\ PointLeft \in Seq(S) /\ GateLeft \in Seq(S) /\ E \in Seq(S)
  BY DEF AllLeft, PointLeft, GateLeft
<1>2. /\ Len(AllLeft) = 3 /\ AllLeft[1] = "reset" /\ AllLeft[2] = "point" /\ AllLeft[3] = "gate"
      /\ Len(PointLeft) = 2 /\ PointLeft[1] = "point" /\ PointLeft[2] = "gate"
      /\ Len(GateLeft) = 1 /\ GateLeft[1] = "gate"
      /\ Len(E) = 1 /\ E[1] = "reset"
  BY DEF AllLeft, PointLeft, GateLeft
<1>0. Len(<<>>) = 0 /\ <<>> \in Seq(S)
  BY EmptySeq
<1>a. E \o PointLeft = AllLeft
  <2> HIDE DEF S, E
  <2>0. /\ E \o PointLeft \in Seq(S) /\ Len(E \o PointLeft) = Len(E) + Len(PointLeft)
        /\ \A i \in 1 .. Len(E) + Len(PointLeft) :
             (E \o PointLeft)[i] = IF i <= Len(E) THEN E[i] ELSE PointLeft[i - Len(E)]
    BY <1>1, ConcatProperties
  <2>1. /\ Len(E \o PointLeft) = 3
        /\ \A i \in 1..3 : (E \o PointLeft)[i] = IF i <= 1 THEN E[i] ELSE PointLeft[i - 1]
    BY <2>0, <1>2
  <2>2. (E \o PointLeft)[1] = "reset" /\ (E \o PointLeft)[2] = "point" /\ (E \o PointLeft)[3] = "gate"
    BY <2>1, <1>2
  <2>3. \A i \in 1..3 : i = 1 \/ i = 2 \/ i = 3
    OBVIOUS
  <2>4. \A i \in 1..3 : (E \o PointLeft)[i] = AllLeft[i]
    BY <2>2, <2>3, <1>2
  <2> QED BY <2>0, <2>1, <2>4, <1>1, <1>2, SeqEqual
<1> HIDE DEF S, E
<1>3. /\ AllLeft # <<>> /\ PointLeft # <<>> /\ GateLeft # <<>>
      /\ AllLeft # PointLeft /\ AllLeft # GateLeft /\ PointLeft # GateLeft
  BY <1>0, <1>2
<1>4. Head(AllLeft) = "reset" /\ Head(PointLeft) = "point" /\ Head(GateLeft) = "gate"
  BY <1>1, <1>2, <1>3, HeadTailProperties
<1>5. Tail(AllLeft) = PointLeft
  <2>0. /\ Tail(AllLeft) \in Seq(S) /\ Len(Tail(AllLeft)) = Len(AllLeft) - 1
        /\ \A i \in 1 .. Len(Tail(AllLeft)) : Tail(AllLeft)[i] = AllLeft[i + 1]
    BY <1>1, <1>3, HeadTailProperties
  <2>1. Len(Tail(AllLeft)) = 2 /\ \A i \in 1..2 : Tail(AllLeft)[i] = AllLeft[i + 1]
    BY <2>0, <1>2
  <2>2. Tail(AllLeft)[1] = "point" /\ Tail(AllLeft)[2] = "gate"
    BY <2>1, <1>2
  <2>3. \A i \in 1..2 : i = 1 \/ i = 2
    OBVIOUS
  <2>4. \A i \in 1..2 : Tail(AllLeft)[i] = PointLeft[i]
    BY <2>2, <2>3, <1>2
  <2> QED BY <2>0, <2>1, <2>4, <1>1, <1>2, SeqEqual
<1>6. Tail(PointLeft) = GateLeft
  <2>0. /\ Tail(PointLeft) \in Seq(S) /\ Len(Tail(PointLeft)) = Len(PointLeft) - 1
        /\ \A i \in 1 .. Len(Tail(PointLeft)) : Tail(PointLeft)[i] = PointLeft[i + 1]
    BY <1>1, <1>3, HeadTailProperties
  <2>1. Len(Tail(PointLeft)) = 1 /\ \A i \in 1..1 : Tail(PointLeft)[i] = PointLeft[i + 1]
    BY <2>0, <1>2
  <2>2. Tail(PointLeft)[1] = "gate"
    BY <2>1, <1>2
  <2>3. \A i \in 1..1 : i = 1
    OBVIOUS
  <2>4. \A i \in 1..1 : Tail(PointLeft)[i] = GateLeft[i]
    BY <2>2, <2>3, <1>2
  <2> QED BY <2>0, <2>1, <2>4, <1>1, <1>2, SeqEqual
<1>7. Tail(GateLeft) = <<>>
  <2>1. Tail(GateLeft) \in Seq(S) /\ Len(Tail(GateLeft)) = 0
    BY <1>1, <1>2, <1>3, HeadTailProperties
  <2> QED BY <2>1, EmptySeq
<1>8. <<"reset">> \o <<"point", "gate">> = AllLeft
  BY <1>a DEF PointLeft, E
<1>9. <<>> \o <<"point", "gate">> = PointLeft
  BY <1>1, ConcatEmptySeq DEF PointLeft
<1> QED BY <1>3, <1>4, <1>5, <1>6, <1>7, <1>8, <1>9

LEMMA AInvInit == Init => AInv
<1> SUFFICES ASSUME Init PROVE AInv
  OBVIOUS
<1>1. LoopPart
  <2>1. /\ active = FALSE /\ in_stream = FALSE /\ out_stream = FALSE /\ masked = FALSE
        /\ loop_todo = <<>> /\ goal = NoCid
        /\ uplink_cid = NoCid /\ uplink_active = FALSE /\ press = 0
    BY DEF Init
  <2>2. loop_todo # AllLeft /\ loop_todo # PointLeft /\ loop_todo # GateLeft
    BY <2>1, Todos
  <2>3. press \in 0..MaxPresses /\ loop_todo \in {<<>>, GateLeft, PointLeft, AllLeft}
    BY <2>1, AudioAssumption
  <2> QED BY <2>1, <2>2, <2>3 DEF LoopPart
<1>2. CapturePart
  <2>1. encq = <<>> /\ enc_refused = <<>> /\ acc = FALSE /\ captured = 0
    BY DEF Init
  <2>2. encq \in Seq(Frame) /\ Len(encq) = 0 /\ DOMAIN encq = {} /\ DOMAIN enc_refused = {}
    BY <2>1, EmptySeq
  <2>3. captured \in 0..MaxCaptured /\ Len(encq) <= EncCap
    BY <2>1, <2>2, AudioAssumption
  <2>5. acc \in BOOLEAN
    BY <2>1
  <2>4. enc_refused \in {<<>>} \cup {<<f>> : f \in Frame}
    BY <2>1
  <2> QED BY <2>2, <2>3, <2>4, <2>5 DEF CapturePart
<1>3. EncoderPart
  BY AudioAssumption, EmptySeq DEF Init, EncoderPart, NotToAnEarlierCall, NoFrame
<1>4. DecoderPart
  BY AudioAssumption, EmptySeq DEF Init, DecoderPart
<1>5. SpeakerPart
  BY DEF Init, SpeakerPart
<1> QED BY <1>1, <1>2, <1>3, <1>4, <1>5 DEF AInv

-----------------------------------------------------------------------------
(* Who writes what.                                                         *)

\* Only the loop, and the clock, write what the loop keeps.
LEMMA LoopFrame ==
  Microphone \/ Loudspeaker => UNCHANGED <<loop, streams, gate, masked>>
BY DEF Microphone, Loudspeaker, Capture, CaptureMakesRoom, EncoderTakes, EncoderReads,
       EncoderSends, DecoderTakes, DecoderPlays, OutputCallback

\* The press counter only goes up, and only when the encoder is pointed at a call.
LEMMA PressGrows ==
  ASSUME AInv, [Next]_vars
  PROVE  press' \in Nat /\ press <= press'
<1>1. press \in Nat
  BY AudioAssumption DEF AInv, LoopPart
<1>2. CASE Loop
  BY <1>1, <1>2 DEF Loop, SyncUplink, ResetPlayback, PointEncoder, GateCapture, HoldUplink,
     RelaySpeech, PlayDownlink, PlayDownlinkMakesRoom, gate
<1>3. CASE HoldEnds \/ UNCHANGED vars
  BY <1>1, <1>3 DEF HoldEnds, vars, gate
<1>4. CASE Microphone \/ Loudspeaker
  BY <1>1, <1>4, LoopFrame DEF gate
<1> QED BY <1>2, <1>3, <1>4 DEF Next

LEMMA LoopPartStep ==
  ASSUME AInv, [Next]_vars
  PROVE  LoopPart'
<1> USE DEF AInv, LoopPart
<1>1. ASSUME NEW needed \in BOOLEAN,
             NEW cid \in IF needed THEN Cids \cup {NoCid} ELSE {NoCid},
             MayPoint(cid), SyncUplink(needed, cid)
      PROVE  LoopPart'
  <2>1. loop_todo = <<>> /\ goal' = cid /\ cid \in Cids \cup {NoCid}
    BY <1>1 DEF SyncUplink, LoopFree
  <2>2. UNCHANGED <<uplink_cid, uplink_active, press, masked>> /\ MayPoint(goal)'
    BY <1>1, <2>1 DEF SyncUplink, gate, MayPoint
  <2>5. /\ goal' \in Cids \cup {NoCid} /\ uplink_cid' \in Cids \cup {NoCid}
        /\ uplink_active' \in BOOLEAN /\ press' \in 0..MaxPresses /\ masked' \in BOOLEAN
        /\ (uplink_cid' # NoCid \/ uplink_active' => press' > 0)
    BY <2>1, <2>2
  <2>3. CASE active /\ ~needed
    <3>1. loop_todo' = AllLeft
      BY <1>1, <2>3, Todos DEF SyncUplink
    <3>2. active' = active /\ in_stream' = FALSE /\ out_stream' = FALSE
      BY <1>1, <2>3 DEF SyncUplink, OpenStreams, CloseStreams
    <3> QED BY <2>2, <2>5, <3>1, <3>2, Todos
  <2>4. CASE ~active \/ needed
    <3>1. loop_todo' = PointLeft
      BY <1>1, <2>4, Todos DEF SyncUplink
    <3>2. \/ active' = TRUE /\ in_stream' \in BOOLEAN /\ out_stream' \in BOOLEAN
          \/ UNCHANGED <<active, in_stream, out_stream>>
      BY <1>1, <2>4 DEF SyncUplink, OpenStreams, CloseStreams, streams
    <3>3. /\ active' \in BOOLEAN /\ in_stream' \in BOOLEAN /\ out_stream' \in BOOLEAN
          /\ (~active' => ~in_stream' /\ ~out_stream')
      <4>1. CASE active' = TRUE /\ in_stream' \in BOOLEAN /\ out_stream' \in BOOLEAN
        BY <4>1
      <4>2. CASE UNCHANGED <<active, in_stream, out_stream>>
        BY <4>2
      <4> QED BY <3>2, <4>1, <4>2
    <3>4. loop_todo' # AllLeft /\ loop_todo' # GateLeft
      BY <3>1, Todos
    <3> QED BY <2>2, <2>5, <3>1, <3>3, <3>4
  <2> QED BY <2>3, <2>4
<1>2. CASE ResetPlayback
  <2>1. loop_todo = AllLeft /\ loop_todo' = PointLeft
    BY <1>2, Todos DEF ResetPlayback, LoopStep
  <2> QED BY <1>2, <2>1, Todos DEF ResetPlayback, streams, MayPoint
<1>3. CASE PointEncoder
  <2>1. loop_todo = PointLeft /\ loop_todo' = GateLeft
    BY <1>3, Todos DEF PointEncoder, LoopStep
  <2>2. press' \in 0..MaxPresses /\ (uplink_cid' # NoCid \/ uplink_active' => press' > 0)
    BY <1>3, <2>1, AudioAssumption DEF PointEncoder, MayPoint
  <2> QED BY <1>3, <2>1, <2>2, Todos DEF PointEncoder, streams
<1>4. CASE GateCapture
  <2>1. loop_todo = GateLeft /\ loop_todo' = <<>>
    BY <1>4, Todos DEF GateCapture, LoopStep
  <2> QED BY <1>4, <2>1, Todos DEF GateCapture, streams
<1>6. ASSUME UNCHANGED <<loop, streams, gate>>, masked' \in BOOLEAN
      PROVE  LoopPart'
  BY <1>6 DEF loop, streams, gate, MayPoint
<1>5. CASE HoldUplink \/ HoldEnds
  <2>1. UNCHANGED <<loop, streams, gate>> /\ masked' \in BOOLEAN
    BY <1>5 DEF HoldUplink, HoldEnds
  <2> QED BY <1>6, <2>1
<1>7. CASE RelaySpeech \/ PlayDownlink \/ PlayDownlinkMakesRoom
  BY <1>6, <1>7 DEF RelaySpeech, PlayDownlink, PlayDownlinkMakesRoom
<1>8. CASE Microphone \/ Loudspeaker
  BY <1>6, <1>8, LoopFrame
<1>9. CASE UNCHANGED vars
  BY <1>6, <1>9 DEF vars
<1> QED BY <1>1, <1>2, <1>3, <1>4, <1>5, <1>7, <1>8, <1>9 DEF Next, Loop

-----------------------------------------------------------------------------
(* What the operations of a VoiceQueue do to what it holds.                 *)

\* What a channel refused is one item or nothing.
Refusable(S) == {<<>>} \cup {<<x>> : x \in S}

\* Making room leaves a queue no longer than the capacity, of items that were there.
LEMMA RoomMade ==
  ASSUME NEW S, NEW q \in Seq(S), NEW x \in S,
         NEW cap \in Nat \ {0}, Len(q) <= cap
  PROVE  LET r == (IF q = <<>> THEN <<>> ELSE Tail(q)) \o <<x>>
         IN  /\ r = IF q = <<>> THEN <<x>> ELSE Append(Tail(q), x)
             /\ r \in Seq(S) /\ Len(r) <= cap
             /\ \A i \in DOMAIN r : r[i] = x \/ \E j \in DOMAIN q : r[i] = q[j]
<1> DEFINE r == (IF q = <<>> THEN <<>> ELSE Tail(q)) \o <<x>>
<1>1. <<x>> \in Seq(S) /\ Len(<<x>>) = 1 /\ <<x>>[1] = x
  OBVIOUS
<1>2. CASE q = <<>>
  <2>1. r = <<x>>
    BY <1>1, <1>2, ConcatEmptySeq
  <2>2. r \in Seq(S) /\ Len(r) = 1 /\ r[1] = x
    BY <2>1, <1>1
  <2> HIDE DEF r
  <2> QED BY <2>1, <2>2, <1>2 DEF r
<1>3. CASE q # <<>>
  <2>1. /\ Tail(q) \in Seq(S) /\ Len(Tail(q)) = Len(q) - 1
        /\ \A i \in 1 .. Len(Tail(q)) : Tail(q)[i] = q[i + 1]
    BY <1>3, HeadTailProperties
  <2>2. r = Append(Tail(q), x)
    BY <2>1, <1>3, AppendIsConcat
  <2> HIDE DEF r
  <2>3. /\ r \in Seq(S) /\ Len(r) = Len(q)
        /\ \A i \in 1 .. Len(Tail(q)) : r[i] = q[i + 1]
        /\ r[Len(q)] = x
    BY <2>1, <2>2, AppendProperties
  <2>4. ASSUME NEW i \in DOMAIN r PROVE r[i] = x \/ \E j \in DOMAIN q : r[i] = q[j]
    <3>1. i \in 1 .. Len(q)
      BY <2>3
    <3>2. CASE i = Len(q)
      BY <3>2, <2>3
    <3>3. CASE i # Len(q)
      <4>1. i + 1 \in DOMAIN q /\ r[i] = q[i + 1]
        BY <3>1, <3>3, <2>1, <2>3
      <4> QED BY <4>1
    <3> QED BY <3>2, <3>3
  <2> QED BY <2>2, <2>3, <2>4, <1>3 DEF r
<1> QED BY <1>2, <1>3

\* Taking one leaves the others.
LEMMA OneTaken ==
  ASSUME NEW S, NEW q \in Seq(S), q # <<>>
  PROVE  /\ Head(q) \in S /\ Head(q) = q[1] /\ 1 \in DOMAIN q
         /\ Tail(q) \in Seq(S) /\ Len(Tail(q)) <= Len(q)
         /\ \A i \in DOMAIN Tail(q) : \E j \in DOMAIN q : Tail(q)[i] = q[j]
<1>1. /\ Tail(q) \in Seq(S) /\ Len(Tail(q)) = Len(q) - 1 /\ Head(q) \in S /\ Head(q) = q[1]
      /\ \A i \in 1 .. Len(Tail(q)) : Tail(q)[i] = q[i + 1]
  BY HeadTailProperties
<1>2. Len(q) \in Nat \ {0}
  BY EmptySeq
<1>3. ASSUME NEW i \in DOMAIN Tail(q) PROVE \E j \in DOMAIN q : Tail(q)[i] = q[j]
  <2>1. i + 1 \in DOMAIN q /\ Tail(q)[i] = q[i + 1]
    BY <1>1, <1>2
  <2> QED BY <2>1
<1> QED BY <1>1, <1>2, <1>3

\* What is not taken and not given up, while room is made and when it is not.
LEMMA BacklogOf ==
  ASSUME NEW S, NEW q \in Seq(S)
  PROVE  /\ q \o <<>> = q
         /\ \A x \in S : q \o <<x>> = Append(q, x)
BY ConcatEmptySeq, AppendIsConcat

-----------------------------------------------------------------------------

LEMMA CapturePartStep ==
  ASSUME AInv, [Next]_vars
  PROVE  CapturePart'
<1> DEFINE Known(q) == \A i \in DOMAIN q : q[i].press <= press
<1>1. /\ encq \in Seq(Frame) /\ Len(encq) <= EncCap /\ enc_refused \in Refusable(Frame)
      /\ Known(encq) /\ Known(enc_refused)
      /\ acc \in BOOLEAN /\ captured \in 0..MaxCaptured
      /\ uplink_active => press > 0
      /\ press \in 0..MaxPresses
  BY DEF AInv, CapturePart, LoopPart, Refusable
<1>2. press' \in Nat /\ press <= press' /\ press \in Nat
  BY PressGrows, <1>1, AudioAssumption
<1>3. ASSUME NEW q \in Seq(Frame), Known(q)
      PROVE  \A i \in DOMAIN q : q[i].press <= press'
  <2>1. ASSUME NEW i \in DOMAIN q PROVE q[i].press \in Nat
    <3>1. q[i] \in Frame
      OBVIOUS
    <3> QED BY <3>1, AudioAssumption DEF Frame
  <2> QED BY <1>2, <1>3, <2>1
<1>4. enc_refused \in Seq(Frame)
  <2>1. <<>> \in Seq(Frame) /\ \A f \in Frame : <<f>> \in Seq(Frame)
    BY EmptySeq
  <2> QED BY <1>1, <2>1 DEF Refusable
<1>5. ASSUME UNCHANGED <<captured, encq, enc_refused>>, acc' \in BOOLEAN
      PROVE  CapturePart'
  <2>1. \A i \in DOMAIN encq : encq[i].press <= press'
    BY <1>1, <1>3
  <2>2. \A i \in DOMAIN enc_refused : enc_refused[i].press <= press'
    BY <1>1, <1>3, <1>4
  <2> QED BY <1>1, <1>5, <2>1, <2>2 DEF CapturePart, Refusable
<1>6. CASE Capture
  <2> DEFINE f == [n |-> captured + 1, press |-> press]
  <2>1. CASE ~acc
    BY <1>5, <1>6, <2>1 DEF Capture
  <2>2. CASE acc
    <3>1. f \in Frame /\ captured' \in 0..MaxCaptured /\ acc' \in BOOLEAN /\ press' = press
      BY <1>1, <1>6, <2>2, AudioAssumption DEF Capture, Frame, gate
    <3>2. f.press = press
      OBVIOUS
    <3>3. enc_refused = <<>>
      BY <1>6 DEF Capture, EncChannel!Settled
    <3> HIDE DEF f
    <3>4. CASE Len(encq) < EncCap
      <4>1. encq' = Append(encq, f) /\ enc_refused' = enc_refused
        BY <1>6, <2>2, <3>4 DEF Capture, EncChannel!Offer, f
      <4>2. /\ encq' \in Seq(Frame) /\ Len(encq') = Len(encq) + 1
            /\ \A i \in 1 .. Len(encq) : encq'[i] = encq[i]
            /\ encq'[Len(encq) + 1] = f
        BY <1>1, <3>1, <4>1, AppendProperties
      <4>3. Len(encq') <= EncCap
        BY <3>4, <4>2, <1>1, AudioAssumption
      <4>4. ASSUME NEW i \in DOMAIN encq' PROVE encq'[i].press <= press'
        <5>1. i \in 1 .. Len(encq) \/ i = Len(encq) + 1
          BY <4>2
        <5> QED BY <5>1, <4>2, <3>1, <3>2, <1>1, <1>2
      <4> QED BY <1>1, <3>1, <4>1, <4>2, <4>3, <4>4 DEF CapturePart, Refusable
    <3>5. CASE ~(Len(encq) < EncCap)
      <4>1. encq' = encq /\ enc_refused' = <<f>>
        BY <1>6, <2>2, <3>5 DEF Capture, EncChannel!Offer, f
      <4>2. \A i \in DOMAIN enc_refused' : enc_refused'[i].press <= press'
        BY <4>1, <3>1, <3>2, <1>2
      <4> QED BY <1>1, <3>1, <4>1, <4>2 DEF CapturePart, Refusable
    <3> QED BY <3>4, <3>5
  <2> QED BY <2>1, <2>2, <1>1
<1>7. CASE CaptureMakesRoom
  <2>1. PICK f \in Frame : enc_refused = <<f>>
    BY <1>1, <1>7 DEF CaptureMakesRoom, EncChannel!MakeRoom, EncChannel!Settled, Refusable
  <2>2. /\ encq' = (IF encq = <<>> THEN <<>> ELSE Tail(encq)) \o <<f>>
        /\ enc_refused' = <<>> /\ acc' = acc /\ captured' = captured /\ press' = press
    BY <1>7, <2>1 DEF CaptureMakesRoom, EncChannel!MakeRoom, gate
  <2>3. /\ encq' \in Seq(Frame) /\ Len(encq') <= EncCap
        /\ \A i \in DOMAIN encq' : encq'[i] = f \/ \E j \in DOMAIN encq : encq'[i] = encq[j]
    <3>1. EncCap \in Nat \ {0} /\ f \in Frame
      BY AudioAssumption
    <3> DEFINE r == (IF encq = <<>> THEN <<>> ELSE Tail(encq)) \o <<f>>
    <3>2. /\ r \in Seq(Frame) /\ Len(r) <= EncCap
          /\ \A i \in DOMAIN r : r[i] = f \/ \E j \in DOMAIN encq : r[i] = encq[j]
      BY <1>1, <3>1, RoomMade
    <3>3. encq' = r
      BY <2>2
    <3> HIDE DEF r
    <3> QED BY <3>2, <3>3
  <2>4. f.press <= press
    BY <1>1, <2>1
  <2>5. \A i \in DOMAIN encq' : encq'[i].press <= press'
    BY <2>2, <2>3, <2>4, <1>1
  <2>6. DOMAIN enc_refused' = {}
    BY <2>2
  <2> QED BY <1>1, <2>2, <2>3, <2>5, <2>6 DEF CapturePart, Refusable
<1>8. CASE EncoderTakes
  <2>1. /\ encq # <<>> /\ encq' = Tail(encq) /\ enc_refused' = enc_refused
        /\ acc' = acc /\ captured' = captured /\ press' = press
    BY <1>8 DEF EncoderTakes, EncChannel!Take, gate
  <2>2. /\ encq' \in Seq(Frame) /\ Len(encq') <= Len(encq)
        /\ \A i \in DOMAIN encq' : \E j \in DOMAIN encq : encq'[i] = encq[j]
    BY <1>1, <2>1, OneTaken
  <2>3. Len(encq') <= EncCap
    BY <1>1, <2>2, AudioAssumption
  <2>4. \A i \in DOMAIN encq' : encq'[i].press <= press'
    BY <1>1, <2>1, <2>2
  <2> QED BY <1>1, <2>1, <2>2, <2>3, <2>4 DEF CapturePart, Refusable
<1>9. CASE Loop
  <2>1. UNCHANGED <<captured, encq, enc_refused>> /\ acc' \in BOOLEAN
    BY <1>1, <1>9 DEF Loop, SyncUplink, OpenStreams, CloseStreams, ResetPlayback, PointEncoder,
       GateCapture, HoldUplink, RelaySpeech, PlayDownlink, PlayDownlinkMakesRoom, capture
  <2> QED BY <1>5, <2>1
<1>10. CASE HoldEnds \/ EncoderReads \/ EncoderSends \/ Loudspeaker \/ UNCHANGED vars
  <2>1. UNCHANGED capture
    BY <1>10 DEF HoldEnds, EncoderReads, EncoderSends, Loudspeaker, DecoderTakes, DecoderPlays,
       OutputCallback, vars
  <2> QED BY <1>1, <1>5, <2>1 DEF capture
<1> QED BY <1>6, <1>7, <1>8, <1>9, <1>10 DEF Next, Microphone

LEMMA EncoderPartStep ==
  ASSUME AInv, [Next]_vars
  PROVE  EncoderPart'
<1>1. /\ encoding \in [phase: {"waiting", "encoding", "sending"}, frame: Frame \cup {NoFrame},
                       cid: Cids \cup {NoCid}, press: 0..MaxPresses]
      /\ relayq \in Seq(Relay) /\ Len(relayq) <= MaxRelayed
      /\ encoding.phase # "waiting" => encoding.frame \in Frame
      /\ encoding.frame.press <= press
      /\ encoding.phase = "sending" =>
           /\ encoding.cid # NoCid /\ encoding.press > 0
           /\ encoding.press >= encoding.frame.press
      /\ \A i \in DOMAIN relayq : relayq[i].press >= relayq[i].frame.press
  BY DEF AInv, EncoderPart, NotToAnEarlierCall
<1>2. /\ press' \in Nat /\ press <= press' /\ press \in 0..MaxPresses
      /\ uplink_cid \in Cids \cup {NoCid} /\ (uplink_cid # NoCid => press > 0)
  BY PressGrows DEF AInv, LoopPart
<1>3. /\ encq \in Seq(Frame) /\ \A i \in DOMAIN encq : encq[i].press <= press
  BY DEF AInv, CapturePart
<1>4. encoding.frame.press \in Nat
  BY <1>1, AudioAssumption DEF Frame, NoFrame
<1>5. encoding.frame.press <= press'
  BY <1>1, <1>2, <1>4
<1>6. CASE EncoderTakes
  <2>1. /\ Head(encq) \in Frame /\ Head(encq) = encq[1] /\ 1 \in DOMAIN encq
    BY <1>3, <1>6, OneTaken DEF EncoderTakes, EncChannel!Take
  <2>2. /\ encoding' = [encoding EXCEPT !.phase = "encoding", !.frame = Head(encq)]
        /\ relayq' = relayq /\ press' = press
    BY <1>6 DEF EncoderTakes, gate
  <2>3. Head(encq).press <= press
    BY <1>3, <2>1
  <2>4. encoding'.phase = "encoding" /\ encoding'.frame = Head(encq)
    BY <1>1, <2>2
  <2> HIDE DEF Frame, Relay
  <2>5. encoding' \in [phase: {"waiting", "encoding", "sending"}, frame: Frame \cup {NoFrame},
                       cid: Cids \cup {NoCid}, press: 0..MaxPresses]
    BY <1>1, <2>1, <2>2
  <2> QED BY <1>1, <2>1, <2>2, <2>3, <2>4, <2>5 DEF EncoderPart, NotToAnEarlierCall
<1>7. CASE EncoderReads
  <2>1. encoding.phase = "encoding" /\ encoding.frame \in Frame /\ relayq' = relayq /\ press' = press
    BY <1>1, <1>7 DEF EncoderReads, gate
  <2>2. CASE uplink_cid = NoCid \/ masked
    <3>1. encoding' = [encoding EXCEPT !.phase = "waiting"]
      BY <1>7, <2>2 DEF EncoderReads
    <3>2. /\ encoding'.phase = "waiting" /\ encoding'.frame = encoding.frame
          /\ encoding' \in [phase: {"waiting", "encoding", "sending"}, frame: Frame \cup {NoFrame},
                            cid: Cids \cup {NoCid}, press: 0..MaxPresses]
      BY <1>1, <3>1
    <3> QED BY <1>1, <2>1, <3>2 DEF EncoderPart, NotToAnEarlierCall
  <2>3. CASE ~(uplink_cid = NoCid \/ masked)
    <3>1. encoding' = [encoding EXCEPT !.phase = "sending", !.cid = uplink_cid, !.press = press]
      BY <1>7, <2>3 DEF EncoderReads
    <3>2. /\ encoding'.phase = "sending" /\ encoding'.frame = encoding.frame
          /\ encoding'.cid = uplink_cid /\ encoding'.press = press
          /\ encoding' \in [phase: {"waiting", "encoding", "sending"}, frame: Frame \cup {NoFrame},
                            cid: Cids \cup {NoCid}, press: 0..MaxPresses]
      BY <1>1, <1>2, <3>1
    <3> QED BY <1>1, <1>2, <1>4, <2>1, <2>3, <3>2 DEF EncoderPart, NotToAnEarlierCall
  <2> QED BY <2>2, <2>3
<1>8. CASE EncoderSends
  <2> DEFINE e == [cid |-> encoding.cid, press |-> encoding.press, frame |-> encoding.frame]
  <2>1. /\ encoding.phase = "sending" /\ relayq' = Append(relayq, e) /\ Len(relayq) < MaxRelayed
        /\ encoding' = [encoding EXCEPT !.phase = "waiting"] /\ press' = press
    BY <1>8 DEF EncoderSends, gate
  <2>2. e \in Relay
    BY <1>1, <1>2, <2>1, AudioAssumption DEF Relay
  <2>3. e.press >= e.frame.press
    BY <1>1, <2>1
  <2>4. /\ encoding'.phase = "waiting" /\ encoding'.frame = encoding.frame
        /\ encoding' \in [phase: {"waiting", "encoding", "sending"}, frame: Frame \cup {NoFrame},
                          cid: Cids \cup {NoCid}, press: 0..MaxPresses]
    BY <1>1, <2>1
  <2> HIDE DEF e
  <2>5. /\ relayq' \in Seq(Relay) /\ Len(relayq') = Len(relayq) + 1
        /\ \A i \in 1 .. Len(relayq) : relayq'[i] = relayq[i]
        /\ relayq'[Len(relayq) + 1] = e
    BY <1>1, <2>1, <2>2, AppendProperties
  <2>6. ASSUME NEW i \in DOMAIN relayq' PROVE relayq'[i].press >= relayq'[i].frame.press
    <3>1. i \in 1 .. Len(relayq) \/ i = Len(relayq) + 1
      BY <2>5
    <3> QED BY <3>1, <2>3, <2>5, <1>1
  <2>7. Len(relayq') <= MaxRelayed
    BY <2>1, <2>5, <1>1, AudioAssumption
  <2> QED BY <1>1, <2>1, <2>4, <2>5, <2>6, <2>7 DEF EncoderPart, NotToAnEarlierCall
<1>9. CASE RelaySpeech
  <2>1. relayq # <<>> /\ relayq' = Tail(relayq) /\ encoding' = encoding
    BY <1>9 DEF RelaySpeech
  <2>2. /\ relayq' \in Seq(Relay) /\ Len(relayq') <= Len(relayq)
        /\ \A i \in DOMAIN relayq' : \E j \in DOMAIN relayq : relayq'[i] = relayq[j]
    BY <1>1, <2>1, OneTaken
  <2>3. Len(relayq') <= MaxRelayed
    BY <1>1, <2>2, AudioAssumption
  <2>4. \A i \in DOMAIN relayq' : relayq'[i].press >= relayq'[i].frame.press
    BY <1>1, <2>2
  <2> QED BY <1>1, <1>5, <2>1, <2>2, <2>3, <2>4 DEF EncoderPart, NotToAnEarlierCall
<1>10. CASE UNCHANGED encoder
  BY <1>1, <1>5, <1>10 DEF EncoderPart, NotToAnEarlierCall, encoder
<1>11. CASE Loop /\ ~RelaySpeech
  BY <1>10, <1>11 DEF Loop, SyncUplink, ResetPlayback, PointEncoder, GateCapture, HoldUplink,
     PlayDownlink, PlayDownlinkMakesRoom
<1>12. CASE HoldEnds \/ Capture \/ CaptureMakesRoom \/ Loudspeaker \/ UNCHANGED vars
  BY <1>10, <1>12 DEF HoldEnds, Capture, CaptureMakesRoom, Loudspeaker, DecoderTakes,
     DecoderPlays, OutputCallback, vars
<1> QED BY <1>6, <1>7, <1>8, <1>9, <1>11, <1>12 DEF Next, Microphone

LEMMA DecoderPartStep ==
  ASSUME AInv, [Next]_vars
  PROVE  DecoderPart'
<1> DEFINE Item == 1..MaxReceived
<1>1. /\ received \in 0..MaxReceived
      /\ decq \in Seq(Item) /\ Len(decq) <= DecCap /\ dec_refused \in Refusable(Item)
      /\ decoding \in [busy: BOOLEAN, frame: 0..MaxReceived]
  BY DEF AInv, DecoderPart, Refusable
<1>2. SUFFICES /\ received' \in 0..MaxReceived
               /\ decq' \in Seq(Item) /\ Len(decq') <= DecCap /\ dec_refused' \in Refusable(Item)
               /\ decoding' \in [busy: BOOLEAN, frame: 0..MaxReceived]
  BY DEF DecoderPart, Refusable
<1>3. Len(decq) \in Nat /\ DecCap \in Nat \ {0}
  BY <1>1, AudioAssumption
<1>4. CASE PlayDownlink
  <2>1. /\ received < MaxReceived /\ received' = received + 1 /\ decoding' = decoding
        /\ DecChannel!Offer(received + 1)
    BY <1>4 DEF PlayDownlink
  <2>2. received + 1 \in Item /\ received' \in 0..MaxReceived
    BY <2>1, <1>1, AudioAssumption
  <2> DEFINE n == received + 1
  <2>5. n \in Item
    BY <2>2
  <2> HIDE DEF Item, n
  <2>3. CASE Len(decq) < DecCap
    <3>1. decq' = Append(decq, n) /\ dec_refused' = dec_refused
      BY <2>1, <2>3 DEF DecChannel!Offer, n
    <3>2. decq' \in Seq(Item) /\ Len(decq') = Len(decq) + 1
      BY <1>1, <2>5, <3>1, AppendProperties
    <3> QED BY <1>1, <1>3, <2>1, <2>2, <2>3, <3>1, <3>2
  <2>4. CASE ~(Len(decq) < DecCap)
    <3>1. decq' = decq /\ dec_refused' = <<n>>
      BY <2>1, <2>4 DEF DecChannel!Offer, n
    <3>2. dec_refused' \in Refusable(Item)
      BY <2>5, <3>1 DEF Refusable
    <3> QED BY <1>1, <2>1, <2>2, <3>1, <3>2
  <2> QED BY <2>3, <2>4
<1> HIDE DEF Item
<1>5. CASE PlayDownlinkMakesRoom
  <2>1. PICK n \in Item : dec_refused = <<n>>
    BY <1>1, <1>5 DEF PlayDownlinkMakesRoom, DecChannel!MakeRoom, DecChannel!Settled, Refusable
  <2> DEFINE r == (IF decq = <<>> THEN <<>> ELSE Tail(decq)) \o <<n>>
  <2>2. decq' = r /\ dec_refused' = <<>> /\ received' = received /\ decoding' = decoding
    BY <1>5, <2>1 DEF PlayDownlinkMakesRoom, DecChannel!MakeRoom
  <2>3. r \in Seq(Item) /\ Len(r) <= DecCap
    BY <1>1, <1>3, RoomMade
  <2> HIDE DEF r
  <2>4. dec_refused' \in Refusable(Item)
    BY <2>2 DEF Refusable
  <2> QED BY <1>1, <2>2, <2>3, <2>4
<1>6. CASE DecoderTakes
  <2>1. /\ decq # <<>> /\ decq' = Tail(decq) /\ dec_refused' = dec_refused
        /\ received' = received /\ decoding' = [busy |-> TRUE, frame |-> Head(decq)]
    BY <1>6 DEF DecoderTakes, DecChannel!Take
  <2>2. Head(decq) \in Item /\ decq' \in Seq(Item) /\ Len(decq') <= Len(decq)
    BY <1>1, <2>1, OneTaken
  <2>3. Head(decq) \in 0..MaxReceived
    BY <2>2 DEF Item
  <2>4. Len(decq') <= DecCap
    BY <1>1, <1>3, <2>2
  <2>5. decoding' \in [busy: BOOLEAN, frame: 0..MaxReceived]
    BY <2>1, <2>3
  <2> QED BY <1>1, <2>1, <2>2, <2>4, <2>5
<1>7. CASE DecoderPlays
  <2>1. /\ UNCHANGED <<received, decq, dec_refused>>
        /\ decoding' = [decoding EXCEPT !.busy = FALSE]
    BY <1>7 DEF DecoderPlays
  <2> QED BY <1>1, <2>1
<1>8. CASE UNCHANGED decoder
  BY <1>1, <1>8 DEF decoder
<1>9. CASE HoldEnds \/ Microphone \/ OutputCallback \/ UNCHANGED vars
  BY <1>8, <1>9 DEF HoldEnds, Microphone, Capture, CaptureMakesRoom, EncoderTakes, EncoderReads,
     EncoderSends, OutputCallback, vars
<1>10. CASE Loop /\ ~PlayDownlink /\ ~PlayDownlinkMakesRoom
  BY <1>8, <1>10 DEF Loop, SyncUplink, ResetPlayback, PointEncoder, GateCapture, HoldUplink, RelaySpeech
<1> QED BY <1>4, <1>5, <1>6, <1>7, <1>9, <1>10 DEF Next, Loudspeaker

\* The output device is open only while the engine is active and nothing is being closed.
LEMMA SpeakerPartStep ==
  ASSUME AInv, [Next]_vars
  PROVE  /\ SpeakerPart'
         /\ sound = "silence" /\ sound' = "speech" => playback >= Cushion
<1> DEFINE G == /\ SpeakerPart'
                /\ sound = "silence" /\ sound' = "speech" => playback >= Cushion
<1>1. /\ playback \in Nat /\ playing \in BOOLEAN /\ sound \in {"silence", "speech"}
      /\ (~active => ~playing) /\ (playing => sound = "speech" \/ Cushion = 0)
      /\ active \in BOOLEAN /\ (out_stream => active)
      /\ Cushion \in Nat /\ LongestLag \in Nat \ {0}
  BY AudioAssumption DEF AInv, SpeakerPart, LoopPart
<1>2. CASE OutputCallback
  <2>1. active' = active /\ active
    BY <1>1, <1>2 DEF OutputCallback, loop
  <2> DEFINE open == playing \/ Cushion = 0 \/ playback >= Cushion
  <2>2. CASE open /\ playback > 0
    <3>1. playback' = playback - 1 /\ playing' = TRUE /\ sound' = "speech"
      BY <1>2, <2>2 DEF OutputCallback
    <3>2. sound = "silence" => playback >= Cushion
      BY <1>1, <2>2
    <3>3. playback' \in Nat
      BY <1>1, <2>2, <3>1
    <3> QED BY <2>1, <3>1, <3>2, <3>3 DEF SpeakerPart
  <2>3. CASE ~(open /\ playback > 0)
    <3>1. playback' = playback /\ sound' = "silence" /\ playing' = (open /\ Cushion = 0)
      BY <1>2, <2>3 DEF OutputCallback
    <3>2. playing' \in BOOLEAN /\ (playing' => Cushion = 0)
      BY <3>1
    <3> QED BY <1>1, <2>1, <3>1, <3>2 DEF SpeakerPart
  <2> QED BY <2>2, <2>3
<1>3. CASE DecoderPlays
  <2>1. active' = active /\ playing' = playing /\ sound' = sound
    BY <1>3 DEF DecoderPlays, loop
  <2>2. MostBuffered \in Nat
    BY <1>1 DEF MostBuffered
  <2>3. playback' \in Nat
    BY <1>1, <1>3, <2>2 DEF DecoderPlays
  <2> QED BY <1>1, <2>1, <2>3 DEF SpeakerPart
<1>4. ASSUME NEW needed \in BOOLEAN, NEW cid, SyncUplink(needed, cid)
      PROVE  G
  <2>1. playback' = playback /\ playing' = playing
    BY <1>4 DEF SyncUplink
  <2>2. CASE needed /\ ~active
    <3>1. sound' = "silence" /\ active' = TRUE
      BY <1>4, <2>2 DEF SyncUplink, OpenStreams
    <3> QED BY <1>1, <2>1, <2>2, <3>1 DEF SpeakerPart
  <2>3. CASE ~(needed /\ ~active)
    <3>1. sound' = sound /\ active' = active
      BY <1>4, <2>3 DEF SyncUplink, CloseStreams
    <3> QED BY <1>1, <2>1, <3>1 DEF SpeakerPart
  <2> QED BY <2>2, <2>3
<1>5. CASE ResetPlayback
  <2>1. playback' = 0 /\ playing' = FALSE /\ sound' = sound
    BY <1>5 DEF ResetPlayback
  <2> QED BY <1>1, <2>1 DEF SpeakerPart
<1>6. CASE UNCHANGED <<active, speaker>>
  BY <1>1, <1>6 DEF SpeakerPart, speaker
<1>7. CASE PointEncoder \/ GateCapture \/ HoldUplink \/ RelaySpeech \/ PlayDownlink
           \/ PlayDownlinkMakesRoom
  BY <1>6, <1>7 DEF PointEncoder, GateCapture, HoldUplink, RelaySpeech, PlayDownlink,
     PlayDownlinkMakesRoom, loop
<1>8. CASE HoldEnds \/ Microphone \/ DecoderTakes \/ UNCHANGED vars
  BY <1>6, <1>8 DEF HoldEnds, Microphone, Capture, CaptureMakesRoom, EncoderTakes, EncoderReads,
     EncoderSends, DecoderTakes, loop, vars
<1>9. CASE Loop
  BY <1>4, <1>5, <1>7, <1>9 DEF Loop
<1> QED BY <1>2, <1>3, <1>8, <1>9 DEF Next, Loudspeaker

LEMMA AInvHolds == Spec => []AInv
<1>1. AInv /\ [Next]_vars => AInv'
  BY LoopPartStep, CapturePartStep, EncoderPartStep, DecoderPartStep, SpeakerPartStep DEF AInv
<1> QED BY <1>1, AInvInit, PTL DEF Spec

-----------------------------------------------------------------------------
(* Theorems.                                                                *)

\* Types, and the two channels never hold more than they are made for, whatever the
\* threads do between two steps of one another.
THEOREM AudioTypeCorrect == Spec => []AudioTypeOK
<1>1. AInv => AudioTypeOK
  <2> SUFFICES ASSUME AInv PROVE AudioTypeOK
    OBVIOUS
  <2>1. /\ AllLeft \in Seq({"reset", "point", "gate"}) /\ PointLeft \in Seq({"reset", "point", "gate"})
        /\ GateLeft \in Seq({"reset", "point", "gate"}) /\ <<>> \in Seq({"reset", "point", "gate"})
    BY EmptySeq DEF AllLeft, PointLeft, GateLeft
  <2>2. loop_todo \in Seq({"reset", "point", "gate"})
    BY <2>1 DEF AInv, LoopPart
  <2> QED BY <2>2 DEF AInv, AudioTypeOK, LoopPart, CapturePart, EncoderPart, DecoderPart, SpeakerPart
<1> QED BY <1>1, AInvHolds, PTL

\* Speech is never sent to a call the encoder had left before it was captured: the encoder
\* reads the call after it took the frame, and sync_uplink counts a call before it opens
\* the gate for it.
THEOREM NotToAnEarlierCallHolds == Spec => []NotToAnEarlierCall
<1>1. AInv => NotToAnEarlierCall
  BY DEF AInv, EncoderPart
<1> QED BY <1>1, AInvHolds, PTL

\* After silence speech starts with a full cushion, in a call that inherits nothing of the
\* playing state of the one before.
THEOREM CushionBeforeSpeechHolds == Spec => CushionBeforeSpeech
<1>1. AInv /\ [Next]_vars => [sound = "silence" /\ sound' = "speech" => playback >= Cushion]_vars
  BY SpeakerPartStep
<1> QED BY <1>1, AInvHolds, PTL DEF Spec, CushionBeforeSpeech

-----------------------------------------------------------------------------
(* The channels implement FreshQueue.                                       *)

\* An item that goes in, or waits until there is room, is put last.
LEMMA BacklogOffered ==
  ASSUME NEW S, NEW q \in Seq(S), NEW x \in S, NEW r,
         r = Append(q, x)
  PROVE  /\ r \o <<>> = Append(q \o <<>>, x)
         /\ q \o <<x>> = Append(q \o <<>>, x)
<1>1. r \in Seq(S)
  BY AppendProperties
<1> QED BY <1>1, BacklogOf

\* Making room gives up the oldest, or nothing when the consumer was faster.
LEMMA BacklogRoomMade ==
  ASSUME NEW S, NEW q \in Seq(S), NEW x \in S, NEW r,
         r = (IF q = <<>> THEN <<>> ELSE Tail(q)) \o <<x>>
  PROVE  IF q = <<>> THEN r \o <<>> = q \o <<x>>
         ELSE r \o <<>> = Tail(q \o <<x>>) /\ Len(q \o <<x>>) > 1
<1>1. q \o <<x>> = Append(q, x)
  BY BacklogOf
<1>2. CASE q = <<>>
  <2>1. <<x>> \in Seq(S)
    OBVIOUS
  <2>2. r = <<x>> /\ q \o <<x>> = <<x>> /\ <<x>> \o <<>> = <<x>>
    BY <1>2, <2>1, ConcatEmptySeq
  <2> QED BY <1>2, <2>2
<1>3. CASE q # <<>>
  <2>1. Tail(q) \in Seq(S) /\ Len(q) \in Nat \ {0}
    BY <1>3, HeadTailProperties, EmptySeq
  <2>2. r = Append(Tail(q), x)
    BY <1>3, <2>1, AppendIsConcat
  <2>3. r \in Seq(S)
    BY <2>1, <2>2, AppendProperties
  <2>4. Tail(Append(q, x)) = Append(Tail(q), x)
    BY <1>3, HeadTailAppend
  <2>5. Len(Append(q, x)) = Len(q) + 1
    BY AppendProperties
  <2>6. r \o <<>> = r
    BY <2>3, ConcatEmptySeq
  <2> QED BY <1>1, <1>3, <2>1, <2>2, <2>4, <2>5, <2>6
<1> QED BY <1>2, <1>3

\* Taking from the queue takes the oldest of the backlog.
LEMMA BacklogTaken ==
  ASSUME NEW S, NEW q \in Seq(S), q # <<>>, NEW r \in Refusable(S)
  PROVE  /\ q \o r # <<>> /\ Head(q \o r) = Head(q)
         /\ Tail(q) \o r = Tail(q \o r)
<1>1. Tail(q) \in Seq(S)
  BY HeadTailProperties
<1>2. CASE r = <<>>
  <2>1. q \o r = q /\ Tail(q) \o r = Tail(q)
    BY <1>1, <1>2, ConcatEmptySeq
  <2> QED BY <2>1
<1>3. ASSUME NEW x \in S, r = <<x>>
      PROVE  q \o r # <<>> /\ Head(q \o r) = Head(q) /\ Tail(q) \o r = Tail(q \o r)
  <2>1. q \o r = Append(q, x) /\ Tail(q) \o r = Append(Tail(q), x)
    BY <1>1, <1>3, BacklogOf
  <2>2. /\ Append(q, x) # <<>> /\ Head(Append(q, x)) = Head(q)
        /\ Tail(Append(q, x)) = Append(Tail(q), x)
    BY AppendProperties, HeadTailAppend
  <2> QED BY <2>1, <2>2
<1> QED BY <1>2, <1>3 DEF Refusable

LEMMA UplinkStep ==
  ASSUME AInv, [Next]_vars
  PROVE  UplinkQueue!Next \/ UNCHANGED UplinkQueue!vars
<1>1. /\ encq \in Seq(Frame) /\ Len(encq) <= EncCap /\ enc_refused \in Refusable(Frame)
      /\ uplink_active => press > 0
      /\ press \in 0..MaxPresses /\ captured \in 0..MaxCaptured
      /\ encoding \in [phase: {"waiting", "encoding", "sending"}, frame: Frame \cup {NoFrame},
                       cid: Cids \cup {NoCid}, press: 0..MaxPresses]
  BY DEF AInv, CapturePart, EncoderPart, LoopPart, Refusable
<1>2. CASE Capture
  <2>1. CASE ~acc
    <3>1. UNCHANGED <<encq, enc_refused, encoding>>
      BY <1>2, <2>1 DEF Capture, encoder
    <3> QED BY <3>1 DEF UplinkQueue!vars, EncChannel!Backlog
  <2>2. CASE acc
    <3> DEFINE f == [n |-> captured + 1, press |-> press]
    <3>1. f \in Frame
      BY <1>1, <1>2, <2>2, AudioAssumption DEF Capture, Frame
    <3>2. enc_refused = <<>> /\ EncChannel!Offer(f) /\ encoding' = encoding
      BY <1>2, <2>2 DEF Capture, EncChannel!Settled, encoder
    <3> HIDE DEF f
    <3>3. EncChannel!Backlog' = Append(EncChannel!Backlog, f)
      <4>1. CASE Len(encq) < EncCap
        BY <1>1, <3>1, <3>2, <4>1, BacklogOffered DEF EncChannel!Offer, EncChannel!Backlog
      <4>2. CASE ~(Len(encq) < EncCap)
        BY <1>1, <3>1, <3>2, <4>2, BacklogOffered DEF EncChannel!Offer, EncChannel!Backlog
      <4> QED BY <4>1, <4>2
    <3>4. Len(EncChannel!Backlog) <= EncCap
      BY <1>1, <3>2, BacklogOf DEF EncChannel!Backlog
    <3>5. UplinkQueue!Put(f)
      BY <3>2, <3>3, <3>4 DEF UplinkQueue!Put
    <3> QED BY <3>1, <3>5 DEF UplinkQueue!Next
  <2> QED BY <2>1, <2>2, <1>2
<1>3. CASE CaptureMakesRoom
  <2>1. PICK f \in Frame : enc_refused = <<f>>
    BY <1>1, <1>3 DEF CaptureMakesRoom, EncChannel!MakeRoom, EncChannel!Settled, Refusable
  <2>2. /\ encq' = (IF encq = <<>> THEN <<>> ELSE Tail(encq)) \o <<f>>
        /\ enc_refused' = <<>> /\ encoding' = encoding
    BY <1>3, <2>1 DEF CaptureMakesRoom, EncChannel!MakeRoom, encoder
  <2>3. IF encq = <<>> THEN encq' \o <<>> = encq \o <<f>>
        ELSE encq' \o <<>> = Tail(encq \o <<f>>) /\ Len(encq \o <<f>>) > 1
    <3>1. encq \in Seq(Frame) /\ f \in Frame
      BY <1>1
    <3> QED BY <3>1, <2>2, BacklogRoomMade, ZenonT(30)
  <2>4. EncChannel!Backlog = encq \o <<f>> /\ EncChannel!Backlog' = encq' \o <<>>
    BY <2>1, <2>2 DEF EncChannel!Backlog
  <2> QED BY <2>2, <2>3, <2>4 DEF UplinkQueue!Next, UplinkQueue!GiveUpOldest, UplinkQueue!vars
<1>4. CASE EncoderTakes
  <2>1. encq # <<>> /\ encq' = Tail(encq) /\ enc_refused' = enc_refused
    BY <1>4 DEF EncoderTakes, EncChannel!Take
  <2>2. encoding'.frame = Head(encq)
    BY <1>1, <1>4 DEF EncoderTakes
  <2>3. encq \o enc_refused # <<>> /\ Head(encq \o enc_refused) = Head(encq)
        /\ Tail(encq) \o enc_refused = Tail(encq \o enc_refused)
    BY <1>1, <2>1, BacklogTaken
  <2>4. UplinkQueue!Take
    BY <2>1, <2>2, <2>3 DEF UplinkQueue!Take, EncChannel!Backlog
  <2> QED BY <2>4 DEF UplinkQueue!Next
<1>5. CASE EncoderReads \/ EncoderSends
  <2>1. UNCHANGED <<encq, enc_refused>>
    BY <1>5 DEF EncoderReads, EncoderSends, capture
  <2>2. encoding'.frame = encoding.frame
    BY <1>1, <1>5 DEF EncoderReads, EncoderSends
  <2> QED BY <2>1, <2>2 DEF UplinkQueue!vars, EncChannel!Backlog
<1>6. CASE UNCHANGED <<encq, enc_refused, encoding>>
  BY <1>6 DEF UplinkQueue!vars, EncChannel!Backlog
<1>7. CASE Loop
  BY <1>6, <1>7 DEF Loop, SyncUplink, ResetPlayback, PointEncoder, GateCapture, HoldUplink,
     RelaySpeech, PlayDownlink, PlayDownlinkMakesRoom, capture, encoder
<1>8. CASE HoldEnds \/ Loudspeaker \/ UNCHANGED vars
  BY <1>6, <1>8 DEF HoldEnds, Loudspeaker, DecoderTakes, DecoderPlays, OutputCallback, capture,
     encoder, vars
<1> QED BY <1>2, <1>3, <1>4, <1>5, <1>7, <1>8 DEF Next, Microphone

LEMMA DownlinkStep ==
  ASSUME AInv, [Next]_vars
  PROVE  DownlinkQueue!Next \/ UNCHANGED DownlinkQueue!vars
<1> DEFINE Item == 1..MaxReceived
<1>1. /\ decq \in Seq(Item) /\ Len(decq) <= DecCap /\ dec_refused \in Refusable(Item)
      /\ received \in 0..MaxReceived
      /\ decoding \in [busy: BOOLEAN, frame: 0..MaxReceived]
  BY DEF AInv, DecoderPart, Refusable
<1>2. CASE PlayDownlink
  <2> DEFINE n == received + 1
  <2>1. DecChannel!Offer(n) /\ decoding' = decoding /\ dec_refused = <<>>
    BY <1>2 DEF PlayDownlink, LoopFree, DecChannel!Settled
  <2>2. n \in Item
    BY <1>1, <1>2, AudioAssumption DEF PlayDownlink
  <2> HIDE DEF n, Item
  <2>3. DecChannel!Backlog' = Append(DecChannel!Backlog, n)
    <3>1. CASE Len(decq) < DecCap
      BY <1>1, <2>1, <2>2, <3>1, BacklogOffered DEF DecChannel!Offer, DecChannel!Backlog
    <3>2. CASE ~(Len(decq) < DecCap)
      BY <1>1, <2>1, <2>2, <3>2, BacklogOffered DEF DecChannel!Offer, DecChannel!Backlog
    <3> QED BY <3>1, <3>2
  <2>4. Len(DecChannel!Backlog) <= DecCap
    BY <1>1, <2>1, BacklogOf DEF DecChannel!Backlog
  <2>5. DownlinkQueue!Put(n)
    BY <2>1, <2>3, <2>4 DEF DownlinkQueue!Put
  <2> QED BY <2>2, <2>5 DEF DownlinkQueue!Next, Item
<1> HIDE DEF Item
<1>3. CASE PlayDownlinkMakesRoom
  <2>1. PICK n \in Item : dec_refused = <<n>>
    BY <1>1, <1>3 DEF PlayDownlinkMakesRoom, DecChannel!MakeRoom, DecChannel!Settled, Refusable
  <2>2. /\ decq' = (IF decq = <<>> THEN <<>> ELSE Tail(decq)) \o <<n>>
        /\ dec_refused' = <<>> /\ decoding' = decoding
    BY <1>3, <2>1 DEF PlayDownlinkMakesRoom, DecChannel!MakeRoom
  <2>3. IF decq = <<>> THEN decq' \o <<>> = decq \o <<n>>
        ELSE decq' \o <<>> = Tail(decq \o <<n>>) /\ Len(decq \o <<n>>) > 1
    BY <1>1, <2>2, BacklogRoomMade
  <2>4. DecChannel!Backlog = decq \o <<n>> /\ DecChannel!Backlog' = decq' \o <<>>
    BY <2>1, <2>2 DEF DecChannel!Backlog
  <2> QED BY <2>2, <2>3, <2>4 DEF DownlinkQueue!Next, DownlinkQueue!GiveUpOldest, DownlinkQueue!vars
<1>4. CASE DecoderTakes
  <2>1. decq # <<>> /\ decq' = Tail(decq) /\ dec_refused' = dec_refused
    BY <1>4 DEF DecoderTakes, DecChannel!Take
  <2>2. decoding'.frame = Head(decq)
    BY <1>4 DEF DecoderTakes
  <2>3. decq \o dec_refused # <<>> /\ Head(decq \o dec_refused) = Head(decq)
        /\ Tail(decq) \o dec_refused = Tail(decq \o dec_refused)
    BY <1>1, <2>1, BacklogTaken
  <2>4. DownlinkQueue!Take
    BY <2>1, <2>2, <2>3 DEF DownlinkQueue!Take, DecChannel!Backlog
  <2> QED BY <2>4 DEF DownlinkQueue!Next
<1>5. CASE DecoderPlays
  <2>1. UNCHANGED <<decq, dec_refused>>
    BY <1>5 DEF DecoderPlays
  <2>2. decoding'.frame = decoding.frame
    BY <1>1, <1>5 DEF DecoderPlays
  <2> QED BY <2>1, <2>2 DEF DownlinkQueue!vars, DecChannel!Backlog
<1>6. CASE UNCHANGED <<decq, dec_refused, decoding>>
  BY <1>6 DEF DownlinkQueue!vars, DecChannel!Backlog
<1>7. CASE Loop /\ ~PlayDownlink /\ ~PlayDownlinkMakesRoom
  BY <1>6, <1>7 DEF Loop, SyncUplink, ResetPlayback, PointEncoder, GateCapture, HoldUplink,
     RelaySpeech, decoder
<1>8. CASE HoldEnds \/ Microphone \/ OutputCallback \/ UNCHANGED vars
  BY <1>6, <1>8 DEF HoldEnds, Microphone, Capture, CaptureMakesRoom, EncoderTakes, EncoderReads,
     EncoderSends, OutputCallback, decoder, vars
<1> QED BY <1>2, <1>3, <1>4, <1>5, <1>7, <1>8 DEF Next, Loudspeaker

\* Each channel implements FreshQueue, for every capacity: what waits is put in order and
\* taken in order, and making room gives up the oldest and never the newest, even when
\* the consumer empties the channel between the refusal and the retry.
THEOREM QueuesKeepNewestHolds == Spec => QueuesKeepNewest
<1>1. Init => UplinkQueue!Init /\ DownlinkQueue!Init
  <2>1. <<>> \o <<>> = <<>>
    BY EmptySeq, ConcatEmptySeq
  <2> QED BY <2>1 DEF Init, UplinkQueue!Init, DownlinkQueue!Init, EncChannel!Backlog,
        DecChannel!Backlog
<1>2. AInv /\ [Next]_vars => [UplinkQueue!Next]_(UplinkQueue!vars)
  BY UplinkStep
<1>3. AInv /\ [Next]_vars => [DownlinkQueue!Next]_(DownlinkQueue!vars)
  BY DownlinkStep
<1> QED BY <1>1, <1>2, <1>3, AInvHolds, PTL
     DEF Spec, QueuesKeepNewest, UplinkQueue!Spec, DownlinkQueue!Spec
=============================================================================
