-------------------------- MODULE RingPlayerProofs --------------------------
(***************************************************************************)
(* Theorems about RingPlayer for every set of ringtones, every length of   *)
(* an alert tone and every number of previews.                             *)
(***************************************************************************)
EXTENDS RingPlayer, SequenceTheorems, TLAPS

-----------------------------------------------------------------------------
(* Lists of stores.                                                         *)

Writes(l, f, v) == \E i \in DOMAIN l : l[i][1] = f /\ l[i][2] = v
Leaves(l, f)    == \A i \in DOMAIN l : l[i][1] # f
OnceEach(l)     == \A i, j \in DOMAIN l : l[i][1] = l[j][1] => i = j

\* What play, beep and stop store, in this order.
PlayWrites(id) ==
  <<<<"buf", id>>, <<"oneshot", FALSE>>, <<"active", TRUE>>, <<"stream", TRUE>>>>
BeepWrites ==
  <<<<"buf", Alert>>, <<"remaining", ToneLength>>, <<"oneshot", TRUE>>, <<"active", TRUE>>,
    <<"stream", TRUE>>>>
StopWrites == <<<<"active", FALSE>>, <<"oneshot", FALSE>>, <<"stream", FALSE>>>>

\* What the output callback stores only takes a sound back.
OnlyClears(l) ==
  \A i \in DOMAIN l : \/ l[i][1] = "remaining"
                      \/ l[i][1] \in Flags /\ l[i][2] = FALSE

\* The fields of a record of the player, one by one.
LEMMA StoreCases ==
  ASSUME NEW w \in Store
  PROVE  \/ w[1] = "active" /\ w[2] \in BOOLEAN
         \/ w[1] = "oneshot" /\ w[2] \in BOOLEAN
         \/ w[1] = "stream" /\ w[2] \in BOOLEAN
         \/ w[1] = "buf" /\ w[2] \in Tones
         \/ w[1] = "remaining" /\ w[2] \in 0..ToneLength
BY DEF Store, Flags

LEMMA IsStore ==
  /\ \A f \in {"active", "oneshot", "stream"} : \A b \in BOOLEAN : <<f, b>> \in Store
  /\ \A id \in Tones : <<"buf", id>> \in Store
  /\ \A n \in 0..ToneLength : <<"remaining", n>> \in Store
BY DEF Store, Flags

\* Every variable of the player keeps its type under a store and under a load.
LEMMA Stored ==
  ASSUME NEW s \in Shared, NEW w \in Store
  PROVE  /\ [s EXCEPT ![w[1]] = w[2]] \in Shared
         /\ [s EXCEPT ![w[1]] = w[2]][w[1]] = w[2]
         /\ \A f \in Fields : f # w[1] => [s EXCEPT ![w[1]] = w[2]][f] = s[f]
<1> DEFINE t == [s EXCEPT ![w[1]] = w[2]]
<1>1. CASE w[1] = "active" /\ w[2] \in BOOLEAN
  BY <1>1 DEF Shared, Fields, Flags
<1>2. CASE w[1] = "oneshot" /\ w[2] \in BOOLEAN
  BY <1>2 DEF Shared, Fields, Flags
<1>3. CASE w[1] = "stream" /\ w[2] \in BOOLEAN
  BY <1>3 DEF Shared, Fields, Flags
<1>4. CASE w[1] = "buf" /\ w[2] \in Tones
  BY <1>4 DEF Shared, Fields, Flags
<1>5. CASE w[1] = "remaining" /\ w[2] \in 0..ToneLength
  BY <1>5 DEF Shared, Fields, Flags
<1> QED BY <1>1, <1>2, <1>3, <1>4, <1>5, StoreCases

LEMMA Loaded ==
  ASSUME NEW s \in Shared, NEW g \in Shared, NEW f \in Fields
  PROVE  [g EXCEPT ![f] = s[f]] \in Shared
<1>1. CASE f = "active"
  BY <1>1 DEF Shared
<1>2. CASE f = "oneshot"
  BY <1>2 DEF Shared
<1>3. CASE f = "stream"
  BY <1>3 DEF Shared
<1>4. CASE f = "buf"
  BY <1>4 DEF Shared
<1>5. CASE f = "remaining"
  BY <1>5 DEF Shared
<1> QED BY <1>1, <1>2, <1>3, <1>4, <1>5 DEF Fields, Flags

LEMMA PlayList ==
  ASSUME NEW id \in Tones
  PROVE  LET l == PlayWrites(id)
         IN  /\ l \in Seq(Store) /\ DOMAIN l = 1..4
             /\ l[1][1] = "buf" /\ l[1][2] = id
             /\ l[2][1] = "oneshot" /\ l[2][2] = FALSE
             /\ l[3][1] = "active" /\ l[3][2] = TRUE
             /\ l[4][1] = "stream" /\ l[4][2] = TRUE
<1>1. /\ <<"buf", id>> \in Store /\ <<"oneshot", FALSE>> \in Store
      /\ <<"active", TRUE>> \in Store /\ <<"stream", TRUE>> \in Store
  BY IsStore
<1>2. PlayWrites(id) \in Seq(Store)
  BY <1>1 DEF PlayWrites
<1> QED BY <1>2 DEF PlayWrites

LEMMA BeepList ==
  LET l == BeepWrites
  IN  /\ l \in Seq(Store) /\ DOMAIN l = 1..5
      /\ l[1][1] = "buf" /\ l[1][2] = Alert
      /\ l[2][1] = "remaining"
      /\ l[3][1] = "oneshot" /\ l[3][2] = TRUE
      /\ l[4][1] = "active" /\ l[4][2] = TRUE
      /\ l[5][1] = "stream" /\ l[5][2] = TRUE
<1>1. /\ <<"buf", Alert>> \in Store /\ <<"remaining", ToneLength>> \in Store
      /\ <<"oneshot", TRUE>> \in Store /\ <<"active", TRUE>> \in Store /\ <<"stream", TRUE>> \in Store
  <2>1. Alert \in Tones /\ ToneLength \in 0..ToneLength
    BY RingAssumption DEF Tones
  <2> QED BY <2>1, IsStore
<1>2. BeepWrites \in Seq(Store)
  BY <1>1 DEF BeepWrites
<1> QED BY <1>2 DEF BeepWrites

LEMMA StopList ==
  LET l == StopWrites
  IN  /\ l \in Seq(Store) /\ DOMAIN l = 1..3
      /\ l[1][1] = "active" /\ l[1][2] = FALSE
      /\ l[2][1] = "oneshot" /\ l[2][2] = FALSE
      /\ l[3][1] = "stream" /\ l[3][2] = FALSE
<1>1. /\ <<"active", FALSE>> \in Store /\ <<"oneshot", FALSE>> \in Store
      /\ <<"stream", FALSE>> \in Store
  BY IsStore
<1>2. StopWrites \in Seq(Store)
  BY <1>1 DEF StopWrites
<1> QED BY <1>2 DEF StopWrites

\* The stores of the callback, whatever it has loaded.
LEMMA OutcomeClears ==
  ASSUME NEW got \in Shared
  PROVE  Outcome(got) \in Seq(Store) /\ OnlyClears(Outcome(got))
<1> DEFINE left == IF got.active /\ got.remaining > 0 THEN got.remaining - 1 ELSE got.remaining
           L == <<<<"remaining", left>>>>
           E == <<<<"active", FALSE>>, <<"oneshot", FALSE>>>>
<1>1. left \in 0..ToneLength
  BY RingAssumption DEF Shared
<1>2. <<"remaining", left>> \in Store /\ <<"active", FALSE>> \in Store /\ <<"oneshot", FALSE>> \in Store
  BY <1>1, IsStore
<1> HIDE DEF left
<1>3. L \in Seq(Store) /\ Len(L) = 1 /\ L[1][1] = "remaining"
  BY <1>2
<1>4. /\ E \in Seq(Store) /\ Len(E) = 2
      /\ E[1][1] = "active" /\ E[1][2] = FALSE /\ E[2][1] = "oneshot" /\ E[2][2] = FALSE
  BY <1>2
<1>5. CASE ~got.oneshot
  <2>1. Outcome(got) = <<>>
    BY <1>5 DEF Outcome
  <2>2. <<>> \in Seq(Store) /\ DOMAIN <<>> = {}
    BY EmptySeq
  <2> QED BY <2>1, <2>2 DEF OnlyClears
<1>6. CASE got.oneshot /\ left = 0
  <2>1. Outcome(got) = L \o E
    BY <1>6 DEF Outcome, left
  <2> HIDE DEF L, E
  <2>2. /\ L \o E \in Seq(Store) /\ Len(L \o E) = Len(L) + Len(E)
        /\ \A i \in 1 .. Len(L) + Len(E) : (L \o E)[i] = IF i <= Len(L) THEN L[i] ELSE E[i - Len(L)]
    BY <1>3, <1>4, ConcatProperties
  <2>3. DOMAIN (L \o E) = 1..3 /\ (L \o E)[1] = L[1] /\ (L \o E)[2] = E[1] /\ (L \o E)[3] = E[2]
    BY <1>3, <1>4, <2>2
  <2>4. \A i \in 1..3 : i = 1 \/ i = 2 \/ i = 3
    OBVIOUS
  <2>5. OnlyClears(L \o E)
    BY <1>3, <1>4, <2>3, <2>4 DEF OnlyClears, Flags
  <2> QED BY <2>1, <2>2, <2>5
<1>7. CASE got.oneshot /\ left # 0
  <2>1. Outcome(got) = L \o <<>>
    BY <1>7 DEF Outcome, left
  <2> HIDE DEF L
  <2>2. L \o <<>> = L
    BY <1>3, ConcatEmptySeq
  <2>3. OnlyClears(L)
    BY <1>3 DEF OnlyClears
  <2> QED BY <1>3, <2>1, <2>2, <2>3
<1> QED BY <1>5, <1>6, <1>7

-----------------------------------------------------------------------------
(* The inductive invariant.  The handler that is on its way is judged by    *)
(* what the player will hold when it is done.                               *)

\* The field, once the handler on its way has made its stores.
WillBe(f, v) == Writes(loop_todo, f, v) \/ (Leaves(loop_todo, f) /\ shared[f] = v)

\* A tone that is played once is an alert tone; the reverse may fail, as a callback of the
\* alert before may clear the flag of this one.
OnceIsAlert == WillBe("oneshot", TRUE) => WillBe("buf", Alert)

WillRing == WillBe("active", TRUE) /\ \E id \in Rings : WillBe("buf", id)

\* Between the change of the call table and sync_ringtone the reason may be gone.  A preview
\* is no reason while a call rings: its timer would leave the sound to the call.
Reason == Wanted \/ (~incoming /\ ring_preview_gen \in timers)

RInv ==
  /\ RingTypeOK
  /\ OnlyClears(cb_stores) /\ OnceEach(loop_todo)
  /\ OnceIsAlert
  /\ ~sync_due /\ WillRing => Reason

LEMMA RInvInit == Init => RInv
<1> SUFFICES ASSUME Init PROVE RInv
  OBVIOUS
<1>1. /\ shared = Silent /\ loop_todo = <<>> /\ cb_stores = <<>> /\ cb_reads = <<>> /\ cb_got = Silent
      /\ current = NoTone /\ ring_preview_gen = 0 /\ timers = {} /\ preferred \in Rings
      /\ ring_enabled \in BOOLEAN /\ open_failed = FALSE
  BY DEF Init
<1>2. Silent \in Shared
  BY RingAssumption DEF Silent, Shared
<1>3. cb_stores \in Seq(Store) /\ cb_reads \in Seq(Fields) /\ loop_todo \in Seq(Store)
  BY <1>1, EmptySeq
<1>4. DOMAIN loop_todo = {} /\ DOMAIN cb_stores = {}
  BY <1>1
<1>5. ~WillBe("oneshot", TRUE) /\ ~WillBe("active", TRUE)
  BY <1>1, <1>4 DEF WillBe, Writes, Silent
<1>6. ring_preview_gen \in 0..MaxPreviews
  BY <1>1, RingAssumption
<1>7. sync_due \in BOOLEAN /\ calls \in BOOLEAN /\ incoming \in BOOLEAN /\ (incoming => calls)
  BY DEF Init
<1>8. RingTypeOK
  BY <1>1, <1>2, <1>3, <1>6, <1>7 DEF RingTypeOK
<1> QED BY <1>4, <1>5, <1>8 DEF RInv, OnlyClears, OnceEach, OnceIsAlert, WillRing

\* What a handler that tests and then stores leaves to be stored.
LEMMA PlayLeaves ==
  ASSUME RInv, loop_todo = <<>>, shared' = shared, NEW id \in Rings, Play(id)
  PROVE  /\ loop_todo' \in Seq(Store) /\ OnceEach(loop_todo') /\ OnceIsAlert'
         /\ current' \in Tones \cup {NoTone}
<1>1. id \in Tones /\ current \in Tones \cup {NoTone} /\ loop_todo \in Seq(Store)
  BY DEF Tones, RInv, RingTypeOK
<1>2. CASE loop_todo' = loop_todo /\ current' = current
  BY <1>1, <1>2 DEF RInv, OnceIsAlert, WillBe
<1>3. CASE loop_todo' = PlayWrites(id) /\ current' = id
  <2> DEFINE l == PlayWrites(id)
  <2>1. /\ l \in Seq(Store) /\ DOMAIN l = 1..4
        /\ l[1][1] = "buf" /\ l[2][1] = "oneshot" /\ l[2][2] = FALSE /\ l[3][1] = "active"
        /\ l[4][1] = "stream"
    BY <1>1, PlayList
  <2> HIDE DEF l
  <2>2. \A i \in 1..4 : i = 1 \/ i = 2 \/ i = 3 \/ i = 4
    OBVIOUS
  <2>3. OnceEach(l)
    BY <2>1, <2>2 DEF OnceEach
  <2>4. ~Writes(l, "oneshot", TRUE) /\ ~Leaves(l, "oneshot")
    BY <2>1, <2>2 DEF Writes, Leaves
  <2>5. loop_todo' = l
    BY <1>3 DEF l
  <2> QED BY <1>1, <1>3, <2>1, <2>3, <2>4, <2>5 DEF OnceIsAlert, WillBe
<1> QED BY <1>2, <1>3 DEF Play, PlayWrites

LEMMA BeepLeaves ==
  ASSUME RInv, loop_todo = <<>>, shared' = shared, Beep
  PROVE  /\ loop_todo' \in Seq(Store) /\ OnceEach(loop_todo') /\ OnceIsAlert'
         /\ current' \in Tones \cup {NoTone}
<1>1. Alert \in Tones /\ current \in Tones \cup {NoTone} /\ loop_todo \in Seq(Store)
  BY DEF Tones, RInv, RingTypeOK
<1>2. CASE loop_todo' = loop_todo /\ current' = current
  BY <1>1, <1>2 DEF RInv, OnceIsAlert, WillBe
<1>3. CASE loop_todo' = BeepWrites /\ current' = Alert
  <2> DEFINE l == BeepWrites
  <2>1. /\ l \in Seq(Store) /\ DOMAIN l = 1..5
        /\ l[1][1] = "buf" /\ l[1][2] = Alert /\ l[2][1] = "remaining" /\ l[3][1] = "oneshot"
        /\ l[4][1] = "active" /\ l[5][1] = "stream"
    BY BeepList
  <2> HIDE DEF l
  <2>2. \A i \in 1..5 : i = 1 \/ i = 2 \/ i = 3 \/ i = 4 \/ i = 5
    OBVIOUS
  <2>3. OnceEach(l)
    BY <2>1, <2>2 DEF OnceEach
  <2>4. Writes(l, "buf", Alert)
    BY <2>1 DEF Writes
  <2>5. loop_todo' = l
    BY <1>3 DEF l
  <2> QED BY <1>1, <1>3, <2>1, <2>3, <2>4, <2>5 DEF OnceIsAlert, WillBe
<1> QED BY <1>2, <1>3 DEF Beep, BeepWrites

\* Stop leaves nothing to ring: what it leaves to end by itself is an alert tone.
LEMMA StopLeaves ==
  ASSUME RInv, loop_todo = <<>>, shared' = shared, Stop
  PROVE  /\ loop_todo' \in Seq(Store) /\ OnceEach(loop_todo') /\ OnceIsAlert'
         /\ current' \in Tones \cup {NoTone}
         /\ ~WillRing'
<1>1. current \in Tones \cup {NoTone} /\ loop_todo \in Seq(Store) /\ DOMAIN loop_todo = {}
  BY DEF RInv, RingTypeOK
<1>2. CASE loop_todo' = loop_todo /\ current' = current /\ shared.oneshot
  <2>1. shared.oneshot = TRUE
    BY <1>2 DEF RInv, RingTypeOK, Shared
  <2>2. WillBe("oneshot", TRUE)
    BY <1>1, <2>1 DEF WillBe, Leaves
  <2>3. shared["buf"] = Alert
    BY <1>1, <2>2 DEF RInv, OnceIsAlert, WillBe, Writes
  <2>4. ~WillRing'
    BY <1>1, <1>2, <2>3, RingAssumption DEF WillRing, WillBe, Writes
  <2> QED BY <1>1, <1>2, <2>4 DEF RInv, OnceIsAlert, WillBe
<1>3. CASE loop_todo' = StopWrites /\ current' = NoTone
  <2> DEFINE l == StopWrites
  <2>1. /\ l \in Seq(Store) /\ DOMAIN l = 1..3
        /\ l[1][1] = "active" /\ l[1][2] = FALSE
        /\ l[2][1] = "oneshot" /\ l[2][2] = FALSE /\ l[3][1] = "stream"
    BY StopList
  <2> HIDE DEF l
  <2>2. \A i \in 1..3 : i = 1 \/ i = 2 \/ i = 3
    OBVIOUS
  <2>3. OnceEach(l)
    BY <2>1, <2>2 DEF OnceEach
  <2>4. /\ ~Writes(l, "oneshot", TRUE) /\ ~Leaves(l, "oneshot")
        /\ ~Writes(l, "active", TRUE) /\ ~Leaves(l, "active")
    BY <2>1, <2>2 DEF Writes, Leaves
  <2>5. loop_todo' = l
    BY <1>3 DEF l
  <2> QED BY <1>1, <1>3, <2>1, <2>3, <2>4, <2>5 DEF OnceIsAlert, WillBe, WillRing
<1> QED BY <1>2, <1>3 DEF Stop, StopWrites

\* A store of the loop changes nothing of what will be; opening the device may fail.
LEMMA LoopStoresStep ==
  ASSUME RInv, LoopStores
  PROVE  RInv'
<1> DEFINE w == Head(loop_todo)
           rest == Tail(loop_todo)
<1>1. /\ RingTypeOK /\ OnceEach(loop_todo) /\ loop_todo \in Seq(Store) /\ shared \in Shared
      /\ loop_todo # <<>> /\ loop_todo' = rest
      /\ UNCHANGED <<current, callback, sync_due, table, prefs, previews>>
      /\ \/ shared' = [shared EXCEPT ![w[1]] = w[2]]
         \/ w[1] = "stream" /\ shared' = shared
      /\ open_failed' \in BOOLEAN
  BY DEF RInv, RingTypeOK, LoopStores, OpenFails
<1>2. /\ w \in Store /\ w = loop_todo[1] /\ Len(loop_todo) \in Nat \ {0}
      /\ rest \in Seq(Store) /\ Len(rest) = Len(loop_todo) - 1
      /\ \A i \in 1 .. Len(rest) : rest[i] = loop_todo[i + 1]
  BY <1>1, HeadTailProperties, EmptySeq
<1> HIDE DEF w, rest
<1>3. /\ shared' \in Shared
      /\ w[1] # "stream" => shared'[w[1]] = w[2]
      /\ \A f \in Fields : f # w[1] => shared'[f] = shared[f]
  <2> DEFINE t == [shared EXCEPT ![w[1]] = w[2]]
  <2>1. t \in Shared /\ t[w[1]] = w[2] /\ \A f \in Fields : f # w[1] => t[f] = shared[f]
    BY <1>1, <1>2, Stored
  <2> HIDE DEF t
  <2>2. shared' = t \/ (w[1] = "stream" /\ shared' = shared)
    BY <1>1 DEF t
  <2> QED BY <1>1, <2>1, <2>2
<1>4. OnceEach(rest)
  <2> SUFFICES ASSUME NEW i \in DOMAIN rest, NEW j \in DOMAIN rest, rest[i][1] = rest[j][1]
               PROVE  i = j
    BY DEF OnceEach
  <2>1. /\ i + 1 \in DOMAIN loop_todo /\ j + 1 \in DOMAIN loop_todo
        /\ loop_todo[i + 1] = rest[i] /\ loop_todo[j + 1] = rest[j] /\ i \in Nat /\ j \in Nat
    BY <1>1, <1>2
  <2>2. i + 1 = j + 1
    BY <1>1, <2>1 DEF OnceEach
  <2> QED BY <2>1, <2>2
<1>5. ASSUME NEW f \in {"active", "oneshot", "buf"}, NEW v
      PROVE  WillBe(f, v)' <=> WillBe(f, v)
  <2>1. f \in Fields /\ f # "stream"
    BY DEF Fields, Flags
  <2>2. CASE w[1] = f
    <3>1. Leaves(rest, f)
      <4> SUFFICES ASSUME NEW i \in DOMAIN rest, rest[i][1] = f PROVE FALSE
        BY DEF Leaves
      <4>1. i + 1 \in DOMAIN loop_todo /\ loop_todo[i + 1] = rest[i] /\ i \in Nat \ {0}
            /\ 1 \in DOMAIN loop_todo
        BY <1>1, <1>2
      <4>2. i + 1 = 1
        BY <1>1, <1>2, <2>2, <4>1 DEF OnceEach
      <4> QED BY <4>1, <4>2
    <3>2. ~Writes(rest, f, v)
      BY <3>1 DEF Writes, Leaves
    <3>3. WillBe(f, v)' <=> w[2] = v
      BY <1>1, <1>3, <2>1, <2>2, <3>1, <3>2 DEF WillBe
    <3>4. 1 \in DOMAIN loop_todo
      BY <1>1, <1>2
    <3>5. ~Leaves(loop_todo, f)
      BY <1>2, <2>2, <3>4 DEF Leaves
    <3>6. Writes(loop_todo, f, v) <=> w[2] = v
      <4>1. \A i \in DOMAIN loop_todo : loop_todo[i][1] = f => i = 1
        BY <1>1, <1>2, <2>2, <3>4 DEF OnceEach
      <4> QED BY <1>2, <2>2, <3>4, <4>1 DEF Writes
    <3> QED BY <3>3, <3>5, <3>6 DEF WillBe
  <2>3. CASE w[1] # f
    <3>1. shared'[f] = shared[f]
      BY <1>3, <2>1, <2>3
    <3>2. \A i \in DOMAIN rest : i + 1 \in DOMAIN loop_todo /\ loop_todo[i + 1] = rest[i]
      BY <1>1, <1>2
    <3>3. ASSUME NEW i \in DOMAIN loop_todo, loop_todo[i][1] = f
          PROVE  \E j \in DOMAIN rest : rest[j] = loop_todo[i]
      <4>1. i \in 1 .. Len(loop_todo) /\ i # 1
        BY <1>1, <1>2, <2>3, <3>3
      <4>2. i - 1 \in DOMAIN rest /\ rest[i - 1] = loop_todo[i]
        BY <1>2, <4>1
      <4> QED BY <4>2
    <3>4. Writes(rest, f, v) <=> Writes(loop_todo, f, v)
      BY <3>2, <3>3 DEF Writes
    <3>5. Leaves(rest, f) <=> Leaves(loop_todo, f)
      BY <3>2, <3>3 DEF Leaves
    <3> QED BY <1>1, <3>1, <3>4, <3>5 DEF WillBe
  <2> QED BY <2>2, <2>3
<1>6. RingTypeOK'
  BY <1>1, <1>2, <1>3 DEF RingTypeOK, callback, table, prefs, previews
<1>7. OnlyClears(cb_stores)' /\ OnceEach(loop_todo)'
  BY <1>1, <1>4 DEF RInv, callback
<1>8. OnceIsAlert'
  BY <1>5 DEF RInv, OnceIsAlert
<1>9. WillRing' => WillRing
  BY <1>5 DEF WillRing
<1>10. (~sync_due /\ WillRing => Reason)'
  BY <1>1, <1>9 DEF RInv, Reason, Wanted, table, prefs, previews
<1> QED BY <1>6, <1>7, <1>8, <1>10 DEF RInv

\* What the callback stores can end a sound and never start one.
LEMMA CallbackStoresStep ==
  ASSUME RInv, CallbackStores
  PROVE  RInv'
<1> DEFINE w == Head(cb_stores)
           rest == Tail(cb_stores)
<1>1. /\ RingTypeOK /\ cb_stores \in Seq(Store) /\ shared \in Shared /\ OnlyClears(cb_stores)
      /\ cb_stores # <<>> /\ cb_stores' = rest
      /\ UNCHANGED <<current, open_failed, cb_reads, cb_got, handler, table, prefs, previews>>
      /\ shared' = [shared EXCEPT ![w[1]] = w[2]]
  BY DEF RInv, RingTypeOK, CallbackStores
<1>2. /\ w \in Store /\ w = cb_stores[1] /\ Len(cb_stores) \in Nat \ {0}
      /\ rest \in Seq(Store) /\ Len(rest) = Len(cb_stores) - 1
      /\ \A i \in 1 .. Len(rest) : rest[i] = cb_stores[i + 1]
  BY <1>1, HeadTailProperties, EmptySeq
<1> HIDE DEF w, rest
<1>3. /\ shared' \in Shared /\ shared'[w[1]] = w[2]
      /\ \A f \in Fields : f # w[1] => shared'[f] = shared[f]
  <2> DEFINE t == [shared EXCEPT ![w[1]] = w[2]]
  <2>1. t \in Shared /\ t[w[1]] = w[2] /\ \A f \in Fields : f # w[1] => t[f] = shared[f]
    BY <1>1, <1>2, Stored
  <2> HIDE DEF t
  <2>2. shared' = t
    BY <1>1 DEF t
  <2> QED BY <2>1, <2>2
<1>4. w[1] = "remaining" \/ (w[1] \in Flags /\ w[2] = FALSE)
  BY <1>1, <1>2 DEF OnlyClears
<1>5. OnlyClears(rest)
  <2>1. \A i \in DOMAIN rest : i + 1 \in DOMAIN cb_stores /\ cb_stores[i + 1] = rest[i]
    BY <1>1, <1>2
  <2> QED BY <1>1, <2>1 DEF OnlyClears
<1>6. loop_todo' = loop_todo
  BY <1>1 DEF handler
<1>7. /\ shared'["buf"] = shared["buf"]
      /\ shared'["active"] = TRUE => shared["active"] = TRUE
      /\ shared'["oneshot"] = TRUE => shared["oneshot"] = TRUE
  BY <1>3, <1>4 DEF Fields, Flags
<1>8. /\ \A v : WillBe("buf", v)' <=> WillBe("buf", v)
      /\ WillBe("active", TRUE)' => WillBe("active", TRUE)
      /\ WillBe("oneshot", TRUE)' => WillBe("oneshot", TRUE)
  BY <1>6, <1>7 DEF WillBe
<1>9. RingTypeOK'
  BY <1>1, <1>2, <1>3 DEF RingTypeOK, handler, table, prefs, previews
<1>10. OnceIsAlert'
  BY <1>8 DEF RInv, OnceIsAlert
<1>11. WillRing' => WillRing
  BY <1>8 DEF WillRing
<1>12. (~sync_due /\ WillRing => Reason)'
  BY <1>1, <1>11 DEF RInv, Reason, Wanted, handler, table, prefs, previews
<1> QED BY <1>1, <1>5, <1>6, <1>9, <1>10, <1>12 DEF RInv

LEMMA CallbackLoadsStep ==
  ASSUME RInv, CallbackStarts \/ CallbackReads
  PROVE  RInv'
<1>1. RingTypeOK /\ UNCHANGED <<player, handler, table, prefs, previews>>
  BY DEF RInv, CallbackStarts, CallbackReads
<1>2. cb_reads' \in Seq(Fields) /\ cb_got' \in Shared /\ cb_stores' \in Seq(Store)
      /\ OnlyClears(cb_stores)'
  <2>1. CASE CallbackStarts
    <3>1. <<"active", "oneshot", "buf", "remaining">> \in Seq(Fields)
      BY DEF Fields, Flags
    <3> QED BY <2>1, <3>1 DEF CallbackStarts, RInv, RingTypeOK
  <2>2. CASE CallbackReads
    <3>1. /\ cb_reads \in Seq(Fields) /\ cb_reads # <<>> /\ cb_reads' = Tail(cb_reads)
          /\ cb_got \in Shared /\ shared \in Shared
      BY <2>2 DEF CallbackReads, RInv, RingTypeOK
    <3>2. Head(cb_reads) \in Fields /\ cb_reads' \in Seq(Fields)
      BY <3>1, HeadTailProperties
    <3>3. cb_got' \in Shared
      BY <2>2, <3>1, <3>2, Loaded DEF CallbackReads
    <3>4. cb_stores' = Outcome(cb_got') \/ cb_stores' = <<>>
      BY <2>2 DEF CallbackReads
    <3>5. <<>> \in Seq(Store) /\ OnlyClears(<<>>)
      BY EmptySeq DEF OnlyClears
    <3>6. Outcome(cb_got') \in Seq(Store) /\ OnlyClears(Outcome(cb_got'))
      BY <3>3, OutcomeClears
    <3> QED BY <3>2, <3>3, <3>4, <3>5, <3>6
  <2> QED BY <2>1, <2>2
<1>3. RingTypeOK'
  BY <1>1, <1>2 DEF RingTypeOK, player, device, handler, table, prefs, previews
<1> QED BY <1>1, <1>2, <1>3 DEF RInv, OnceIsAlert, WillRing, WillBe, Reason, Wanted, player, device, handler,
        table, prefs, previews

\* The handlers of the loop, for which only the timers and what they decide differ.
LEMMA HandlerStep ==
  ASSUME RInv, SyncRingtone \/ CallsChange \/ ClockTick \/ Operator
               \/ \E gen \in timers : UiRingStopPreview(gen)
  PROVE  RInv'
<1> DEFINE ListOK == /\ loop_todo' \in Seq(Store) /\ OnceEach(loop_todo') /\ OnceIsAlert'
                     /\ current' \in Tones \cup {NoTone}
<1>1. RingTypeOK /\ shared' = shared /\ open_failed' = open_failed /\ UNCHANGED callback
      /\ loop_todo = <<>>
  BY DEF RInv, SyncRingtone, CallsChange, ClockTick, Operator, UiRingSelect, UiRingToggle,
     UiRingStopPreview, LoopFree, player, device
<1>2. ASSUME NoSound
      PROVE  ListOK /\ (WillRing' => WillRing)
  <2>1. loop_todo' = loop_todo /\ current' = current
    BY <1>2 DEF NoSound
  <2> QED BY <1>1, <2>1 DEF RInv, RingTypeOK, OnceIsAlert, WillRing, WillBe
<1>3. ASSUME Stop PROVE ListOK /\ ~WillRing'
  BY <1>1, <1>3, StopLeaves
<1>4. ASSUME NEW id \in Rings, Play(id) PROVE ListOK
  BY <1>1, <1>4, PlayLeaves
<1>5. ASSUME Beep PROVE ListOK
  BY <1>1, <1>5, BeepLeaves
<1>6. ASSUME ListOK,
             sync_due' \in BOOLEAN, calls' \in BOOLEAN, incoming' \in BOOLEAN, incoming' => calls',
             ring_enabled' \in BOOLEAN, preferred' \in Rings,
             ring_preview_gen' \in 0..MaxPreviews, timers' \subseteq 1..ring_preview_gen',
             ~sync_due' /\ WillRing' => Reason'
      PROVE  RInv'
  BY <1>1, <1>6 DEF RInv, RingTypeOK, callback
<1>7. CASE SyncRingtone
  <2>1. /\ sync_due' = FALSE /\ UNCHANGED <<table, prefs, previews>>
        /\ IF Wanted THEN Play(preferred) ELSE Stop
    BY <1>7 DEF SyncRingtone, Wanted
  <2>2. preferred \in Rings
    BY <1>1 DEF RingTypeOK
  <2>3. ListOK /\ (WillRing' => Wanted)
    BY <1>3, <1>4, <2>1, <2>2
  <2>4. Wanted' = Wanted
    BY <2>1 DEF Wanted, table, prefs
  <2> QED BY <1>1, <1>6, <2>1, <2>3, <2>4 DEF RingTypeOK, Reason, table, prefs, previews
<1>8. CASE CallsChange
  <2>1. /\ calls' \in BOOLEAN /\ incoming' \in BOOLEAN /\ (incoming' => calls')
        /\ sync_due' = TRUE /\ preferred' \in IF incoming' THEN Rings ELSE {preferred}
        /\ UNCHANGED <<ring_enabled, previews>>
        /\ NoSound \/ Beep
    BY <1>8 DEF CallsChange
  <2>2. ListOK
    BY <1>2, <1>5, <2>1
  <2>3. preferred' \in Rings
    BY <1>1, <2>1 DEF RingTypeOK
  <2> QED BY <1>1, <1>6, <2>1, <2>2, <2>3 DEF RingTypeOK, previews
<1>9. CASE ClockTick
  <2>1. sync_due' = TRUE /\ UNCHANGED <<loop_todo, current, table, prefs, previews>>
    BY <1>9 DEF ClockTick, player
  <2>2. ListOK
    BY <1>2, <2>1 DEF NoSound
  <2> QED BY <1>1, <1>6, <2>1, <2>2 DEF RingTypeOK, table, prefs, previews
<1>10. ASSUME NEW id \in Rings, UiRingSelect(id)
       PROVE  RInv'
  <2>1. /\ preferred' \in {id, preferred} /\ UNCHANGED <<sync_due, table, ring_enabled>> /\ ~sync_due
    BY <1>10 DEF UiRingSelect, LoopFree
  <2>2. preferred' \in Rings
    BY <1>1, <2>1 DEF RingTypeOK
  <2>3. CASE incoming
    <3>1. NoSound /\ UNCHANGED previews
      BY <1>10, <2>3 DEF UiRingSelect
    <3>2. ListOK /\ (WillRing' => WillRing)
      BY <1>2, <3>1
    <3>3. Reason' <=> Reason
      BY <2>1, <3>1 DEF Reason, Wanted, table, previews
    <3> QED BY <1>1, <1>6, <2>1, <2>2, <3>1, <3>2, <3>3 DEF RInv, RingTypeOK, table, previews
  <2>4. CASE ~incoming
    <3>1. /\ ring_preview_gen < MaxPreviews /\ Play(id)
          /\ ring_preview_gen' = ring_preview_gen + 1
          /\ timers' = timers \cup {ring_preview_gen + 1}
      BY <1>10, <2>4 DEF UiRingSelect
    <3>2. ListOK
      BY <1>4, <3>1
    <3>3. Reason'
      BY <2>1, <2>4, <3>1 DEF Reason, table
    <3>4. ring_preview_gen' \in 0..MaxPreviews /\ timers' \subseteq 1..ring_preview_gen'
      BY <1>1, <3>1, RingAssumption DEF RingTypeOK
    <3> QED BY <1>1, <1>6, <2>1, <2>2, <3>2, <3>3, <3>4 DEF RingTypeOK, table
  <2> QED BY <2>3, <2>4
<1>11. CASE UiRingToggle
  <2>1. /\ ring_enabled' = ~ring_enabled /\ ~sync_due
        /\ UNCHANGED <<sync_due, table, preferred, previews>>
        /\ IF ring_enabled THEN Stop ELSE NoSound
    BY <1>11 DEF UiRingToggle, LoopFree
  <2>2. CASE ring_enabled
    <3>1. ListOK /\ ~WillRing'
      BY <1>3, <2>1, <2>2
    <3> QED BY <1>1, <1>6, <2>1, <3>1 DEF RingTypeOK, table, previews
  <2>3. CASE ~ring_enabled
    <3>1. ListOK /\ (WillRing' => WillRing)
      BY <1>2, <2>1, <2>3
    <3>2. Reason => Reason'
      BY <2>1, <2>3 DEF Reason, Wanted, table, previews
    <3> QED BY <1>1, <1>6, <2>1, <3>1, <3>2 DEF RInv, RingTypeOK, table, previews
  <2> QED BY <2>2, <2>3
<1>12. ASSUME NEW gen \in timers, UiRingStopPreview(gen)
       PROVE  RInv'
  <2>1. /\ timers' = timers \ {gen} /\ ~sync_due
        /\ UNCHANGED <<sync_due, table, prefs, ring_preview_gen>>
        /\ IF gen = ring_preview_gen /\ ~incoming THEN Stop ELSE NoSound
    BY <1>12 DEF UiRingStopPreview, LoopFree
  <2>2. CASE gen = ring_preview_gen /\ ~incoming
    <3>1. ListOK /\ ~WillRing'
      BY <1>3, <2>1, <2>2
    <3> QED BY <1>1, <1>6, <2>1, <3>1 DEF RingTypeOK, table, prefs
  <2>3. CASE ~(gen = ring_preview_gen /\ ~incoming)
    <3>1. ListOK /\ (WillRing' => WillRing)
      BY <1>2, <2>1, <2>3
    <3>2. Reason => Reason'
      BY <2>1, <2>3 DEF Reason, Wanted, table, prefs
    <3> QED BY <1>1, <1>6, <2>1, <3>1, <3>2 DEF RInv, RingTypeOK, table, prefs
  <2> QED BY <2>2, <2>3
<1> QED BY <1>7, <1>8, <1>9, <1>10, <1>11, <1>12 DEF Operator

LEMMA RInvHolds == Spec => []RInv
<1>1. RInv /\ [Next]_vars => RInv'
  <2>1. RInv /\ UNCHANGED vars => RInv'
    <3> SUFFICES ASSUME RInv, UNCHANGED vars PROVE RInv'
      OBVIOUS
    <3>1. UNCHANGED <<player, callback, handler, table, prefs, previews>>
      BY DEF vars
    <3>2. RingTypeOK'
      BY <3>1 DEF RInv, RingTypeOK, player, device, callback, handler, table, prefs, previews
    <3>3. shared' = shared /\ loop_todo' = loop_todo /\ cb_stores' = cb_stores
      BY <3>1 DEF player, device, callback, handler
    <3>4. OnceIsAlert' /\ (WillRing' => WillRing)
      BY <3>3 DEF RInv, OnceIsAlert, WillRing, WillBe
    <3>5. Reason' = Reason /\ sync_due' = sync_due
      BY <3>1 DEF Reason, Wanted, handler, table, prefs, previews
    <3> QED BY <3>2, <3>3, <3>4, <3>5 DEF RInv
  <2> QED BY <2>1, LoopStoresStep, CallbackStoresStep, CallbackLoadsStep, HandlerStep
          DEF Next, Callback
<1> QED BY <1>1, RInvInit, PTL DEF Spec

-----------------------------------------------------------------------------
(* Theorems.                                                                *)

\* Types: the player's fields keep theirs whatever the loop and the callback store in which
\* order, and no preview timer is pending but of a preview that was started.
THEOREM RingTypeCorrect == Spec => []RingTypeOK
<1>1. RInv => RingTypeOK
  BY DEF RInv
<1> QED BY <1>1, RInvHolds, PTL

\* No ringtone is left to ring for ever: between two handlers one that loops has a call that
\* rings or a preview whose timer is still to fire.
THEOREM RingsForAReasonHolds == Spec => []RingsForAReason
<1>1. RInv => RingsForAReason
  <2> SUFFICES ASSUME RInv, LoopFree, Looping, shared.buf \in Rings
               PROVE  Wanted \/ ring_preview_gen \in timers
    BY DEF RingsForAReason
  <2>1. DOMAIN loop_todo = {} /\ ~sync_due /\ shared["active"] = TRUE
    BY DEF LoopFree, Looping, RInv, RingTypeOK, Shared
  <2>2. WillRing
    BY <2>1 DEF WillRing, WillBe, Leaves
  <2> QED BY <2>1, <2>2 DEF RInv, Reason
<1> QED BY <1>1, RInvHolds, PTL
=============================================================================
