------------------------- MODULE ProgrammingProofs -------------------------
(***************************************************************************)
(* What the readers and writers of Codeplug guarantee for every document;  *)
(* then, on top of it, that identities stay apart in every text the        *)
(* program and the stack handle, for any sections, any identities and      *)
(* names that are typed, any initial configuration and any bounds.         *)
(***************************************************************************)
EXTENDS Programming, SequenceTheorems, FunctionTheorems, FiniteSetTheorems,
        WellFoundedInduction, TLAPS

\* A section: entries with an identity each of its own.
Section == {arr \in Seq(Entry) : UniqueKeys(arr)}

\* A document whose entries the writers can tell apart.
SoundDoc == {doc \in Doc : \A s \in Keyed : UniqueKeys(doc[s])}

-----------------------------------------------------------------------------
(* Numbers.                                                                 *)

\* A non-empty finite set of integers has a greatest element: one with the least set of
\* elements above it.
LEMMA GreatestInteger ==
  ASSUME NEW S, S \subseteq Int, S # {}, IsFiniteSet(S)
  PROVE  \E m \in S : \A n \in S : n <= m
<1> DEFINE Above  == [k \in S |-> {n \in S : n > k}]
           Aboves == {Above[k] : k \in S}
<1>1. \A k \in S : Above[k] \subseteq S
  OBVIOUS
<1>2. \A k \in S : IsFiniteSet(Above[k])
  BY <1>1, FS_Subset
<1>3. Aboves \subseteq FiniteSubsetsOf(S) /\ Aboves # {}
  BY <1>1, <1>2 DEF FiniteSubsetsOf
<1>4. PICK A \in Aboves : \A B \in Aboves : <<B, A>> \notin StrictSubsetOrdering(S)
  <2> HIDE DEF Aboves
  <2> QED BY <1>3, WFMin, FS_StrictSubsetOrderingWellFounded
<1>5. PICK m \in S : A = Above[m]
  BY <1>4
<1>6. ASSUME NEW n \in S, n > m
      PROVE  FALSE
  <2>1. \A k \in S : k > n => k > m
    BY <1>6
  <2>2. Above[n] \subseteq Above[m]
    BY <2>1
  <2>3. n \in Above[m] /\ n \notin Above[n]
    BY <1>6
  <2>4. <<Above[n], A>> \in StrictSubsetOrdering(S)
    BY <2>2, <2>3, <1>1, <1>5 DEF StrictSubsetOrdering
  <2> QED BY <2>4, <1>4
<1> QED BY <1>6

\* A non-empty set of natural numbers has a least element.
LEMMA LeastNatural ==
  ASSUME NEW S, S \subseteq Nat, S # {}
  PROVE  \E m \in S : \A n \in S : m <= n
<1>1. PICK b \in S : TRUE
  OBVIOUS
<1> DEFINE Low   == {n \in S : n <= b}
           Minus == {0 - n : n \in Low}
<1>2. IsFiniteSet(Low)
  BY FS_BoundedSetOfNaturals
<1>3. IsFiniteSet(Minus)
  <2> DEFINE f == [n \in Low |-> 0 - n]
  <2>1. f \in Surjection(Low, Minus)
    BY Fun_IsSurj
  <2> QED BY <2>1, <1>2, FS_Surjection
<1>4. Minus \subseteq Int /\ Minus # {}
  <2>1. b \in Low /\ \A n \in Low : 0 - n \in Int
    BY <1>1
  <2> QED BY <2>1
<1>5. PICK m \in Minus : \A n \in Minus : n <= m
  BY <1>3, <1>4, GreatestInteger
<1>6. PICK k \in S : k <= b /\ m = 0 - k
  BY <1>5
<1>7. \A n \in S : n <= b => k <= n
  BY <1>5, <1>6
<1>8. \A n \in S : k <= n
  BY <1>6, <1>7
<1> QED BY <1>8

-----------------------------------------------------------------------------
(* Rows.                                                                    *)

\* A row added with an identity that no row has.
LEMMA AppendSection ==
  ASSUME NEW arr \in Section, NEW e \in Entry, e.key \notin KeysOf(arr)
  PROVE  Append(arr, e) \in Section
<1> DEFINE new == Append(arr, e)
<1>1. arr \in Seq(Entry) /\ UniqueKeys(arr)
  BY DEF Section
<1>2. /\ new \in Seq(Entry)
      /\ Len(new) = Len(arr) + 1 /\ Len(arr) \in Nat
      /\ DOMAIN arr = 1..Len(arr) /\ DOMAIN new = 1..Len(new)
      /\ \A i \in 1..Len(arr) : new[i] = arr[i]
      /\ new[Len(arr) + 1] = e
  BY <1>1, AppendProperties, LenProperties
<1>3. \A i \in 1..Len(arr) : arr[i].key # e.key
  BY <1>2 DEF KeysOf
<1> HIDE DEF new
<1>4. ASSUME NEW i \in DOMAIN new, NEW j \in DOMAIN new, new[i].key = new[j].key
      PROVE  i = j
  <2>1. CASE i \in 1..Len(arr) /\ j \in 1..Len(arr)
    BY <1>1, <1>2, <1>4, <2>1 DEF UniqueKeys
  <2>2. CASE i = Len(arr) + 1 \/ j = Len(arr) + 1
    BY <1>2, <1>3, <1>4, <2>2
  <2> QED BY <1>2, <2>1, <2>2
<1>5. new \in Section
  BY <1>2, <1>4 DEF Section, UniqueKeys
<1> QED BY <1>5 DEF new

\* A row replaced by one with its identity or an identity that no row has.
LEMMA ReplaceSection ==
  ASSUME NEW arr \in Section, NEW i \in DOMAIN arr, NEW e \in Entry,
         e.key \in KeysOf(arr) => e.key = arr[i].key
  PROVE  [arr EXCEPT ![i] = e] \in Section
<1> DEFINE new == [arr EXCEPT ![i] = e]
<1>1. arr \in Seq(Entry) /\ UniqueKeys(arr) /\ Len(arr) \in Nat /\ DOMAIN arr = 1..Len(arr)
  BY LenProperties DEF Section
<1>2. /\ new \in Seq(Entry) /\ DOMAIN new = DOMAIN arr
      /\ \A j \in DOMAIN arr : new[j] = IF j = i THEN e ELSE arr[j]
  BY <1>1, ExceptSeq
<1>3. \A j \in DOMAIN arr : arr[j].key = e.key => j = i
  BY <1>1 DEF KeysOf, UniqueKeys
<1> HIDE DEF new
<1>4. \A j, k \in DOMAIN arr : new[j].key = new[k].key => j = k
  BY <1>1, <1>2, <1>3 DEF UniqueKeys
<1>5. new \in Section
  BY <1>2, <1>4 DEF Section, UniqueKeys
<1> QED BY <1>5 DEF new

\* A row taken out: the rows that are left keep their order.
LEMMA RemoveRow ==
  ASSUME NEW arr \in Seq(Entry), NEW i \in DOMAIN arr
  PROVE  /\ RemoveAt(arr, i) \in Seq(Entry)
         /\ DOMAIN RemoveAt(arr, i) = 1..(Len(arr) - 1)
         /\ \A j \in 1..(Len(arr) - 1) :
              RemoveAt(arr, i)[j] = arr[IF j < i THEN j ELSE j + 1]
<1> DEFINE new == RemoveAt(arr, i)
           a   == SubSeq(arr, 1, i - 1)
           b   == SubSeq(arr, i + 1, Len(arr))
           n   == Len(arr)
<1>1. n \in Nat /\ DOMAIN arr = 1..n
  BY LenProperties
<1>2. i \in 1..n
  BY <1>1
<1>3. \A j \in 1..n : arr[j] \in Entry
  BY <1>1, ElementOfSeq
<1>4. /\ a \in Seq(Entry) /\ Len(a) = i - 1
      /\ \A j \in 1..(i - 1) : a[j] = arr[j]
  <2>1. \A j \in 1..(i - 1) : arr[j] \in Entry
    BY <1>1, <1>2, <1>3
  <2>2. /\ a \in Seq(Entry) /\ Len(a) = IF 1 <= i - 1 THEN (i - 1) - 1 + 1 ELSE 0
        /\ \A j \in 1..((i - 1) - 1 + 1) : a[j] = arr[1 + j - 1]
    BY <1>1, <1>2, <2>1, SubSeqProperties
  <2> QED BY <1>1, <1>2, <2>2
<1>5. /\ b \in Seq(Entry) /\ Len(b) = n - i
      /\ \A j \in 1..(n - i) : b[j] = arr[j + i]
  <2>1. \A j \in (i + 1)..n : arr[j] \in Entry
    BY <1>1, <1>2, <1>3
  <2>2. /\ b \in Seq(Entry) /\ Len(b) = IF i + 1 <= n THEN n - (i + 1) + 1 ELSE 0
        /\ \A j \in 1..(n - (i + 1) + 1) : b[j] = arr[(i + 1) + j - 1]
    BY <1>1, <1>2, <2>1, SubSeqProperties
  <2> QED BY <1>1, <1>2, <2>2
<1>6. new = a \o b
  BY DEF RemoveAt
<1> HIDE DEF a, b
<1>7. /\ a \o b \in Seq(Entry) /\ Len(a \o b) = n - 1
      /\ \A j \in 1..(n - 1) : (a \o b)[j] = IF j <= i - 1 THEN a[j] ELSE b[j - (i - 1)]
  <2>1. /\ a \o b \in Seq(Entry) /\ Len(a \o b) = Len(a) + Len(b)
        /\ \A j \in 1..(Len(a) + Len(b)) :
             (a \o b)[j] = IF j <= Len(a) THEN a[j] ELSE b[j - Len(a)]
    BY <1>4, <1>5, ConcatProperties
  <2>2. Len(a) + Len(b) = n - 1 /\ Len(a) = i - 1
    BY <1>1, <1>2, <1>4, <1>5
  <2> QED BY <2>1, <2>2
<1> HIDE DEF new
<1>8. new \in Seq(Entry) /\ DOMAIN new = 1..(n - 1)
  BY <1>6, <1>7, LenProperties
<1>9. ASSUME NEW j \in 1..(n - 1)
      PROVE  new[j] = arr[IF j < i THEN j ELSE j + 1]
  <2>1. CASE j < i
    BY <1>1, <1>2, <1>4, <1>6, <1>7, <2>1
  <2>2. CASE ~(j < i)
    <3>1. j - (i - 1) \in 1..(n - i) /\ j - (i - 1) + i = j + 1
      BY <1>1, <1>2, <2>2
    <3>2. ~(j <= i - 1)
      BY <1>1, <1>2, <2>2
    <3>3. new[j] = b[j - (i - 1)]
      <4>1. (a \o b)[j] = IF j <= i - 1 THEN a[j] ELSE b[j - (i - 1)]
        BY <1>7
      <4> QED BY <1>6, <3>2, <4>1
    <3> QED BY <1>5, <2>2, <3>1, <3>3
  <2> QED BY <2>1, <2>2
<1> QED BY <1>8, <1>9 DEF new

\* Taking a row out keeps the identities apart.
LEMMA RemoveSection ==
  ASSUME NEW arr \in Section, NEW i \in DOMAIN arr
  PROVE  RemoveAt(arr, i) \in Section
<1> DEFINE new == RemoveAt(arr, i)
           n   == Len(arr)
           pos == [j \in 1..(n - 1) |-> IF j < i THEN j ELSE j + 1]
<1>1. arr \in Seq(Entry) /\ UniqueKeys(arr) /\ n \in Nat /\ DOMAIN arr = 1..n /\ i \in 1..n
  BY LenProperties DEF Section
<1>2. /\ new \in Seq(Entry) /\ DOMAIN new = 1..(n - 1)
      /\ \A j \in 1..(n - 1) : new[j] = arr[pos[j]]
  BY <1>1, RemoveRow
<1>3. \A j, k \in 1..(n - 1) : pos[j] \in 1..n /\ (pos[j] = pos[k] => j = k)
  BY <1>1
<1> HIDE DEF new, pos
<1>4. \A j, k \in DOMAIN new : new[j].key = new[k].key => j = k
  BY <1>1, <1>2, <1>3 DEF UniqueKeys
<1>5. new \in Section
  BY <1>2, <1>4 DEF Section, UniqueKeys
<1> QED BY <1>5 DEF new

\* Rows changed where they are, identities kept.
LEMMA RewrittenSection ==
  ASSUME NEW arr \in Section, NEW new \in [DOMAIN arr -> Entry],
         \A i \in DOMAIN arr : new[i].key = arr[i].key
  PROVE  new \in Section
<1>1. arr \in Seq(Entry) /\ UniqueKeys(arr) /\ Len(arr) \in Nat /\ DOMAIN arr = 1..Len(arr)
  BY LenProperties DEF Section
<1>2. new \in Seq(Entry)
  BY <1>1, SeqDef
<1>3. \A i, j \in DOMAIN new : new[i].key = new[j].key => i = j
  BY <1>1 DEF UniqueKeys
<1> QED BY <1>2, <1>3 DEF Section, UniqueKeys

\* The row that is looked for is found.
LEMMA FirstWithFinds ==
  ASSUME NEW arr \in Seq(Entry), NEW k \in KeysOf(arr)
  PROVE  FirstWith(arr, k) \in DOMAIN arr /\ arr[FirstWith(arr, k)].key = k
<1> DEFINE S == {i \in DOMAIN arr : arr[i].key = k}
<1>1. S \subseteq Nat /\ S # {}
  BY LenProperties DEF KeysOf
<1>2. PICK i \in S : \A j \in S : i <= j
  BY <1>1, LeastNatural
<1> QED BY <1>2 DEF FirstWith

-----------------------------------------------------------------------------
(* Numbers of rows.                                                         *)

\* The identities and the numbers of a section are finitely many.
LEMMA KeysFinite ==
  ASSUME NEW arr \in Seq(Entry)
  PROVE  /\ KeysOf(arr) \subseteq Ids /\ IsFiniteSet(KeysOf(arr))
         /\ Orders(arr) \subseteq Int /\ IsFiniteSet(Orders(arr))
<1>1. Len(arr) \in Nat /\ DOMAIN arr = 1..Len(arr) /\ arr \in [1..Len(arr) -> Entry]
  BY LenProperties
<1>2. IsFiniteSet(DOMAIN arr)
  BY <1>1, FS_Interval
<1> DEFINE ks  == [i \in DOMAIN arr |-> arr[i].key]
           os  == [i \in DOMAIN arr |-> arr[i].ord]
           All == {arr[i].ord : i \in DOMAIN arr}
<1>3. KeysOf(arr) \subseteq Ids
  BY <1>1 DEF KeysOf, Entry
<1>4. IsFiniteSet(KeysOf(arr))
  <2>1. ks \in Surjection(DOMAIN arr, KeysOf(arr))
    BY Fun_IsSurj DEF KeysOf
  <2> QED BY <2>1, <1>2, FS_Surjection
<1>5. Orders(arr) \subseteq Int
  BY <1>1 DEF Orders, Entry
<1>6. IsFiniteSet(Orders(arr))
  <2>1. os \in Surjection(DOMAIN arr, All)
    BY Fun_IsSurj
  <2>2. IsFiniteSet(All)
    BY <2>1, <1>2, FS_Surjection
  <2> QED BY <2>2, FS_Subset DEF Orders
<1> QED BY <1>3, <1>4, <1>5, <1>6

\* A new row comes after all the rows there are.
LEMMA NextOrderIsLast ==
  ASSUME NEW arr \in Seq(Entry)
  PROVE  NextOrder(arr) \in Int /\ \A o \in Orders(arr) : o < NextOrder(arr)
<1>1. Orders(arr) \subseteq Int /\ IsFiniteSet(Orders(arr))
  BY KeysFinite
<1>2. CASE Orders(arr) = {}
  BY <1>2 DEF NextOrder
<1>3. CASE Orders(arr) # {}
  <2> DEFINE m == CHOOSE m \in Orders(arr) : \A o \in Orders(arr) : o <= m
  <2>1. m \in Orders(arr) /\ \A o \in Orders(arr) : o <= m
    BY <1>1, <1>3, GreatestInteger
  <2>2. NextOrder(arr) = 1 + m
    BY <1>3 DEF NextOrder
  <2> HIDE DEF m
  <2> QED BY <1>1, <2>1, <2>2
<1> QED BY <1>2, <1>3

-----------------------------------------------------------------------------
(* Documents.                                                               *)

\* Every section of a sound document that is addressed by identity can be.
LEMMA SoundSection ==
  ASSUME NEW doc \in SoundDoc, NEW s \in Keyed
  PROVE  doc \in Doc /\ s \in Sections /\ doc[s] \in Section
BY DEF SoundDoc, Doc, Section, Keyed, Sections

\* Replacing a section by a sound one.
LEMMA WithSection ==
  ASSUME NEW doc \in SoundDoc, NEW s \in Sections, NEW arr \in Seq(Entry),
         s \in Keyed => UniqueKeys(arr)
  PROVE  [doc EXCEPT ![s] = arr] \in SoundDoc
<1>1. [doc EXCEPT ![s] = arr] \in Doc
  BY DEF SoundDoc, Doc
<1>2. ASSUME NEW t \in Keyed
      PROVE  UniqueKeys([doc EXCEPT ![s] = arr][t])
  <2>1. t \in Sections /\ DOMAIN doc = Sections
    BY DEF SoundDoc, Doc, Keyed, Sections
  <2>2. CASE t = s
    BY <2>1, <2>2
  <2>3. CASE t # s
    BY <2>1, <2>3 DEF SoundDoc
  <2> QED BY <2>2, <2>3
<1> QED BY <1>1, <1>2 DEF SoundDoc

\* upsert_folder, upsert_talkgroup, upsert_scan_list, upsert_gateway and upsert_contact:
\* whatever row they add or put in the place of another, identities stay apart.
LEMMA UpsertSection ==
  ASSUME NEW arr \in Section, NEW e \in Entry, NEW key \in Nat, CanUpsert(arr, e, key)
  PROVE  Upsert(arr, e, key) \in Section
<1>1. arr \in Seq(Entry)
  BY DEF Section
<1>2. CASE key = NoKey
  <2> DEFINE new == [e EXCEPT !.ord = NextOrder(arr)]
  <2>1. new \in Entry /\ new.key = e.key
    BY <1>1, NextOrderIsLast DEF Entry
  <2>2. e.key \notin KeysOf(arr)
    BY <1>2 DEF CanUpsert, Entry, Ids
  <2>3. Append(arr, new) \in Section
    <3> HIDE DEF new
    <3> QED BY <2>1, <2>2, AppendSection
  <2> QED BY <1>2, <2>3 DEF Upsert
<1>3. CASE key # NoKey
  <2> DEFINE i   == FirstWith(arr, key)
             new == [e EXCEPT !.ord = KeptOrder(arr, i)]
  <2>1. key \in KeysOf(arr)
    BY <1>3 DEF CanUpsert
  <2>2. i \in DOMAIN arr /\ arr[i].key = key
    BY <1>1, <2>1, FirstWithFinds
  <2>3. KeptOrder(arr, i) \in Int
    <3>1. i \in Int /\ arr[i] \in Entry
      BY <1>1, <2>2, LenProperties, ElementOfSeq
    <3> HIDE DEF i
    <3> QED BY <3>1 DEF KeptOrder, Entry
  <2>4. new \in Entry /\ new.key = e.key
    BY <2>3 DEF Entry
  <2>5. e.key \in KeysOf(arr) => e.key = arr[i].key
    BY <2>2 DEF CanUpsert
  <2>6. [arr EXCEPT ![i] = new] \in Section
    <3> HIDE DEF new, i
    <3> QED BY <2>2, <2>4, <2>5, ReplaceSection
  <2> QED BY <1>3, <2>6 DEF Upsert
<1> QED BY <1>2, <1>3

\* Adding and editing keep a document sound.
LEMMA UpsertKeyedSound ==
  ASSUME NEW doc \in SoundDoc, NEW s \in Keyed, NEW e \in Entry, NEW key \in Nat,
         CanUpsert(doc[s], e, key)
  PROVE  UpsertKeyed(doc, s, e, key) \in SoundDoc
<1>1. doc[s] \in Section /\ s \in Sections
  BY SoundSection
<1>2. Upsert(doc[s], e, key) \in Section
  BY <1>1, UpsertSection
<1> QED BY <1>1, <1>2, WithSection DEF UpsertKeyed, Section

\* The members of a scan list, less one.
LEMMA PrunedSection ==
  ASSUME NEW arr \in Section, NEW key
  PROVE  Pruned(arr, key) \in Section
<1>1. arr \in Seq(Entry) /\ \A i \in DOMAIN arr : arr[i] \in Entry
  BY LenProperties, ElementOfSeq DEF Section
<1>2. Pruned(arr, key) \in [DOMAIN arr -> Entry]
  BY <1>1 DEF Pruned, Entry
<1>3. \A i \in DOMAIN arr : Pruned(arr, key)[i].key = arr[i].key
  BY <1>1 DEF Pruned, Entry
<1> QED BY <1>2, <1>3, RewrittenSection

\* Deleting keeps a document sound, the scan lists of a deleted talkgroup included.
LEMMA DeleteKeyedSound ==
  ASSUME NEW doc \in SoundDoc, NEW s \in Keyed, NEW key \in KeysOf(doc[s])
  PROVE  DeleteKeyed(doc, s, key) \in SoundDoc
<1> DEFINE rest == [doc EXCEPT ![s] = RemoveAt(@, FirstWith(@, key))]
<1>1. doc[s] \in Section /\ doc[s] \in Seq(Entry) /\ s \in Sections
  BY SoundSection DEF Section
<1>2. RemoveAt(doc[s], FirstWith(doc[s], key)) \in Section
  BY <1>1, FirstWithFinds, RemoveSection
<1>3. rest \in SoundDoc
  BY <1>1, <1>2, WithSection DEF Section
<1>4. [rest EXCEPT !["scanlist"] = Pruned(@, key)] \in SoundDoc
  <2> HIDE DEF rest
  <2>1. rest["scanlist"] \in Section /\ "scanlist" \in Sections
    BY <1>3, SoundSection DEF Keyed
  <2>2. Pruned(rest["scanlist"], key) \in Section
    BY <2>1, PrunedSection
  <2> QED BY <1>3, <2>1, <2>2, WithSection DEF Section
<1> QED BY <1>3, <1>4 DEF DeleteKeyed

\* Networks and single tables have no identities to keep apart.
LEMMA UpsertNetworkSound ==
  ASSUME NEW doc \in SoundDoc, NEW e \in Entry, NEW index \in Nat,
         CanUpsertNetwork(doc, index)
  PROVE  UpsertNetwork(doc, e, index) \in SoundDoc
<1>1. doc["network"] \in Seq(Entry) /\ "network" \in Sections /\ "network" \notin Keyed
  BY DEF SoundDoc, Doc, Sections, Keyed
<1>2. Append(doc["network"], e) \in Seq(Entry)
  BY <1>1, AppendProperties
<1>3. index # 0 => [doc["network"] EXCEPT ![index] = e] \in Seq(Entry)
  BY <1>1, ExceptSeq DEF CanUpsertNetwork
<1> QED BY <1>1, <1>2, <1>3, WithSection DEF UpsertNetwork

LEMMA DeleteNetworkSound ==
  ASSUME NEW doc \in SoundDoc, NEW index, CanDeleteNetwork(doc, index)
  PROVE  DeleteNetwork(doc, index) \in SoundDoc
<1>1. doc["network"] \in Seq(Entry) /\ "network" \in Sections /\ "network" \notin Keyed
  BY DEF SoundDoc, Doc, Sections, Keyed
<1>2. RemoveAt(doc["network"], index) \in Seq(Entry)
  BY <1>1, RemoveRow DEF CanDeleteNetwork
<1> QED BY <1>1, <1>2, WithSection DEF DeleteNetwork

LEMMA SetSingleSound ==
  ASSUME NEW doc \in SoundDoc, NEW s \in Single, NEW e \in Entry
  PROVE  SetSingle(doc, s, e) \in SoundDoc
<1>1. s \in Sections /\ s \notin Keyed /\ <<e>> \in Seq(Entry)
  BY DEF Single, Sections, Keyed
<1> QED BY <1>1, WithSection DEF SetSingle

\* Renumbering talkgroups changes no identity.
LEMMA SetTalkgroupOrdersSound ==
  ASSUME NEW doc \in SoundDoc, NEW keys, DOMAIN keys \subseteq Int
  PROVE  SetTalkgroupOrders(doc, keys) \in SoundDoc
<1> DEFINE arr == doc["talkgroup"]
           new == [i \in DOMAIN arr |->
                     IF \E n \in DOMAIN keys : keys[n] = arr[i].key
                     THEN [arr[i] EXCEPT !.ord = (CHOOSE n \in DOMAIN keys : keys[n] = arr[i].key) - 1]
                     ELSE arr[i]]
<1>1. arr \in Section /\ "talkgroup" \in Sections /\ "talkgroup" \in Keyed
  BY SoundSection DEF Keyed
<1>2. ASSUME NEW i \in DOMAIN arr
      PROVE  new[i] \in Entry /\ new[i].key = arr[i].key
  <2>1. arr[i] \in Entry
    BY <1>1, ElementOfSeq, LenProperties DEF Section
  <2>2. CASE \E n \in DOMAIN keys : keys[n] = arr[i].key
    <3> DEFINE n == CHOOSE n \in DOMAIN keys : keys[n] = arr[i].key
    <3>1. n \in Int
      BY <2>2
    <3>2. new[i] = [arr[i] EXCEPT !.ord = n - 1]
      BY <2>2
    <3> HIDE DEF n, new, arr
    <3> QED BY <2>1, <3>1, <3>2 DEF Entry
  <2>3. CASE ~ \E n \in DOMAIN keys : keys[n] = arr[i].key
    BY <2>1, <2>3
  <2> QED BY <2>2, <2>3
<1>3. new \in Section
  <2>1. new \in [DOMAIN arr -> Entry]
    BY <1>2
  <2> HIDE DEF new, arr
  <2> QED BY <1>1, <1>2, <2>1, RewrittenSection
<1>4. [doc EXCEPT !["talkgroup"] = new] \in SoundDoc
  <2> HIDE DEF new
  <2> QED BY <1>1, <1>3, WithSection DEF Section
<1> QED BY <1>4 DEF SetTalkgroupOrders

-----------------------------------------------------------------------------
(* Lists.                                                                   *)

\* What rows are sorted by.
LEMMA SortKeyType ==
  ASSUME NEW s, NEW e \in Entry
  PROVE  /\ SortKey(s, e) = <<SortKey(s, e)[1], SortKey(s, e)[2]>>
         /\ SortKey(s, e)[1] \in Int /\ SortKey(s, e)[2] \in Int
<1> DEFINE order == IF e.ord = NoOrder THEN 0 ELSE e.ord
<1>1. order \in Int /\ e.key \in Int /\ e.name \in Int
  BY DEF Entry, Ids
<1> QED BY <1>1 DEF SortKey

\* Sorting decides between any two rows, whatever numbers and names they have.
LEMMA BeforeIsTotalOrder ==
  ASSUME NEW s, NEW arr \in Seq(Entry)
  PROVE  /\ \A i \in DOMAIN arr : ~Before(s, arr, i, i)
         /\ \A i, j \in DOMAIN arr : i = j \/ Before(s, arr, i, j) \/ Before(s, arr, j, i)
         /\ \A i, j, k \in DOMAIN arr :
              Before(s, arr, i, j) /\ Before(s, arr, j, k) => Before(s, arr, i, k)
<1> DEFINE sk1 == [i \in DOMAIN arr |-> SortKey(s, arr[i])[1]]
           sk2 == [i \in DOMAIN arr |-> SortKey(s, arr[i])[2]]
<1>1. DOMAIN arr \subseteq Int /\ \A i \in DOMAIN arr : arr[i] \in Entry
  BY LenProperties, ElementOfSeq
<1>2. \A i \in DOMAIN arr : sk1[i] \in Int /\ sk2[i] \in Int
  BY <1>1, SortKeyType
<1>3. ASSUME NEW i \in DOMAIN arr, NEW j \in DOMAIN arr
      PROVE  Before(s, arr, i, j) <=> \/ sk1[i] < sk1[j]
                                      \/ sk1[i] = sk1[j] /\ sk2[i] < sk2[j]
                                      \/ sk1[i] = sk1[j] /\ sk2[i] = sk2[j] /\ i < j
  <2>1. SortKey(s, arr[i]) = SortKey(s, arr[j]) <=> sk1[i] = sk1[j] /\ sk2[i] = sk2[j]
    <3>1. arr[i] \in Entry /\ arr[j] \in Entry
      BY <1>1
    <3>2. /\ SortKey(s, arr[i]) = <<sk1[i], sk2[i]>>
          /\ SortKey(s, arr[j]) = <<sk1[j], sk2[j]>>
      BY <3>1, SortKeyType
    <3> HIDE DEF sk1, sk2
    <3> QED BY <3>2
  <2> QED BY <2>1 DEF Before
<1> HIDE DEF sk1, sk2
<1> QED BY <1>1, <1>2, <1>3

\* A list on a screen is sorted, and has every row it is about once.
LEMMA ListedRows ==
  ASSUME NEW s, NEW arr \in Seq(Entry), NEW rows \in SUBSET (DOMAIN arr)
  PROVE  LET P == 1..Cardinality(rows)
         IN  /\ Cardinality(rows) \in Nat
             /\ Listed(s, arr, rows) \in Bijection(P, rows)
             /\ \A p, q \in P :
                  p < q => Before(s, arr, Listed(s, arr, rows)[p], Listed(s, arr, rows)[q])
<1> DEFINE N     == Cardinality(rows)
           P     == 1..N
           pred  == [i \in rows |-> {j \in rows : Before(s, arr, j, i)}]
           card  == [i \in rows |-> Cardinality(pred[i])]
           rank  == [i \in rows |-> card[i] + 1]
           shown == Listed(s, arr, rows)
<1>1. IsFiniteSet(rows) /\ N \in Nat
  <2>1. IsFiniteSet(DOMAIN arr)
    BY LenProperties, FS_Interval
  <2>2. IsFiniteSet(rows)
    BY <2>1, FS_Subset
  <2> QED BY <2>2, FS_CardinalityType
<1>2. IsFiniteSet(P) /\ Cardinality(P) = N
  BY <1>1, FS_Interval
<1>3. /\ \A i \in rows : ~Before(s, arr, i, i)
      /\ \A i, j \in rows : i = j \/ Before(s, arr, i, j) \/ Before(s, arr, j, i)
      /\ \A i, j, k \in rows : Before(s, arr, i, j) /\ Before(s, arr, j, k) => Before(s, arr, i, k)
  BY BeforeIsTotalOrder
<1>4. ASSUME NEW i \in rows
      PROVE  /\ pred[i] \in SUBSET rows /\ IsFiniteSet(pred[i])
             /\ card[i] \in Int /\ card[i] + 1 \in P
  <2>1. pred[i] \in SUBSET rows /\ i \in rows \ pred[i]
    BY <1>3
  <2>2. card[i] = Cardinality(pred[i])
    OBVIOUS
  <2> HIDE DEF card, pred
  <2>3. IsFiniteSet(pred[i]) /\ card[i] <= N /\ (N = card[i] => rows = pred[i])
    BY <2>1, <2>2, <1>1, FS_Subset
  <2>4. card[i] \in Nat
    BY <2>2, <2>3, FS_CardinalityType
  <2> HIDE DEF N
  <2> QED BY <1>1, <2>1, <2>3, <2>4
<1>5. ASSUME NEW i \in rows, NEW j \in rows, Before(s, arr, i, j)
      PROVE  card[i] < card[j]
  <2>1. pred[i] \in SUBSET pred[j] /\ i \in pred[j] /\ i \notin pred[i]
    BY <1>3, <1>5
  <2>2. card[i] = Cardinality(pred[i]) /\ card[j] = Cardinality(pred[j])
    OBVIOUS
  <2> HIDE DEF card, pred
  <2>3. IsFiniteSet(pred[j])
    BY <1>4
  <2>4. card[i] <= card[j] /\ card[i] # card[j]
    BY <2>1, <2>2, <2>3, FS_Subset
  <2>5. card[i] \in Int /\ card[j] \in Int
    BY <1>4
  <2> QED BY <2>4, <2>5
<1>6. rank \in Injection(rows, P)
  <2> HIDE DEF card, P
  <2>1. \A i \in rows : card[i] + 1 \in P /\ card[i] \in Int
    BY <1>4
  <2>2. \A i, j \in rows : card[i] + 1 = card[j] + 1 => i = j
    BY <1>3, <1>5, <2>1
  <2> QED BY <2>1, <2>2, Fun_IsInj
<1>7. rank \in Surjection(rows, P)
  <2> HIDE DEF rank, P
  <2> QED BY <1>2, <1>6, FS_Injection
<1>8. ASSUME NEW p \in P
      PROVE  shown[p] \in rows /\ card[shown[p]] = p - 1
  <2>1. PICK i \in rows : rank[i] = p
    <3> HIDE DEF rank, P
    <3> QED BY <1>7, Fun_SurjectionProperties
  <2>2. card[i] = p - 1
    <3>1. rank[i] = card[i] + 1
      OBVIOUS
    <3> HIDE DEF card, rank, P
    <3>2. card[i] \in Int
      BY <1>4
    <3> QED BY <2>1, <3>1, <3>2
  <2>3. shown[p] = CHOOSE k \in rows : Cardinality({j \in rows : Before(s, arr, j, k)}) = p - 1
    BY DEF Listed
  <2>4. Cardinality({j \in rows : Before(s, arr, j, i)}) = p - 1
    BY <2>2
  <2> HIDE DEF shown
  <2>5. /\ shown[p] \in rows
        /\ Cardinality({j \in rows : Before(s, arr, j, shown[p])}) = p - 1
    BY <2>3, <2>4
  <2>6. card[shown[p]] = Cardinality({j \in rows : Before(s, arr, j, shown[p])})
    BY <2>5
  <2> QED BY <2>5, <2>6
<1>9. shown \in [P -> rows]
  BY <1>8 DEF Listed
<1> HIDE DEF shown, card, N
<1>10. shown \in Injection(P, rows)
  <2>1. \A p, q \in P : shown[p] = shown[q] => p = q
    BY <1>1, <1>8
  <2> HIDE DEF P
  <2> QED BY <1>9, <2>1, Fun_IsInj
<1>11. shown \in Bijection(P, rows)
  <2>1. shown \in Surjection(P, rows)
    <3>1. Cardinality(P) = Cardinality(rows)
      BY <1>2 DEF N
    <3> HIDE DEF P
    <3> QED BY <1>1, <1>10, <3>1, FS_Injection
  <2> HIDE DEF P
  <2> QED BY <1>10, <2>1 DEF Bijection
<1>12. ASSUME NEW p \in P, NEW q \in P, p < q
       PROVE  Before(s, arr, shown[p], shown[q])
  <2>1. /\ shown[p] \in rows /\ shown[q] \in rows
        /\ card[shown[p]] = p - 1 /\ card[shown[q]] = q - 1
    BY <1>8
  <2>2. CASE Before(s, arr, shown[q], shown[p])
    <3>1. q - 1 < p - 1
      BY <1>5, <2>1, <2>2
    <3> QED BY <1>1, <1>12, <3>1
  <2>3. shown[p] # shown[q]
    BY <1>1, <1>12, <2>1
  <2> QED BY <1>3, <2>1, <2>2, <2>3
<1> QED BY <1>1, <1>11, <1>12 DEF shown, N

\* The lists of the programming screens: each row of the text appears once, in order.
THEOREM ShownRows ==
  ASSUME NEW doc \in Doc, NEW s \in Sections
  PROVE  LET D == DOMAIN doc[s]
         IN  /\ Shown(doc, s) \in Bijection(D, D)
             /\ \A p, q \in D : p < q => Before(s, doc[s], Shown(doc, s)[p], Shown(doc, s)[q])
<1>1. doc[s] \in Seq(Entry) /\ Len(doc[s]) \in Nat /\ DOMAIN doc[s] = 1..Len(doc[s])
  BY LenProperties DEF Doc
<1>2. Cardinality(DOMAIN doc[s]) = Len(doc[s])
  BY <1>1, FS_Interval
<1> QED BY <1>1, <1>2, ListedRows DEF Shown

-----------------------------------------------------------------------------
(* The texts of the programming screens.                                    *)

SoundMaybe   == SoundDoc \cup {NoDoc}
SoundEvent   == [name: {"connected"}, conn: 1..MaxConns]
                \cup [name: {"disconnected"}] \cup [name: {"config"}, doc: SoundDoc]
SoundCommand == [name: {"set"}, doc: SoundDoc] \cup [name: {"apply", "get"}]

\* What an edit relies on: the text it starts from, what was parsed and every text under
\* way are sound, and there is a text wherever there is something to edit.
IInv ==
  /\ toml \in SoundMaybe /\ codeplug \in SoundMaybe
  /\ toml = NoDoc => codeplug = NoDoc
  /\ have_config \in BOOLEAN /\ alive \in BOOLEAN
  /\ control_out \in 0..MaxConns /\ live \in 0..MaxConns /\ conns \in 0..MaxConns
  /\ draft \in Draft \cup {NoDraft}
  /\ events \in Seq(SoundEvent) /\ wire \in Seq(SoundCommand)
  /\ config \in SoundDoc /\ settled \in SoundMaybe
  /\ edits \in 0..MaxEdits

\* Initially there is the stack's configuration alone.
LEMMA InitInv == Init => IInv
<1> SUFFICES ASSUME Init PROVE IInv
  OBVIOUS
<1>1. config \in SoundDoc
  BY DocAssumption DEF Init, SoundDoc
<1>2. 0 \in 0..MaxConns /\ 0 \in 0..MaxEdits
  BY FormAssumption
<1>3. <<>> \in Seq(SoundEvent) /\ <<>> \in Seq(SoundCommand)
  OBVIOUS
<1>4. have_config \in BOOLEAN /\ alive \in BOOLEAN
  BY DEF Init
<1>5. NoDoc \in SoundMaybe /\ NoDraft \in Draft \cup {NoDraft}
  BY DEF SoundMaybe
<1> QED BY <1>1, <1>2, <1>3, <1>4, <1>5, Zenon DEF Init, IInv

\* The invariant says that texts have their type.
LEMMA InvType == IInv => ProgTypeOK
<1> SUFFICES ASSUME IInv PROVE ProgTypeOK
  OBVIOUS
<1>1. SoundDoc \subseteq Doc
  BY DEF SoundDoc
<1>2. SoundMaybe \subseteq MaybeDoc /\ SoundEvent \subseteq LinkEvent /\ SoundCommand \subseteq Command
  BY <1>1 DEF SoundMaybe, MaybeDoc, SoundEvent, LinkEvent, SoundCommand, Command
<1>3. events \in Seq(LinkEvent)
  BY <1>2 DEF IInv
<1>4. wire \in Seq(Command)
  BY <1>2 DEF IInv
<1> QED BY <1>1, <1>2, <1>3, <1>4 DEF IInv, ProgTypeOK

\* The invariant says that identities are apart in every text.
LEMMA InvUnique == IInv => KeysStayUnique
<1> SUFFICES ASSUME IInv, NEW doc \in Docs PROVE doc \in SoundDoc
  BY DEF KeysStayUnique, SoundDoc
<1>1. CASE doc \in {toml, codeplug, config, settled}
  BY <1>1 DEF IInv, SoundMaybe, Docs
<1>2. ASSUME NEW i \in DOMAIN events, events[i].name = "config"
      PROVE  events[i].doc \in SoundDoc
  <2>1. events[i] \in SoundEvent
    BY ElementOfSeq, LenProperties DEF IInv
  <2> QED BY <1>2, <2>1 DEF SoundEvent
<1>3. ASSUME NEW i \in DOMAIN wire, wire[i].name = "set"
      PROVE  wire[i].doc \in SoundDoc
  <2>1. wire[i] \in SoundCommand
    BY ElementOfSeq, LenProperties DEF IInv
  <2> QED BY <1>3, <2>1 DEF SoundCommand
<1> QED BY <1>1, <1>2, <1>3 DEF Docs

-----------------------------------------------------------------------------
(* Forms.                                                                   *)

\* Choices on a form are identities.
LEMMA OfferedType ==
  ASSUME IInv, NEW s
  PROVE  Offered(s) \in SUBSET Ids
<1>1. ASSUME codeplug # NoDoc, NEW t \in Sections
      PROVE  KeysOf(codeplug[t]) \subseteq Ids
  BY <1>1, KeysFinite DEF IInv, SoundMaybe, SoundDoc, Doc
<1> QED BY <1>1 DEF Offered, Sections

\* The form of an entry.
LEMMA EditDraftType ==
  ASSUME IInv, NEW s \in Sections, NEW e \in Entry
  PROVE  EditDraft(s, e) \in Draft
<1>1. Offered(s) \in SUBSET Ids
  BY OfferedType
<1>2. e \in Form /\ e.key \in Nat
  BY DEF Entry, Form, Ids
<1>3. [e EXCEPT !.refs = @ \cap Offered(s)] \in Form
  BY <1>1, <1>2 DEF Form
<1> QED BY <1>1, <1>2, <1>3 DEF EditDraft, Draft

\* An empty form.
LEMMA NewDraftType ==
  ASSUME IInv, NEW s \in Sections, NEW folder \in SUBSET Ids
  PROVE  NewDraft(s, folder) \in Draft
<1>1. Offered(s) \in SUBSET Ids
  BY OfferedType
<1>2. [Blank EXCEPT !.refs = folder] \in Form
  BY DEF Blank, Form, NoKey
<1> QED BY <1>1, <1>2 DEF NewDraft, Draft, NoKey

\* A row of a list is an entry of the text.
LEMMA RowIsEntry ==
  ASSUME NEW doc \in Doc, NEW s \in Sections, NEW p \in DOMAIN doc[s]
  PROVE  doc[s][p] \in Entry /\ EntryAt(doc, s, p) \in Entry
<1>1. doc[s] \in Seq(Entry)
  BY DEF Doc
<1>2. Shown(doc, s)[p] \in DOMAIN doc[s]
  BY ShownRows, Fun_BijectionProperties
<1>3. \A i \in DOMAIN doc[s] : doc[s][i] \in Entry
  BY <1>1, ElementOfSeq, LenProperties
<1> QED BY <1>2, <1>3 DEF EntryAt

\* A form opened from a list.
LEMMA BuildDraftType ==
  ASSUME IInv, NEW s \in Sections, NEW p \in Rows(codeplug, s)
  PROVE  BuildDraft(s, p) \in Draft
<1>1. codeplug # NoDoc /\ codeplug \in Doc
  BY DEF Rows, IInv, SoundMaybe, SoundDoc
<1>2. CASE s # "network"
  BY <1>1, <1>2, RowIsEntry, EditDraftType DEF BuildDraft, Rows
<1>3. CASE s = "network"
  <2> DEFINE home == codeplug["net_info"]
             nets == codeplug["network"]
  <2>1. /\ "net_info" \in Sections /\ "network" \in Sections
        /\ home \in Seq(Entry) /\ nets \in Seq(Entry)
        /\ Len(home) \in Nat /\ DOMAIN home = 1..Len(home)
        /\ Len(nets) \in Nat /\ DOMAIN nets = 1..Len(nets)
    BY <1>1, LenProperties DEF Doc, Sections
  <2>2. p \in 1..(Len(home) + Len(nets)) /\ HomeShown(codeplug) = Len(home)
    BY <1>1, <1>3 DEF Rows, HomeShown
  <2>3. CASE p <= Len(home)
    <3>1. p \in DOMAIN home
      BY <2>1, <2>2, <2>3
    <3>2. home[p] \in Entry
      BY <1>1, <2>1, <3>1, RowIsEntry
    <3>3. EditDraft("net_info", home[p]) \in Draft
      BY <2>1, <3>2, EditDraftType
    <3> QED BY <1>3, <2>2, <2>3, <3>3 DEF BuildDraft, NetworkDraft
  <2>4. CASE ~(p <= Len(home))
    <3> DEFINE i == p - Len(home)
               d == EditDraft("network", EntryAt(codeplug, "network", i))
    <3>1. i \in DOMAIN nets /\ i \in Nat
      <4> HIDE DEF home, nets
      <4> QED BY <2>1, <2>2, <2>4
    <3>2. d \in Draft
      BY <1>1, <2>1, <3>1, RowIsEntry, EditDraftType
    <3>3. [d EXCEPT !.key = NoKey, !.index = i] \in Draft
      <4> HIDE DEF d, i
      <4> QED BY <3>1, <3>2 DEF Draft, NoKey
    <3> QED BY <1>3, <2>2, <2>4, <3>3 DEF BuildDraft, NetworkDraft
  <2> QED BY <2>3, <2>4
<1> QED BY <1>2, <1>3

\* The form of the settings.
LEMMA SettingsDraftType ==
  ASSUME IInv
  PROVE  SettingsDraft \in Draft
<1>1. "home_display" \in Sections
  BY DEF Sections
<1>2. CASE codeplug # NoDoc /\ codeplug["home_display"] # <<>>
  <2>1. codeplug \in Doc /\ codeplug["home_display"] \in Seq(Entry)
    BY <1>1, <1>2 DEF IInv, SoundMaybe, SoundDoc, Doc
  <2>2. codeplug["home_display"][1] \in Entry
    BY <1>2, <2>1
  <2> QED BY <1>1, <1>2, <2>2, EditDraftType DEF SettingsDraft
<1>3. CASE ~(codeplug # NoDoc /\ codeplug["home_display"] # <<>>)
  BY <1>1, <1>3, NewDraftType DEF SettingsDraft
<1> QED BY <1>2, <1>3

-----------------------------------------------------------------------------
(* What is saved.                                                           *)

\* There is an identity left for a new folder, however many there are.
LEMMA SlugType ==
  ASSUME IInv, NEW name \in Ids
  PROVE  UniqueFolderSlug(name) \in Ids
<1> DEFINE taken == IF codeplug = NoDoc THEN {} ELSE KeysOf(codeplug["folder"])
           c     == Cardinality(taken)
           free  == (1..(c + 1)) \ taken
<1>1. IsFiniteSet(taken) /\ c \in Nat
  <2>1. codeplug # NoDoc => codeplug["folder"] \in Seq(Entry)
    BY DEF IInv, SoundMaybe, SoundDoc, Doc, Sections
  <2>2. IsFiniteSet(taken)
    BY <2>1, KeysFinite, FS_EmptySet
  <2> QED BY <2>2, FS_CardinalityType
<1> HIDE DEF taken
<1>2. free # {}
  <2> SUFFICES ASSUME free = {} PROVE FALSE
    OBVIOUS
  <2>1. 1..(c + 1) \in SUBSET taken
    OBVIOUS
  <2>2. Cardinality(1..(c + 1)) = c + 1
    BY <1>1, FS_Interval
  <2>3. c + 1 <= c
    <3> HIDE DEF c
    <3>1. c = Cardinality(taken)
      BY DEF c
    <3> QED BY <1>1, <2>1, <2>2, <3>1, FS_Subset
  <2> QED BY <1>1, <2>3
<1>3. free \subseteq Nat
  OBVIOUS
<1>4. PICK k \in free : \A j \in free : k <= j
  <2> HIDE DEF free
  <2> QED BY <1>2, <1>3, LeastNatural
<1>5. (CHOOSE m \in free : \A j \in free : m <= j) \in free
  <2> HIDE DEF free
  <2> QED BY <1>4
<1>6. free \subseteq Ids
  BY <1>1 DEF Ids, NoKey
<1> QED BY <1>5, <1>6 DEF UniqueFolderSlug, taken

\* What a form may hold when it is saved: a row, but for the id of a folder.
LEMMA FormsType ==
  ASSUME IInv, NEW d \in Draft, NEW f \in Forms(d)
  PROVE  /\ f \in Form /\ f.name \in Ids
         /\ d.section # "folder" => f \in Entry
<1>1. /\ d.form \in Form /\ d.offered \in SUBSET Ids /\ d.form.refs \in SUBSET Ids
      /\ d.form.ord \in Int \cup {NoOrder}
  BY DEF Draft, Form
<1>2. FormKeys \subseteq Ids /\ FormNames \subseteq Ids
  BY FormAssumption
<1>3. \A refs \in SUBSET (SUBSET Ids) :
        [key: FormKeys, name: FormNames, ord: {d.form.ord}, refs: refs] \subseteq Entry
  BY <1>1, <1>2 DEF Entry
<1>4. Ids \subseteq Nat /\ Ids \subseteq Int
  BY DEF Ids
<1>5. Entry \subseteq Form
  BY <1>4 DEF Entry, Form
<1>6. \A e \in Entry : e.name \in Ids /\ [e EXCEPT !.name = e.key] \in Entry
                       /\ [e EXCEPT !.ord = e.name] \in Entry
  BY <1>4 DEF Entry
<1>7. CASE d.section = "folder"
  <2>1. PICK n \in FormNames : f = [d.form EXCEPT !.name = n]
    BY <1>7 DEF Forms
  <2> QED BY <1>1, <1>2, <1>4, <1>7, <2>1 DEF Form
<1>8. CASE d.section = "scanlist"
  <2>1. SUBSET d.offered \in SUBSET (SUBSET Ids)
    BY <1>1
  <2>2. f \in {[e EXCEPT !.name = e.key] :
                 e \in [key: FormKeys, name: FormNames, ord: {d.form.ord}, refs: SUBSET d.offered]}
    BY <1>8 DEF Forms
  <2>3. PICK e \in Entry : f = [e EXCEPT !.name = e.key]
    BY <1>3, <2>1, <2>2
  <2> QED BY <1>5, <1>6, <2>3
<1>9. CASE d.section = "contact"
  <2> DEFINE R == {{}, d.form.refs} \cup {{g} : g \in Offered("contact")}
  <2>1. R \in SUBSET (SUBSET Ids)
    BY <1>1, OfferedType
  <2>2. f \in {[e EXCEPT !.name = e.key] :
                 e \in [key: FormKeys, name: FormNames, ord: {d.form.ord}, refs: R]}
    BY <1>9 DEF Forms
  <2> HIDE DEF R
  <2>3. PICK e \in Entry : f = [e EXCEPT !.name = e.key]
    BY <1>3, <2>1, <2>2
  <2> QED BY <1>5, <1>6, <2>3
<1>10. CASE d.section = "network"
  <2>1. {{}} \in SUBSET (SUBSET Ids)
    OBVIOUS
  <2>2. f \in {[e EXCEPT !.ord = e.name] :
                 e \in [key: FormKeys, name: FormNames, ord: {d.form.ord}, refs: {{}}]}
    BY <1>10 DEF Forms
  <2>3. PICK e \in Entry : f = [e EXCEPT !.ord = e.name]
    BY <1>3, <2>1, <2>2
  <2> QED BY <1>5, <1>6, <2>3
<1>11. CASE d.section \notin {"folder", "scanlist", "contact", "network"}
  <2>1. {d.form.refs} \in SUBSET (SUBSET Ids)
    BY <1>1
  <2>2. f \in [key: FormKeys, name: FormNames, ord: {d.form.ord}, refs: {d.form.refs}]
    BY <1>11 DEF Forms
  <2>3. f \in Entry
    BY <1>3, <2>1, <2>2
  <2> QED BY <1>5, <1>6, <2>3
<1> QED BY <1>7, <1>8, <1>9, <1>10, <1>11

\* The row that is written.
LEMMA InputType ==
  ASSUME IInv, NEW d \in Draft, NEW f \in Forms(d)
  PROVE  Input(d, f) \in Entry
<1>1. f \in Form /\ f.name \in Ids /\ (d.section # "folder" => f \in Entry)
  BY FormsType
<1>2. UniqueFolderSlug(f.name) \in Ids
  BY <1>1, SlugType
<1>3. d.key \in Nat
  BY DEF Draft
<1>4. CASE d.section = "folder"
  <2>1. (IF d.key = NoKey THEN UniqueFolderSlug(f.name) ELSE d.key) \in Ids
    BY <1>2, <1>3 DEF Ids
  <2>2. Input(d, f) = [f EXCEPT !.key = IF d.key = NoKey THEN UniqueFolderSlug(f.name) ELSE d.key]
    BY <1>4 DEF Input
  <2> QED BY <1>1, <2>1, <2>2 DEF Form, Entry
<1> QED BY <1>1, <1>4 DEF Input

\* A form that is accepted makes a sound text of a sound text.
LEMMA SavedSound ==
  ASSUME IInv, NEW d \in Draft, NEW f \in Forms(d), CanSave(d, f)
  PROVE  Saved(d, f) \in SoundDoc
<1>1. toml \in SoundDoc
  BY DEF CanSave, IInv, SoundMaybe
<1>2. Input(d, f) \in Entry /\ (d.section # "folder" => f \in Entry)
  BY InputType, FormsType
<1>3. d.section \in Sections /\ d.key \in Nat /\ d.index \in Nat
  BY DEF Draft
<1>4. CASE d.section \in Single
  <2>1. d.section # "folder" /\ d.section # "network"
    BY <1>4 DEF Single
  <2> QED BY <1>1, <1>2, <1>4, <2>1, SetSingleSound DEF Saved
<1>5. CASE d.section = "network"
  <2>1. d.section \notin Single /\ f \in Entry /\ CanUpsertNetwork(toml, d.index)
    BY <1>2, <1>5 DEF Single, CanSave
  <2> QED BY <1>1, <1>3, <1>5, <2>1, UpsertNetworkSound DEF Saved
<1>6. CASE d.section \in Keyed
  <2>1. d.section \notin Single /\ d.section # "network"
    BY <1>6 DEF Single, Keyed
  <2>2. CanUpsert(toml[d.section], Input(d, f), d.key)
    BY <1>6 DEF CanSave
  <2> QED BY <1>1, <1>2, <1>3, <1>6, <2>1, <2>2, UpsertKeyedSound DEF Saved
<1> QED BY <1>3, <1>4, <1>5, <1>6 DEF Sections, Single, Keyed

-----------------------------------------------------------------------------
(* Steps.                                                                   *)

\* Commands the loop sends.
LEMMA SendType ==
  ASSUME IInv, NEW cmds \in Seq(SoundCommand), Send(cmds)
  PROVE  wire' \in Seq(SoundCommand)
<1>1. wire \in Seq(SoundCommand)
  BY DEF IInv
<1>2. wire \o cmds \in Seq(SoundCommand)
  BY <1>1
<1> QED BY <1>1, <1>2 DEF Send

\* Forms that are opened, cancelled or left alone.
LEMMA QuietlyInv ==
  ASSUME IInv, Quietly, draft' \in Draft \cup {NoDraft}
  PROVE  IInv'
BY DEF IInv, Quietly, stack

\* apply_codeplug, given a sound text.
LEMMA ApplyInv ==
  ASSUME IInv, NEW doc \in SoundDoc, edits < MaxEdits, ApplyCodeplug(doc),
         draft' \in Draft \cup {NoDraft}
  PROVE  IInv'
<1>1. toml' \in SoundMaybe /\ toml' # NoDoc /\ codeplug' \in SoundMaybe
  <2>1. doc # NoDoc
    BY DocAssumption DEF SoundDoc
  <2> QED BY <2>1 DEF ApplyCodeplug, IInv, SoundMaybe
<1>2. alive' \in BOOLEAN
  BY DEF ApplyCodeplug, Draws
<1>3. wire' \in Seq(SoundCommand)
  <2> DEFINE tail == IF alive' THEN <<Get>> ELSE <<>>
             set  == [name |-> "set", doc |-> doc]
  <2>1. Get \in SoundCommand /\ Apply \in SoundCommand /\ set \in SoundCommand
    BY DEF Get, Apply, SoundCommand
  <2> HIDE DEF set
  <2>2. tail \in Seq(SoundCommand) /\ <<set, Apply>> \in Seq(SoundCommand)
    BY <2>1
  <2> HIDE DEF tail
  <2>3. <<set, Apply>> \o tail \in Seq(SoundCommand)
    BY <2>2
  <2> QED BY <2>3, SendType DEF ApplyCodeplug, tail, set
<1>4. edits' \in 0..MaxEdits
  BY FormAssumption DEF ApplyCodeplug, IInv
<1>5. settled' \in SoundMaybe
  BY DEF ApplyCodeplug, SoundMaybe
<1>6. UNCHANGED <<have_config, control_out, events, live, conns, config>>
  BY DEF ApplyCodeplug, stack
<1> QED BY <1>1, <1>2, <1>3, <1>4, <1>5, <1>6, Zenon DEF IInv

\* The stack and the link.
LEMMA StackInv ==
  ASSUME IInv, Connect \/ Disconnect \/ Serve
  PROVE  IInv'
<1>1. CASE Connect
  <2>1. conns' \in 1..MaxConns
    BY <1>1, FormAssumption DEF Connect, IInv
  <2>2. [name |-> "connected", conn |-> conns'] \in SoundEvent
    BY <2>1 DEF SoundEvent
  <2>3. events' \in Seq(SoundEvent)
    BY <1>1, <2>2 DEF Connect, IInv
  <2>4. conns' \in 0..MaxConns /\ live' = conns'
    BY <1>1, <2>1, FormAssumption DEF Connect
  <2> QED BY <1>1, <2>3, <2>4, Zenon DEF Connect, IInv
<1>2. CASE Disconnect
  <2>1. [name |-> "disconnected"] \in SoundEvent
    BY DEF SoundEvent
  <2>2. events' \in Seq(SoundEvent)
    BY <1>2, <2>1 DEF Disconnect, IInv
  <2>3. live' \in 0..MaxConns
    BY <1>2, FormAssumption DEF Disconnect
  <2>4. wire' \in Seq(SoundCommand) /\ settled' \in SoundMaybe
    BY <1>2 DEF Disconnect, SoundMaybe
  <2> QED BY <1>2, <2>2, <2>3, <2>4, Zenon DEF Disconnect, IInv
<1>3. CASE Serve
  <2>1. wire \in Seq(SoundCommand) /\ wire # <<>>
    BY <1>3 DEF Serve, IInv
  <2>2. Tail(wire) \in Seq(SoundCommand)
    BY <2>1
  <2>3. UNCHANGED <<toml, codeplug, have_config, control_out, draft, alive, live, conns, edits>>
    BY <1>3 DEF Serve
  <2>4. CASE TakeGet
    <3>1. [name |-> "config", doc |-> config] \in SoundEvent
      BY DEF IInv, SoundEvent
    <3>2. events' \in Seq(SoundEvent)
      BY <2>4, <3>1 DEF TakeGet, IInv
    <3> QED BY <2>2, <2>3, <2>4, <3>2, Zenon DEF TakeGet, IInv
  <2>5. CASE TakeEdit
    <3>1. events' = events /\ settled' \in SoundMaybe
      BY <2>5 DEF TakeEdit, IInv, SoundMaybe
    <3>2. CASE Len(wire) > 1 /\ wire[1].name = "set" /\ wire[2].name = "apply"
      <4>1. wire[1] \in SoundCommand /\ Len(wire) \in Nat
        BY <2>1, <3>2
      <4>2. wire[1].doc \in SoundDoc
        BY <3>2, <4>1 DEF SoundCommand
      <4>3. config' \in SoundDoc
        BY <2>5, <3>2, <4>2 DEF TakeEdit, IInv
      <4>4. SubSeq(wire, 3, Len(wire)) \in Seq(SoundCommand)
        BY <2>1, <4>1
      <4> QED BY <2>3, <2>5, <3>1, <3>2, <4>3, <4>4, Zenon DEF TakeEdit, IInv
    <3>3. CASE ~(Len(wire) > 1 /\ wire[1].name = "set" /\ wire[2].name = "apply")
      BY <2>2, <2>3, <2>5, <3>1, <3>3, Zenon DEF TakeEdit, IInv
    <3> QED BY <3>2, <3>3
  <2> QED BY <1>3, <2>4, <2>5 DEF Serve
<1> QED BY <1>1, <1>2, <1>3

\* The control channel.
LEMMA ChannelInv ==
  ASSUME IInv, HandleEvent \/ PollTick \/ UiRefresh
  PROVE  IInv'
<1>1. Get \in SoundCommand /\ <<Get>> \in Seq(SoundCommand)
  BY DEF Get, SoundCommand
<1>2. ASSUME events # <<>>
      PROVE  Head(events) \in SoundEvent /\ Tail(events) \in Seq(SoundEvent)
  BY <1>2 DEF IInv
<1>3. CASE HandleConnected
  <2>1. Head(events).conn \in 0..MaxConns
    BY <1>2, <1>3, FormAssumption DEF HandleConnected, SoundEvent
  <2>2. wire' \in Seq(SoundCommand)
    BY <1>1, <1>3 DEF HandleConnected, IInv
  <2> QED BY <1>2, <1>3, <2>1, <2>2, Zenon DEF HandleConnected, IInv, stack
<1>4. CASE HandleDisconnected
  <2>1. 0 \in 0..MaxConns
    BY FormAssumption
  <2> QED BY <1>2, <1>4, <2>1, Zenon DEF HandleDisconnected, IInv, stack
<1>5. CASE HandleConfig
  <2>1. Head(events).doc \in SoundDoc
    BY <1>2, <1>5 DEF HandleConfig, SoundEvent
  <2>2. toml' \in SoundMaybe /\ codeplug' \in SoundMaybe /\ toml' # NoDoc
    BY <1>5, <2>1, DocAssumption DEF HandleConfig, IInv, SoundMaybe, SoundDoc
  <2>3. alive' \in BOOLEAN /\ have_config' \in BOOLEAN
    BY <1>5 DEF HandleConfig, Draws
  <2> QED BY <1>2, <1>5, <2>2, <2>3, Zenon DEF HandleConfig, IInv, stack
<1>6. CASE PollTick \/ UiRefresh
  <2>1. wire' \in Seq(SoundCommand)
    BY <1>1, <1>6, SendType DEF PollTick, UiRefresh
  <2> QED BY <1>6, <2>1 DEF PollTick, UiRefresh, IInv, stack
<1> QED BY <1>3, <1>4, <1>5, <1>6 DEF HandleEvent

\* What the screens do to the text is apply_codeplug with a sound text, or nothing.
LEMMA OperatorEdits ==
  ASSUME IInv, Operator
  PROVE  /\ edits < MaxEdits /\ draft' \in Draft \cup {NoDraft}
         /\ Quietly \/ \E doc \in SoundDoc : ApplyCodeplug(doc)
<1>1. edits < MaxEdits
  BY DEF Operator
<1>2. codeplug # NoDoc => toml \in SoundDoc /\ codeplug \in SoundDoc
  BY DEF IInv, SoundMaybe
<1>3. CASE OnSettings
  BY <1>1, <1>3, SettingsDraftType DEF OnSettings, OpenSettings
<1>4. CASE OnLists
  <2>1. PICK s \in Lists : UiProgAdd(s) \/ \E p \in Rows(codeplug, s) : UiProgOpen(s, p)
    BY <1>4 DEF OnLists
  <2>2. s \in Sections /\ "folder" \in Sections
    BY DEF Lists, Sections
  <2>3. CASE UiProgAdd(s)
    <3>1. ASSUME NEW folder \in SUBSET Ids
          PROVE  NewDraft(s, folder) \in Draft
      BY <2>2, NewDraftType
    <3>2. CASE draft' = NewDraft(s, {})
      BY <1>1, <2>3, <3>1, <3>2 DEF UiProgAdd
    <3>3. CASE s = "talkgroup" /\ \E f \in KeysOf(codeplug["folder"]) : draft' = NewDraft(s, {f})
      <4>1. codeplug["folder"] \in Seq(Entry)
        BY <1>2, <2>2, <2>3, <3>3 DEF UiProgAdd, SoundDoc, Doc
      <4>2. KeysOf(codeplug["folder"]) \subseteq Ids
        BY <4>1, KeysFinite
      <4>3. draft' \in Draft
        BY <3>1, <3>3, <4>2
      <4> QED BY <1>1, <2>3, <4>3 DEF UiProgAdd
    <3> QED BY <2>3, <3>2, <3>3 DEF UiProgAdd
  <2>4. CASE \E p \in Rows(codeplug, s) : UiProgOpen(s, p)
    BY <1>1, <2>2, <2>4, BuildDraftType DEF UiProgOpen
  <2> QED BY <2>1, <2>3, <2>4
<1>5. CASE UiFormSave
  <2>1. draft \in Draft /\ draft' = NoDraft
    BY <1>5 DEF UiFormSave, IInv
  <2>2. PICK f \in Forms(draft) : CanSave(draft, f) /\ ApplyCodeplug(Saved(draft, f))
    BY <1>5 DEF UiFormSave
  <2> QED BY <1>1, <2>1, <2>2, SavedSound
<1>6. CASE UiFormCancel
  BY <1>1, <1>6 DEF UiFormCancel
<1>7. CASE UiFormDelete
  <2>1. draft \in Draft /\ draft' = NoDraft /\ CanDeleteDraft(draft)
    BY <1>7 DEF UiFormDelete, IInv
  <2>2. draft.section \in Sections /\ toml \in SoundDoc
    BY <2>1 DEF Draft, CanDeleteDraft, IInv, SoundMaybe
  <2> DEFINE doc == IF draft.section = "network" THEN DeleteNetwork(toml, draft.index)
                    ELSE DeleteKeyed(toml, draft.section, draft.key)
  <2>3. doc \in SoundDoc
    <3>1. CASE draft.section = "network"
      BY <2>1, <2>2, <3>1, DeleteNetworkSound DEF CanDeleteDraft
    <3>2. CASE draft.section # "network"
      <4>1. draft.section \in Keyed
        BY <2>1, <2>2, <3>2 DEF CanDeleteDraft, Sections, Single, Keyed
      <4>2. draft.key \in KeysOf(toml[draft.section])
        BY <2>1, <3>2 DEF CanDeleteDraft, CanDelete
      <4> QED BY <2>2, <3>2, <4>1, <4>2, DeleteKeyedSound
    <3> QED BY <3>1, <3>2
  <2>4. ApplyCodeplug(doc)
    BY <1>7 DEF UiFormDelete
  <2> HIDE DEF doc
  <2> QED BY <1>1, <2>1, <2>3, <2>4
<1>8. CASE OnTree
  <2>1. PICK p \in Rows(codeplug, "talkgroup"), up \in BOOLEAN : UiTreeMove(p, up)
    BY <1>8 DEF OnTree
  <2>2. toml \in SoundDoc
    BY <1>2 DEF Rows
  <2> DEFINE keys == KeysAt(Exchanged(SiblingsOf(p), PlaceOf(p), Neighbour(PlaceOf(p), up)))
  <2>3. DOMAIN keys = DOMAIN SiblingsOf(p)
    BY DEF KeysAt, Exchanged
  <2>4. DOMAIN SiblingsOf(p) \subseteq Int
    BY DEF SiblingsOf, FolderMembers, Listed
  <2>5. SetTalkgroupOrders(toml, keys) \in SoundDoc
    <3> HIDE DEF keys
    <3> QED BY <2>2, <2>3, <2>4, SetTalkgroupOrdersSound
  <2>6. ApplyCodeplug(SetTalkgroupOrders(toml, keys)) /\ UNCHANGED draft
    BY <2>1 DEF UiTreeMove, Reordered
  <2>7. draft' \in Draft \cup {NoDraft}
    BY <2>6 DEF IInv
  <2> HIDE DEF keys
  <2> QED BY <1>1, <2>5, <2>6, <2>7
<1>9. CASE OnContact
  <2>1. PICK p \in Rows(codeplug, "contact") : UiContactDelete(p)
    BY <1>9 DEF OnContact
  <2>2. toml \in SoundDoc /\ "contact" \in Keyed
    BY <1>2 DEF Rows, Keyed
  <2>3. KeyAt(codeplug, "contact", p) \in KeysOf(toml["contact"])
    BY <2>1 DEF UiContactDelete, CanDelete
  <2>4. DeleteKeyed(toml, "contact", KeyAt(codeplug, "contact", p)) \in SoundDoc
    BY <2>2, <2>3, DeleteKeyedSound
  <2>5. draft' \in Draft \cup {NoDraft}
    BY <2>1 DEF UiContactDelete, IInv
  <2> QED BY <1>1, <2>1, <2>4, <2>5 DEF UiContactDelete
<1> QED BY <1>3, <1>4, <1>5, <1>6, <1>7, <1>8, <1>9 DEF Operator, OnForm

\* The screens.
LEMMA OperatorInv ==
  ASSUME IInv, Operator
  PROVE  IInv'
BY OperatorEdits, QuietlyInv, ApplyInv

\* Every step keeps the invariant.
LEMMA StepInv == IInv /\ [Next]_vars => IInv'
<1> SUFFICES ASSUME IInv, [Next]_vars PROVE IInv'
  OBVIOUS
<1>1. CASE UNCHANGED vars
  BY <1>1 DEF vars, stack, IInv
<1> QED BY <1>1, StackInv, ChannelInv, OperatorInv DEF Next, Loop

-----------------------------------------------------------------------------
\* Whatever is edited on whichever text, and however edits, answers, refusals and lost
\* links follow each other, every text is sound and there is one wherever something is
\* shown to edit.
THEOREM TextsStaySound == Spec => []IInv
BY InitInv, StepInv, PTL DEF Spec

\* Text, drafts, queues and the stack's documents have their types.
THEOREM ProgTypeCorrect == Spec => []ProgTypeOK
BY TextsStaySound, InvType, PTL

\* No two folders, talkgroups, scan lists, gateways or contacts of a document ever have
\* the same identity, provided the stack's own configuration starts that way.
THEOREM KeysStayUniqueHolds == Spec => []KeysStayUnique
BY TextsStaySound, InvUnique, PTL

-----------------------------------------------------------------------------
(* Commands and answers under way: what they will leave the loop with.      *)

\* The live connection is the latest, and no event is of a connection to come.
Numbered ==
  /\ live \in {0, conns} /\ control_out <= conns
  /\ \A i \in DOMAIN events : events[i].name = "connected" => events[i].conn <= conns

\* On the live connection the last thing asked is for the text; when nothing is asked any
\* more, the last answer is what the stack has, and so is the text once that is taken.
AnswerToCome ==
  alive /\ Reaches =>
    IF wire # <<>> THEN wire[Len(wire)] = Get
    ELSE IF events # <<>> THEN events[Len(events)] = [name |-> "config", doc |-> config]
    ELSE toml = config

\* What is staged is applied next, and nothing is applied that was not staged.
StagedApplied ==
  \A i \in DOMAIN wire :
    /\ wire[i].name = "set" => i + 1 \in DOMAIN wire /\ wire[i + 1] = Apply
    /\ wire[i].name = "apply" => i - 1 \in DOMAIN wire /\ wire[i - 1].name = "set"

Sets == {i \in DOMAIN wire : wire[i].name = "set"}

\* The last text saved is the last that is staged, or else the stack's.
SettledToCome ==
  settled # NoDoc =>
    IF Sets = {} THEN config = settled
    ELSE \E i \in Sets : wire[i].doc = settled /\ \A j \in Sets : j <= i

WireInv == Numbered /\ AnswerToCome /\ StagedApplied /\ SettledToCome

LEMMA SeqFacts ==
  ASSUME NEW S, NEW q \in Seq(S)
  PROVE  Len(q) \in Nat /\ DOMAIN q = 1 .. Len(q) /\ (q = <<>> <=> Len(q) = 0)
BY LenProperties, EmptySeq

LEMMA TailFacts ==
  ASSUME NEW S, NEW q \in Seq(S), q # <<>>
  PROVE  LET r == Tail(q) IN
         /\ Len(q) \in Nat \ {0} /\ DOMAIN q = 1 .. Len(q) /\ Head(q) = q[1] /\ q[1] \in S
         /\ Len(r) = Len(q) - 1 /\ DOMAIN r = 1 .. Len(q) - 1
         /\ \A i \in 1 .. Len(q) - 1 : r[i] = q[i + 1]
         /\ (r = <<>> <=> Len(q) = 1)
<1> DEFINE r == Tail(q)
<1>1. /\ r \in Seq(S) /\ Len(r) = Len(q) - 1 /\ Head(q) = q[1] /\ Head(q) \in S
      /\ \A i \in 1 .. Len(r) : r[i] = q[i + 1]
  BY HeadTailProperties
<1>2. Len(q) \in Nat /\ DOMAIN q = 1 .. Len(q) /\ Len(q) # 0
  BY SeqFacts
<1> HIDE DEF r
<1>3. DOMAIN r = 1 .. Len(r) /\ (r = <<>> <=> Len(r) = 0)
  BY <1>1, SeqFacts
<1>4. /\ Len(q) \in Nat \ {0} /\ DOMAIN q = 1 .. Len(q) /\ Head(q) = q[1] /\ q[1] \in S
      /\ Len(r) = Len(q) - 1 /\ DOMAIN r = 1 .. Len(q) - 1
      /\ \A i \in 1 .. Len(q) - 1 : r[i] = q[i + 1]
      /\ (r = <<>> <=> Len(q) = 1)
  BY <1>1, <1>2, <1>3
<1> QED BY <1>4 DEF r

LEMMA AppendFacts ==
  ASSUME NEW S, NEW q \in Seq(S), NEW e, NEW r, r = Append(q, e)
  PROVE  /\ Len(q) \in Nat /\ DOMAIN q = 1 .. Len(q)
         /\ Len(r) = Len(q) + 1 /\ DOMAIN r = 1 .. Len(q) + 1 /\ r # <<>>
         /\ \A i \in 1 .. Len(q) : r[i] = q[i]
         /\ r[Len(q) + 1] = e
<1>1. q \in Seq(S \cup {e}) /\ r \in Seq(S \cup {e})
  OBVIOUS
<1>2. /\ Len(r) = Len(q) + 1 /\ r[Len(q) + 1] = e
      /\ \A i \in 1 .. Len(q) : r[i] = q[i]
  BY <1>1, AppendProperties
<1> QED BY <1>1, <1>2, SeqFacts

\* The same said of a position.
LEMMA StagedAt ==
  ASSUME IInv, StagedApplied, NEW i \in Int, NEW j \in Int, j = i + 1
  PROVE  /\ i \in DOMAIN wire /\ wire[i].name = "set" => j \in DOMAIN wire /\ wire[j] = Apply
         /\ j \in DOMAIN wire /\ wire[j].name = "apply" => i \in DOMAIN wire /\ wire[i].name = "set"
<1>1. j - 1 = i
  OBVIOUS
<1> QED BY <1>1 DEF StagedApplied

\* The first that is staged is a pair, and nothing is applied first.
LEMMA StagedFirst ==
  ASSUME IInv, StagedApplied, wire # <<>>
  PROVE  /\ wire[1].name # "apply"
         /\ wire[1].name = "set" => Len(wire) > 1 /\ wire[2] = Apply
<1>1. Len(wire) \in Nat \ {0} /\ DOMAIN wire = 1 .. Len(wire)
  BY SeqFacts DEF IInv
<1>2. 1 \in DOMAIN wire /\ 0 \notin DOMAIN wire
  BY <1>1
<1>3. wire[1].name # "apply"
  <2>1. 1 = 0 + 1 /\ 0 \in Int /\ 1 \in Int
    OBVIOUS
  <2> QED BY <1>2, <2>1, StagedAt
<1>4. wire[1].name = "set" => 2 \in DOMAIN wire /\ wire[2] = Apply
  <2>1. 2 = 1 + 1 /\ 2 \in Int /\ 1 \in Int
    OBVIOUS
  <2> QED BY <1>2, <2>1, StagedAt
<1> QED BY <1>1, <1>3, <1>4

\* A prefix is taken off the wire, a pair never split.
LEMMA StagedTaken ==
  ASSUME IInv, StagedApplied, NEW k \in {1, 2}, DOMAIN wire = 1 .. Len(wire), Len(wire) \in Nat,
         DOMAIN wire' = 1 .. Len(wire) - k,
         \A i \in 1 .. Len(wire) - k : wire'[i] = wire[i + k],
         k \in DOMAIN wire, wire[k].name # "set"
  PROVE  StagedApplied'
<1> SUFFICES ASSUME NEW i \in DOMAIN wire'
             PROVE  /\ wire'[i].name = "set" => i + 1 \in DOMAIN wire' /\ wire'[i + 1] = Apply
                    /\ wire'[i].name = "apply" => i - 1 \in DOMAIN wire' /\ wire'[i - 1].name = "set"
  BY DEF StagedApplied, Apply
<1>1. i \in Int /\ i + k \in Int /\ i + k \in DOMAIN wire /\ wire'[i] = wire[i + k]
  OBVIOUS
<1>2. /\ wire[i + k].name = "set" => (i + k) + 1 \in DOMAIN wire /\ wire[(i + k) + 1] = Apply
      /\ wire[i + k].name = "apply" => (i + k) - 1 \in DOMAIN wire /\ wire[(i + k) - 1].name = "set"
  <2>1. (i + k) + 1 \in Int /\ (i + k) - 1 \in Int /\ i + k = ((i + k) - 1) + 1
    BY <1>1
  <2> QED BY <1>1, <2>1, StagedAt
<1>3. ASSUME wire'[i].name = "set" PROVE i + 1 \in DOMAIN wire' /\ wire'[i + 1] = Apply
  <2>1. (i + k) + 1 \in DOMAIN wire /\ wire[(i + k) + 1] = Apply
    BY <1>1, <1>2, <1>3
  <2>2. i + 1 \in 1 .. Len(wire) - k /\ (i + 1) + k = (i + k) + 1
    BY <1>1, <2>1
  <2> QED BY <2>1, <2>2
<1>4. ASSUME wire'[i].name = "apply" PROVE i - 1 \in DOMAIN wire' /\ wire'[i - 1].name = "set"
  <2>1. (i + k) - 1 \in DOMAIN wire /\ wire[(i + k) - 1].name = "set"
    BY <1>1, <1>2, <1>4
  <2>2. i # 1
    <3>1. i = 1 => (i + k) - 1 = k
      OBVIOUS
    <3> QED BY <2>1, <3>1
  <2>3. i - 1 \in 1 .. Len(wire) - k /\ (i - 1) + k = (i + k) - 1
    BY <1>1, <2>2
  <2> QED BY <2>1, <2>3
<1> QED BY <1>3, <1>4

LEMMA WireInvInit == Init => WireInv
<1> SUFFICES ASSUME Init PROVE WireInv
  OBVIOUS
<1>1. DOMAIN events = {} /\ DOMAIN wire = {} /\ ~Reaches
  BY DEF Init, Reaches
<1> QED BY <1>1 DEF Init, WireInv, Numbered, AnswerToCome, StagedApplied, SettledToCome

\* Commands put behind a wire.
LEMMA WireGrown ==
  ASSUME IInv, NEW cmds \in Seq(SoundCommand), wire' = wire \o cmds
  PROVE  /\ DOMAIN wire = 1 .. Len(wire) /\ Len(wire) \in Nat
         /\ DOMAIN wire' = 1 .. Len(wire) + Len(cmds) /\ Len(wire') = Len(wire) + Len(cmds)
         /\ \A i \in 1 .. Len(wire) : wire'[i] = wire[i]
         /\ \A i \in 1 .. Len(cmds) : wire'[Len(wire) + i] = cmds[i]
         /\ Len(cmds) \in Nat
<1>1. /\ wire' \in Seq(SoundCommand) /\ wire \in Seq(SoundCommand)
      /\ Len(wire') = Len(wire) + Len(cmds) /\ Len(cmds) \in Nat
      /\ \A i \in 1 .. Len(wire) + Len(cmds) :
           wire'[i] = IF i <= Len(wire) THEN wire[i] ELSE cmds[i - Len(wire)]
  BY ConcatProperties, LenProperties DEF IInv
<1>2. DOMAIN wire' = 1 .. Len(wire) + Len(cmds) /\ DOMAIN wire = 1 .. Len(wire) /\ Len(wire) \in Nat
  BY <1>1, SeqFacts
<1> QED BY <1>1, <1>2

\* A question behind the commands changes nothing that is staged.
LEMMA AskedBehind ==
  ASSUME IInv, StagedApplied, SettledToCome, wire' = wire \o <<Get>>, UNCHANGED <<config, settled>>
  PROVE  StagedApplied' /\ SettledToCome' /\ wire' # <<>> /\ wire'[Len(wire')] = Get
<1>1. <<Get>> \in Seq(SoundCommand) /\ Len(<<Get>>) = 1 /\ <<Get>>[1] = Get
  BY DEF Get, SoundCommand
<1>2. /\ DOMAIN wire = 1 .. Len(wire) /\ Len(wire) \in Nat
      /\ DOMAIN wire' = 1 .. Len(wire) + 1 /\ Len(wire') = Len(wire) + 1
      /\ \A i \in 1 .. Len(wire) : wire'[i] = wire[i]
      /\ wire'[Len(wire) + 1] = Get
  <2> HIDE DEF Get
  <2> QED BY <1>1, WireGrown
<1>3. Get.name = "get"
  BY DEF Get
<1>4. Sets' = Sets
  <2> HIDE DEF Get
  <2> QED BY <1>2, <1>3 DEF Sets
<1>5. StagedApplied'
  <2> HIDE DEF Get
  <2> QED BY <1>2, <1>3 DEF StagedApplied
<1>6. SettledToCome'
  BY <1>2, <1>4 DEF SettledToCome, Sets
<1>7. wire' # <<>>
  BY <1>2
<1> QED BY <1>2, <1>5, <1>6, <1>7

\* apply_codeplug: the new text is staged, applied and asked for behind everything else.
LEMMA WireApply ==
  ASSUME IInv, WireInv, NEW doc \in SoundDoc, ApplyCodeplug(doc)
  PROVE  WireInv'
<1>1. UNCHANGED <<control_out, events, live, conns, config>>
  BY DEF ApplyCodeplug, stack
<1>2. Numbered'
  BY <1>1 DEF WireInv, Numbered
<1>3. CASE ~Reaches
  <2>1. wire' = wire /\ settled' = NoDoc /\ ~Reaches'
    BY <1>1, <1>3 DEF ApplyCodeplug, Send, Reaches
  <2> QED BY <1>2, <2>1 DEF WireInv, AnswerToCome, StagedApplied, SettledToCome
<1>4. CASE Reaches
  <2> DEFINE tail == IF alive' THEN <<Get>> ELSE <<>>
             set  == [name |-> "set", doc |-> doc]
             cmds == <<set, Apply>> \o tail
  <2>1. Get \in SoundCommand /\ Apply \in SoundCommand /\ set \in SoundCommand
    BY DEF Get, Apply, SoundCommand
  <2>2. set.name = "set" /\ set.doc = doc /\ Apply.name = "apply" /\ Get.name = "get"
    BY DEF Apply, Get
  <2>3. wire' = wire \o cmds /\ settled' = doc
    BY <1>4 DEF ApplyCodeplug, Send
  <2> HIDE DEF set
  <2>4. tail \in Seq(SoundCommand) /\ <<set, Apply>> \in Seq(SoundCommand)
    BY <2>1
  <2>5. /\ cmds \in Seq(SoundCommand) /\ cmds[1] = set /\ cmds[2] = Apply
        /\ Len(cmds) = 2 + Len(tail)
    <3> HIDE DEF tail
    <3> QED BY <2>1, <2>4
  <2>6. CASE alive'
    <3>1. Len(cmds) = 3 /\ cmds[3] = Get
      BY <2>1, <2>4, <2>5, <2>6
    <3> HIDE DEF cmds
    <3>0. /\ DOMAIN wire = 1 .. Len(wire) /\ Len(wire) \in Nat
          /\ DOMAIN wire' = 1 .. Len(wire) + Len(cmds) /\ Len(wire') = Len(wire) + Len(cmds)
          /\ \A i \in 1 .. Len(wire) : wire'[i] = wire[i]
          /\ \A i \in 1 .. Len(cmds) : wire'[Len(wire) + i] = cmds[i]
      BY <2>3, <2>5, WireGrown, Zenon
    <3>2. /\ DOMAIN wire = 1 .. Len(wire) /\ Len(wire) \in Nat
          /\ DOMAIN wire' = 1 .. Len(wire) + 3 /\ Len(wire') = Len(wire) + 3
          /\ \A i \in 1 .. Len(wire) : wire'[i] = wire[i]
          /\ wire'[Len(wire) + 1] = set /\ wire'[Len(wire) + 2] = Apply /\ wire'[Len(wire) + 3] = Get
      <4>1. 1 \in 1 .. 3 /\ 2 \in 1 .. 3 /\ 3 \in 1 .. 3
        OBVIOUS
      <4> QED BY <2>5, <3>0, <3>1, <4>1
    <3>3. StagedApplied'
      BY <2>2, <3>2 DEF WireInv, StagedApplied
    <3>4. SettledToCome'
      BY <2>2, <2>3, <3>2 DEF SettledToCome, Sets
    <3>5. AnswerToCome'
      BY <3>2 DEF AnswerToCome
    <3> QED BY <1>2, <3>3, <3>4, <3>5 DEF WireInv
  <2>7. CASE ~alive'
    <3>1. Len(cmds) = 2
      BY <2>5, <2>7
    <3> HIDE DEF cmds
    <3>0. /\ DOMAIN wire = 1 .. Len(wire) /\ Len(wire) \in Nat
          /\ DOMAIN wire' = 1 .. Len(wire) + Len(cmds) /\ Len(wire') = Len(wire) + Len(cmds)
          /\ \A i \in 1 .. Len(wire) : wire'[i] = wire[i]
          /\ \A i \in 1 .. Len(cmds) : wire'[Len(wire) + i] = cmds[i]
      BY <2>3, <2>5, WireGrown, Zenon
    <3>2. /\ DOMAIN wire = 1 .. Len(wire) /\ Len(wire) \in Nat
          /\ DOMAIN wire' = 1 .. Len(wire) + 2 /\ Len(wire') = Len(wire) + 2
          /\ \A i \in 1 .. Len(wire) : wire'[i] = wire[i]
          /\ wire'[Len(wire) + 1] = set /\ wire'[Len(wire) + 2] = Apply
      <4>1. 1 \in 1 .. 2 /\ 2 \in 1 .. 2
        OBVIOUS
      <4> QED BY <2>5, <3>0, <3>1, <4>1
    <3>3. StagedApplied'
      BY <2>2, <3>2 DEF WireInv, StagedApplied
    <3>4. SettledToCome'
      BY <2>2, <2>3, <3>2 DEF SettledToCome, Sets
    <3> QED BY <1>2, <2>7, <3>3, <3>4 DEF WireInv, AnswerToCome
  <2> QED BY <2>6, <2>7
<1> QED BY <1>3, <1>4

\* The stack takes commands, the link comes and goes.
LEMMA WireStack ==
  ASSUME IInv, WireInv, Connect \/ Disconnect \/ Serve
  PROVE  WireInv'
<1>0. /\ conns \in Nat /\ live \in Nat /\ control_out \in Nat
      /\ events \in Seq(SoundEvent) /\ wire \in Seq(SoundCommand)
  BY FormAssumption DEF IInv
<1>1. CASE Connect
  <2>1. /\ events' = Append(events, [name |-> "connected", conn |-> conns']) /\ conns' = conns + 1
        /\ live' = conns' /\ UNCHANGED <<control_out, wire, config, settled>>
    BY <1>1 DEF Connect
  <2>2. /\ DOMAIN events = 1 .. Len(events) /\ DOMAIN events' = 1 .. Len(events) + 1
        /\ Len(events) \in Nat /\ \A i \in 1 .. Len(events) : events'[i] = events[i]
        /\ events'[Len(events) + 1] = [name |-> "connected", conn |-> conns']
    BY <1>0, <2>1, AppendFacts
  <2>3. Numbered'
    <3>1. ASSUME NEW i \in DOMAIN events', events'[i].name = "connected"
          PROVE  events'[i].conn <= conns'
      <4>1. CASE i \in DOMAIN events
        <5>1. events[i] \in SoundEvent /\ events'[i] = events[i]
          BY <1>0, <2>2, <4>1
        <5>2. events[i].conn \in Nat /\ events[i].conn <= conns
          BY <3>1, <4>1, <5>1 DEF WireInv, Numbered, SoundEvent
        <5> QED BY <1>0, <2>1, <5>1, <5>2
      <4>2. CASE i \notin DOMAIN events
        <5>1. i = Len(events) + 1
          BY <2>2, <4>2
        <5> QED BY <1>0, <2>1, <2>2, <5>1
      <4> QED BY <4>1, <4>2
    <3> QED BY <1>0, <2>1, <3>1 DEF WireInv, Numbered
  <2>4. ~Reaches'
    BY <1>0, <2>1 DEF Reaches, WireInv, Numbered
  <2> QED BY <2>1, <2>3, <2>4 DEF WireInv, AnswerToCome, StagedApplied, SettledToCome, Sets
<1>2. CASE Disconnect
  <2>1. /\ events' = Append(events, [name |-> "disconnected"]) /\ live' = 0 /\ wire' = <<>>
        /\ settled' = NoDoc /\ UNCHANGED <<control_out, conns>>
    BY <1>2 DEF Disconnect
  <2>2. Numbered'
    BY <1>0, <2>1 DEF WireInv, Numbered
  <2>3. ~Reaches' /\ DOMAIN wire' = {}
    BY <2>1 DEF Reaches
  <2> QED BY <2>1, <2>2, <2>3 DEF WireInv, AnswerToCome, StagedApplied, SettledToCome
<1>3. CASE Serve
  <2>1. UNCHANGED <<toml, alive, control_out, live, conns>> /\ wire # <<>>
    BY <1>3 DEF Serve
  <2>2. /\ Len(wire) \in Nat \ {0} /\ DOMAIN wire = 1 .. Len(wire) /\ Head(wire) = wire[1]
        /\ Len(Tail(wire)) = Len(wire) - 1 /\ DOMAIN Tail(wire) = 1 .. Len(wire) - 1
        /\ \A i \in 1 .. Len(wire) - 1 : Tail(wire)[i] = wire[i + 1]
        /\ (Tail(wire) = <<>> <=> Len(wire) = 1)
    BY <1>0, <2>1, TailFacts
  <2>3. /\ wire[1].name # "apply" /\ wire[1] \in SoundCommand
        /\ wire[1].name = "set" => Len(wire) > 1 /\ wire[2] = Apply
    BY <1>0, <2>1, <2>2, StagedFirst DEF WireInv
  <2>4. CASE TakeGet
    <3>1. /\ wire' = Tail(wire) /\ events' = Append(events, [name |-> "config", doc |-> config])
          /\ wire[1].name = "get" /\ UNCHANGED <<config, settled>>
      BY <2>2, <2>4 DEF TakeGet
    <3>2. Numbered'
      BY <1>0, <2>1, <3>1 DEF WireInv, Numbered
    <3>3. events' # <<>> /\ events'[Len(events')] = [name |-> "config", doc |-> config']
      BY <1>0, <3>1
    <3>4. AnswerToCome'
      <4>1. Reaches' = Reaches
        BY <2>1 DEF Reaches
      <4> QED BY <2>1, <2>2, <3>1, <3>3, <4>1 DEF WireInv, AnswerToCome
    <3>5. StagedApplied'
      <4>1. 1 \in DOMAIN wire
        BY <2>2
      <4> QED BY <2>2, <3>1, <4>1, StagedTaken DEF WireInv
    <3>6. SettledToCome'
      <4>1. \A i \in Sets : i - 1 \in Sets' /\ wire'[i - 1] = wire[i]
        BY <2>2, <3>1 DEF Sets
      <4>2. \A i \in Sets' : i + 1 \in Sets /\ wire[i + 1] = wire'[i]
        BY <2>2, <3>1 DEF Sets
      <4>3. Sets \subseteq Int /\ Sets' \subseteq Int
        BY <2>2, <3>1 DEF Sets
      <4>4. SettledToCome
        BY DEF WireInv
      <4>5. CASE Sets = {}
        BY <3>1, <4>2, <4>4, <4>5 DEF SettledToCome
      <4>6. CASE Sets # {} /\ settled # NoDoc
        <5>1. PICK i \in Sets : wire[i].doc = settled /\ \A j \in Sets : j <= i
          BY <4>4, <4>6 DEF SettledToCome
        <5>2. i - 1 \in Sets' /\ wire'[i - 1].doc = settled'
          BY <3>1, <4>1, <5>1
        <5>3. \A j \in Sets' : j <= i - 1
          BY <4>2, <4>3, <5>1
        <5> QED BY <5>2, <5>3 DEF SettledToCome
      <4> QED BY <3>1, <4>5, <4>6 DEF SettledToCome
    <3> QED BY <3>2, <3>4, <3>5, <3>6 DEF WireInv
  <2>5. CASE TakeEdit
    <3>1. wire[1].name = "set" /\ UNCHANGED events
      BY <2>2, <2>3, <2>5 DEF TakeEdit, SoundCommand
    <3>2. Len(wire) > 1 /\ wire[2].name = "apply"
      BY <2>3, <3>1 DEF Apply
    <3>3. /\ wire' = SubSeq(wire, 3, Len(wire))
          /\ \/ config' = wire[1].doc /\ UNCHANGED settled
             \/ UNCHANGED config /\ settled' = NoDoc
      BY <2>5, <3>1, <3>2 DEF TakeEdit
    <3>4. /\ Len(wire') = Len(wire) - 2 /\ DOMAIN wire' = 1 .. Len(wire) - 2
          /\ \A i \in 1 .. Len(wire) - 2 : wire'[i] = wire[i + 2]
          /\ (wire' = <<>> <=> Len(wire) = 2)
      <4>1. wire' \in Seq(SoundCommand) /\ 3 \in Int /\ Len(wire) \in Int /\ 3 <= Len(wire) + 1
        BY <1>0, <2>2, <3>2, <3>3
      <4>2. /\ Len(wire') = Len(wire) - 2
            /\ \A i \in 1 .. Len(wire) - 2 : wire'[i] = wire[i + 2]
        BY <1>0, <2>2, <3>2, <3>3
      <4> QED BY <2>2, <3>2, <4>1, <4>2, SeqFacts
    <3>5. Numbered'
      BY <2>1, <3>1 DEF WireInv, Numbered
    <3>6. AnswerToCome'
      <4>1. Reaches' = Reaches
        BY <2>1 DEF Reaches
      <4>2. wire[Len(wire)] = Get => wire' # <<>> /\ wire'[Len(wire')] = Get
        BY <2>2, <3>2, <3>4 DEF Get
      <4> QED BY <2>1, <4>1, <4>2 DEF WireInv, AnswerToCome
    <3>7. StagedApplied'
      <4>1. 2 \in DOMAIN wire /\ wire[2].name # "set"
        BY <2>2, <3>2
      <4> QED BY <2>2, <3>4, <4>1, StagedTaken DEF WireInv
    <3>8. SettledToCome'
      <4>1. \A i \in Sets \ {1} : i - 2 \in Sets' /\ wire'[i - 2] = wire[i]
        BY <2>2, <3>2, <3>4 DEF Sets
      <4>2. \A i \in Sets' : i + 2 \in Sets /\ wire[i + 2] = wire'[i]
        BY <2>2, <3>4 DEF Sets
      <4>3. Sets \subseteq Int /\ Sets' \subseteq Int /\ 1 \in Sets
        BY <2>2, <3>1, <3>4 DEF Sets
      <4>4. SettledToCome
        BY DEF WireInv
      <4>5. CASE settled' # NoDoc
        <5>1. config' = wire[1].doc /\ settled' = settled
          BY <3>3, <4>5
        <5>2. PICK i \in Sets : wire[i].doc = settled /\ \A j \in Sets : j <= i
          BY <4>3, <4>4, <4>5, <5>1 DEF SettledToCome
        <5>3. CASE i = 1
          <6>1. Sets' = {}
            <7> SUFFICES ASSUME NEW j \in Sets' PROVE FALSE
              OBVIOUS
            <7>1. j + 2 <= 1 /\ j \in Int
              BY <4>2, <4>3, <5>2, <5>3
            <7>2. j >= 1
              BY <2>2, <3>2, <3>4 DEF Sets
            <7> QED BY <7>1, <7>2
          <6> QED BY <5>1, <5>2, <5>3, <6>1 DEF SettledToCome
        <5>4. CASE i # 1
          <6>1. i - 2 \in Sets' /\ wire'[i - 2].doc = settled'
            BY <4>1, <5>1, <5>2, <5>4
          <6>2. \A j \in Sets' : j <= i - 2
            BY <4>2, <4>3, <5>2
          <6> QED BY <6>1, <6>2 DEF SettledToCome
        <5> QED BY <5>3, <5>4
      <4> QED BY <4>5 DEF SettledToCome
    <3> QED BY <3>5, <3>6, <3>7, <3>8 DEF WireInv
  <2> QED BY <1>3, <2>4, <2>5 DEF Serve
<1> QED BY <1>1, <1>2, <1>3

\* The loop takes the events of the link and asks for the text.
LEMMA WireChannel ==
  ASSUME IInv, WireInv, alive, HandleEvent \/ PollTick \/ UiRefresh
  PROVE  WireInv'
<1>0. conns \in Nat /\ events \in Seq(SoundEvent) /\ wire \in Seq(SoundCommand)
  BY FormAssumption DEF IInv
<1>1. CASE PollTick \/ UiRefresh
  <2>1. /\ UNCHANGED <<toml, alive, control_out, events, live, conns, config, settled>>
        /\ wire' = IF Reaches THEN wire \o <<Get>> ELSE wire
    BY <1>1 DEF PollTick, UiRefresh, Send, stack
  <2>2. Numbered' /\ Reaches' = Reaches
    BY <2>1 DEF WireInv, Numbered, Reaches
  <2>3. CASE Reaches
    BY <2>1, <2>2, <2>3, AskedBehind DEF WireInv, AnswerToCome
  <2>4. CASE ~Reaches
    BY <2>1, <2>2, <2>4 DEF WireInv, AnswerToCome, StagedApplied, SettledToCome, Sets
  <2> QED BY <2>3, <2>4
<1>2. CASE HandleEvent
  <2>1. /\ events # <<>> /\ events' = Tail(events)
        /\ UNCHANGED <<live, conns, config, settled>>
    BY <1>2 DEF HandleEvent, HandleConnected, HandleDisconnected, HandleConfig, stack
  <2>2. /\ Len(events) \in Nat \ {0} /\ DOMAIN events = 1 .. Len(events)
        /\ Head(events) = events[1] /\ DOMAIN events' = 1 .. Len(events) - 1
        /\ Len(events') = Len(events) - 1
        /\ \A i \in 1 .. Len(events) - 1 : events'[i] = events[i + 1]
        /\ (events' = <<>> <=> Len(events) = 1)
    BY <1>0, <2>1, TailFacts, Zenon
  <2>3. /\ live' \in {0, conns'}
        /\ \A i \in DOMAIN events' : events'[i].name = "connected" => events'[i].conn <= conns'
    BY <2>1, <2>2 DEF WireInv, Numbered
  <2>4. CASE HandleConnected
    <3>1. /\ control_out' = events[1].conn /\ events[1].name = "connected"
          /\ wire' = IF control_out' = live THEN Append(wire, Get) ELSE wire
      BY <2>2, <2>4 DEF HandleConnected
    <3>2. Numbered'
      BY <2>1, <2>2, <2>3, <3>1 DEF WireInv, Numbered
    <3>3. CASE control_out' = live
      <4>1. wire' = wire \o <<Get>>
        BY <1>0, <3>1, <3>3
      <4> QED BY <2>1, <3>2, <4>1, AskedBehind DEF WireInv, AnswerToCome
    <3>4. CASE control_out' # live
      <4>1. ~Reaches'
        BY <2>1, <3>4 DEF Reaches
      <4> QED BY <2>1, <3>1, <3>2, <3>4, <4>1
              DEF WireInv, AnswerToCome, StagedApplied, SettledToCome, Sets
    <3> QED BY <3>3, <3>4
  <2>5. CASE HandleDisconnected
    <3>1. control_out' = 0 /\ UNCHANGED wire
      BY <2>5 DEF HandleDisconnected
    <3>2. Numbered' /\ ~Reaches'
      BY <1>0, <2>1, <2>3, <3>1 DEF Numbered, Reaches
    <3> QED BY <2>1, <3>1, <3>2 DEF WireInv, AnswerToCome, StagedApplied, SettledToCome, Sets
  <2>6. CASE HandleConfig
    <3>1. events[1].name = "config" /\ toml' = events[1].doc /\ UNCHANGED <<control_out, wire>>
      BY <2>2, <2>6 DEF HandleConfig
    <3>2. Numbered' /\ Reaches' = Reaches
      BY <2>1, <2>3, <3>1 DEF WireInv, Numbered, Reaches
    <3>3. AnswerToCome'
      <4>1. CASE Reaches /\ wire = <<>>
        <5>1. events[Len(events)] = [name |-> "config", doc |-> config]
          BY <2>1, <4>1 DEF WireInv, AnswerToCome
        <5>2. events' # <<>> => events'[Len(events')] = events[Len(events)]
          BY <2>2
        <5>3. events' = <<>> => toml' = config
          BY <2>2, <3>1, <5>1
        <5> QED BY <2>1, <3>1, <4>1, <5>1, <5>2, <5>3 DEF AnswerToCome
      <4>2. CASE ~(Reaches /\ wire = <<>>)
        BY <2>1, <3>1, <3>2, <4>2 DEF WireInv, AnswerToCome
      <4> QED BY <4>1, <4>2
    <3> QED BY <2>1, <3>1, <3>2, <3>3 DEF WireInv, StagedApplied, SettledToCome, Sets
  <2> QED BY <1>2, <2>4, <2>5, <2>6 DEF HandleEvent
<1> QED BY <1>1, <1>2

LEMMA WireInvStep == IInv /\ WireInv /\ [Next]_vars => WireInv'
<1> SUFFICES ASSUME IInv, WireInv, [Next]_vars PROVE WireInv'
  OBVIOUS
<1>1. ASSUME UNCHANGED <<toml, alive, control_out, events, wire, live, conns, config, settled>>
      PROVE  WireInv'
  BY <1>1 DEF WireInv, Numbered, AnswerToCome, Reaches, StagedApplied, SettledToCome, Sets
<1>2. CASE UNCHANGED vars
  BY <1>1, <1>2 DEF vars, stack
<1>3. CASE Operator
  BY <1>1, <1>3, OperatorEdits, WireApply DEF Quietly, stack
<1> QED BY <1>2, <1>3, WireStack, WireChannel DEF Next, Loop

\* However edits, refreshes, refusals and lost links are interleaved, what is under way on
\* the link the loop uses ends with an answer that is what the stack will have then.
THEOREM WireInvariance == Spec => [](IInv /\ WireInv)
BY InitInv, StepInv, WireInvInit, WireInvStep, PTL DEF Spec

\* Once nothing is under way the program shows and edits what the stack has.
THEOREM InStepWhenQuietHolds == Spec => []InStepWhenQuiet
<1>1. WireInv => InStepWhenQuiet
  BY DEF WireInv, AnswerToCome, InStepWhenQuiet, Quiet, Reaches
<1> QED BY <1>1, WireInvariance, PTL

\* A saved text that reached the stack and was not refused is the stack's once nothing is
\* under way.
THEOREM LastSaveStandsHolds == Spec => []LastSaveStands
<1>1. WireInv => LastSaveStands
  BY DEF WireInv, SettledToCome, Sets, LastSaveStands, Quiet
<1> QED BY <1>1, WireInvariance, PTL

-----------------------------------------------------------------------------
(* Forms and the entries they change.                                       *)

\* Rows are kept if each is found further on in the new text, and every row there that
\* has one of their identities is one of them.
LEMMA KeptAlong ==
  ASSUME NEW old \in Section, NEW new \in Section, NEW k,
         NEW f \in [{i \in DOMAIN old : old[i].key # k} -> DOMAIN new],
         \A i \in DOMAIN f : new[f[i]] = old[i],
         \A i, j \in DOMAIN f : i < j => f[i] < f[j],
         \A m \in DOMAIN new : new[m].key # k /\ new[m].key \in KeysOf(old) => \E i \in DOMAIN f : f[i] = m
  PROVE  OthersKept(old, new, k)
<1> DEFINE kept == {i \in DOMAIN old : old[i].key # k}
           same == {m \in DOMAIN new : new[m].key # k /\ new[m].key \in KeysOf(old)}
<1>1. /\ UniqueKeys(new) /\ DOMAIN old \subseteq Int /\ DOMAIN new \subseteq Int /\ DOMAIN f = kept
  BY LenProperties DEF Section
<1>2. \A i \in kept : f[i] \in same
  BY <1>1 DEF KeysOf
<1>3. {old[i] : i \in kept} = {new[m] : m \in same}
  BY <1>1, <1>2
<1>4. ASSUME NEW i \in kept, NEW j \in kept, NEW m \in same, NEW n \in same,
             old[i] = new[m], old[j] = new[n]
      PROVE  i < j <=> m < n
  <2>1. f[i] = m /\ f[j] = n
    BY <1>1, <1>2, <1>4 DEF UniqueKeys
  <2>2. i \in Int /\ j \in Int /\ m \in Int /\ n \in Int
    BY <1>1
  <2>3. (i < j => m < n) /\ (j < i => n < m) /\ (i = j => m = n)
    BY <1>1, <2>1
  <2> QED BY <2>2, <2>3
<1> QED BY <1>3, <1>4 DEF OthersKept

\* Adding or editing a row leaves the others.
LEMMA UpsertKeeps ==
  ASSUME NEW arr \in Section, NEW e \in Entry, NEW key \in Nat, CanUpsert(arr, e, key)
  PROVE  OthersKept(arr, Upsert(arr, e, key), key)
<1> DEFINE new == Upsert(arr, e, key)
           f   == [i \in {i \in DOMAIN arr : arr[i].key # key} |-> i]
<1>1. new \in Section
  BY UpsertSection
<1>2. /\ arr \in Seq(Entry) /\ Len(arr) \in Nat /\ DOMAIN arr = 1..Len(arr)
      /\ \A i \in DOMAIN arr : arr[i] \in Entry
  BY LenProperties, ElementOfSeq DEF Section
<1>3. /\ DOMAIN arr \subseteq DOMAIN new
      /\ \A i \in DOMAIN arr : arr[i].key # key => new[i] = arr[i]
      /\ \A m \in DOMAIN new : \/ m \in DOMAIN arr /\ arr[m].key # key
                               \/ new[m].key = e.key
  <2>1. CASE key = NoKey
    <3> DEFINE row == [e EXCEPT !.ord = NextOrder(arr)]
    <3>1. row \in Entry /\ row.key = e.key
      BY <1>2, NextOrderIsLast DEF Entry
    <3>2. new = Append(arr, row)
      BY <2>1 DEF Upsert
    <3> HIDE DEF new, row
    <3>3. /\ new \in Seq(Entry) /\ Len(new) = Len(arr) + 1
          /\ \A i \in 1..Len(arr) : new[i] = arr[i]
          /\ new[Len(arr) + 1] = row
      BY <1>2, <3>1, <3>2, AppendProperties
    <3>4. DOMAIN new = 1..(Len(arr) + 1)
      BY <3>3, LenProperties
    <3>5. \A i \in DOMAIN arr : arr[i].key # key
      BY <1>2, <2>1 DEF Entry, Ids
    <3>6. \A m \in DOMAIN new : m \in DOMAIN arr \/ m = Len(arr) + 1
      BY <1>2, <3>4
    <3>7. DOMAIN arr \subseteq DOMAIN new
      BY <1>2, <3>4
    <3> QED BY <1>2, <3>1, <3>3, <3>5, <3>6, <3>7
  <2>2. CASE key # NoKey
    <3> DEFINE i   == FirstWith(arr, key)
               row == [e EXCEPT !.ord = KeptOrder(arr, i)]
    <3>1. i \in DOMAIN arr /\ arr[i].key = key
      BY <1>2, <2>2, FirstWithFinds DEF CanUpsert
    <3>2. row.key = e.key
      BY DEF Entry
    <3>3. new = [arr EXCEPT ![i] = row]
      BY <2>2 DEF Upsert
    <3> HIDE DEF new, row, i
    <3>4. DOMAIN new = DOMAIN arr /\ \A j \in DOMAIN arr : new[j] = IF j = i THEN row ELSE arr[j]
      BY <1>2, <3>1, <3>3
    <3>5. \A j \in DOMAIN arr : arr[j].key = key => j = i
      BY <3>1 DEF Section, UniqueKeys
    <3> QED BY <3>1, <3>2, <3>4, <3>5
  <2> QED BY <2>1, <2>2
<1>4. e.key \in KeysOf(arr) => e.key = key
  BY DEF CanUpsert
<1> HIDE DEF new
<1>5. /\ f \in [{i \in DOMAIN arr : arr[i].key # key} -> DOMAIN new]
      /\ \A i \in DOMAIN f : new[f[i]] = arr[i]
      /\ \A i, j \in DOMAIN f : i < j => f[i] < f[j]
  BY <1>3
<1>6. \A m \in DOMAIN new : new[m].key # key /\ new[m].key \in KeysOf(arr) => \E i \in DOMAIN f : f[i] = m
  BY <1>3, <1>4
<1> HIDE DEF f
<1>7. OthersKept(arr, new, key)
  BY <1>1, <1>5, <1>6, KeptAlong
<1> QED BY <1>7 DEF new

\* Deleting a row leaves the others.
LEMMA RemoveKeeps ==
  ASSUME NEW arr \in Section, NEW key \in KeysOf(arr)
  PROVE  OthersKept(arr, RemoveAt(arr, FirstWith(arr, key)), key)
<1> DEFINE i0  == FirstWith(arr, key)
           new == RemoveAt(arr, i0)
           f   == [i \in {i \in DOMAIN arr : arr[i].key # key} |-> IF i < i0 THEN i ELSE i - 1]
<1>1. arr \in Seq(Entry) /\ Len(arr) \in Nat /\ DOMAIN arr = 1..Len(arr) /\ UniqueKeys(arr)
  BY LenProperties DEF Section
<1>2. i0 \in DOMAIN arr /\ arr[i0].key = key
  BY <1>1, FirstWithFinds
<1>3. new \in Section
  BY <1>2, RemoveSection
<1>4. /\ DOMAIN new = 1..(Len(arr) - 1)
      /\ \A j \in 1..(Len(arr) - 1) : new[j] = arr[IF j < i0 THEN j ELSE j + 1]
  BY <1>1, <1>2, RemoveRow
<1> HIDE DEF new, i0
<1>5. i0 \in 1..Len(arr) /\ \A i \in DOMAIN arr : arr[i].key # key <=> i # i0
  BY <1>1, <1>2 DEF UniqueKeys
<1>6. DOMAIN f = (1..Len(arr)) \ {i0}
  BY <1>1, <1>5
<1>7. ASSUME NEW i \in DOMAIN f
      PROVE  f[i] \in DOMAIN new /\ new[f[i]] = arr[i]
  <2>1. i \in 1..Len(arr) /\ i # i0 /\ f[i] = IF i < i0 THEN i ELSE i - 1
    BY <1>6
  <2> HIDE DEF f
  <2>2. f[i] \in 1..(Len(arr) - 1) /\ (IF f[i] < i0 THEN f[i] ELSE f[i] + 1) = i
    BY <1>1, <1>5, <2>1
  <2> QED BY <1>4, <2>2
<1>8. \A i, j \in DOMAIN f : i < j => f[i] < f[j]
  BY <1>1, <1>5, <1>6
<1>9. ASSUME NEW m \in DOMAIN new
      PROVE  \E i \in DOMAIN f : f[i] = m
  <2> DEFINE i == IF m < i0 THEN m ELSE m + 1
  <2>1. i \in DOMAIN f
    BY <1>1, <1>4, <1>5, <1>6
  <2>2. f[i] = m
    BY <1>1, <1>4, <1>5, <2>1
  <2> QED BY <2>1, <2>2
<1>10. f \in [{i \in DOMAIN arr : arr[i].key # key} -> DOMAIN new]
  BY <1>7
<1> HIDE DEF f
<1>11. OthersKept(arr, new, key)
  BY <1>3, <1>7, <1>8, <1>9, <1>10, KeptAlong
<1> QED BY <1>11 DEF new, i0

\* The form will be saved under the identity it shows: not so for a network, which is
\* saved under its row.
FormOfEntry == draft # NoDraft /\ draft.section # "network" => draft.key = draft.shown

LEMMA FormOfEntryStep ==
  ASSUME IInv, FormOfEntry, [Next]_vars
  PROVE  FormOfEntry'
<1>1. \A s, e : LET d == EditDraft(s, e) IN d.key = d.shown
  BY DEF EditDraft
<1>2. \A s, r : LET d == NewDraft(s, r) IN d.key = d.shown
  BY DEF NewDraft
<1>3. CASE UNCHANGED draft \/ draft' = NoDraft
  BY <1>3 DEF FormOfEntry
<1>4. CASE OnSettings
  BY <1>1, <1>2, <1>4 DEF OnSettings, OpenSettings, SettingsDraft, FormOfEntry
<1>5. CASE OnLists
  <2>1. PICK s \in Lists : UiProgAdd(s) \/ \E p \in Rows(codeplug, s) : UiProgOpen(s, p)
    BY <1>5 DEF OnLists
  <2>2. \A p : LET d == NetworkDraft(p) IN d.section = "network" \/ d.key = d.shown
    BY <1>1 DEF NetworkDraft, EditDraft
  <2>3. CASE UiProgAdd(s)
    <3>1. PICK r : draft' = NewDraft(s, r)
      BY <2>3 DEF UiProgAdd
    <3> QED BY <1>2, <3>1 DEF FormOfEntry
  <2>4. CASE \E p \in Rows(codeplug, s) : UiProgOpen(s, p)
    BY <1>1, <2>2, <2>4 DEF UiProgOpen, BuildDraft, FormOfEntry
  <2> QED BY <2>1, <2>3, <2>4
<1>6. CASE OnForm
  BY <1>3, <1>6 DEF OnForm, UiFormSave, UiFormCancel, UiFormDelete
<1>7. CASE OnTree \/ OnContact
  BY <1>3, <1>7 DEF OnTree, OnContact, UiTreeMove, UiContactDelete
<1>8. CASE Connect \/ Disconnect \/ Serve \/ HandleEvent \/ PollTick \/ UiRefresh
  BY <1>3, <1>8 DEF Connect, Disconnect, Serve, HandleEvent, HandleConnected, HandleDisconnected,
                    HandleConfig, PollTick, UiRefresh
<1>9. CASE UNCHANGED vars
  BY <1>3, <1>9 DEF vars
<1> QED BY <1>4, <1>5, <1>6, <1>7, <1>8, <1>9 DEF Next, Loop, Operator

\* Saving.
LEMMA SaveTouches ==
  ASSUME IInv, FormOfEntry, UiFormSave
  PROVE  OnlyTouches(draft.section, draft.shown)
<1> DEFINE d == draft
<1>1. /\ d \in Draft /\ d.section \in Sections /\ d.key \in Nat
      /\ d.section # "network" => d.key = d.shown
  BY DEF UiFormSave, IInv, Draft, FormOfEntry
<1>2. PICK f \in Forms(d) : CanSave(d, f) /\ toml' = Saved(d, f)
  BY DEF UiFormSave, ApplyCodeplug
<1>3. toml \in SoundDoc /\ DOMAIN toml = Sections
  BY <1>2 DEF CanSave, IInv, SoundMaybe, SoundDoc, Doc
<1> HIDE DEF d
<1>4. CASE d.section \in Single
  <2>1. toml' = [toml EXCEPT ![d.section] = <<f>>]
    BY <1>1, <1>2, <1>4 DEF Saved, SetSingle, Single
  <2> QED BY <1>1, <1>3, <1>4, <2>1 DEF OnlyTouches, d
<1>5. CASE d.section \in Keyed
  <2>1. d.section \notin Single /\ d.section # "network"
    BY <1>5 DEF Single, Keyed
  <2>2. toml' = [toml EXCEPT ![d.section] = Upsert(toml[d.section], Input(d, f), d.key)]
    BY <1>1, <1>2, <2>1 DEF Saved, UpsertKeyed
  <2>3. Input(d, f) \in Entry /\ CanUpsert(toml[d.section], Input(d, f), d.key)
    BY <1>1, <1>2, <1>5, InputType DEF CanSave
  <2>4. toml[d.section] \in Section
    BY <1>3, <1>5, SoundSection
  <2>5. OthersKept(toml[d.section], toml'[d.section], d.key)
    BY <1>1, <1>3, <2>2, <2>3, <2>4, UpsertKeeps
  <2>6. \A t \in Sections \ {d.section} : toml'[t] = toml[t]
    BY <1>3, <2>2
  <2> QED BY <1>1, <2>1, <2>5, <2>6 DEF OnlyTouches, d
<1>6. CASE d.section = "network"
  <2>1. \A t \in Sections \ {d.section} : toml'[t] = toml[t]
    BY <1>2, <1>3, <1>6 DEF Saved, UpsertNetwork, Single
  <2> QED BY <1>6, <2>1 DEF OnlyTouches, d
<1> QED BY <1>1, <1>4, <1>5, <1>6 DEF Sections, Single, Keyed

\* Deleting.
LEMMA DeleteTouches ==
  ASSUME IInv, FormOfEntry, UiFormDelete
  PROVE  OnlyTouches(draft.section, draft.shown)
<1> DEFINE s   == draft.section
           key == draft.key
<1>0. CASE s = "network"
  <2>1. toml' = DeleteNetwork(toml, draft.index) /\ toml \in SoundDoc /\ DOMAIN toml = Sections
    BY <1>0 DEF UiFormDelete, CanDeleteDraft, ApplyCodeplug, IInv, SoundMaybe, SoundDoc, Doc
  <2>2. \A t \in Sections \ {s} : toml'[t] = toml[t]
    BY <1>0, <2>1 DEF DeleteNetwork
  <2> QED BY <1>0, <2>2 DEF OnlyTouches
<1> SUFFICES ASSUME s # "network"
             PROVE  OnlyTouches(s, draft.shown)
  BY <1>0
<1>1. draft \in Draft /\ s \in Sections /\ s # "network" /\ key = draft.shown /\ CanDeleteDraft(draft)
  BY DEF UiFormDelete, IInv, Draft, FormOfEntry
<1>2. s \in Keyed /\ CanDelete(toml, s, key) /\ toml \in SoundDoc /\ DOMAIN toml = Sections
  BY <1>1 DEF CanDeleteDraft, IInv, SoundMaybe, SoundDoc, Doc, Sections, Single, Keyed
<1>3. toml' = DeleteKeyed(toml, s, key)
  BY <1>1 DEF UiFormDelete, ApplyCodeplug
<1> HIDE DEF s, key
<1>4. toml[s] \in Section /\ key \in KeysOf(toml[s])
  BY <1>2, SoundSection DEF CanDelete
<1> DEFINE less == RemoveAt(toml[s], FirstWith(toml[s], key))
<1>5. OthersKept(toml[s], less, key)
  BY <1>4, RemoveKeeps
<1>6. CASE s = "talkgroup"
  <2>1. "scanlist" \in Sections /\ s \in Sections /\ s # "scanlist"
    BY <1>6 DEF Sections
  <2>2. toml' = [[toml EXCEPT ![s] = less] EXCEPT !["scanlist"] = Pruned(@, key)]
    BY <1>3, <1>6 DEF DeleteKeyed
  <2> HIDE DEF less
  <2>3. /\ toml'[s] = less /\ toml'["scanlist"] = Pruned(toml["scanlist"], key)
        /\ \A t \in Sections \ {s, "scanlist"} : toml'[t] = toml[t]
    BY <1>2, <2>1, <2>2
  <2>4. \A t \in Sections \ {s} : \/ toml'[t] = toml[t]
                                  \/ s = "talkgroup" /\ t = "scanlist" /\ toml'[t] = Pruned(toml[t], key)
    BY <1>6, <2>3
  <2> QED BY <1>1, <1>5, <2>3, <2>4 DEF OnlyTouches, s, key
<1>7. CASE s # "talkgroup"
  <2>1. toml' = [toml EXCEPT ![s] = less]
    BY <1>3, <1>7 DEF DeleteKeyed
  <2> HIDE DEF less
  <2>2. toml'[s] = less /\ \A t \in Sections \ {s} : toml'[t] = toml[t]
    BY <1>1, <1>2, <2>1 DEF s
  <2> QED BY <1>1, <1>5, <2>2 DEF OnlyTouches, s, key
<1> QED BY <1>6, <1>7

\* Saving or deleting a form changes the entry that was on the screen and no other, on
\* whatever text has come in meanwhile; the form of a network leaves everything but the
\* networks as it was.
THEOREM FormEditsItsEntryHolds == Spec => FormEditsItsEntry
<1>1. Init => FormOfEntry
  BY DEF Init, FormOfEntry
<1>2. IInv /\ FormOfEntry /\ [Next]_vars => FormOfEntry'
  BY FormOfEntryStep
<1>3. IInv /\ FormOfEntry /\ [Next]_vars
        => [UiFormSave \/ UiFormDelete => OnlyTouches(draft.section, draft.shown)]_vars
  BY SaveTouches, DeleteTouches
<1> QED BY <1>1, <1>2, <1>3, InitInv, StepInv, PTL DEF Spec, FormEditsItsEntry

-----------------------------------------------------------------------------
(* Moving a talkgroup.                                                      *)

\* A list is known by its order.
LEMMA ListedIs ==
  ASSUME NEW s, NEW arr \in Seq(Entry), NEW rows \in SUBSET (DOMAIN arr), NEW n \in Nat,
         NEW g \in Bijection(1..n, rows),
         \A p, q \in 1..n : p < q => Before(s, arr, g[p], g[q])
  PROVE  Listed(s, arr, rows) = g
<1> DEFINE Rank(i) == Cardinality({j \in rows : Before(s, arr, j, i)})
<1>1. /\ g \in [1..n -> rows] /\ \A p, q \in 1..n : g[p] = g[q] => p = q
      /\ \A i \in rows : \E p \in 1..n : g[p] = i
  BY Fun_BijectionProperties
<1>2. /\ \A i \in rows : ~Before(s, arr, i, i)
      /\ \A i, j, k \in rows : Before(s, arr, i, j) /\ Before(s, arr, j, k) => Before(s, arr, i, k)
  BY BeforeIsTotalOrder
<1>3. Cardinality(rows) = n
  <2>1. ExistsBijection(1..n, rows)
    BY DEF ExistsBijection
  <2> QED BY <2>1, FS_CountingElements
<1>4. ASSUME NEW p \in 1..n
      PROVE  Rank(g[p]) = p - 1
  <2> DEFINE S == {j \in rows : Before(s, arr, j, g[p])}
             h == [q \in 1..(p - 1) |-> g[q]]
  <2>1. \A q \in 1..n : Before(s, arr, g[q], g[p]) <=> q < p
    <3> TAKE q \in 1..n
    <3>1. g[q] \in rows /\ g[p] \in rows /\ (q < p \/ q = p \/ p < q)
      BY <1>1
    <3> QED BY <1>2, <3>1
  <2>2. /\ h \in [1..(p - 1) -> S]
        /\ \A x, y \in 1..(p - 1) : h[x] = h[y] => x = y
    BY <1>1, <2>1
  <2>3. \A j \in S : \E q \in 1..(p - 1) : h[q] = j
    <3> TAKE j \in S
    <3>1. PICK q \in 1..n : g[q] = j
      BY <1>1
    <3>2. q \in 1..(p - 1)
      BY <2>1, <3>1
    <3> QED BY <3>1, <3>2
  <2> HIDE DEF S, h
  <2>4. h \in Bijection(1..(p - 1), S)
    <3>1. h \in Injection(1..(p - 1), S)
      BY <2>2, Fun_IsInj
    <3>2. h \in Surjection(1..(p - 1), S)
      BY <2>2, <2>3, Fun_IsSurj
    <3> QED BY <3>1, <3>2 DEF Bijection
  <2>5. p - 1 \in Nat /\ ExistsBijection(1..(p - 1), S)
    BY <2>4 DEF ExistsBijection
  <2>6. Cardinality(S) = p - 1
    BY <2>5, FS_CountingElements
  <2> QED BY <2>6 DEF S
<1>5. ASSUME NEW p \in 1..n
      PROVE  (CHOOSE i \in rows : Rank(i) = p - 1) = g[p]
  <2> HIDE DEF Rank
  <2>1. g[p] \in rows /\ Rank(g[p]) = p - 1
    BY <1>1, <1>4
  <2>2. \A i \in rows : Rank(i) = p - 1 => i = g[p]
    <3> TAKE i \in rows
    <3>1. PICK q \in 1..n : g[q] = i
      BY <1>1
    <3>2. Rank(i) = q - 1
      BY <1>4, <3>1
    <3> QED BY <3>1, <3>2
  <2> QED BY <2>1, <2>2
<1>6. Listed(s, arr, rows) = [p \in 1..n |-> g[p]]
  BY <1>3, <1>5 DEF Listed
<1>7. g = [p \in 1..n |-> g[p]]
  BY <1>1
<1> QED BY <1>6, <1>7

\* Rows that are sorted by what they were are listed as they were.
LEMMA ListedSame ==
  ASSUME NEW s, NEW arr, NEW new, NEW rows, \A i \in rows : new[i] = arr[i]
  PROVE  Listed(s, new, rows) = Listed(s, arr, rows)
<1>1. \A i, j \in rows : Before(s, new, i, j) <=> Before(s, arr, i, j)
  BY DEF Before
<1>2. \A i \in rows : {j \in rows : Before(s, new, j, i)} = {j \in rows : Before(s, arr, j, i)}
  BY <1>1
<1>3. \A i \in rows : Cardinality({j \in rows : Before(s, new, j, i)})
                        = Cardinality({j \in rows : Before(s, arr, j, i)})
  BY <1>2
<1> DEFINE Rank(i) == Cardinality({j \in rows : Before(s, arr, j, i)})
           Now(i)  == Cardinality({j \in rows : Before(s, new, j, i)})
<1>4. \A i \in rows : Now(i) = Rank(i)
  BY <1>3
<1> HIDE DEF Rank, Now
<1>5. \A p : (CHOOSE i \in rows : Now(i) = p - 1) = (CHOOSE i \in rows : Rank(i) = p - 1)
  BY <1>4
<1>6. [p \in 1..Cardinality(rows) |-> CHOOSE i \in rows : Now(i) = p - 1]
        = [p \in 1..Cardinality(rows) |-> CHOOSE i \in rows : Rank(i) = p - 1]
  BY <1>5
<1> QED BY <1>6 DEF Listed, Rank, Now

\* set_talkgroup_orders with the identities of some rows in an order of theirs.
LEMMA Renumbered ==
  ASSUME NEW doc \in SoundDoc, NEW rows \in SUBSET (DOMAIN doc["talkgroup"]), NEW n \in Nat,
         NEW g \in Bijection(1..n, rows), NEW keys,
         keys = [m \in 1..n |-> doc["talkgroup"][g[m]].key]
  PROVE  LET arr == doc["talkgroup"]
             new == SetTalkgroupOrders(doc, keys)["talkgroup"]
         IN  /\ new \in Seq(Entry) /\ DOMAIN new = DOMAIN arr
             /\ \A i \in DOMAIN arr : new[i].key = arr[i].key /\ new[i].refs = arr[i].refs
             /\ \A i \in DOMAIN arr \ rows : new[i] = arr[i]
             /\ \A m \in 1..n : new[g[m]].ord = m - 1
<1> DEFINE arr == doc["talkgroup"]
           new == SetTalkgroupOrders(doc, keys)["talkgroup"]
<1>1. /\ arr \in Seq(Entry) /\ UniqueKeys(arr) /\ "talkgroup" \in Sections /\ DOMAIN doc = Sections
      /\ \A i \in DOMAIN arr : arr[i] \in Entry
  BY SoundSection, LenProperties, ElementOfSeq DEF Keyed, Section, Doc
<1>2. /\ g \in [1..n -> rows] /\ \A p, q \in 1..n : g[p] = g[q] => p = q
      /\ \A i \in rows : \E p \in 1..n : g[p] = i
  BY Fun_BijectionProperties
<1>3. new = [i \in DOMAIN arr |->
               IF \E m \in DOMAIN keys : keys[m] = arr[i].key
               THEN [arr[i] EXCEPT !.ord = (CHOOSE m \in DOMAIN keys : keys[m] = arr[i].key) - 1]
               ELSE arr[i]]
  BY <1>1 DEF SetTalkgroupOrders
<1>4. DOMAIN keys = 1..n /\ DOMAIN keys \subseteq Int
  OBVIOUS
<1>5. new \in Seq(Entry)
  <2>1. SetTalkgroupOrders(doc, keys) \in SoundDoc
    BY <1>4, SetTalkgroupOrdersSound
  <2> QED BY <1>1, <2>1 DEF SoundDoc, Doc
<1> HIDE DEF new, arr
<1>6. ASSUME NEW m \in 1..n, NEW k \in 1..n
      PROVE  keys[k] = arr[g[m]].key <=> k = m
  <2>1. keys[k] = arr[g[k]].key /\ g[k] \in DOMAIN arr /\ g[m] \in DOMAIN arr
    BY <1>2 DEF arr
  <2> QED BY <1>1, <1>2, <2>1 DEF UniqueKeys
<1>7. ASSUME NEW m \in 1..n
      PROVE  new[g[m]] = [arr[g[m]] EXCEPT !.ord = m - 1]
  <2>1. g[m] \in DOMAIN arr
    BY <1>2 DEF arr
  <2>2. (CHOOSE k \in DOMAIN keys : keys[k] = arr[g[m]].key) = m
    BY <1>4, <1>6
  <2>3. \E k \in DOMAIN keys : keys[k] = arr[g[m]].key
    BY <1>4, <1>6
  <2> QED BY <1>3, <2>1, <2>2, <2>3
<1>8. ASSUME NEW i \in DOMAIN arr \ rows
      PROVE  new[i] = arr[i]
  <2>1. ~ \E k \in DOMAIN keys : keys[k] = arr[i].key
    <3> SUFFICES ASSUME NEW k \in 1..n, keys[k] = arr[i].key PROVE FALSE
      BY <1>4
    <3>1. g[k] \in rows /\ g[k] \in DOMAIN arr /\ keys[k] = arr[g[k]].key
      BY <1>2 DEF arr
    <3> QED BY <1>1, <3>1 DEF UniqueKeys
  <2> QED BY <1>3, <2>1
<1>9. \A m \in 1..n : arr[g[m]] \in Entry
  BY <1>1, <1>2 DEF arr
<1>10. \A m \in 1..n : /\ new[g[m]].ord = m - 1 /\ new[g[m]].key = arr[g[m]].key
                       /\ new[g[m]].refs = arr[g[m]].refs
  BY <1>7, <1>9 DEF Entry
<1>11. \A i \in DOMAIN arr : new[i].key = arr[i].key /\ new[i].refs = arr[i].refs
  BY <1>2, <1>8, <1>10
<1>12. DOMAIN new = DOMAIN arr
  BY <1>3
<1> QED BY <1>5, <1>8, <1>10, <1>11, <1>12 DEF new, arr

\* Two places of an order exchanged make another order of the same rows.
LEMMA ExchangedOrder ==
  ASSUME NEW n \in Nat, NEW rows, NEW g \in Bijection(1..n, rows), NEW a \in 1..n, NEW b \in 1..n
  PROVE  Exchanged(g, a, b) \in Bijection(1..n, rows)
<1> DEFINE x     == Exchanged(g, a, b)
           At(p) == IF p = b THEN a ELSE IF p = a THEN b ELSE p
<1>1. /\ g \in [1..n -> rows] /\ \A p, q \in 1..n : g[p] = g[q] => p = q
      /\ \A i \in rows : \E p \in 1..n : g[p] = i
  BY Fun_BijectionProperties
<1>2. \A p \in 1..n : x[p] = g[At(p)] /\ At(p) \in 1..n /\ At(At(p)) = p
  BY <1>1 DEF Exchanged
<1>3. x \in [1..n -> rows]
  BY <1>1 DEF Exchanged
<1> HIDE DEF x, At
<1>4. x \in Injection(1..n, rows)
  <2>1. \A p, q \in 1..n : x[p] = x[q] => p = q
    BY <1>1, <1>2
  <2> QED BY <1>3, <2>1, Fun_IsInj
<1>5. x \in Surjection(1..n, rows)
  <2>1. \A i \in rows : \E p \in 1..n : x[p] = i
    <3> TAKE i \in rows
    <3>1. PICK p \in 1..n : g[p] = i
      BY <1>1
    <3>2. At(p) \in 1..n /\ x[At(p)] = i
      BY <1>2, <3>1
    <3> QED BY <3>2
  <2> QED BY <1>3, <2>1, Fun_IsSurj
<1> QED BY <1>4, <1>5 DEF x, Bijection

Filed(doc, folder) == {i \in DOMAIN doc["talkgroup"] : TreeFolder(doc, i) = folder}

\* Numbering a folder in some order of its own lists it in that order, and the other
\* folders as they were.
LEMMA RenumberedFolders ==
  ASSUME NEW doc \in SoundDoc, NEW F, NEW n \in Nat, NEW g \in Bijection(1..n, Filed(doc, F)),
         NEW keys, keys = [m \in 1..n |-> doc["talkgroup"][g[m]].key]
  PROVE  LET new == SetTalkgroupOrders(doc, keys)
         IN  /\ new \in SoundDoc /\ (doc["talkgroup"] = <<>> \/ new["talkgroup"] # <<>>)
             /\ \A i \in DOMAIN doc["talkgroup"] : new["talkgroup"][i].key = doc["talkgroup"][i].key
             /\ FolderMembers(new, F) = g
             /\ \A f : f # F => FolderMembers(new, f) = FolderMembers(doc, f)
<1> DEFINE arr  == doc["talkgroup"]
           after == SetTalkgroupOrders(doc, keys)
           new  == after["talkgroup"]
           rows == Filed(doc, F)
<1>1. rows \in SUBSET (DOMAIN arr)
  BY DEF Filed
<1>2. /\ new \in Seq(Entry) /\ DOMAIN new = DOMAIN arr
      /\ \A i \in DOMAIN arr : new[i].key = arr[i].key /\ new[i].refs = arr[i].refs
      /\ \A i \in DOMAIN arr \ rows : new[i] = arr[i]
      /\ \A m \in 1..n : new[g[m]].ord = m - 1
  <2>1. rows \in SUBSET (DOMAIN doc["talkgroup"]) /\ g \in Bijection(1..n, rows)
    BY <1>1
  <2>2. keys = [m \in 1..n |-> doc["talkgroup"][g[m]].key]
    OBVIOUS
  <2> HIDE DEF rows
  <2>3. LET old == doc["talkgroup"]
            now == SetTalkgroupOrders(doc, keys)["talkgroup"]
        IN  /\ now \in Seq(Entry) /\ DOMAIN now = DOMAIN old
            /\ \A i \in DOMAIN old : now[i].key = old[i].key /\ now[i].refs = old[i].refs
            /\ \A i \in DOMAIN old \ rows : now[i] = old[i]
            /\ \A m \in 1..n : now[g[m]].ord = m - 1
    BY <2>1, <2>2, Renumbered
  <2> QED BY <2>3
<1>3. after["folder"] = doc["folder"]
  BY DEF SetTalkgroupOrders, SoundDoc, Doc, Sections
<1>4. after \in SoundDoc
  <2>1. DOMAIN keys \subseteq Int
    OBVIOUS
  <2> QED BY <2>1, SetTalkgroupOrdersSound
<1>5. arr \in Seq(Entry) /\ (arr = <<>> \/ new # <<>>)
  <2>1. arr \in Seq(Entry)
    BY SoundSection DEF Keyed, Section
  <2> HIDE DEF arr, new
  <2> QED BY <1>2, <2>1
<1> HIDE DEF after
<1>6. \A f : {i \in DOMAIN new : TreeFolder(after, i) = f} = Filed(doc, f)
  BY <1>2, <1>3 DEF TreeFolder, Filed
<1>7. \A f : FolderMembers(after, f) = Listed("talkgroup", new, Filed(doc, f))
  BY <1>6 DEF FolderMembers
<1>8. /\ g \in [1..n -> rows]
  BY Fun_BijectionProperties
<1>9. \A p, q \in 1..n : p < q => Before("talkgroup", new, g[p], g[q])
  <2> TAKE p \in 1..n, q \in 1..n
  <2> HAVE p < q
  <2>1. new[g[p]].ord = p - 1 /\ new[g[q]].ord = q - 1
    BY <1>2
  <2>2. p - 1 # NoOrder /\ q - 1 # NoOrder
    BY OrderAssumption
  <2>3. SortKey("talkgroup", new[g[p]])[1] = p - 1 /\ SortKey("talkgroup", new[g[q]])[1] = q - 1
    BY <2>1, <2>2 DEF SortKey
  <2> QED BY <2>3 DEF Before
<1>10. FolderMembers(after, F) = g
  <2>1. rows \in SUBSET (DOMAIN new)
    BY <1>1, <1>2
  <2> HIDE DEF new, rows
  <2>2. Listed("talkgroup", new, rows) = g
    BY <1>2, <1>9, <2>1, ListedIs DEF rows
  <2> QED BY <1>7, <2>2 DEF new, rows
<1>11. ASSUME NEW f, f # F
       PROVE  FolderMembers(after, f) = FolderMembers(doc, f)
  <2>1. \A i \in Filed(doc, f) : new[i] = arr[i]
    BY <1>2, <1>11 DEF Filed
  <2>2. Listed("talkgroup", new, Filed(doc, f)) = Listed("talkgroup", arr, Filed(doc, f))
    BY <2>1, ListedSame
  <2> QED BY <1>7, <2>2 DEF FolderMembers, Filed
<1> QED BY <1>2, <1>4, <1>5, <1>10, <1>11 DEF after

\* What a move does, from a text whose lists are on the screens.
LEMMA MoveStep ==
  ASSUME IInv, toml = codeplug, NEW p \in Rows(codeplug, "talkgroup"), NEW up \in BOOLEAN,
         UiTreeMove(p, up), NEW f \in AllFolders(codeplug)
  PROVE  FolderKeys(codeplug', f) =
           IF f = TreeFolder(codeplug, Shown(codeplug, "talkgroup")[p])
           THEN Exchanged(FolderKeys(codeplug, f), PlaceOf(p), Neighbour(PlaceOf(p), up))
           ELSE FolderKeys(codeplug, f)
<1> DEFINE arr     == codeplug["talkgroup"]
           i       == Shown(codeplug, "talkgroup")[p]
           F       == TreeFolder(codeplug, i)
           rows    == Filed(codeplug, F)
           n       == Cardinality(rows)
           members == FolderMembers(codeplug, F)
           a       == PlaceOf(p)
           b       == Neighbour(PlaceOf(p), up)
           g       == Exchanged(members, a, b)
           keys    == KeysAt(g)
           after    == SetTalkgroupOrders(codeplug, keys)
<1>1. codeplug \in SoundDoc /\ p \in DOMAIN arr /\ codeplug # NoDoc
  BY DEF Rows, IInv, SoundMaybe
<1>2. arr \in Seq(Entry) /\ "talkgroup" \in Sections /\ DOMAIN codeplug = Sections
  BY <1>1, SoundSection DEF Keyed, Section, SoundDoc, Doc
<1>3. i \in DOMAIN arr
  <2>1. Shown(codeplug, "talkgroup") \in Bijection(DOMAIN arr, DOMAIN arr)
    BY <1>1, <1>2, ShownRows DEF SoundDoc
  <2> HIDE DEF arr
  <2>2. Shown(codeplug, "talkgroup") \in [DOMAIN arr -> DOMAIN arr]
    BY <2>1, Fun_BijectionProperties
  <2> QED BY <1>1, <2>2
<1>4. rows \in SUBSET (DOMAIN arr) /\ i \in rows
  BY <1>3 DEF Filed
<1>5. n \in Nat /\ members \in Bijection(1..n, rows)
  BY <1>2, <1>4, ListedRows DEF FolderMembers, Filed
<1>6. members \in [1..n -> rows] /\ DOMAIN members = 1..n /\ \E m \in 1..n : members[m] = i
  BY <1>4, <1>5, Fun_BijectionProperties
<1>7. a \in 1..n /\ b \in 1..n
  <2>1. SiblingsOf(p) = members
    BY DEF SiblingsOf
  <2>2. a \in 1..n
    BY <1>6, <2>1 DEF PlaceOf
  <2>3. b \in 1..n
    BY <1>6, <2>1 DEF UiTreeMove
  <2> QED BY <2>2, <2>3
<1> HIDE DEF a, b
<1>8. g \in Bijection(1..n, rows)
  BY <1>5, <1>7, ExchangedOrder
<1>9. DOMAIN g = 1..n
  BY <1>6 DEF Exchanged
<1>10. keys = [m \in 1..n |-> arr[g[m]].key]
  BY <1>9 DEF KeysAt
<1>11. codeplug' = after
  <2>1. codeplug' = IF Parses(after) THEN after ELSE codeplug
    BY DEF UiTreeMove, ApplyCodeplug, Reordered, SiblingsOf, a, b
  <2>2. arr # <<>>
    BY <1>1, <1>2
  <2>3. after["talkgroup"] # <<>>
    BY <1>1, <1>5, <1>8, <1>10, <2>2, RenumberedFolders
  <2> QED BY <1>2, <2>1, <2>3 DEF Parses
<1> HIDE DEF after
<1>12. /\ \A r \in DOMAIN arr : after["talkgroup"][r].key = arr[r].key
       /\ FolderMembers(after, F) = g
       /\ \A h : h # F => FolderMembers(after, h) = FolderMembers(codeplug, h)
  BY <1>1, <1>5, <1>8, <1>10, RenumberedFolders DEF after
<1>13. CASE f = F
  <2>1. FolderKeys(after, f) = [m \in 1..n |-> arr[g[m]].key]
    <3>1. \A m \in 1..n : g[m] \in DOMAIN arr
      BY <1>4, <1>6, <1>7 DEF Exchanged
    <3> HIDE DEF g
    <3> QED BY <1>9, <1>12, <1>13, <3>1 DEF FolderKeys
  <2>2. FolderKeys(codeplug, f) = [m \in 1..n |-> arr[members[m]].key]
    BY <1>6, <1>13 DEF FolderKeys
  <2>3. [m \in 1..n |-> arr[g[m]].key] = Exchanged(FolderKeys(codeplug, f), a, b)
    <3> HIDE DEF members, arr
    <3> QED BY <1>6, <1>7, <2>2 DEF Exchanged
  <2> QED BY <1>11, <1>13, <2>1, <2>3 DEF a, b
<1>14. CASE f # F
  <2>1. FolderMembers(codeplug, f) \in [1..Cardinality(Filed(codeplug, f)) -> DOMAIN arr]
    <3>1. Filed(codeplug, f) \in SUBSET (DOMAIN arr)
      BY DEF Filed
    <3>2. FolderMembers(codeplug, f)
            \in Bijection(1..Cardinality(Filed(codeplug, f)), Filed(codeplug, f))
      BY <1>2, <3>1, ListedRows DEF FolderMembers, Filed
    <3> DEFINE S == 1..Cardinality(Filed(codeplug, f))
               T == Filed(codeplug, f)
               h == FolderMembers(codeplug, f)
    <3> HIDE DEF arr, S, T, h
    <3>3. h \in Bijection(S, T)
      BY <3>2 DEF S, T, h
    <3>4. h \in [S -> T]
      BY <3>3, Fun_BijectionProperties
    <3> QED BY <3>1, <3>4 DEF S, T, h
  <2> DEFINE them == FolderMembers(codeplug, f)
  <2>2. FolderMembers(after, f) = them /\ \A m \in DOMAIN them : them[m] \in DOMAIN arr
    BY <1>12, <1>14, <2>1
  <2> HIDE DEF them
  <2>3. FolderKeys(after, f) = [m \in DOMAIN them |-> after["talkgroup"][them[m]].key]
    BY <2>2 DEF FolderKeys
  <2>4. FolderKeys(codeplug, f) = [m \in DOMAIN them |-> arr[them[m]].key]
    BY DEF FolderKeys, them
  <2> QED BY <1>11, <1>12, <1>14, <2>2, <2>3, <2>4
<1> QED BY <1>13, <1>14

\* Moving a talkgroup exchanges it with its neighbour in its folder and moves no other of
\* any folder, whatever numbers, the same, missing or out of order, the text had.
THEOREM MoveExchangesRowsHolds == Spec => MoveExchangesRows
<1>1. IInv => [\A p \in Rows(codeplug, "talkgroup"), up \in BOOLEAN :
                 toml = codeplug /\ edits' # edits /\ UNCHANGED draft /\ UiTreeMove(p, up) =>
                 \A f \in AllFolders(codeplug) :
                   FolderKeys(codeplug', f) =
                     IF f = TreeFolder(codeplug, Shown(codeplug, "talkgroup")[p])
                     THEN Exchanged(FolderKeys(codeplug, f), PlaceOf(p), Neighbour(PlaceOf(p), up))
                     ELSE FolderKeys(codeplug, f)]_vars
  BY MoveStep
<1> QED BY <1>1, TextsStaySound, PTL DEF MoveExchangesRows

=============================================================================
