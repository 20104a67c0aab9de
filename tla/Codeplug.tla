------------------------------ MODULE Codeplug ------------------------------
(***************************************************************************)
(* The radio's configuration document as the program reads and rewrites    *)
(* it: every section an array of tables, parsed into sorted lists for the  *)
(* screens, and edited table by table in the text itself.                  *)
(*                                                                         *)
(* An entry is its identity (id, GSSI, name or network code), a name, the  *)
(* `order` (or priority) it is sorted by, and the identities it refers to: *)
(* the folder of a talkgroup, the gateway of a contact, the members of a   *)
(* scan list.  Identities and names are positive numbers that compare like *)
(* the strings they stand for.  Values out of range, entries without an    *)
(* identity and the two obsolete keys each writer drops are left out.      *)
(*                                                                         *)
(* An operator whose name ends in _X is a faulty variant of the operator   *)
(* defined after it; nothing uses it.                                      *)
(***************************************************************************)
EXTENDS Integers, FiniteSets, SequencesExt

CONSTANT NoOrder   \* the table has no `order`

ASSUME OrderAssumption == NoOrder \notin Int

Sections == {"net_info", "home_display", "network", "folder", "talkgroup",
             "scanlist", "gateway", "contact"}

\* Sections whose entries are addressed by identity, and single tables.
Keyed  == {"folder", "talkgroup", "scanlist", "gateway", "contact"}
Single == {"net_info", "home_display"}

NoKey == 0
Ids   == Nat \ {NoKey}

Entry == [key: Ids, name: Ids, ord: Int \cup {NoOrder}, refs: SUBSET Ids]

Doc == [Sections -> Seq(Entry)]

KeysOf(arr) == {arr[i].key : i \in DOMAIN arr}

FirstWith(arr, k) == CHOOSE i \in DOMAIN arr :
                       arr[i].key = k /\ \A j \in DOMAIN arr : arr[j].key = k => i <= j

-----------------------------------------------------------------------------
(* Reading.                                                                 *)

\* Nothing to edit: there is no codeplug in this text.
Parses(doc) == \E s \in Sections : doc[s] # <<>>

\* What a section is sorted by, a missing `order` or priority being nought; gateways keep
\* the order of the text, and their numbers are not looked at.
SortKey(s, e) ==
  LET order == IF e.ord = NoOrder THEN 0 ELSE e.ord
  IN  CASE s = "gateway" -> <<0, 0>>
        [] s = "network" -> <<order, e.key>>
        [] OTHER         -> <<order, e.name>>

Before(s, arr, i, j) ==
  LET a == SortKey(s, arr[i])
      b == SortKey(s, arr[j])
  IN  \/ a[1] < b[1]
      \/ a[1] = b[1] /\ a[2] < b[2]
      \/ a = b /\ i < j

\* Rows in the order a screen shows them: position in the list -> position in the text.
Listed(s, arr, rows) ==
  [p \in 1..Cardinality(rows) |->
     CHOOSE i \in rows : Cardinality({j \in rows : Before(s, arr, j, i)}) = p - 1]

Shown(doc, s) == Listed(s, doc[s], DOMAIN doc[s])

\* The home network comes first in the list of networks.
HomeShown(doc) == Len(doc["net_info"])

\* The home cycler has a folder for every folder some talkgroup names, and one for
\* the talkgroups that name none.
CyclerFolders(doc) == {t.refs : t \in Range(doc["talkgroup"])}

\* The tree files a talkgroup under Other ({}) when its folder is not defined.
TreeFolder(doc, i) == doc["talkgroup"][i].refs \cap KeysOf(doc["folder"])

FolderMembers(doc, folder) ==
  LET arr == doc["talkgroup"]
  IN  Listed("talkgroup", arr, {i \in DOMAIN arr : TreeFolder(doc, i) = folder})

-----------------------------------------------------------------------------
(* Writing.                                                                 *)

Orders(arr) == {arr[i].ord : i \in DOMAIN arr} \ {NoOrder}

NextOrder(arr) ==
  IF Orders(arr) = {} THEN 0 ELSE 1 + CHOOSE m \in Orders(arr) : \A o \in Orders(arr) : o <= m

\* An entry without an `order` gets its position in the text.
KeptOrder(arr, i) == IF arr[i].ord = NoOrder THEN i - 1 ELSE arr[i].ord

\* Rows that have the identity already are not looked for.
CanUpsert_Clash_X(arr, e, key) == key # NoKey => key \in KeysOf(arr)

\* No other row has the identity, and the row being edited is still there.
CanUpsert(arr, e, key) ==
  /\ e.key \in KeysOf(arr) => key = e.key
  /\ key # NoKey => key \in KeysOf(arr)

\* The last row is replaced.
Upsert_Last_X(arr, e, key) ==
  IF key = NoKey THEN Append(arr, [e EXCEPT !.ord = NextOrder(arr)])
  ELSE [arr EXCEPT ![Len(arr)] = [e EXCEPT !.ord = KeptOrder(arr, Len(arr))]]

\* Add a row with the next order, or put the new row in the place of the old one.
Upsert(arr, e, key) ==
  IF key = NoKey THEN Append(arr, [e EXCEPT !.ord = NextOrder(arr)])
  ELSE LET i == FirstWith(arr, key)
       IN  [arr EXCEPT ![i] = [e EXCEPT !.ord = KeptOrder(arr, i)]]

UpsertKeyed(doc, s, e, key) == [doc EXCEPT ![s] = Upsert(@, e, key)]

\* Networks are addressed by position in the text.
CanUpsertNetwork(doc, index) == index # 0 => index \in DOMAIN doc["network"]

UpsertNetwork(doc, e, index) ==
  [doc EXCEPT !["network"] = IF index = 0 THEN Append(@, e) ELSE [@ EXCEPT ![index] = e]]

SetSingle(doc, s, e) == [doc EXCEPT ![s] = <<e>>]

CanDelete(doc, s, key) ==
  /\ key \in KeysOf(doc[s])
  /\ s = "gateway" => \A c \in Range(doc["contact"]) : key \notin c.refs

Pruned(arr, key) == [i \in DOMAIN arr |-> [arr[i] EXCEPT !.refs = @ \ {key}]]

\* A talkgroup is taken out of the scan lists as well.
DeleteKeyed(doc, s, key) ==
  LET rest == [doc EXCEPT ![s] = RemoveAt(@, FirstWith(@, key))]
  IN  IF s = "talkgroup" THEN [rest EXCEPT !["scanlist"] = Pruned(@, key)] ELSE rest

CanDeleteNetwork(doc, index) == index \in DOMAIN doc["network"]

DeleteNetwork(doc, index) == [doc EXCEPT !["network"] = RemoveAt(@, index)]

\* The talkgroups with the given identities are numbered in the given order; the
\* others keep their number.
SetTalkgroupOrders(doc, keys) ==
  [doc EXCEPT !["talkgroup"] =
     [i \in DOMAIN @ |->
        IF \E n \in DOMAIN keys : keys[n] = @[i].key
        THEN [@[i] EXCEPT !.ord = (CHOOSE n \in DOMAIN keys : keys[n] = doc["talkgroup"][i].key) - 1]
        ELSE @[i]]]

-----------------------------------------------------------------------------
UniqueKeys(arr) == \A i, j \in DOMAIN arr : arr[i].key = arr[j].key => i = j
=============================================================================
