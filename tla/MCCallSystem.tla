---------------------------- MODULE MCCallSystem ----------------------------
(* Instances of CallSystem for TLC. *)
EXTENDS CallSystem

CONSTANTS c1, c2

OneCall  == {c1}
TwoCalls == {c1, c2}

SimplexKind == [group |-> FALSE, simplex |-> TRUE,  hook |-> TRUE]
DuplexKind  == [group |-> FALSE, simplex |-> FALSE, hook |-> FALSE]
GroupKind   == [group |-> TRUE,  simplex |-> TRUE,  hook |-> FALSE]

NoKinds       == {}
PersonalKinds == {SimplexKind, DuplexKind}
OpenKinds     == {DuplexKind, GroupKind}
AllKinds      == {SimplexKind, DuplexKind, GroupKind}

NoModes       == {}
GroupMode     == {"group"}
SimplexMode   == {"simplex"}
DuplexMode    == {"duplex"}
PttModes      == {"simplex", "group"}
PersonalModes == {"simplex", "duplex"}
AllModes      == {"simplex", "duplex", "group"}
=============================================================================
