--------------------------- MODULE MCProgramming ---------------------------
(* Instances of Programming for TLC. *)
EXTENDS Programming

E(k, n, o, r) == [key |-> k, name |-> n, ord |-> o, refs |-> r]

Nothing == [s \in Sections |-> <<>>]

\* Two talkgroups of one folder that were never numbered, a scan list of both, a contact
\* behind a gateway, and two networks, the second in the text the first by priority.
Radio == [Nothing EXCEPT
  !["net_info"]  = <<E(1, 1, 0, {})>>,
  !["folder"]    = <<E(1, 1, 0, {})>>,
  !["talkgroup"] = <<E(1, 2, NoOrder, {1}), E(2, 1, NoOrder, {1})>>,
  !["scanlist"]  = <<E(1, 1, 0, {1, 2})>>,
  !["gateway"]   = <<E(1, 1, 0, {})>>,
  !["contact"]   = <<E(1, 1, 0, {1})>>,
  !["network"]   = <<E(1, 1, 2, {}), E(2, 2, 1, {})>>]

Radios == {Radio}

\* One talkgroup.
OneGroup == {[Nothing EXCEPT
  !["net_info"]  = <<E(1, 1, 0, {})>>,
  !["talkgroup"] = <<E(1, 1, 0, {})>>]}

NewId   == {3}
OneName == {1}

Talkgroups == {"talkgroup"}

Edited == {"folder", "talkgroup", "scanlist", "gateway", "contact", "network",
           "home_display"}
=============================================================================
