SPECIFICATION SysSpec
CONSTANTS
  c1 = c1
  c2 = c2
  NoCid = NoCid
  Cids <- TwoCalls
  Kinds <- AllKinds
  MaxCmds = 2
  MaxEvents = 2
  Rejects = FALSE
  LinkFaults = FALSE
  RadioFaults = FALSE
  Repeats = FALSE
  LocalModes <- NoModes
INVARIANTS
  UplinkJustified
  ModeAgrees
  EveryCallLogged
