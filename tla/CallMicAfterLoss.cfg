SPECIFICATION SysSpec
CONSTANTS
  c1 = c1
  c2 = c2
  NoCid = NoCid
  Cids <- OneCall
  Kinds <- PersonalKinds
  MaxCmds = 2
  MaxEvents = 2
  Rejects = FALSE
  LinkFaults = TRUE
  RadioFaults = FALSE
  Repeats = FALSE
  LocalModes <- SimplexMode
INVARIANT
  UplinkJustified
