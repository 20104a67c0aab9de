SPECIFICATION SysSpec
CONSTANTS
  c1 = c1
  c2 = c2
  NoCid = NoCid
  Cids <- OneCall
  Kinds <- OpenKinds
  MaxCmds = 2
  MaxEvents = 2
  Rejects = TRUE
  LinkFaults = TRUE
  RadioFaults = FALSE
  Repeats = TRUE
  LocalModes <- PttModes
INVARIANTS
  TypeOK
  MutedMicSilent
  UplinkOpensDevices
  RingMatchesCalls
  GroupPlaceholderHasContext
  NoGhostCalls
  MicOnNetworkCall
  RingingKindAgrees
