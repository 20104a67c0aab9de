SPECIFICATION FairSpec
CONSTANTS
  c1 = c1
  c2 = c2
  NoCid = NoCid
  Cids <- OneCall
  Kinds <- AllKinds
  MaxCmds = 2
  MaxEvents = 2
  Rejects = TRUE
  LinkFaults = FALSE
  RadioFaults = TRUE
  Repeats = TRUE
  LocalModes <- DuplexMode
INVARIANTS
  FloorReturned
  NoLostCalls
PROPERTIES
  AnnouncedOnce
  HangupCompletes
  GhostsVanish
  AnswerResolves
