SPECIFICATION FairSpec
CONSTANTS
  k1 = k1
  k2 = k2
  NoConn = NoConn
  Conns <- TwoConns
  MaxHandle = 8
  MaxWire = 1
  MaxWaiting = 1
INVARIANTS
  LoneLinkUsed
  ConfigOfThisLink
PROPERTIES
  OneSessionAtATime
  LinkRecovers
