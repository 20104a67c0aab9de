SPECIFICATION FairSpec
CONSTANTS
  k1 = k1
  k2 = k2
  NoConn = NoConn
  Conns <- TwoConns
  MaxHandle = 6
  MaxWire = 1
  MaxWaiting = 1
PROPERTY
  AutomaticReconnect
