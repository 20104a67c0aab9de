SPECIFICATION Spec
CONSTANTS
  p1 = p1
  p2 = p2
  NoConv = NoConv
  Ssis <- TwoPeers
  RefMod = 2
  MaxSent = 3
  MaxRecv = 1
  MaxTold = 2
SYMMETRY PeerSymmetry
INVARIANTS
  StoredAsShown
  TicksJustified
  ReceiptOwedOnce
  DraftStaysWithPeer
PROPERTIES
  TicksNeverRegress
