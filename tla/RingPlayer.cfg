SPECIFICATION FairSpec
CONSTANTS
  r1 = r1
  r2 = r2
  Rings <- TwoRings
  Alert = Alert
  NoTone = NoTone
  ToneLength = 2
  MaxPreviews = 2
INVARIANTS
  RingsForAReason
PROPERTIES
  RingComesBack
  DeviceClosesInCall
