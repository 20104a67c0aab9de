SPECIFICATION MCSpec
CONSTANTS
  c1 = c1
  c2 = c2
  NoCid = NoCid
  Cids <- TwoCalls
  EncCap = 3
  DecCap = 3
  Cushion = 2
  LongestLag = 4
  MaxCaptured = 5
  MaxReceived = 6
  MaxPresses = 2
  MaxRelayed = 2
INVARIANTS
  NotToAnEarlierCall
PROPERTIES
  QueuesKeepNewest
  CushionBeforeSpeech
