SPECIFICATION FairSpec
CONSTANTS
  g1 = g1
  g2 = g2
  g3 = g3
  NoGssi = NoGssi
  Gssis <- ThreeGroups
  Layouts <- Deletion
  MaxFlight = 3
  MaxNudges = 1
  MaxMoves = 2
  MaxAlerts = 2
INVARIANTS
  SelectActsOnShown
PROPERTIES
  StateCatchesUp
  AlertStaysItsTime
