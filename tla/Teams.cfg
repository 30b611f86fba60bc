SPECIFICATION LifeSpec
CONSTANTS
  a1 = a1
  a2 = a2
  managed = managed
  linked = linked
  opener = opener
  operator = operator
  Opener <- OneOpener
  Operator <- OneOperator
  MaxClock = 2
  MaxWrites = 1
  MaxCrashes = 1
  Actors <- TwoActors
  Dirs <- BothDirs
  Managed <- OneDir
  MaxFaults = 1
  MaxRecreated = 1
INVARIANTS
  ClosingIsOrderly
  OneGenerationRuns
  PreservationIsSafe
PROPERTIES
  ReconciliationEnds
  OpenedAtLast
