SPECIFICATION BothSpec
CONSTANTS
  Begin = {b1, b2}
  Verify = {v1, v2}
  Nobody = Nobody
  Checks = 2
  MaxRemnants = 1
  MaxFaults = 2
  Stream = {stdout, stderr}
  StreamLimit = 1
  Budgets <- Left
  Patience = 1
  MaxWritten = 2
CHECK_DEADLOCK FALSE
INVARIANTS
  
  ReportIsTrue
PROPERTIES
  SessionRecovers
  CommandEnds
