CONSTANTS
  p1 = p1
  p2 = p2
  e1 = e1
  t1 = t1
  s1 = s1
  s2 = s2
  d1 = d1
  d2 = d2
  Primary = {p1, p2}
  Executor = {e1}
  Team = {t1}
  HomeTeam <- OneTeam
  Request = {r1}
  Sha = {s1, s2}
  DecisionId = {d1, d2}
  HandoffId = {h1}
  None = None
  Operation = {v, w}
  Nobody = Nobody
  Executions = 1
  Window = 2
  Latest = 1
  MaxTurns = 1
  MaxDeaths = 2
  MaxPrimaryEpoch = 3
  MaxActorEpoch = 2
  MaxTeamEpoch = 2
  MaxAssignmentEpoch = 2
SYMMETRY ReviewSymmetry
SPECIFICATION ReviewSpec
INVARIANTS
  TypeOK
  PrimaryLease
  LeaseEpochNamesOneGeneration
  RowsVerify
  RetriesAreAnswered
PROPERTIES
  SettledWorkStays
CHECK_DEADLOCK FALSE
