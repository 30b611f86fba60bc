CONSTANTS
  p1 = p1
  e1 = e1
  e2 = e2
  t1 = t1
  t2 = t2
  Primary = {p1}
  Executor = {e1, e2}
  Team = {t1, t2}
  HomeTeam <- TwoTeams
  Request = {r1}
  Sha = {s1}
  DecisionId = {d1, d2}
  d1 = d1
  d2 = d2
  HandoffId = {h1}
  Consultation = {c1}
  None = None
  MaxPrimaryEpoch = 1
  MaxActorEpoch = 2
  MaxTeamEpoch = 2
  MaxAssignmentEpoch = 3
SPECIFICATION ReplaySpec
SYMMETRY TeamSymmetry
CONSTRAINT Apart
INVARIANTS
  AssignmentEpochNamesOneExecutor
  ActiveWorkIsFenced
  RunMirrorsRequest
  Restores
CHECK_DEADLOCK FALSE
