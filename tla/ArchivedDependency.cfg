SPECIFICATION RequestsOnly
CONSTANTS
  a1 = a1
  a2 = a2
  b1 = b1
  r1 = r1
  r2 = r2
  m1 = m1
  m2 = m2
  m3 = m3
  m4 = m4
  m5 = m5
  c1 = c1
  c2 = c2
  e1 = e1
  v1 = v1
  v2 = v2
  NoRequest = NoRequest
  Nothing = Nothing
  Consult = Consult
  Acceptance = Acceptance
  Members <- OneActor
  Requests <- TwoReqs
  Messages <- Five
  LastMessage <- Ends
  MaxTeamEpoch = 2
  MaxLease = 2
  Evidence = {e1}
  Version = {v1, v2}
  Staff = {a1, b1}
  Processes = {c1, c2}
  MaxRevision = 5
  MaxDescribed = 1
CHECK_DEADLOCK FALSE
INVARIANTS
  ArchivedDependencyLoads
