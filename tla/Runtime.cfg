CONSTANTS
  d1 = d1
  d2 = d2
  t1 = t1
  t2 = t2
  t3 = t3
  p1 = p1
  p2 = p2
  p3 = p3
  None = None
  Daemon = {d1, d2}
  Thread = {t1, t2, t3}
  Service <- TwoServices
  Pane = {p1, p2, p3}
  Ttl = 2
  MaxNow = 3
  MaxEpoch = 3
  MaxGone = 1
  Executor = {t1, t2}
  Caller = {q}
  NoExecutor = None
  MaxPanes = 2
  Foreign = {2}
  MaxChanges = 5
  p = p
  q = q
  notice = notice
  Actor = {p, q}
  Role <- Roles
  Team <- Teams
  Queue <- NoticeQueue
  Sender <- NoticeSender
  Target <- NoticeTarget
  ClaimTtl = 1
  Delay = 1
  NoActor = NoActor
  LeaseTtl = 2
SYMMETRY LaunchSymmetry
SPECIFICATION Spec
INVARIANTS
  LaunchIsFenced
  ConfigurationIsTrue
PROPERTIES
  LaterGenerationStaysOnline
  DeliveriesAreExclusive
  
CHECK_DEADLOCK FALSE
