CONSTANTS
  p1 = p1
  p2 = p2
  h1 = h1
  h2 = h2
  x1 = x1
  create = create
  send = send
  block = block
  pause = pause
  shutdown = shutdown
  primary = primary
  executor = executor
  None = None
  Process = {p1, p2}
  Op = {create, block, shutdown}
  Kind <- MixedKind
  Caller <- MixedCaller
  Input = {1}
  MaxTries = 1
  Ttl = 1
  MaxGeneration = 2
  MaxContext = 2
  MaxFaults = 1
  Invoker = {p1, p2}
  Human = {h1, h2}
  Agent = {x1}
  Nothing = Nothing
  MaxEpoch = 2
  MaxLapses = 1
  MaxInvoked = 4
  MaxDeaths = 1
SYMMETRY AdmissionSymmetry
SPECIFICATION AdmissionSpec
INVARIANTS
  ShutdownIsAtomic
  AuthenticatedIsWhole
  
  BoundCallersCanReturn
PROPERTIES
  ImplementsService
CHECK_DEADLOCK FALSE
