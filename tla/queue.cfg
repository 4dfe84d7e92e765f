SPECIFICATION Spec
CONSTANTS
  w1 = w1  w2 = w2  k1 = k1  k2 = k2  k3 = k3  k4 = k4  m = m
  g0 = g0  g1 = g1  g2 = g2  g3 = g3
  Tenants = {1, 2}
  Workers = {w1}
  NoWorker = NoWorker
  Keys = {k1, k2}
  Modules = {m}
  Grants = {g1, g2}
  Chain <- QueueChain
  GrantTenant <- QueueGrantTenant
  GrantLife <- QueueGrantLife
  LongLived = {g1, g2}
  Revocable = {}
  Requests <- QueueRequests
  Allowed <- QueueAllowed
  QueueLimit <- QueueQueueLimit
  ActiveLimit <- QueueActiveLimit
  MaxPendingGlobal = 2
  MaxPendingTenant = 2
  MaxActiveGlobal = 1
  MaxAttempts = 2
  LeaseTime = 1
  Ordinals = {}
  MaxRuns = 4
SYMMETRY KeySymmetry
VIEW TableView
INVARIANTS
  QueueBound
  BacklogBound
  NothingStranded
  SlotBounds
CHECK_DEADLOCK FALSE
