SPECIFICATION Spec
CONSTANTS
  w1 = w1  w2 = w2  k1 = k1  k2 = k2  k3 = k3  k4 = k4  m = m
  g0 = g0  g1 = g1  g2 = g2  g3 = g3
  Tenants = {1, 2, 3}
  Workers = {w1}
  NoWorker = NoWorker
  Keys = {k1, k2}
  Modules = {m}
  Grants = {g1, g2, g3}
  Chain <- SlotsChain
  GrantTenant <- SlotsGrantTenant
  GrantLife <- SlotsGrantLife
  LongLived = {g1, g2, g3}
  Revocable = {}
  Requests <- SlotsRequests
  Allowed <- SlotsAllowed
  QueueLimit <- SlotsQueueLimit
  ActiveLimit <- SlotsActiveLimit
  MaxPendingGlobal = 3
  MaxPendingTenant = 2
  MaxActiveGlobal = 3
  MaxAttempts = 1
  LeaseTime = 1
  Ordinals = {}
  MaxRuns = 3
SYMMETRY KeySymmetry
VIEW TableView
INVARIANTS
  TypeOK
  SlotAccounting
  SlotBounds
CHECK_DEADLOCK FALSE
