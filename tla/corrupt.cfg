SPECIFICATION Spec
CONSTANTS
  w1 = w1  w2 = w2  k1 = k1  k2 = k2  k3 = k3  k4 = k4  m = m
  g0 = g0  g1 = g1  g2 = g2  g3 = g3
  Tenants = {1}
  Workers = {w1, w2}
  NoWorker = NoWorker
  Keys = {k1}
  Modules = {m}
  Grants = {g0, g1}
  Chain <- RaceChain
  GrantTenant <- RaceGrantTenant
  GrantLife <- RaceGrantLife
  LongLived = {}
  Revocable = {g0, g1}
  Requests <- RaceRequests
  Allowed <- RaceAllowed
  QueueLimit <- RaceQueueLimit
  ActiveLimit <- RaceActiveLimit
  MaxPendingGlobal = 1
  MaxPendingTenant = 1
  MaxActiveGlobal = 1
  MaxAttempts = 3
  LeaseTime = 2
  Ordinals = {0, 1}
  MaxRuns = 1
SYMMETRY WorkerSymmetry
INVARIANT
  CorruptIsReal
CHECK_DEADLOCK FALSE
