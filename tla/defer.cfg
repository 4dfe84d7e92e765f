SPECIFICATION FairSpec
CONSTANTS
  w1 = w1  w2 = w2  k1 = k1  k2 = k2  k3 = k3  k4 = k4  m = m
  g0 = g0  g1 = g1  g2 = g2  g3 = g3
  Tenants = {1}
  Workers = {w1}
  NoWorker = NoWorker
  Keys = {k1, k2, k3, k4}
  Modules = {m}
  Grants = {g1}
  Chain <- DeferChain
  GrantTenant <- DeferGrantTenant
  GrantLife <- DeferGrantLife
  LongLived = {g1}
  Revocable = {}
  Requests <- DeferRequests
  Allowed <- OneTenantAllowed
  QueueLimit <- OneTenantQueueLimit
  ActiveLimit <- OneTenantActiveLimit
  MaxPendingGlobal = 1
  MaxPendingTenant = 1
  MaxActiveGlobal = 1
  MaxAttempts = 2
  LeaseTime = 2
  Ordinals = {}
  MaxRuns = 4
VIEW LivenessView
PROPERTIES
  DeferredRunsReturn
CHECK_DEADLOCK FALSE
