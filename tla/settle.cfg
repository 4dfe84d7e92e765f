SPECIFICATION FairSpec
CONSTANTS
  w1 = w1  w2 = w2  k1 = k1  k2 = k2  k3 = k3  k4 = k4  m = m
  g0 = g0  g1 = g1  g2 = g2  g3 = g3
  Tenants = {1}
  Workers = {w1}
  NoWorker = NoWorker
  Keys = {k1, k2}
  Modules = {m}
  Grants = {g1, g2}
  Chain <- SettleChain
  GrantTenant <- SettleGrantTenant
  GrantLife <- SettleGrantLife
  LongLived = {g2}
  Revocable = {g2}
  Requests <- SettleRequests
  Allowed <- OneTenantAllowed
  QueueLimit <- OneTenantQueueLimit
  ActiveLimit <- OneTenantActiveLimit
  MaxPendingGlobal = 1
  MaxPendingTenant = 1
  MaxActiveGlobal = 1
  MaxAttempts = 2
  LeaseTime = 2
  Ordinals = {0}
  MaxRuns = 2
VIEW LivenessView
PROPERTIES
  EveryRunSettles
  RevokedLeaseDrains
CHECK_DEADLOCK FALSE
