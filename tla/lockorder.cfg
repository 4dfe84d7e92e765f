SPECIFICATION FairSpec
CONSTANTS
  c1 = c1  c2 = c2  c3 = c3
  t1 = t1  g1 = g1  g2 = g2  r1 = r1
  Connections = {c1, c2, c3}
  Tenants = {t1}
  Grants = {g1, g2}
  Ancestry <- Chains
  GrantTenant <- Owner
  Runs = {r1}
  RunGrant <- UnderChild
INVARIANT OnlyOwnerCycles
PROPERTY TransactionsEnd
CHECK_DEADLOCK FALSE
