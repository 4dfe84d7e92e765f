SPECIFICATION Spec
CONSTANTS
  Tenants = {t1}
  t1 = t1
  c1 = c1
  c2 = c2
  r1 = r1
  r2 = r2
  d1 = d1
  d2 = d2
  p1 = p1
  p2 = p2
  None = None
  Connections = {c1, c2}
  MaxBudget = 2
  MaxLife = 2
  Adapters <- TwoAdapters
  Destinations = {d1, d2}
  Projects = {p1, p2}
  Authorities <- BudgetAuthorities
  Runs = {r1, r2}
  Ordinals = {0}
  ChainLimit = 2
  MaxGrants = 2
  MaxTime = 1
CHECK_DEADLOCK FALSE
SYMMETRY BudgetSymmetry
INVARIANTS GrantTypeOK BudgetExact WithinConfiguration
PROPERTY NothingFromTheDead
