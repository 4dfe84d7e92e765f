SPECIFICATION FairSpec
CONSTANTS
  Children = {k1, k2, k3, k4}
  Capacity = 3
INVARIANT PermitsMatch
INVARIANT NeverAborts
PROPERTY KilledAreReaped
