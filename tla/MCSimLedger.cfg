CONSTANTS
  a = a
  b = b
  c = c
  Nodes <- MCNodes
  Threads <- MCThreads
  Limits <- MCLimits
  Files <- MCFiles
  ConfirmNs <- MCConfirmNs
  Multipliers <- MCMultipliers
  Shares <- MCShares
  SendCost = 100
  RelayReward = 100
  EmissionRate = 50
  BurnRate = 1
  MaxRelays = 1
  MaxDeals = 3
SYMMETRY Symmetry
SPECIFICATION Spec
INVARIANTS
  CountersExplainBalances
  OverdraftBounded
PROPERTIES
  SpendingWithinLimit
CHECK_DEADLOCK FALSE
