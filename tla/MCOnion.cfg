CONSTANTS
  a = a
  b = b
  c = c
  short = short
  long = long
  Nodes <- MCNodes
  Texts <- MCTexts
  TextSize <- MCTextSize
  MaxHops = 3
  MaxCircuits = 2
SPECIFICATION OnionSpec
INVARIANTS
  FollowsCircuit
  SizeAsCounted
CHECK_DEADLOCK FALSE
