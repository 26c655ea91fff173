CONSTANTS
  a = a
  b = b
  c = c
  d = d
  e = e
  Nodes <- MCNodes
  Near <- MCNear
  Unstable <- MCUnstable
  Regions <- MCRegions
  DefaultHops = 3
  MinRelayHops = 1
SPECIFICATION Spec
INVARIANTS
  RelayIsFound
