CONSTANTS
  a = a
  b = b
  c = c
  d = d
  e = e
  Nodes <- MCNodes
  Near <- MCNear
  Unstable <- MCUnstable
  Regions <- MCRegions
  DefaultHops = 3
  MinRelayHops = 2
SPECIFICATION Spec
INVARIANTS
  SentOverLiveNodes
  RelaysWhilePossible
