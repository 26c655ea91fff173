CONSTANTS
  g = g
  h = h
  e1 = e1
  e2 = e2
  d1 = d1
  d2 = d2
  Generators <- MCGenerators
  Events <- MCEvents
  Data <- MCData
  Unsigned = Unsigned
  MaxTick = 3
  MaxLog = 3
SPECIFICATION Spec
INVARIANTS
  VerifiedMeansLater
  ChainOrdersRecords
  SignedWasRecorded
