CONSTANTS
  k1 = k1
  v1 = v1
  k2 = k2
  Keys <- MCKeys
  Values <- MCValues
  RpcTtl = 1
  Ttls <- MCTtls
  Nothing = Nothing
  s = s
  r = r
  c1 = c1
  c2 = c2
  c3 = c3
  c4 = c4
  Tables <- MCTables
  Contacts <- MCContacts
  IdOf <- MCIdOf
  SelfId <- MCSelfId
  Bits = 3
  BucketSize = 2
  Silence = 0
  MaxTime = 2
SPECIFICATION RpcSpec
SYMMETRY MCSymmetry
INVARIANTS
  WellPlaced
  AnswersNearest
PROPERTIES
  OnlySilentEvicted
  ImplementsExpiringMap
