CONSTANTS
  a = a
  b = b
  c = c
  sf7 = sf7
  sf9 = sf9
  Nodes <- MCNodes
  Near <- MCNear
  Unstable <- MCUnstable
  Regions <- MCRegions
  DefaultHops = 3
  MinRelayHops = 1
  InLoRaRange <- MCInLoRaRange
  SpreadingFactors <- MCFactors
  Legs <- MCLegs
  MaxTicks = 3
  MaxAir = 2
  Gap = 2
  Retry = 1
  MaxSent = 2
  MaxScenarios = 1
SPECIFICATION FairSpec
INVARIANTS
  EachInOnePlace
  CollisionsCounted
  HitTakesNamesake
PROPERTIES
  AckedBeforeDelivered
  EverySentSettles
