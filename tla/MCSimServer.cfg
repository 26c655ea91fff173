CONSTANTS
  h1 = h1
  h2 = h2
  Handlers <- MCHandlers
  Configs <- MCConfigs
  Default <- MCDefault
  Speeds <- MCSpeeds
  MaxTurns = 2
  MaxRequests = 2
SPECIFICATION Spec
INVARIANTS
  CrashNeedsExchange
  ConfigInForce
  SpeedInForce
PROPERTIES
  TpsCountsTicks
  RequestsReturn
CHECK_DEADLOCK FALSE
