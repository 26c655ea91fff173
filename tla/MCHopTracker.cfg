CONSTANTS
  a = a
  b = b
  Ids <- MCIds
  TotalHops = 2
  MaxSends <- MCMaxSends
  Keep = 1
SPECIFICATION TrackerSpec
INVARIANTS
  AckedHopConfirmed
  ForgottenOnlyWhenConfirmed
