CONSTANTS
  alice = alice
  bob = bob
  test = test
  console = console
  reply = reply
  Nodes <- MCNodes
  Callers <- MCCallers
  Home <- MCHome
  Misread <- MCMisread
  InboxSize = 2
  MaxInits = 2
  MaxCalls = 3
SPECIFICATION Spec
INVARIANTS
  EndsAgree
  KeyUsedOnce
  SkipsOnce
PROPERTIES
  IdentityKept
CHECK_DEADLOCK FALSE
