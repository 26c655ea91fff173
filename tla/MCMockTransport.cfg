CONSTANTS
  a = a
  b = b
  c = c
  t1 = t1
  t2 = t2
  Nobody = Nobody
  Transports <- MCTransports
  Threads <- MCThreads
  Cap = 1
  CallsOf <- MCCallsOf
  MaxCalls <- MCMaxCalls
  PeersAtStart <- MCPeersAtStart
SPECIFICATION FairSpec
INVARIANTS
  SymmetricLinks
  ClosedIsUnreachable
  HandlerFollowsInbox
PROPERTIES
  CallsReturn
CHECK_DEADLOCK FALSE
