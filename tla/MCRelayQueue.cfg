CONSTANTS
  h1 = h1
  h2 = h2
  n1 = n1
  l1 = l1
  Packets <- MCPackets
  PriorityOf <- MCPriorityOf
  MaxSize = 3
SPECIFICATION FairSpec
INVARIANTS
  TypeOK
  SortedByPriority
PROPERTIES
  OvertakenOnlyByMoreUrgent
  ImplementsPriorityBuffer
  UrgentIsServed
