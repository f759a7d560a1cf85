SPECIFICATION FairSpec
CONSTANTS
  p1 = p1
  c1 = c1
  c2 = c2
  r1 = r1
  n1 = n1
  n2 = n2
  NULL = NULL
  Producers <- OneProducer
  Consumers <- TwoConsumers
  Readers <- OneReader
  Nodes <- TwoNodes
  MaxReadings = 3
INVARIANTS
  ListShape
  Ownership
  FreedLeavesNothing
  DeliveredOnceInOrder
  IInv
  ReaderFaultNeedsRemoval
PROPERTIES
  ImplementsQueue
  MutexReleased
  BufferFreed
CHECK_DEADLOCK FALSE
