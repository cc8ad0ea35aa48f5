SPECIFICATION Spec
CONSTANTS
  Aggregates = {"i1", "i2"}
  Kinds = {"issue", "job"}
  Dispatchers = {d1, d2}
  Consumers = {c1, c2}
  Partitions = {1}
  PartitionOf <- MCPartitionOf
  BatchLimit = 2
  LeaseTicks = 1
  RetryTicks = 1
  MaxEvents = 2
  MaxLog = 3
  MaxFaults = 2
  None = None
SYMMETRY MCSymmetry
INVARIANTS TypeOK PublishedIsLogged CommittedIsProjected CountedOnce
PROPERTIES OffsetsGrow ImplementsDelivery
CHECK_DEADLOCK FALSE
