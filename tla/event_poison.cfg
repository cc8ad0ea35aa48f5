SPECIFICATION FairSpec
CONSTANTS
  Aggregates = {"i1"}
  Kinds = {"issue", "job"}
  Dispatchers = {d1}
  Consumers = {c1}
  Partitions = {1}
  PartitionOf <- MCPartitionOf
  BatchLimit = 2
  LeaseTicks = 1
  RetryTicks = 1
  MaxEvents = 2
  MaxLog = 3
  MaxFaults = 0
  None = None
PROPERTIES EventuallyProjected
CHECK_DEADLOCK FALSE
