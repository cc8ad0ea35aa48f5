SPECIFICATION FairSpec
CONSTANTS
  Aggregates = {"i1", "i2"}
  Kinds = {"issue"}
  Dispatchers = {d1}
  Consumers = {c1, c2}
  Partitions = {1, 2}
  PartitionOf <- MCPartitionOf
  BatchLimit = 2
  LeaseTicks = 1
  RetryTicks = 1
  MaxEvents = 2
  MaxLog = 4
  MaxFaults = 2
  None = None
PROPERTIES EventuallyProjected
CHECK_DEADLOCK FALSE
