SPECIFICATION Spec
CONSTANTS
  Aggregates = {"i1"}
  Kinds = {"issue"}
  Dispatchers = {d1}
  Consumers = {c1}
  Partitions = {1}
  PartitionOf <- MCPartitionOf
  BatchLimit = 2
  LeaseTicks = 1
  RetryTicks = 1
  MaxEvents = 2
  MaxLog = 3
  MaxFaults = 1
  None = None
SYMMETRY MCSymmetry
INVARIANTS IssueOrderKept
CHECK_DEADLOCK FALSE
