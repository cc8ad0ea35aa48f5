SPECIFICATION FairSpec
CONSTANTS
  Jobs = {1, 2}
  Retrieval = {2}
  MaxAttempts <- MCMaxAttempts
  Calls = {c1, c2}
  Workers = {w1, w2}
  Approvers = {h1}
  Desks = {d1}
  Fragile = {}
  LeaseTicks = 1
  None = None
PROPERTIES CrashStrandsNoJob
CHECK_DEADLOCK FALSE
