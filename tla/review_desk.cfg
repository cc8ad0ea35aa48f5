SPECIFICATION FairSpec
CONSTANTS
  Cases = {x1, x2}
  Shapes <- Deviations
  Reviewers = {r1, r2}
  Leavers = {r2}
  LeaseTicks = 2
  NoOne = NoOne
INVARIANTS TypeOK QueueMatchesCases RiskyIsNeverAutomated
PROPERTIES AssignedHolderDecides UrgentFirst QueuedIsTaken
CHECK_DEADLOCK FALSE
