SPECIFICATION Spec
CONSTANTS
  Jobs = {1, 2}
  Retrieval = {2}
  MaxAttempts <- MCMaxAttempts
  Calls = {c1, c2, c3}
  Workers = {w1, w2}
  Approvers = {w1, h1}
  Desks = {d1}
  Fragile = {d1}
  LeaseTicks = 1
  None = None
SYMMETRY MCSymmetry
INVARIANTS TypeOK AttemptsUnique WriteNeedsApproval PendingCallParksJob
PROPERTIES FinishIsFenced SucceededCallIsFinal
CHECK_DEADLOCK FALSE
