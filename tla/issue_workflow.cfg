SPECIFICATION SearchSpec
CONSTANTS
  None = None
  c1 = c1
  c2 = c2
  i1 = i1
  p1 = p1
  Issues = {i1, i2}
  Projects = {p1}
  Keys = {k1, k2}
  Payloads = {h1, h2}
  Callers = {c1, c2}
  RoleOf <- AgentAndRequester
  Assignees = {a1}
  Rules <- DefaultRules
  Policies <- NoPolicies
  Ahead = 0
  Horizon = 1
  MaxLog <- OneLives
  Searchers = {s1}
  Queries <- OpenOnly
  Limit = 1
  RiskTicks = 0
INVARIANT SearchTypeOK
INVARIANT IdempotentCreate
INVARIANT SequencesGapless
INVARIANT NoneListedTwice
INVARIANT UntouchedIsListed
SYMMETRY MCSymmetry
