SPECIFICATION SearchSpec
CONSTANTS
  None = None
  c1 = c1
  c2 = c2
  i1 = i1
  p1 = p1
  Issues = {i1}
  Projects = {p1}
  Keys = {k1}
  Payloads = {h1}
  Callers = {c1, c2}
  RoleOf <- AdminAndRequester
  Assignees = {a1}
  Rules <- ShortRules
  Policies <- TwoSlaPolicies
  Ahead = 0
  Horizon = 2
  MaxLog <- OneLivesLonger
  Searchers = {}
  Queries <- NoQueries
  Limit = 1
  RiskTicks = 1
INVARIANT TargetsKept
INVARIANT PauseMatchesStatus
INVARIANT SlaReadersAgree
INVARIANT HistoryIsPath
INVARIANT LogTellsVersion
PROPERTY ImplementsBook
PROPERTY StoppedVerdictStands
PROPERTY AnsweredInTimeStands
PROPERTY UpdatedAtGrows
