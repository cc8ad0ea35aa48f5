SPECIFICATION Spec
CONSTANTS
  None = None
  Versions = {v1}
  Definitions = {d1, d2}
  Processes = {a, b}
  Projects = {ops, sec}
  ProjectKeys = {"OPS", "SEC"}
  Issues = {1, 2, 3, 4}
  OtherTypes = {"blocks"}
  MaxLinks = 4
INVARIANT TypeOK
INVARIANT Acyclic
INVARIANT FamiliesAreTrees
PROPERTY RulesStand
SYMMETRY MCSymmetry
CHECK_DEADLOCK FALSE
