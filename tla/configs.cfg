SPECIFICATION Spec
CONSTANTS
  Clients = {c1, c2}
  Agents = {1, 2}
  Envs = {e1}
  Sessions = {s1}
  Namespaces = {n1, n2}
  Labels = {"name"}
  Behaviour = {"model"}
  Values = {v1, v2}
  PageSize = 1
  MaxVersion = 2
  MaxCalls = 4
SYMMETRY Symmetry
INVARIANTS LatestIsNewest WalkIsComplete
PROPERTIES BehaviourIsPinned EditsAdd CreatesAgree
CHECK_DEADLOCK FALSE
