SPECIFICATION Spec
CONSTANTS
  p = p
  q = q
  x = x
  y = y
  z = z
  k = k
  d = d
  e = e
  s = s
  Paths = {p, q}
  Texts = {x, y, z, k}
  Dashed = {}
  Scopes = {s}
  Trees <- MCTrees
  Targets = {{p, q}}
  Configs <- MCConfigs
  MaxEvents = 2
  PageSize = 1
  MaxMoves = 3
  MaxFaults = 1
INVARIANTS
  WindowIsWhole
  LineageFollowsTree
  CreditIsEarned
CHECK_DEADLOCK FALSE
