SPECIFICATION Spec
CONSTANTS
  p = p
  q = q
  x = x
  y = y
  z = z
  k = k
  d = d
  e = e
  s = s
  Paths = {p}
  Texts = {k, d, e}
  Dashed = {d, e}
  Scopes = {s}
  Trees <- MCCommentTrees
  Targets = {{p}}
  Configs <- MCDefaults
  MaxEvents = 3
  PageSize = 2
  MaxMoves = 3
  MaxFaults = 0
INVARIANTS
  RemovedLineStaysDead
CHECK_DEADLOCK FALSE
