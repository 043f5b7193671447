SPECIFICATION Spec
CONSTANTS
  p = p
  q = q
  l = l
  main = main
  s = s
  t = t
  Processes = {p, q, l}
  LoginProcess = l
  Callers = {main, s, t}
  Main = main
  Streams = {s, t}
  Layouts <- LoginAlone
  MaxToken = 2
  MaxRow = 2
  BatchSize = 2
  MaxAttempts = 1
CHECK_DEADLOCK FALSE
INVARIANTS
  RotationIsPersisted
