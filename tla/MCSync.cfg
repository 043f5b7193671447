SPECIFICATION Spec
CONSTANTS
  p = p
  q = q
  l = l
  main = main
  s = s
  t = t
  Processes = {p, q, l}
  LoginProcess = l
  Callers = {main, s, t}
  Main = main
  Streams = {s, t}
  Layouts <- MCLayouts
  MaxToken = 2
  MaxRow = 3
  BatchSize = 2
  MaxAttempts = 1
CHECK_DEADLOCK FALSE
INVARIANTS
  CompletedSyncIsCaughtUp
  StoredTokenIsLive
PROPERTIES
  ImplementsReplication
