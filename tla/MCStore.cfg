SPECIFICATION StoreSpec
CONSTANTS
  w1 = w1
  s1 = s1
  s2 = s2
  e1 = e1
  e2 = e2
  t1 = t1
  t2 = t2
  c1 = c1
  c2 = c2
  Worktrees = {w1}
  Scopes = {s1, s2}
  EventIds = {e1, e2}
  Trees = {t1, t2}
  Actors = {"ClaudeCode"}
  Clients = {c1, c2}
  MaxRevision = 2
  Requests <- MCRequests
  MaxCasRetryAttempts = 2
SYMMETRY MCSymmetry
INVARIANTS
  ReportedHookIsSettled
  RetriesAreLostRaces
PROPERTIES
  StoreImplementsLedger
