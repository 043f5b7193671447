SPECIFICATION GuardSpec
CONSTANTS
  w1 = w1
  s1 = s1
  s2 = s2
  e1 = e1
  e2 = e2
  e3 = e3
  c1 = c1
  c2 = c2
  Worktrees = {w1}
  Scopes = {s1, s2}
  EventIds = {e1, e2}
  Trees <- MCVersions
  Actors = {"ClaudeCode"}
  Clients = {c1, c2}
  Calls <- MCCalls
  Requests <- MCNoRequests
  MaxCasRetryAttempts = 2
  MaxRevision = 4
  MaxEdits = 1
  Commands = {}
SYMMETRY MCSymmetry
INVARIANTS
  LostIsCovered
  EvidenceRunsForward
  ExclusiveMeansAlone
PROPERTIES
  LostEndsInRecovery
