SPECIFICATION Spec
CONSTANTS
  w1 = w1
  s1 = s1
  s2 = s2
  e1 = e1
  e2 = e2
  t1 = t1
  t2 = t2
  a1 = a1
  a2 = a2
  Worktrees = {w1}
  Scopes = {s1}
  EventIds = {e1, e2}
  Trees = {t1, t2}
  Attempts = {a1, a2}
  Actors = {"ClaudeCode"}
  MaxRevision = 2
SYMMETRY MCSymmetry
PROPERTIES
  ImplementsLedger
  ExternalTaintHoldsUntilRecovery
  WinnerInvalidatesRivals
