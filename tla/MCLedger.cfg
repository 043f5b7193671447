\* Deadlock is not checked: when the revision counter is exhausted every
\* operation is refused, and a ledger whose scopes are registered stops.
SPECIFICATION LedgerSpec
CONSTANTS
  w1 = w1
  s1 = s1
  s2 = s2
  e1 = e1
  e2 = e2
  t1 = t1
  t2 = t2
  Worktrees = {w1}
  Scopes = {s1, s2}
  EventIds = {e1, e2}
  Trees = {t1, t2}
  Actors = {"ClaudeCode", "Codex"}
  MaxRevision = 5
SYMMETRY MCSymmetry
CHECK_DEADLOCK FALSE
INVARIANTS
  LedgerTypeOK
  EvidenceIsCursorMovement
  CursorMovesAreRecorded
  PositiveEvidenceHasOneLiveSet
  RecoveryPrecedesTrust
  ConfirmedAtClose
  DeliveryCountsOnce
PROPERTIES
  ScopeLifeIsOneWay
