SPECIFICATION AdapterSpec
CONSTANTS
  main = main
  agent = agent
  h1 = h1
  h2 = h2
  Tools = {main, agent}
  Cleanups <- MCCleanups
  Kinds = {"PreToolUse", "PostToolUse", "PermissionDenied", "Cleanup", "Repair"}
  Hooks = {h1, h2}
  MaxSeq = 2
SYMMETRY MCSymmetry
INVARIANTS
  AdapterTypeOK
  AbandonmentIsBarred
  AbandonIsWrittenAhead
  ActiveAttemptWasStarted
  LiveScopeIsTracked
PROPERTIES
  ScopeIdIsNew
  DecisionIsFinal
