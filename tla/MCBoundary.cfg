SPECIFICATION BoundarySpec
CONSTANTS
  a = a
  b = b
  s1 = s1
  s2 = s2
  Harnesses = {"Codex", "OpenCode", "Pi"}
  Tools = {a, b}
  Sessions = {s1, s2}
  MaxStarts = 2
  MaxGeneration = 2
SYMMETRY MCSymmetry
INVARIANTS
  ImpossibleShapeIsNeverWritten
  ClearMeansSettled
  RunningToolIsTracked
PROPERTIES
  BoundaryDecisionIsFinal
