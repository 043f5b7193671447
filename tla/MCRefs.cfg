SPECIFICATION RefsSpec
CONSTANTS
  a = a
  b = b
  t1 = t1
  t2 = t2
  Checkouts = {a, b}
  Clones = {a, b, "shared"}
  Names = {a, b, "main"}
  Layouts <- MCLayouts
  Trees = {t1, t2}
  MaxRevision = 2
  MaxFaults = 1
SYMMETRY MCSymmetry
INVARIANTS
  RootsStayPinned
  ReportedPassIsWhole
PROPERTIES
  PruningCheckoutHasTheCursor
