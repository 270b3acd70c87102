SPECIFICATION Spec
CONSTANTS
  Sessions = {p1, p2}
  Tool = tool
  MaxRows = 3
SYMMETRY SessionSymmetry
INVARIANTS TypeOK OneSystemPerDetection SystemIsLinked DismissedIsSuppressed
