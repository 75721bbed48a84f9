SPECIFICATION MCSpec
CONSTANTS
  b1 = b1
  b2 = b2
  g1 = g1
  g2 = g2
  OPERATIONS <- TwoCircuits
  Builds = {b1, b2}
  HandWritten <- Edited
  NPaths = 2
  Generators = {g1, g2}
  Readers = {r1}
  Absent = absent
  Torn = torn
  MaxUpsets = 1
SYMMETRY Symmetric
CONSTRAINT Focus
INVARIANTS TypeOK LoadedAsPromised QuietCheckIsExact MismatchHasACause
