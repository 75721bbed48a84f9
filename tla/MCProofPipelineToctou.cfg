SPECIFICATION Spec
CONSTANTS
  Bytecodes = {b1, b2}
  Provers = {p1}
  Generators = {g1}
  Absent = Absent
  Torn = Torn
  ConcurrentRepin = TRUE
  MaxFaults = 0
SYMMETRY Symmetry
INVARIANTS ProvenIsPinned
