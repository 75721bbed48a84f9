SPECIFICATION Spec
CONSTANTS
  Bytecodes = {b1, b2}
  Provers = {p1, p2}
  Generators = {g1, g2}
  Absent = Absent
  Torn = Torn
  ConcurrentRepin = FALSE
  MaxFaults = 1
SYMMETRY Symmetry
INVARIANTS TypeOK ProvenIsPinned KeysMatchIds NeverRejectedLater
PROPERTIES ImplementsService SpuriousErrorHasACause
