SPECIFICATION FairSpec
CONSTANTS
  Bytecodes = {b1, b2}
  Provers = {p1}
  Generators = {g1}
  Absent = Absent
  Torn = Torn
  ConcurrentRepin = FALSE
  MaxFaults = 2
PROPERTIES RerunRepairs
