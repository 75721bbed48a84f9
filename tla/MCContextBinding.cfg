SPECIFICATION Spec
CONSTANTS
  Bound = {transfer}
  Unbound = {deposit}
  Versions = {v1, v2}
  Supported = {v1}
  Builds = {n1, n2}
  Roots = {r1, r2}
  Values = {x1, x2}
  None = None
  MaxSequence = 2
  MaxResponses = 2
SYMMETRY Symmetry
CHECK_DEADLOCK FALSE
INVARIANTS TypeOK AcceptedInContext StaleIsReportedAsStale HonestProofVerifies MockMirrorsUltraHonk
