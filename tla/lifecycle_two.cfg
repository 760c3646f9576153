SPECIFICATION Spec
CONSTANTS
  Clients = {c1, c2}
  Batches = {b1, b2, b3}
  Games = {g1}
  None = None
  Failures = TRUE
SYMMETRY IdSymmetry
INVARIANTS
  GamesHaveGroups
PROPERTY
  LeavesSetupOnce
