SPECIFICATION Spec
CONSTANTS
  Clients = {c1}
  Batches = {b1, b2}
  Games = {g1}
  None = None
  Failures = TRUE
SYMMETRY IdSymmetry
PROPERTY FollowsLifecycle
