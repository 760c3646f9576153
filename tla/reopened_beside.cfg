SPECIFICATION MCSpec
CONSTANTS
  Clients = {c1}
  Ids = {t1, t2}
  Users = {u1}
  Failures = FALSE
SYMMETRY IdSymmetry
INVARIANT OneActive
