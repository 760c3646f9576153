SPECIFICATION MCSpec
CONSTANTS
  Clients = {c1, c2}
  Ids = {t1, t2}
  Users = {u1, u2}
  Failures = TRUE
SYMMETRY IdSymmetry
INVARIANTS
  TypeOK
  DeletionIsLastHeard
PROPERTIES
  AnswersAreTrue
  ChangedByEntitled
  CreatedAlone
