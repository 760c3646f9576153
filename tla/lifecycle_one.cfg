SPECIFICATION MCSpec
CONSTANTS
  Clients = {c1}
  Batches = {b1, b2, b3}
  Games = {g1, g2, g3}
  None = None
  Failures = TRUE
SYMMETRY IdSymmetry
INVARIANTS
  TypeOK
  RowsFitStatusUnlessFailed
  FeedAgreesUnlessFailed
  SeedsAreFinalUnlessFailed
  SeededFromResults
  NeverStuck
PROPERTIES
  FollowsLifecycleUntilFailed
