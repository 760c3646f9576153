SPECIFICATION MCSpec
CONSTANTS
  Clients = {c1}
  People = {p1, p2, p3, p4, p5}
  TeamIds = {g1, g2, g3, g4}
  NoTeam = NoTeam
  Gone = Gone
  Failures = FALSE
SYMMETRY IdSymmetry
INVARIANT OneTrioAtMost
