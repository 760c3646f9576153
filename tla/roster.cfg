SPECIFICATION MCSpec
CONSTANTS
  Clients = {c1, c2}
  People = {p1, p2, p3, p4, p5}
  TeamIds = {g1, g2, g3}
  NoTeam = NoTeam
  Gone = Gone
  Failures = TRUE
SYMMETRY IdSymmetry
INVARIANTS
  TypeOK
  MembersHaveTeams
  RosterIsWhole
PROPERTIES
  DealtInPairs
