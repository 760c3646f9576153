SPECIFICATION Spec
CONSTANTS
  Clients = {c1, c2}
  t1 = t1
  t2 = t2
  t3 = t3
  t4 = t4
  t5 = t5
  Teams = {t1, t2, t3, t4, t5}
  NoTeam = NoTeam
  NoMatch = NoMatch
  Built <- Built4
  Side <- Side4
  Failures = TRUE
SYMMETRY ClientSymmetry
INVARIANTS
  NoTeamTwice
  WinnerPlayed
  NeverStuck
