SPECIFICATION Spec
CONSTANTS
  Clients = {c1}
  t1 = t1
  t2 = t2
  t3 = t3
  t4 = t4
  t5 = t5
  Teams = {t1, t2, t3, t4, t5}
  NoTeam = NoTeam
  NoMatch = NoMatch
  Built <- Built4
  Side <- Side4
  Failures = FALSE
INVARIANT WinnerAdvances
