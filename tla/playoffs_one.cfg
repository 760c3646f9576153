SPECIFICATION MCSpec
CONSTANTS
  Clients = {c1}
  Teams = {t1, t2, t3, t4, t5}
  NoTeam = NoTeam
  NoMatch = NoMatch
  t1 = t1  t2 = t2  t3 = t3  t4 = t4  t5 = t5
  Built <- Built5
  Side <- Side5
  Failures = TRUE
INVARIANTS
  TypeOK
  
  StatusIsTrueUnlessFailed
PROPERTIES
  IsSingleElimination
  WinnerAdvancesEventually
