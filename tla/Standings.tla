----------------------------- MODULE Standings -----------------------------
(***************************************************************************)
(* What the results of the group stage are worth: computeStandings and     *)
(* sortStandings (internal/service/standings.go), seedQualifiers           *)
(* (internal/service/playoffs.go).  A match is a record with its group, its *)
(* teams a and b, its scores sa and sb, and done.                          *)
(***************************************************************************)
EXTENDS Integers, Sequences, FiniteSets, Functions

\* The completed matches of a group, by index, and those of one of its teams.
Completed(matches, g) == {i \in DOMAIN matches : matches[i].group = g /\ matches[i].done}
Of(matches, g, t) == {i \in Completed(matches, g) : t \in {matches[i].a, matches[i].b}}

\* A mutant: a match counts for the team that is named first.
WonByA(m, t) == t = m.a /\ m.sa >= m.sb

\* Whether t won m: what is not a win of a is one of b.
Won(m, t) == IF m.sa > m.sb THEN t = m.a ELSE t = m.b

PointsFor(m, t) == IF t = m.a THEN m.sa ELSE m.sb
PointsAgainst(m, t) == IF t = m.a THEN m.sb ELSE m.sa

\* The standing of a team of group g.
Row(matches, g, t) ==
  LET mine == Of(matches, g, t)
      wins == Cardinality({i \in mine : Won(matches[i], t)})
      for == SumFunction([i \in mine |-> PointsFor(matches[i], t)])
      against == SumFunction([i \in mine |-> PointsAgainst(matches[i], t)])
  IN  [team |-> t, played |-> Cardinality(mine), wins |-> wins, losses |-> Cardinality(mine) - wins,
       pointsFor |-> for, pointDiff |-> for - against]

\* The rows of each group.
computeStandings(groups, matches) ==
  [g \in DOMAIN groups |-> {Row(matches, g, groups[g][j]) : j \in DOMAIN groups[g]}]

\* A mutant: the point difference outweighs the wins it should break ties of.
AheadInAny(x, y) ==
  x.wins > y.wins \/ x.pointDiff > y.pointDiff \/ x.pointsFor > y.pointsFor

\* The order of the standings: by wins, then point difference, then points.
Ahead(x, y) ==
  \/ x.wins > y.wins
  \/ x.wins = y.wins /\ x.pointDiff > y.pointDiff
  \/ x.wins = y.wins /\ x.pointDiff = y.pointDiff /\ x.pointsFor > y.pointsFor

\* The lists of a group's rows that are in this order.
sortStandings(rows) ==
  {s \in [1..Cardinality(rows) -> rows] :
     \A i, j \in DOMAIN s : i < j => s[i] # s[j] /\ ~Ahead(s[j], s[i])}

\* Mutant: by points.
MostPoints(rows) == {x \in rows : \A y \in rows : x.pointsFor >= y.pointsFor}

MostWins(rows) == {x \in rows : \A y \in rows : x.wins >= y.wins}

\* The seedings of the rows of all groups: by wins, equal ones in any order.
seedQualifiers(rows) ==
  LET seedings[rest \in SUBSET rows] ==
        IF rest = {} THEN {<<>>}
        ELSE UNION {{<<x.team>> \o s : s \in seedings[rest \ {x}]} : x \in MostWins(rest)}
  IN  seedings[rows]

=============================================================================
