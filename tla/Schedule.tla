------------------------------ MODULE Schedule ------------------------------
(***************************************************************************)
(* How GenerateGroups deals the teams into groups and schedules the group  *)
(* stage (internal/service/groups.go).  The operators are pure; teams is   *)
(* the shuffled sequence of them.                                          *)
(***************************************************************************)
EXTENDS Naturals, Sequences, FiniteSets

CONSTANT ByeMarker   \* uuid.Nil among the teams of a group of odd size

teamsPerGroup == 6
groupGames == <<"Darts", "Bocce", "Cornhole">>
gameCapacity == [game \in {"Darts", "Bocce", "Cornhole"} |-> 2]

-----------------------------------------------------------------------------
numGroups(n) == IF n = 0 THEN 1 ELSE (n + teamsPerGroup - 1) \div teamsPerGroup

\* The teams of each group: team i goes to group i % numGroups.
groupedTeams(teams) ==
  LET k == numGroups(Len(teams))
      size(g) == (Len(teams) + k - g) \div k
  IN  [g \in 1..k |-> [j \in 1..size(g) |-> teams[g + (j - 1) * k]]]

\* A mutant: all of them move.
rotateAll(arr) == <<arr[Len(arr)]>> \o SubSeq(arr, 1, Len(arr) - 1)

\* All but the first element move on by one.
rotate(arr) == <<arr[1], arr[Len(arr)]>> \o SubSeq(arr, 2, Len(arr) - 1)

withBye(ids) == IF Len(ids) % 2 = 1 THEN Append(ids, ByeMarker) ELSE ids

\* What a loop over 1..n appends.
concat(n, parts) ==
  LET upto[i \in 0..n] == IF i = 0 THEN <<>> ELSE upto[i - 1] \o parts[i]
  IN  upto[n]

\* The pair in place i of a circle, unless it is a bye.
playing(arr, i) ==
  LET pair == <<arr[i], arr[Len(arr) + 1 - i]>>
  IN  IF ByeMarker \in {pair[1], pair[2]} THEN <<>> ELSE <<pair>>

\* The circle method: the rounds, each a sequence of pairs.
roundRobinMatchings(ids) ==
  LET n == Len(withBye(ids))
      circle[r \in 1..n] == IF r = 1 THEN withBye(ids) ELSE rotate(circle[r - 1])
  IN  [r \in 1..(n - 1) |-> concat(n \div 2, [i \in 1..(n \div 2) |-> playing(circle[r], i)])]

-----------------------------------------------------------------------------
\* How often a game is played in a round, and by a team so far.
roundUsage(matches, r, game) ==
  Cardinality({i \in DOMAIN matches : matches[i].round = r /\ matches[i].game = game})
gameCount(matches, team, game) ==
  Cardinality({i \in DOMAIN matches : team \in {matches[i].a, matches[i].b} /\ matches[i].game = game})

\* A mutant: the capacity is taken for the last number that is exceeded.
oneTooMany(matches, r) ==
  {i \in DOMAIN groupGames : roundUsage(matches, r, groupGames[i]) <= gameCapacity[groupGames[i]]}

\* The games with a free station.
free(matches, r) ==
  {i \in DOMAIN groupGames : roundUsage(matches, r, groupGames[i]) < gameCapacity[groupGames[i]]}

\* The first game of those the two teams have played least, the less used in
\* this round first; when no station is free, of all games.
pickGame(matches, r, a, b) ==
  LET count(i) == gameCount(matches, a, groupGames[i]) + gameCount(matches, b, groupGames[i])
      full == free(matches, r) = {}
      score(i) == IF full THEN count(i) ELSE count(i) * 100 + roundUsage(matches, r, groupGames[i])
      choices == IF full THEN DOMAIN groupGames ELSE free(matches, r)
      best == CHOOSE i \in choices : \A j \in choices :
                score(i) < score(j) \/ (score(i) = score(j) /\ i <= j)
  IN  groupGames[best]

\* The pairs in the order they are scheduled: by round, then by group.
pairings(teams) ==
  LET groups == groupedTeams(teams)
      rounds == [g \in DOMAIN groups |-> roundRobinMatchings(groups[g])]
      k == Len(groups)
      of(r, g) == IF r > Len(rounds[g]) THEN <<>>
                  ELSE [i \in DOMAIN rounds[g][r] |->
                         [group |-> g, round |-> r, a |-> rounds[g][r][i][1], b |-> rounds[g][r][i][2]]]
  IN  concat(teamsPerGroup, [r \in 1..teamsPerGroup |-> concat(k, [g \in 1..k |-> of(r, g)])])

\* The group matches with their games.
scheduleGroupMatches(teams) ==
  LET todo == pairings(teams)
      upto[i \in 0..Len(todo)] ==
        IF i = 0 THEN <<>>
        ELSE LET p == todo[i]
                 done == upto[i - 1]
             IN  Append(done, [group |-> p.group, round |-> p.round, a |-> p.a, b |-> p.b,
                               game |-> pickGame(done, p.round, p.a, p.b)])
  IN  upto[Len(todo)]

=============================================================================
