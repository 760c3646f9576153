-------------------------------- MODULE Draw --------------------------------
(***************************************************************************)
(* From the teams to the bracket: GenerateGroups, the results of the group *)
(* stage and GeneratePlayoffs put together from modules Schedule,          *)
(* Standings and Bracket.  One organiser calls them in turn and no call    *)
(* fails; what happens otherwise is the matter of module Lifecycle.        *)
(***************************************************************************)
EXTENDS Schedule, Standings, Bracket

CONSTANTS
  Fields,   \* the numbers of teams to draw
  Played,   \* those of them whose matches are played
  Results   \* the scores <<team a's, team b's>> that are recorded

ASSUME DrawAssumption ==
  /\ Fields \subseteq Nat \ {0} /\ Played \subseteq Fields
  /\ Results \subseteq Nat \X Nat /\ \A r \in Results : r[1] # r[2]
  /\ NoTeam \notin Nat /\ NoMatch \notin Nat \X Nat /\ ByeMarker \notin Nat

VARIABLES
  teams,      \* the shuffled teams
  matches,    \* the group matches
  qualifiers  \* the teams by seed, once the bracket is made

vars == <<teams, matches, qualifiers>>

Scheduled(m) == [group |-> m.group, round |-> m.round, game |-> m.game, a |-> m.a, b |-> m.b,
                 sa |-> 0, sb |-> 0, winner |-> NoTeam, done |-> FALSE]

\* GenerateGroups has dealt the teams and stored the matches.
Init ==
  /\ teams \in {[i \in 1..n |-> i] : n \in Fields}
  /\ LET schedule == scheduleGroupMatches(teams)
     IN  matches = [i \in DOMAIN schedule |-> Scheduled(schedule[i])]
  /\ qualifiers = <<>>

RecordResult(i, r) ==
  /\ Len(teams) \in Played
  /\ ~matches[i].done
  /\ matches' = [matches EXCEPT ![i].sa = r[1], ![i].sb = r[2], ![i].done = TRUE,
                                ![i].winner = IF r[1] > r[2] THEN matches[i].a ELSE matches[i].b]
  /\ UNCHANGED <<teams, qualifiers>>

\* Group results are locked once the bracket exists.
RollbackResult(i) ==
  /\ matches[i].done /\ qualifiers = <<>>
  /\ matches' = [matches EXCEPT ![i] = Scheduled(@)]
  /\ UNCHANGED <<teams, qualifiers>>

Groups == groupedTeams(teams)
standings == computeStandings(Groups, matches)
Rows == UNION {standings[g] : g \in DOMAIN Groups}

GeneratePlayoffs ==
  /\ qualifiers = <<>> /\ Len(teams) >= 2
  /\ \A i \in DOMAIN matches : matches[i].done
  /\ qualifiers' \in seedQualifiers(Rows)
  /\ UNCHANGED <<teams, matches>>

Next ==
  \/ \E i \in DOMAIN matches : RollbackResult(i) \/ \E r \in Results : RecordResult(i, r)
  \/ GeneratePlayoffs

Spec == Init /\ [][Next]_vars

-----------------------------------------------------------------------------
(***************************************************************************)
(* Properties of the schedule, of every field when it is drawn.            *)
(***************************************************************************)

Drawn == qualifiers = <<>> /\ \A i \in DOMAIN matches : ~matches[i].done

InRound(r) == {i \in DOMAIN matches : matches[i].round = r}
RoundsPlayed == {matches[i].round : i \in DOMAIN matches}

\* Every team is in one group; two teams of a group meet in exactly one
\* match and others in none; and no team plays twice in a round (the circle
\* method with its bye marker, groups.go:154).
RoundRobin ==
  Drawn =>
    /\ \A t \in DOMAIN teams :
         Cardinality({x \in (DOMAIN Groups) \X (1..teamsPerGroup) :
                        x[2] \in DOMAIN Groups[x[1]] /\ Groups[x[1]][x[2]] = t}) = 1
    /\ \A s, t \in DOMAIN teams : s < t =>
         Cardinality({i \in DOMAIN matches : {matches[i].a, matches[i].b} = {s, t}})
           = IF \E g \in DOMAIN Groups : {s, t} \subseteq {Groups[g][j] : j \in DOMAIN Groups[g]}
             THEN 1 ELSE 0
    /\ \A i, j \in DOMAIN matches : i # j /\ matches[i].round = matches[j].round =>
         {matches[i].a, matches[i].b} \cap {matches[j].a, matches[j].b} = {}

\* No round asks for more of a station than there are ("the group round-robin
\* is packed into rounds that respect the available stations", README.md:16),
\* as long as it has no more matches than there are stations; a round that
\* has more leaves none of them free.
StationsRespected ==
  Drawn => \A r \in RoundsPlayed :
    IF Cardinality(InRound(r)) <= 6
    THEN \A i \in DOMAIN groupGames : roundUsage(matches, r, groupGames[i]) <= gameCapacity[groupGames[i]]
    ELSE free(matches, r) = {}

-----------------------------------------------------------------------------
(***************************************************************************)
(* Properties of the standings, in the middle of the group stage too.      *)
(***************************************************************************)

\* The standings, computed from the scores, agree with the winners that were
\* recorded, match by match; every completed match is one win and one loss
\* for its group, and no point is made but against somebody
\* (standings.go:70, match_service.go:82).
StandingsBalance ==
  \A g \in DOMAIN Groups :
    LET rows == standings[g]
        completed == Completed(matches, g)
    IN  /\ \A x \in rows : x.wins = Cardinality({i \in completed : matches[i].winner = x.team})
        /\ SumFunction([x \in rows |-> x.wins]) = Cardinality(completed)
        /\ SumFunction([x \in rows |-> x.losses]) = Cardinality(completed)
        /\ SumFunction([x \in rows |-> x.pointDiff]) = 0

\* The standings of a group can be listed in their order: a team is not
\* ahead of one that is, over others, ahead of it (standings.go:95).
StandingsCanBeListed == \A g \in DOMAIN Groups : sortStandings(standings[g]) # {}

\* Byes are earned: a team that advances unplayed has won no less than any
\* team that has to play in the first round.
ByesAreEarned ==
  qualifiers # <<>> =>
    LET built == buildBracket(qualifiers)
        wins(t) == (CHOOSE x \in Rows : x.team = t).wins
    IN  \A id, other \in DOMAIN built :
          built[id].done /\ built[other].round = 1 /\ ~built[other].done =>
            \A t \in {built[other].a, built[other].b} : wins(built[id].winner) >= wins(t)

=============================================================================
