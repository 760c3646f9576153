------------------------------- MODULE MCDraw -------------------------------
(***************************************************************************)
(* Draw, and the bracket layout of module Bracket against what a seeded    *)
(* single-elimination bracket must be: for every field that is drawn, the  *)
(* layout for its teams in some order of the seeds.                        *)
(***************************************************************************)
EXTENDS Draw

size == Len(teams)
Field == [i \in 1..size |-> i]   \* a team is named by its seed
Built == buildBracket(Field)
Laid == Drawn /\ size >= 2
Entries == {<<<<1, m>>, slot>> : m \in 0..(2^(Rounds(size) - 1) - 1), slot \in {"a", "b"}}

\* Team a wins by two, or team b by one.
TwoResults == {<<2, 0>>, <<1, 2>>}

-----------------------------------------------------------------------------
\* Every qualifier stands in exactly one first-round slot (playoffs.go, the
\* fill of the first round from seedPositions); no first-round match is empty,
\* and byes go to the best seeds: the seeds that advance unplayed are exactly
\* the first 2^rounds - size.
EveryTeamEntersOnce ==
  Laid =>
    /\ \A t \in 1..size : Cardinality({x \in Entries : Built[x[1]][x[2]] = t}) = 1
    /\ \A x \in Entries : Built[x[1]].a # NoTeam \/ Built[x[1]].b # NoTeam
    /\ {Built[id].winner : id \in {x \in DOMAIN Built : Built[x].done}} = 1..(2^Rounds(size) - size)

\* Every later slot has exactly one match feeding it, of the round before, and
\* it is filled at creation exactly when that match is a bye, with the team that
\* had the bye; there is one final: no match of the bracket can be left waiting
\* for a team that never comes.
EverySlotIsFed ==
  Laid =>
    LET built == Built
    IN  /\ \A id \in DOMAIN built, slot \in {"a", "b"} : id[1] > 1 =>
            LET feeders == {x \in DOMAIN built : built[x].next = id /\ built[x].slot = slot}
            IN  /\ Cardinality(feeders) = 1
                /\ \A x \in feeders : built[id][slot] = built[x].winner /\ built[id].round = built[x].round + 1
        /\ Cardinality({id \in DOMAIN built : built[id].next = NoMatch /\ ~built[id].done}) = 1
        /\ \A id \in DOMAIN built : built[id].done => id[1] = 1 /\ built[id].next # NoMatch

\* Good seeds are kept apart: two of the best 2^k seeds cannot meet before
\* the round in which 2^k teams are left; seeds 1 and 2 meet in the final.
TopSeedsMeetLate ==
  Laid => \A s1, s2 \in 1..size : s1 < s2 =>
    MeetingRound(Field, s1, s2) >= Rounds(size) - Rounds(s2) + 1

\* What module Playoffs assumes of a bracket holds of every built one: the
\* teams below the slots of one round are disjoint, the teams below a match are
\* among those below the slot its winner takes, and the matches are a tree.
SidesAreDisjointAndNested ==
  Laid => LET built == Built IN IsSided(built, SidesOf(Field)) /\ IsTree(built)

=============================================================================
