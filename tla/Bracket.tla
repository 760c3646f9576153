------------------------------- MODULE Bracket -------------------------------
(***************************************************************************)
(* How GeneratePlayoffs lays out the single-elimination bracket            *)
(* (internal/service/playoffs.go, buildBracket and seedPositions).  The    *)
(* operators are pure: they take the qualifiers in seed order (seed 1      *)
(* first) and give every match of the bracket with its two slots, the      *)
(* match its winner feeds, and the results the byes produce at once.       *)
(*                                                                         *)
(* A match is named by its Round (1 is the first round) and MatchNumber    *)
(* (counted from 0); the code names it by a fresh UUID.                    *)
(***************************************************************************)
EXTENDS Naturals, Sequences

CONSTANTS
  NoTeam,   \* a nil TeamAID, TeamBID or WinnerTeamID
  NoMatch   \* a nil NextMatchID

Slots == {"a", "b"}

\* Number of rounds: the smallest power of two that holds q seeds.
Rounds(q) == CHOOSE r \in 0..q : 2^r >= q /\ \A s \in 0..(r - 1) : 2^s < q

\* A mutant: the seeds of a match do not add up to n + 1.
MirrorShort(n, s) == n - s

\* The seed that meets seed s when the field is n.
Mirror(n, s) == n + 1 - s

\* Seeds by first-round position, in a bracket of 2^k: seeds s and
\* 2^k + 1 - s meet, and every halving of the bracket keeps that rule.
seedPositions[k \in Nat] ==
  IF k = 0
  THEN <<1>>
  ELSE LET half == seedPositions[k - 1]
           n == 2 * Len(half)
       IN  [i \in 1..n |-> IF i % 2 = 1 THEN half[(i + 1) \div 2]
                                        ELSE Mirror(n, half[i \div 2])]

MatchIds(q) ==
  UNION {{<<r, m>> : m \in 0..(2^(Rounds(q) - r) - 1)} : r \in 1..Rounds(q)}

\* NextMatchID and NextSlot of a match; the final feeds no match.
NextOf(id, q) == IF id[1] = Rounds(q) THEN NoMatch ELSE <<id[1] + 1, id[2] \div 2>>

\* A mutant: the slots are swapped.
SlotSwapped(id, q) == CASE id[1] = Rounds(q) -> "none"
                        [] id[2] % 2 = 1     -> "a"
                        [] OTHER             -> "b"

SlotOf(id, q) == CASE id[1] = Rounds(q) -> "none"
                   [] id[2] % 2 = 0     -> "a"
                   [] OTHER             -> "b"

\* A mutant: neighbours in the seeding meet.
FirstRoundInOrder(qualifiers, m) ==
  LET team(s) == IF s > Len(qualifiers) THEN NoTeam ELSE qualifiers[s]
  IN  [a |-> team(2 * m + 1), b |-> team(2 * m + 2)]

\* The two teams the seeding puts into first-round match m.
FirstRoundTeams(qualifiers, m) ==
  LET q == Len(qualifiers)
      seeds == seedPositions[Rounds(q)]
      teamForSeed(s) == IF s > q THEN NoTeam ELSE qualifiers[s]
  IN  [a |-> teamForSeed(seeds[2 * m + 1]), b |-> teamForSeed(seeds[2 * m + 2])]

\* The team that advances from first-round match m without playing.
ByeWinner(qualifiers, m) ==
  LET teams == FirstRoundTeams(qualifiers, m)
  IN  CASE teams.b = NoTeam -> teams.a
        [] teams.a = NoTeam -> teams.b
        [] OTHER            -> NoTeam

\* A mutant: a bye is not carried into the second round.
SlotsForgetByes(qualifiers, id) ==
  IF id[1] = 1 THEN FirstRoundTeams(qualifiers, id[2]) ELSE [a |-> NoTeam, b |-> NoTeam]

\* The slots of a match when the bracket is created.
SlotsAtCreation(qualifiers, id) ==
  CASE id[1] = 1 -> FirstRoundTeams(qualifiers, id[2])
    [] id[1] = 2 -> [a |-> ByeWinner(qualifiers, 2 * id[2]),
                     b |-> ByeWinner(qualifiers, 2 * id[2] + 1)]
    [] OTHER     -> [a |-> NoTeam, b |-> NoTeam]

buildBracket(qualifiers) ==
  LET q == Len(qualifiers)
  IN  [id \in MatchIds(q) |->
        LET slots == SlotsAtCreation(qualifiers, id)
            winner == IF id[1] = 1 THEN ByeWinner(qualifiers, id[2]) ELSE NoTeam
        IN  [round  |-> id[1],
             next   |-> NextOf(id, q),
             slot   |-> SlotOf(id, q),
             a      |-> slots.a,
             b      |-> slots.b,
             winner |-> winner,
             done   |-> winner # NoTeam]]

-----------------------------------------------------------------------------
(***************************************************************************)
(* Reference notions, stated without the code's construction.              *)
(***************************************************************************)

\* First-round matches below a slot of a match.
FirstRoundBelow(id, slot, q) ==
  LET entry == 2 * id[2] + (IF slot = "b" THEN 1 ELSE 0)
  IN  {m \in 0..(2^(Rounds(q) - 1) - 1) : id[1] > 1 /\ m \div 2^(id[1] - 2) = entry}

\* The teams that may come to occupy a slot, whatever the results.
TeamsBelow(qualifiers, id, slot) ==
  (IF id[1] = 1
   THEN {FirstRoundTeams(qualifiers, id[2])[slot]}
   ELSE UNION {{FirstRoundTeams(qualifiers, m).a, FirstRoundTeams(qualifiers, m).b} :
                 m \in FirstRoundBelow(id, slot, Len(qualifiers))}) \ {NoTeam}

\* The round in which two different seeds meet if both keep winning: the
\* round of the one match that has them below its two slots.
MeetingRound(qualifiers, s1, s2) ==
  CHOOSE r \in 1..Rounds(Len(qualifiers)) :
    \E id \in MatchIds(Len(qualifiers)) :
      /\ id[1] = r
      /\ \/ /\ qualifiers[s1] \in TeamsBelow(qualifiers, id, "a")
            /\ qualifiers[s2] \in TeamsBelow(qualifiers, id, "b")
         \/ /\ qualifiers[s2] \in TeamsBelow(qualifiers, id, "a")
            /\ qualifiers[s1] \in TeamsBelow(qualifiers, id, "b")

SidesOf(qualifiers) ==
  [id \in MatchIds(Len(qualifiers)) |->
     [slot \in Slots |-> TeamsBelow(qualifiers, id, slot)]]

\* The teams that may reach the slots of a bracket: those of one round have
\* none in common, and all that may reach a match may reach the slot its
\* winner takes; a match is over at creation if it has a winner.
IsSided(built, side) ==
  /\ \A m \in DOMAIN built :
       /\ built[m].next \in DOMAIN built \cup {NoMatch}
       /\ built[m].next # NoMatch =>
            /\ built[m].slot \in Slots
            /\ \A s \in Slots : side[m][s] \subseteq side[built[m].next][built[m].slot]
       /\ built[m].a \in side[m]["a"] \cup {NoTeam}
       /\ built[m].b \in side[m]["b"] \cup {NoTeam}
       /\ built[m].winner \in {built[m].a, built[m].b, NoTeam}
       /\ built[m].done \in BOOLEAN
       /\ built[m].done <=> built[m].winner # NoTeam
  /\ \A m, n \in DOMAIN built : built[m].round = built[n].round =>
       \A s, u \in Slots : <<m, s>> # <<n, u>> => side[m][s] \cap side[n][u] = {}

\* A tree: rounds go up, every slot behind the first round has one match that
\* feeds it, which fills it from the start if and only if it is a bye; the
\* first round is complete but for its byes.
IsTree(built) ==
  /\ \A m \in DOMAIN built :
       /\ built[m].round \in Nat \ {0}
       /\ built[m].next # NoMatch =>
            /\ built[built[m].next].round = built[m].round + 1
            /\ built[built[m].next][built[m].slot] = built[m].winner
       /\ built[m].round > 1 =>
            \A s \in Slots : \E f \in DOMAIN built : built[f].next = m /\ built[f].slot = s
       /\ built[m].done => built[m].round = 1 /\ built[m].next # NoMatch
       /\ built[m].round = 1 => (built[m].done <=> built[m].a = NoTeam \/ built[m].b = NoTeam)
  /\ \A f, g \in DOMAIN built :
       built[f].next = built[g].next /\ (built[f].next # NoMatch => built[f].slot = built[g].slot) => f = g

=============================================================================
