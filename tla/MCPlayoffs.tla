----------------------------- MODULE MCPlayoffs -----------------------------
(***************************************************************************)
(* Playoffs on brackets that module Bracket builds.                        *)
(***************************************************************************)
EXTENDS Playoffs, TLC

CONSTANTS t1, t2, t3, t4, t5

\* Qualifiers in seed order.
FourTeams == <<t1, t2, t3, t4>>          \* two semifinals and a final
FiveTeams == <<t1, t2, t3, t4, t5>>      \* three byes, three rounds

\* TLC evaluates a definition without parameters once, but one that a
\* configuration substitutes for a constant at each use: hence two of each.
Bracket4 == buildBracket(FourTeams) @@ <<>>
Bracket5 == buildBracket(FiveTeams) @@ <<>>
Sides4 == SidesOf(FourTeams)
Sides5 == SidesOf(FiveTeams)

Built4 == Bracket4
Built5 == Bracket5
Side4 == Sides4
Side5 == Sides5

ClientSymmetry == Permutations(Clients)

=============================================================================
