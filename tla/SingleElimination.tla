-------------------------- MODULE SingleElimination --------------------------
(***************************************************************************)
(* What the playoffs promise: a single-elimination bracket is its results. *)
(* Who plays a match follows from the results of the matches that feed it; *)
(* a result is entered for a match whose two teams are known, and undone   *)
(* as long as the match it feeds has no result.                            *)
(***************************************************************************)
CONSTANTS
  NoTeam, NoMatch,
  Built            \* the bracket as it was created

Matches == DOMAIN Built

VARIABLE results   \* the winner of each match, or NoTeam

\* The team in a slot: the one seeded there, or the winner from below.
TeamIn(m, slot) ==
  IF Built[m].round = 1
  THEN Built[m][slot]
  ELSE results[CHOOSE f \in Matches : Built[f].next = m /\ Built[f].slot = slot]

Init == results = [m \in Matches |-> Built[m].winner]

Record(m) ==
  /\ results[m] = NoTeam
  /\ TeamIn(m, "a") # NoTeam /\ TeamIn(m, "b") # NoTeam
  /\ \E slot \in {"a", "b"} : results' = [results EXCEPT ![m] = TeamIn(m, slot)]

Undo(m) ==
  /\ results[m] # NoTeam
  /\ TeamIn(m, "a") # NoTeam /\ TeamIn(m, "b") # NoTeam
  /\ Built[m].next # NoMatch => results[Built[m].next] = NoTeam
  /\ results' = [results EXCEPT ![m] = NoTeam]

Next == \E m \in Matches : Record(m) \/ Undo(m)

Spec == Init /\ [][Next]_results

=============================================================================
