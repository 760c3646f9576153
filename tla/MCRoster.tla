------------------------------ MODULE MCRoster ------------------------------
(***************************************************************************)
(* Roster on a few participants and teams.                                 *)
(***************************************************************************)
EXTENDS Roster, TLC

\* Participants and teams are fresh UUIDs: any two may be exchanged.
IdSymmetry == Permutations(People) \cup Permutations(TeamIds) \cup Permutations(Clients)

-----------------------------------------------------------------------------
(***************************************************************************)
(* A history variable: so far requests have come one after another and no  *)
(* call has failed.  The specification with two clients then covers what   *)
(* one organiser can do as well as what concurrent requests can.           *)
(***************************************************************************)
VARIABLE calm

InFlight == {c \in Clients : ~At(c, "idle")}

MCInit == Init /\ calm = TRUE

MCNext ==
  /\ Next
  /\ calm' = (calm /\ Cardinality(InFlight') <= 1 /\ ~\E c \in Clients : Fail(c) /\ ~GenerateDeal(c) /\ ~ResultSave(c))

MCSpec == MCInit /\ [][MCNext]_<<vars, calm>>

-----------------------------------------------------------------------------
(***************************************************************************)
(* What a single organiser can count on: properties while calm.            *)
(***************************************************************************)

\* Between requests, once there are teams, no addition, removal or swap has
\* left a participant aside or a team as an empty shell, and a team of one has
\* nobody to join.
RosterIsWhole ==
  calm /\ Settled =>
    /\ \A p \in Present : member[p] \in teams
    /\ \A t \in teams : /\ Members(t) # {}
                        /\ Cardinality(Members(t)) < teamSize => teams = {t}

\* The generated teams are pairs and, when the number is odd, one trio
\* (tournament_service.go:56).
DealtInPairs ==
  [][calm' /\ status = "setup" /\ status' = "teams_generated" =>
       LET size(t) == Cardinality({p \in People : member'[p] = t})
           trios == {t \in teams' : size(t) = teamSize + 1}
       IN  /\ \A t \in teams' : size(t) \in {teamSize, teamSize + 1}
           /\ Cardinality(trios) = Cardinality(Present') % teamSize]_<<vars, calm>>

=============================================================================
