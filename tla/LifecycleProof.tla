---------------------------- MODULE LifecycleProof ----------------------------
(***************************************************************************)
(* Safety of module Lifecycle for every number of concurrent requests, of  *)
(* group matches and of schedules, with and without failures; and in the   *)
(* second half, with a single client, the properties of MCLifecycleOne:    *)
(* what an organiser can count on who sends one request after another.     *)
(***************************************************************************)
EXTENDS MCLifecycleOne, TLAPS, FiniteSetTheorems

-----------------------------------------------------------------------------
(***************************************************************************)
(* Type correctness                                                        *)
(***************************************************************************)

LEMMA NoRowsType == NoGames \in [Games -> Outcomes] /\ NoBracket \in Bracket
BY DEF NoGames, Outcomes, NoBracket, Bracket

LEMMA IdleType == Idle \in Request
BY NoRowsType DEF Idle, Request, Steps, Outcomes, Statuses

LEMMA InitType == Init => TypeOK
BY NoRowsType, IdleType DEF Init, TypeOK, Statuses

\* A request that goes on, ends, or is left with a message to broadcast or a
\* status to write is a request again.
LEMMA RequestType ==
  ASSUME TypeOK, NEW c \in Clients
  PROVE  /\ req[c] \in Request
         /\ \A step \in Steps : Go(c, step) => req' \in [Clients -> Request]
         /\ \A r \in Request : Begin(c, r) => req' \in [Clients -> Request]
         /\ End(c) => req' \in [Clients -> Request]
         /\ \A s \in Statuses : Announce(c, s) \/ ThenStatus(c, s) => req' \in [Clients -> Request]
<1>1. req \in [Clients -> Request] /\ req[c] \in Request
  BY DEF TypeOK
<1>2. ASSUME NEW step \in Steps, Go(c, step) PROVE req' \in [Clients -> Request]
  BY <1>1, <1>2 DEF Go, Request
<1>3. ASSUME NEW r \in Request, Begin(c, r) PROVE req' \in [Clients -> Request]
  BY <1>1, <1>3 DEF Begin
<1>4. ASSUME End(c) PROVE req' \in [Clients -> Request]
  BY <1>1, <1>4, IdleType DEF End
<1>5. ASSUME NEW s \in Statuses, Announce(c, s) \/ ThenStatus(c, s)
      PROVE  req' \in [Clients -> Request]
  <2>1. \A step \in Steps : [Idle EXCEPT !.step = step, !.seen = s] \in Request
    BY IdleType DEF Request
  <2>2. "broadcast" \in Steps /\ "status" \in Steps
    BY DEF Steps
  <2> QED
    BY <1>1, <1>5, <2>1, <2>2 DEF Announce, ThenStatus
<1> QED
  BY <1>1, <1>2, <1>3, <1>4, <1>5

LEMMA NextType == TypeOK /\ [Next]_vars => TypeOK'
<1> SUFFICES ASSUME TypeOK, [Next]_vars PROVE TypeOK'
  OBVIOUS
<1> USE DEF rows
<1>1. ASSUME NEW c \in Clients, EditLoad(c) PROVE TypeOK'
  <2>1. [Idle EXCEPT !.step = "edit", !.seen = status] \in Request
    BY IdleType DEF Request, Steps, TypeOK
  <2> QED
    BY <1>1, <2>1, RequestType DEF EditLoad, TypeOK
<1>2. ASSUME NEW c \in Clients, Edit(c) PROVE TypeOK'
  <2>1. req[c].seen \in Statuses
    BY RequestType DEF Request
  <2> QED
    BY <1>2, <2>1, RequestType DEF Edit, TypeOK
<1>3. ASSUME NEW c \in Clients, GenerateTeams(c) \/ GenerateGroups(c) \/ RosterLoad(c) PROVE TypeOK'
  <2>1. \A step \in Steps : [Idle EXCEPT !.step = step] \in Request
    BY IdleType DEF Request
  <2>2. {"teams", "groups", "wipe"} \subseteq Steps
    BY DEF Steps
  <2> QED
    BY <1>3, <2>1, <2>2, RequestType DEF GenerateTeams, GenerateGroups, RosterLoad, TypeOK
<1>4. ASSUME NEW c \in Clients, CreateTeams(c) PROVE TypeOK'
  BY <1>4, RequestType DEF CreateTeams, TypeOK, Statuses
<1>5. ASSUME NEW c \in Clients, UpdateStatus(c) PROVE TypeOK'
  <2>1. req[c].seen \in Statuses
    BY RequestType DEF Request
  <2> QED
    BY <1>5, <2>1, RequestType DEF UpdateStatus, TypeOK
<1>6. ASSUME NEW c \in Clients, CreateGroupsAndAssign(c) PROVE TypeOK'
  <2>1. PICK b \in Fresh : /\ groups' = groups \cup {b}
                           /\ grouped' = b
                           /\ req' = [req EXCEPT ![c].step = "games", ![c].batch = b]
    BY <1>6 DEF CreateGroupsAndAssign
  <2>2. b \in Batches
    BY DEF Fresh
  <2>3. [req[c] EXCEPT !.step = "games", !.batch = b] \in Request
    BY <2>2, RequestType DEF Request, Steps
  <2>4. req' \in [Clients -> Request]
    BY <2>1, <2>3 DEF TypeOK
  <2> QED
    BY <1>6, <2>1, <2>2, <2>4 DEF CreateGroupsAndAssign, TypeOK
<1>7. ASSUME NEW c \in Clients, CreateGames(c) PROVE TypeOK'
  <2>1. [g \in Games |-> "pending"] \in [Games -> Outcomes]
    BY DEF Outcomes
  <2>2. games' \in [Batches -> [Games -> Outcomes]]
    BY <1>7, <2>1 DEF CreateGames, TypeOK
  <2>3. req' \in [Clients -> Request]
    BY <1>7, RequestType DEF CreateGames, Statuses
  <2> QED
    BY <1>7, <2>2, <2>3 DEF CreateGames, TypeOK
<1>8. ASSUME NEW c \in Clients, GeneratePlayoffs(c) PROVE TypeOK'
  <2>1. [Idle EXCEPT !.step = "count", !.batch = grouped] \in Request
    BY IdleType DEF Request, Steps, TypeOK
  <2> QED
    BY <1>8, <2>1, RequestType DEF GeneratePlayoffs, TypeOK
<1>9. ASSUME NEW c \in Clients, CountPending(c) PROVE TypeOK'
  BY <1>9, RequestType DEF CountPending, TypeOK, Steps
<1>10. ASSUME NEW c \in Clients, ReadResults(c) PROVE TypeOK'
  <2> DEFINE b == req[c].batch
             bracket == [exists |-> TRUE, seeds |-> games[b], played |-> FALSE]
  <2>1. CASE b = None \/ Games = {}
    BY <1>10, <2>1, RequestType DEF ReadResults, TypeOK
  <2>2. CASE ~(b = None \/ Games = {})
    <3>1. b \in Batches
      BY <2>2, RequestType DEF Request
    <3>2. bracket \in Bracket
      BY <3>1 DEF Bracket, TypeOK
    <3>3. [Idle EXCEPT !.step = "bracket", !.bracket = bracket] \in Request
      BY <3>2, IdleType DEF Request, Steps
    <3> QED
      BY <1>10, <2>2, <3>3 DEF ReadResults, TypeOK
  <2> QED
    BY <2>1, <2>2
<1>11. ASSUME NEW c \in Clients, CreateBracket(c) PROVE TypeOK'
  <2>1. req[c].bracket \in Bracket
    BY RequestType DEF Request
  <2>2. brackets' \in [Batches -> Bracket]
    BY <1>11, <2>1 DEF CreateBracket, TypeOK
  <2>3. req' \in [Clients -> Request]
    BY <1>11, RequestType DEF CreateBracket, Statuses
  <2> QED
    BY <1>11, <2>2, <2>3 DEF CreateBracket, TypeOK
<1>12. ASSUME NEW c \in Clients, ApplyRosterChange(c) PROVE TypeOK'
  <2>1. AfterWipe \in Statuses /\ "teams_generated" \in Statuses
    BY DEF AfterWipe, Statuses
  <2>2. req' \in [Clients -> Request]
    BY <1>12, <2>1, RequestType DEF ApplyRosterChange
  <2> QED
    BY <1>12, <2>1, <2>2, NoRowsType DEF ApplyRosterChange, TypeOK
<1>13. ASSUME NEW c \in Clients, SaveGame(c) PROVE TypeOK'
  <2>1. req[c].outcome \in Outcomes /\ req[c].seen \in Statuses
    BY RequestType DEF Request
  <2>2. games' \in [Batches -> [Games -> Outcomes]]
    BY <1>13, <2>1 DEF SaveGame, TypeOK
  <2>3. req' \in [Clients -> Request]
    BY <1>13, <2>1, RequestType DEF SaveGame, Steps
  <2> QED
    BY <1>13, <2>2, <2>3 DEF SaveGame, TypeOK
<1>14. ASSUME NEW c \in Clients, SaveFinal(c) PROVE TypeOK'
  <2>1. req[c].bracket \in Bracket
    BY RequestType DEF Request
  <2>2. brackets' \in [Batches -> Bracket]
    BY <1>14, <2>1 DEF SaveFinal, TypeOK
  <2>3. req' \in [Clients -> Request]
    BY <1>14, RequestType DEF SaveFinal, Steps
  <2> QED
    BY <1>14, <2>2, <2>3 DEF SaveFinal, TypeOK
<1>15. ASSUME NEW c \in Clients, Finish(c) PROVE TypeOK'
  BY <1>15, RequestType DEF Finish, TypeOK, Statuses, Steps
<1>16. ASSUME NEW c \in Clients, Reload(c) PROVE TypeOK'
  <2>1. ScoreStatus(c) \subseteq Statuses
    BY DEF ScoreStatus, TypeOK, Statuses
  <2>2. req' \in [Clients -> Request]
    BY <1>16, <2>1, RequestType DEF Reload
  <2> QED
    BY <1>16, <2>2 DEF Reload, TypeOK
<1>17. ASSUME NEW c \in Clients, CheckStatus(c) PROVE TypeOK'
  <2>1. \A step \in Steps : [req[c] EXCEPT !.step = step, !.seen = status] \in Request
    BY RequestType DEF Request, TypeOK
  <2>2. "undoFinal" \in Steps /\ "undoGame" \in Steps
    BY DEF Steps
  <2>3. req' \in [Clients -> Request]
    BY <1>17, <2>1, <2>2, RequestType DEF CheckStatus, TypeOK
  <2> QED
    BY <1>17, <2>3 DEF CheckStatus, TypeOK
<1>18. ASSUME NEW c \in Clients, SaveUndoneFinal(c) PROVE TypeOK'
  <2>1. req[c].bracket \in Bracket /\ Reopened(req[c].seen) \in Statuses
    BY RequestType DEF Request, Reopened, Statuses
  <2>2. brackets' \in [Batches -> Bracket]
    BY <1>18, <2>1 DEF SaveUndoneFinal, TypeOK
  <2>3. req' \in [Clients -> Request]
    BY <1>18, <2>1, RequestType DEF SaveUndoneFinal
  <2>4. status' \in Statuses
    BY <1>18, <2>1 DEF SaveUndoneFinal, TypeOK
  <2> QED
    BY <1>18, <2>2, <2>3, <2>4 DEF SaveUndoneFinal, TypeOK
<1>19. ASSUME NEW c \in Clients, Broadcast(c) PROVE TypeOK'
  <2>1. req[c].seen \in Statuses
    BY RequestType DEF Request
  <2> QED
    BY <1>19, <2>1, RequestType DEF Broadcast, TypeOK
<1>20. ASSUME NEW c \in Clients, Fail(c) PROVE TypeOK'
  BY <1>20, RequestType DEF Fail, TypeOK
<1>21. ASSUME NEW c \in Clients, NEW b \in Batches, RecordFinal(c, b) \/ UndoFinal(c, b)
       PROVE  TypeOK'
  <2>1. \A p \in BOOLEAN : [brackets[b] EXCEPT !.played = p] \in Bracket
    BY DEF TypeOK, Bracket
  <2>2. \A step \in Steps, bracket \in Bracket :
          [Idle EXCEPT !.step = step, !.batch = b, !.bracket = bracket] \in Request
    BY IdleType DEF Request
  <2>3. "saveFinal" \in Steps /\ "check" \in Steps
    BY DEF Steps
  <2> QED
    BY <1>21, <2>1, <2>2, <2>3, RequestType DEF RecordFinal, UndoFinal, TypeOK
<1>22. ASSUME NEW c \in Clients, NEW b \in Batches, NEW g \in Games, RecordGame(c, b, g) \/ UndoGame(c, b, g)
       PROVE  TypeOK'
  <2>1. \A step \in Steps, outcome \in Outcomes :
          [Idle EXCEPT !.step = step, !.batch = b, !.game = g, !.outcome = outcome] \in Request
    BY IdleType DEF Request
  <2>2. {"saveGame", "check"} \subseteq Steps /\ {"a", "b", "pending"} \subseteq Outcomes
    BY DEF Steps, Outcomes
  <2> QED
    BY <1>22, <2>1, <2>2, RequestType DEF RecordGame, UndoGame, TypeOK
<1>23. CASE UNCHANGED vars
  BY <1>23 DEF vars, TypeOK
<1> QED
  BY <1>1, <1>2, <1>3, <1>4, <1>5, <1>6, <1>7, <1>8, <1>9, <1>10, <1>11, <1>12, <1>13, <1>14,
     <1>15, <1>16, <1>17, <1>18, <1>19, <1>20, <1>21, <1>22, <1>23 DEF Next

\* Every column and everything a request holds has its type, in every
\* interleaving of the requests.
THEOREM TypeCorrect == Spec => []TypeOK
BY InitType, NextType, PTL DEF Spec

-----------------------------------------------------------------------------
(***************************************************************************)
(* Matches have their groups.  Deleting the groups deletes the matches in  *)
(* the same transaction, and the foreign key refuses what comes too late.  *)
(***************************************************************************)

LEMMA InitHaveGroups == Init => GamesHaveGroups
BY DEF Init, GamesHaveGroups

\* A batch of which no match is written stays as it was.
LEMMA NextHaveGroups == TypeOK /\ GamesHaveGroups /\ [Next]_vars => GamesHaveGroups'
<1> SUFFICES ASSUME TypeOK, GamesHaveGroups, [Next]_vars PROVE GamesHaveGroups'
  OBVIOUS
<1> USE DEF rows
<1>1. ASSUME UNCHANGED <<groups, grouped, games>> PROVE GamesHaveGroups'
  BY <1>1 DEF GamesHaveGroups
<1>2. ASSUME NEW c \in Clients, CreateGroupsAndAssign(c) PROVE GamesHaveGroups'
  BY <1>2 DEF CreateGroupsAndAssign, GamesHaveGroups
<1>3. ASSUME NEW c \in Clients, CreateGames(c) PROVE GamesHaveGroups'
  <2>1. CASE UNCHANGED games
    BY <1>1, <1>3, <2>1 DEF CreateGames
  <2>2. CASE games' = [games EXCEPT ![req[c].batch] = [g \in Games |-> "pending"]]
             /\ (Games = {} \/ Referenced(req[c].batch))
    <3>1. ASSUME NEW b \in Batches \ groups PROVE games'[b] = NoGames
      <4>1. CASE Games = {}
        <5>1. games'[b] = games[b] \/ games'[b] = [g \in Games |-> "pending"]
          BY <2>2 DEF TypeOK
        <5>2. [g \in Games |-> "pending"] = NoGames
          BY <4>1 DEF NoGames
        <5> QED
          BY <5>1, <5>2 DEF GamesHaveGroups
      <4>2. CASE Referenced(req[c].batch)
        BY <2>2, <4>2 DEF Referenced, GamesHaveGroups, TypeOK
      <4> QED
        BY <2>2, <4>1, <4>2
    <3> QED
      BY <1>3, <3>1 DEF CreateGames, GamesHaveGroups
  <2> QED
    BY <1>3, <2>1, <2>2 DEF CreateGames
<1>4. ASSUME NEW c \in Clients, ApplyRosterChange(c) PROVE GamesHaveGroups'
  BY <1>4 DEF ApplyRosterChange, GamesHaveGroups
<1>5. ASSUME NEW c \in Clients, SaveGame(c) PROVE GamesHaveGroups'
  BY <1>5 DEF SaveGame, Referenced, GamesHaveGroups, TypeOK
<1>6. ASSUME NEW c \in Clients,
             \/ EditLoad(c) \/ Edit(c) \/ GenerateTeams(c) \/ CreateTeams(c) \/ UpdateStatus(c)
             \/ GenerateGroups(c) \/ GeneratePlayoffs(c) \/ CountPending(c) \/ ReadResults(c)
             \/ CreateBracket(c) \/ RosterLoad(c) \/ SaveFinal(c) \/ Finish(c) \/ Reload(c)
             \/ CheckStatus(c) \/ SaveUndoneFinal(c) \/ Broadcast(c) \/ Fail(c)
      PROVE  UNCHANGED <<groups, grouped, games>>
  BY <1>6 DEF EditLoad, Edit, GenerateTeams, CreateTeams, UpdateStatus, GenerateGroups,
              GeneratePlayoffs, CountPending, ReadResults, CreateBracket, RosterLoad, SaveFinal,
              Finish, Reload, CheckStatus, SaveUndoneFinal, Broadcast, Fail
<1>7. ASSUME NEW c \in Clients, NEW b \in Batches, RecordFinal(c, b) \/ UndoFinal(c, b)
      PROVE  UNCHANGED <<groups, grouped, games>>
  BY <1>7 DEF RecordFinal, UndoFinal
<1>8. ASSUME NEW c \in Clients, NEW b \in Batches, NEW g \in Games, RecordGame(c, b, g) \/ UndoGame(c, b, g)
      PROVE  UNCHANGED <<groups, grouped, games>>
  BY <1>8 DEF RecordGame, UndoGame
<1>9. CASE UNCHANGED vars
  BY <1>1, <1>9 DEF vars
<1> QED
  BY <1>1, <1>2, <1>3, <1>4, <1>5, <1>6, <1>7, <1>8, <1>9 DEF Next

\* Whatever roster change deletes the schedule between the writes of
\* GenerateGroups, no match is left without its groups and no team refers to
\* groups that are gone.
THEOREM NoOrphanGames == Spec => []GamesHaveGroups
BY InitType, NextType, InitHaveGroups, NextHaveGroups, PTL DEF Spec

-----------------------------------------------------------------------------
(***************************************************************************)
(* The setup is left once.  In the setup there are no rows for a request   *)
(* to find, so that every status that is still to be written then is       *)
(* "teams_generated"; and no request ever holds "setup" as the status it   *)
(* will write.                                                             *)
(***************************************************************************)

InSetup ==
  /\ games = [b \in Batches |-> NoGames]
  /\ brackets = [b \in Batches |-> NoBracket]
  /\ \A c \in Clients :
       /\ req[c].step \in {"idle", "edit", "teams", "status", "broadcast"}
       /\ At(c, "status") => req[c].seen = "teams_generated"

SetupInv ==
  /\ status = "setup" => InSetup
  /\ \A c \in Clients : At(c, "status") => req[c].seen # "setup"

LEMMA InitSetup == Init => SetupInv
BY DEF Init, SetupInv, InSetup, At, Idle

\* One request takes a step and holds r then.
LEMMA SetupKept ==
  ASSUME TypeOK, SetupInv, NEW c \in Clients, NEW r, req' = [req EXCEPT ![c] = r],
         r.step = "status" => r.seen # "setup",
         status' = "setup" => /\ status = "setup"
                              /\ UNCHANGED <<games, brackets>>
                              /\ r.step \in {"idle", "edit", "teams", "status", "broadcast"}
                              /\ r.step = "status" => r.seen = "teams_generated"
  PROVE  SetupInv'
BY DEF TypeOK, SetupInv, InSetup, At

\* In the setup nobody is at another step.
LEMMA NotInSetup ==
  ASSUME SetupInv, NEW c \in Clients,
         req[c].step \notin {"idle", "edit", "teams", "status", "broadcast"}
  PROVE  status # "setup"
BY DEF SetupInv, InSetup

LEMMA NextSetup ==
  TypeOK /\ SetupInv /\ [Next]_vars
    => /\ SetupInv'
       /\ status = "setup" => status' \in {"setup", "teams_generated"}
       /\ status # "setup" => status' # "setup"
<1> DEFINE Leaves == /\ status = "setup" => status' \in {"setup", "teams_generated"}
                     /\ status # "setup" => status' # "setup"
<1> SUFFICES ASSUME TypeOK, SetupInv, [Next]_vars PROVE SetupInv' /\ Leaves
  OBVIOUS
<1> USE DEF rows
<1>1. Idle.step = "idle"
  BY DEF Idle
<1>2. ASSUME NEW c \in Clients, NEW s, Announce(c, s), status' = "setup" => UNCHANGED <<status, games, brackets>>
      PROVE  SetupInv'
  <2>1. [Idle EXCEPT !.step = "broadcast", !.seen = s].step = "broadcast"
    BY DEF Idle
  <2> QED
    BY <1>2, <2>1, SetupKept DEF Announce
<1>3. ASSUME NEW c \in Clients, NEW s, ThenStatus(c, s), s # "setup",
             status' = "setup" => UNCHANGED <<status, games, brackets>> /\ s = "teams_generated"
      PROVE  SetupInv'
  <2> DEFINE r == [Idle EXCEPT !.step = "status", !.seen = s]
  <2>1. r.step = "status" /\ r.seen = s
    BY DEF Idle
  <2>2. req' = [req EXCEPT ![c] = r]
    BY <1>3 DEF ThenStatus
  <2> HIDE DEF r
  <2> QED
    BY <1>3, <2>1, <2>2, SetupKept
<1>4. ASSUME NEW c \in Clients, End(c), status' = "setup" => UNCHANGED <<status, games, brackets>>
      PROVE  SetupInv'
  BY <1>1, <1>4, SetupKept DEF End
<1>5. ASSUME NEW c \in Clients, NEW step, Go(c, step), step # "status",
             req[c].step \notin {"idle", "edit", "teams", "status", "broadcast"}, status' # "setup"
      PROVE  SetupInv'
  <2> DEFINE r == [req[c] EXCEPT !.step = step]
  <2>1. r.step = step
    BY DEF TypeOK, Request
  <2>2. req' = [req EXCEPT ![c] = r]
    BY <1>5 DEF Go
  <2> QED
    BY <1>5, <2>1, <2>2, SetupKept
<1>6. ASSUME NEW c \in Clients, EditLoad(c) \/ GenerateTeams(c)
      PROVE  SetupInv' /\ Leaves
  <2>1. PICK r : /\ req' = [req EXCEPT ![c] = r]
                 /\ r.step \in {"edit", "teams"}
    <3>1. [Idle EXCEPT !.step = "edit", !.seen = status].step = "edit"
      BY DEF Idle
    <3>2. [Idle EXCEPT !.step = "teams"].step = "teams"
      BY DEF Idle
    <3> QED
      BY <1>6, <3>1, <3>2 DEF EditLoad, GenerateTeams, Begin
  <2> QED
    BY <1>6, <2>1, SetupKept DEF EditLoad, GenerateTeams
<1>7. ASSUME NEW c \in Clients, Edit(c)
      PROVE  SetupInv' /\ Leaves
  BY <1>2, <1>7 DEF Edit
<1>8. ASSUME NEW c \in Clients, CreateTeams(c)
      PROVE  SetupInv' /\ Leaves
  BY <1>3, <1>8 DEF CreateTeams
<1>9. ASSUME NEW c \in Clients, UpdateStatus(c)
      PROVE  SetupInv' /\ Leaves
  <2>1. status' = req[c].seen /\ req[c].seen # "setup" /\ (status = "setup" => req[c].seen = "teams_generated")
    BY <1>9 DEF UpdateStatus, SetupInv, InSetup
  <2> QED
    BY <1>2, <1>9, <2>1 DEF UpdateStatus
\* The requests that begin once there are teams.
<1>10. ASSUME NEW c \in Clients, GenerateGroups(c) \/ GeneratePlayoffs(c) \/ RosterLoad(c)
       PROVE  SetupInv' /\ Leaves
  <2>1. PICK r : /\ req' = [req EXCEPT ![c] = r]
                 /\ r.step \in {"groups", "count", "wipe"}
    <3>1. [Idle EXCEPT !.step = "groups"].step = "groups"
      BY DEF Idle
    <3>2. [Idle EXCEPT !.step = "count", !.batch = grouped].step = "count"
      BY DEF Idle
    <3>3. [Idle EXCEPT !.step = "wipe"].step = "wipe"
      BY DEF Idle
    <3> QED
      BY <1>10, <3>1, <3>2, <3>3 DEF GenerateGroups, GeneratePlayoffs, RosterLoad, Begin
  <2>2. status # "setup" /\ status' = status
    BY <1>10 DEF GenerateGroups, GeneratePlayoffs, RosterLoad, Changeable
  <2> QED
    BY <2>1, <2>2, SetupKept
<1>11. ASSUME NEW c \in Clients, CreateGroupsAndAssign(c)
       PROVE  SetupInv' /\ Leaves
  <2>1. PICK b : req' = [req EXCEPT ![c].step = "games", ![c].batch = b]
    BY <1>11 DEF CreateGroupsAndAssign
  <2>2. [req[c] EXCEPT !.step = "games", !.batch = b].step = "games"
    BY DEF TypeOK, Request
  <2>3. status # "setup" /\ status' = status
    BY <1>11, NotInSetup DEF CreateGroupsAndAssign, At
  <2> QED
    BY <2>1, <2>2, <2>3, SetupKept
<1>12. ASSUME NEW c \in Clients, CreateGames(c) \/ CreateBracket(c)
       PROVE  SetupInv' /\ Leaves
  <2>1. status # "setup" /\ status' = status
    BY <1>12, NotInSetup DEF CreateGames, CreateBracket, At
  <2> QED
    BY <1>3, <1>4, <1>12, <2>1 DEF CreateGames, CreateBracket
<1>13. ASSUME NEW c \in Clients, CountPending(c)
       PROVE  SetupInv' /\ Leaves
  <2>1. status # "setup" /\ status' = status
    BY <1>13, NotInSetup DEF CountPending, At
  <2> QED
    BY <1>4, <1>5, <1>13, <2>1 DEF CountPending, At
<1>14. ASSUME NEW c \in Clients, ReadResults(c)
       PROVE  SetupInv' /\ Leaves
  <2> DEFINE b == req[c].batch
             r == [Idle EXCEPT !.step = "bracket",
                               !.bracket = [exists |-> TRUE, seeds |-> games[b], played |-> FALSE]]
  <2>1. status # "setup" /\ status' = status
    BY <1>14, NotInSetup DEF ReadResults, At
  <2>2. r.step = "bracket"
    BY DEF Idle
  <2>3. End(c) \/ req' = [req EXCEPT ![c] = r]
    BY <1>14 DEF ReadResults
  <2> HIDE DEF r
  <2> QED
    BY <1>4, <2>1, <2>2, <2>3, SetupKept
<1>15. ASSUME NEW c \in Clients, ApplyRosterChange(c)
       PROVE  SetupInv' /\ Leaves
  <2>1. status # "setup" /\ status' # "setup"
    BY <1>15, NotInSetup DEF ApplyRosterChange, AfterWipe, At
  <2> QED
    BY <1>2, <1>15, <2>1 DEF ApplyRosterChange
<1>16. ASSUME NEW c \in Clients, SaveGame(c)
       PROVE  SetupInv' /\ Leaves
  <2>1. status # "setup" /\ status' = status
    BY <1>16, NotInSetup DEF SaveGame, At
  <2> QED
    BY <1>2, <1>4, <1>5, <1>16, <2>1 DEF SaveGame, At
<1>17. ASSUME NEW c \in Clients, SaveFinal(c) \/ Finish(c)
       PROVE  SetupInv' /\ Leaves
  <2>1. status # "setup" /\ status' # "setup"
    BY <1>17, NotInSetup DEF SaveFinal, Finish, At
  <2> QED
    BY <1>5, <1>17, <2>1 DEF SaveFinal, Finish, At
<1>18. ASSUME NEW c \in Clients, Reload(c)
       PROVE  SetupInv' /\ Leaves
  BY <1>2, <1>4, <1>18 DEF Reload
<1>19. ASSUME NEW c \in Clients, CheckStatus(c)
       PROVE  SetupInv' /\ Leaves
  <2>1. status # "setup" /\ status' = status
    BY <1>19, NotInSetup DEF CheckStatus, At
  <2>2. \A step : [req[c] EXCEPT !.step = step, !.seen = status].step = step
    BY DEF TypeOK, Request
  <2>3. CASE End(c)
    BY <1>4, <2>1, <2>3
  <2>4. CASE ~End(c)
    <3>1. PICK step \in {"undoFinal", "undoGame"} : req' = [req EXCEPT ![c].step = step, ![c].seen = status]
      BY <1>19, <2>4 DEF CheckStatus
    <3>2. req' = [req EXCEPT ![c] = [req[c] EXCEPT !.step = step, !.seen = status]]
      BY <3>1 DEF TypeOK
    <3> QED
      BY <2>1, <2>2, <3>2, SetupKept
  <2> QED
    BY <2>3, <2>4
<1>20. ASSUME NEW c \in Clients, SaveUndoneFinal(c)
       PROVE  SetupInv' /\ Leaves
  <2>1. status # "setup" /\ status' # "setup"
    BY <1>20, NotInSetup DEF SaveUndoneFinal, Reopened, At
  <2> QED
    BY <1>2, <1>20, <2>1 DEF SaveUndoneFinal
<1>21. ASSUME NEW c \in Clients, Broadcast(c) \/ Fail(c)
       PROVE  SetupInv' /\ Leaves
  BY <1>4, <1>21 DEF Broadcast, Fail
\* The requests that begin with a row they have found.
<1>22. ASSUME NEW c \in Clients, NEW b \in Batches, RecordFinal(c, b) \/ UndoFinal(c, b)
       PROVE  SetupInv' /\ Leaves
  <2>1. status # "setup" /\ status' = status
    BY <1>22 DEF RecordFinal, UndoFinal, SetupInv, InSetup, NoBracket
  <2>2. PICK r : req' = [req EXCEPT ![c] = r] /\ r.step \in {"saveFinal", "check"}
    <3>1. [Idle EXCEPT !.step = "saveFinal", !.batch = b,
                       !.bracket = [brackets[b] EXCEPT !.played = TRUE]].step = "saveFinal"
      BY DEF Idle
    <3>2. [Idle EXCEPT !.step = "check", !.batch = b,
                       !.bracket = [brackets[b] EXCEPT !.played = FALSE]].step = "check"
      BY DEF Idle
    <3> QED
      BY <1>22, <3>1, <3>2 DEF RecordFinal, UndoFinal, Begin
  <2> QED
    BY <2>1, <2>2, SetupKept
<1>23. ASSUME NEW c \in Clients, NEW b \in Batches, NEW g \in Games, RecordGame(c, b, g) \/ UndoGame(c, b, g)
       PROVE  SetupInv' /\ Leaves
  <2>1. status # "setup" /\ status' = status
    BY <1>23 DEF RecordGame, UndoGame, SetupInv, InSetup, NoGames
  <2>2. PICK r : req' = [req EXCEPT ![c] = r] /\ r.step \in {"saveGame", "check"}
    <3>1. CASE RecordGame(c, b, g)
      <4> DEFINE r(winner) == [Idle EXCEPT !.step = "saveGame", !.batch = b, !.game = g, !.outcome = winner]
      <4>1. PICK winner \in {"a", "b"} : req' = [req EXCEPT ![c] = r(winner)]
        BY <3>1 DEF RecordGame, Begin
      <4>2. r(winner).step = "saveGame"
        BY DEF Idle
      <4> QED
        BY <4>1, <4>2
    <3>2. CASE UndoGame(c, b, g)
      <4> DEFINE r == [Idle EXCEPT !.step = "check", !.batch = b, !.game = g, !.outcome = "pending"]
      <4>1. req' = [req EXCEPT ![c] = r]
        BY <3>2 DEF UndoGame, Begin
      <4>2. r.step = "check"
        BY DEF Idle
      <4> QED
        BY <4>1, <4>2
    <3> QED
      BY <1>23, <3>1, <3>2
  <2> QED
    BY <2>1, <2>2, SetupKept
<1>24. CASE UNCHANGED vars
  BY <1>24 DEF vars, SetupInv, InSetup, At
<1> QED
  BY <1>6, <1>7, <1>8, <1>9, <1>10, <1>11, <1>12, <1>13, <1>14, <1>15, <1>16, <1>17, <1>18,
     <1>19, <1>20, <1>21, <1>22, <1>23, <1>24 DEF Next

\* A tournament leaves setup by way of its teams and never returns, in every
\* interleaving of the requests that write a status.
THEOREM SetupLeftOnce == Spec => LeavesSetupOnce
<1>1. Spec => [](TypeOK /\ SetupInv)
  <2>1. Init => TypeOK /\ SetupInv
    BY InitType, InitSetup
  <2>2. TypeOK /\ SetupInv /\ [Next]_vars => TypeOK' /\ SetupInv'
    BY NextType, NextSetup
  <2> QED
    BY <2>1, <2>2, PTL DEF Spec
<1>2. TypeOK /\ SetupInv /\ [Next]_vars
        => [/\ status = "setup" => status' \in {"setup", "teams_generated"}
            /\ status # "setup" => status' # "setup"]_vars
  BY NextSetup
<1> QED
  BY <1>1, <1>2, PTL DEF Spec, LeavesSetupOnce

-----------------------------------------------------------------------------
(***************************************************************************)
(* One request after another: the inductive invariants                     *)
(***************************************************************************)

Played == {"a", "b"}
Scheduled == grouped # None /\ \A g \in Games : games[grouped][g] # "none"

\* The rows of each stage, also after failed calls: a status is written after
\* the rows that go with it.
StageHasRows ==
  /\ status \in {"setup", "teams_generated"} => Brackets = {}
  /\ status \in {"group_stage", "playoffs", "finished"} => Scheduled
  /\ status \in {"playoffs", "finished"} => Brackets # {}
  /\ \A b \in Brackets, g \in Games : brackets[b].seeds[g] \in Played

\* A request about a group match, or about a final, that it has found.
AboutGame(r, outcomes) ==
  /\ r.batch \in Batches /\ r.game \in Games
  /\ games[r.batch][r.game] \in outcomes

AboutFinal(r, played) ==
  /\ r.batch \in Brackets /\ r.game = None
  /\ r.bracket = [brackets[r.batch] EXCEPT !.played = played]

\* What a request has found out still holds at its next call.
Current(r) ==
  /\ r.step = "edit" => r.seen = status
  /\ r.step = "teams" => status = "setup"
  /\ r.step = "status" =>
       \/ r.seen = "teams_generated" /\ status = "setup"
       \/ r.seen = "group_stage" /\ status = "teams_generated" /\ Scheduled
       \/ r.seen = "playoffs" /\ status = "group_stage" /\ Brackets # {}
  /\ r.step = "groups" => status = "teams_generated"
  /\ r.step = "games" => status = "teams_generated" /\ r.batch = grouped /\ grouped # None
  /\ r.step \in {"count", "results"} => status = "group_stage" /\ r.batch = grouped
  /\ r.step = "results" => ~Pending
  /\ r.step = "bracket" =>
       /\ status = "group_stage" /\ r.bracket.exists /\ ~r.bracket.played
       /\ \A g \in Games : r.bracket.seeds[g] \in Played
  /\ r.step = "wipe" => Changeable
  /\ r.step = "saveGame" => AboutGame(r, {"pending"}) /\ r.outcome \in Played
  /\ r.step = "undoGame" => AboutGame(r, Played) /\ r.outcome = "pending"
  /\ r.step = "undoGame" => status = "group_stage" /\ r.seen = status
  /\ r.step = "saveFinal" => AboutFinal(r, TRUE) /\ ~brackets[r.batch].played
  /\ r.step = "undoFinal" => AboutFinal(r, FALSE) /\ r.seen = status
  /\ r.step = "check" => \/ AboutGame(r, Played) /\ r.outcome = "pending"
                         \/ AboutFinal(r, FALSE)
  /\ r.step = "finish" => Brackets # {}

LoneInv == StageHasRows /\ \A c \in Clients : Current(req[c])

\* The rows are those of stage s and no others.
Fits(s) ==
  /\ s \in {"setup", "teams_generated"} => groups = {} /\ Brackets = {}
  /\ s \notin {"setup", "teams_generated"} => groups = {grouped} /\ Scheduled
  /\ s = "group_stage" => Brackets = {}
  /\ s \in {"playoffs", "finished"} =>
       \E b \in Batches : Brackets = {b} /\ (brackets[b].played <=> s = "finished")

Found(r) == IF r.game = None THEN r.batch \in Brackets
                             ELSE r.batch \in Batches /\ games[r.batch][r.game] # "none"

\* Until a call fails: the rows fit the status, or the one about to be written,
\* and the feed agrees, or is about to.
Tidy(r) ==
  /\ CASE r.step = "status" -> Fits(r.seen)
       [] r.step = "games"  -> groups = {grouped} /\ Brackets = {}
       [] r.step = "finish" -> status = "playoffs" /\ Fits("finished")
       [] OTHER             -> Fits(status)
  /\ CASE r.step = "reload"    -> Found(r)
       [] r.step = "broadcast" -> r.seen = status
       [] OTHER                -> feed = status
  /\ r.step = "finish" => r.game = None /\ r.batch \in Brackets
  /\ r.step = "bracket" => r.bracket.seeds = games[grouped]

TidyInv == SeedsAreFinal /\ \A c \in Clients : Tidy(req[c])

OneInv ==
  /\ TypeOK /\ GamesHaveGroups /\ LoneInv
  /\ calls = "failed" \/ TidyInv
  /\ calls = "good" => until = status

-----------------------------------------------------------------------------
(***************************************************************************)
(* The request after each kind of step                                     *)
(***************************************************************************)

LEMMA AfterGo ==
  ASSUME TypeOK, NEW c \in Clients, NEW step, Go(c, step)
  PROVE  /\ req'[c].step = step
         /\ req'[c].batch = req[c].batch /\ req'[c].game = req[c].game
         /\ req'[c].outcome = req[c].outcome /\ req'[c].bracket = req[c].bracket
         /\ req'[c].seen = req[c].seen
BY DEF TypeOK, Go, Request

LEMMA AfterBegin ==
  ASSUME TypeOK, NEW c \in Clients, NEW r, Begin(c, r)
  PROVE  req'[c] = r
BY DEF TypeOK, Begin

LEMMA AfterEnd ==
  ASSUME TypeOK, NEW c \in Clients, End(c)
  PROVE  req'[c].step = "idle"
BY DEF TypeOK, End, Idle

LEMMA AfterAnnounce ==
  ASSUME TypeOK, NEW c \in Clients, NEW s, Announce(c, s)
  PROVE  req'[c].step = "broadcast" /\ req'[c].seen = s
BY DEF TypeOK, Announce, Idle

LEMMA AfterThenStatus ==
  ASSUME TypeOK, NEW c \in Clients, NEW s, ThenStatus(c, s)
  PROVE  req'[c].step = "status" /\ req'[c].seen = s
BY DEF TypeOK, ThenStatus, Idle

LEMMA StageKept == StageHasRows /\ UNCHANGED <<status, rows>> => StageHasRows'
BY DEF StageHasRows, Scheduled, Brackets, rows

LEMMA LoneKept ==
  ASSUME NEW c, Clients = {c}, StageHasRows', Current(req[c])'
  PROVE  LoneInv'
BY DEF LoneInv

LEMMA CurrentIdly ==
  ASSUME NEW c, req'[c].step \in {"idle", "broadcast", "reload"}
  PROVE  Current(req[c])'
BY DEF Current

LEMMA InitLone == Init => LoneInv
<1> SUFFICES ASSUME Init PROVE LoneInv
  OBVIOUS
<1>1. Brackets = {} /\ status = "setup"
  BY DEF Init, Brackets, NoBracket
<1>2. ASSUME NEW c \in Clients PROVE req[c].step = "idle"
  BY DEF Init, Idle
<1>3. ASSUME NEW c \in Clients PROVE Current(req[c])
  BY <1>2 DEF Current
<1> QED
  BY <1>1, <1>3 DEF LoneInv, StageHasRows

LEMMA NextLone ==
  ASSUME NEW c, Clients = {c}
  PROVE  TypeOK /\ GamesHaveGroups /\ LoneInv /\ [Next]_vars => LoneInv'
<1> SUFFICES ASSUME TypeOK, GamesHaveGroups, LoneInv, [Next]_vars PROVE LoneInv'
  OBVIOUS
<1>0. /\ c \in Clients /\ \A d \in Clients : d = c
      /\ req[c] \in Request /\ Current(req[c]) /\ StageHasRows
  BY DEF TypeOK, LoneInv
<1>1. CASE EditLoad(c)
  <2>1. req'[c].step = "edit" /\ req'[c].seen = status
    BY <1>0, <1>1, AfterBegin DEF EditLoad, Idle
  <2>2. Current(req[c])'
    BY <1>1, <2>1 DEF Current, EditLoad
  <2> QED
    BY <1>0, <1>1, <2>2, StageKept, LoneKept DEF EditLoad
<1>2. CASE Edit(c)
  BY <1>0, <1>2, AfterAnnounce, CurrentIdly, StageKept, LoneKept DEF Edit
<1>3. CASE GenerateTeams(c) \/ GenerateGroups(c) \/ RosterLoad(c)
  <2>1. \/ req'[c].step = "teams" /\ status = "setup"
        \/ req'[c].step = "groups" /\ status = "teams_generated"
        \/ req'[c].step = "wipe" /\ Changeable
    BY <1>0, <1>3, AfterBegin DEF GenerateTeams, GenerateGroups, RosterLoad, Idle
  <2>2. UNCHANGED <<status, rows>>
    BY <1>3 DEF GenerateTeams, GenerateGroups, RosterLoad
  <2>3. Current(req[c])'
    BY <2>1, <2>2 DEF Current, Changeable
  <2> QED
    BY <1>0, <2>2, <2>3, StageKept, LoneKept
<1>4. CASE CreateTeams(c)
  <2>1. req'[c].step = "status" /\ req'[c].seen = "teams_generated" /\ status = "setup"
    BY <1>0, <1>4, AfterThenStatus DEF CreateTeams, Current, At
  <2>2. Current(req[c])'
    BY <1>4, <2>1 DEF CreateTeams, Current
  <2> QED
    BY <1>0, <1>4, <2>2, StageKept, LoneKept DEF CreateTeams
<1>5. CASE UpdateStatus(c)
  <2>1. /\ status' = req[c].seen /\ UNCHANGED rows
        /\ \/ req[c].seen = "teams_generated" /\ status = "setup"
           \/ req[c].seen = "group_stage" /\ status = "teams_generated" /\ Scheduled
           \/ req[c].seen = "playoffs" /\ status = "group_stage" /\ Brackets # {}
    BY <1>0, <1>5 DEF UpdateStatus, Current, At
  <2>2. StageHasRows'
    BY <1>0, <2>1 DEF StageHasRows, Scheduled, Brackets, rows
  <2> QED
    BY <1>0, <1>5, <2>2, AfterAnnounce, CurrentIdly, LoneKept DEF UpdateStatus
<1>6. CASE CreateGroupsAndAssign(c)
  <2>1. PICK b \in Fresh : grouped' = b /\ req' = [req EXCEPT ![c].step = "games", ![c].batch = b]
    BY <1>6 DEF CreateGroupsAndAssign
  <2>2. b # None
    BY LifecycleAssumption DEF Fresh
  <2>3. req'[c].step = "games" /\ req'[c].batch = b
    BY <1>0, <2>1 DEF TypeOK, Request
  <2>4. status = "teams_generated" /\ UNCHANGED <<status, brackets>>
    BY <1>0, <1>6 DEF CreateGroupsAndAssign, Current, At
  <2>5. Current(req[c])'
    BY <2>1, <2>2, <2>3, <2>4 DEF Current
  <2>6. StageHasRows'
    BY <1>0, <2>4 DEF StageHasRows, Brackets
  <2> QED
    BY <1>0, <2>5, <2>6, LoneKept
<1>7. CASE CreateGames(c)
  <2>1. status = "teams_generated" /\ req[c].batch = grouped /\ grouped # None
    BY <1>0, <1>7 DEF CreateGames, Current, At
  <2>2. UNCHANGED <<status, groups, grouped, brackets>>
    BY <1>7 DEF CreateGames
  <2>3. StageHasRows'
    BY <1>0, <2>1, <2>2 DEF StageHasRows, Brackets
  <2>4. CASE End(c)
    BY <1>0, <2>3, <2>4, AfterEnd, CurrentIdly, LoneKept
  <2>5. CASE /\ games' = [games EXCEPT ![req[c].batch] = [g \in Games |-> "pending"]]
             /\ ThenStatus(c, "group_stage")
    <3>1. grouped \in Batches
      BY <2>1 DEF TypeOK
    <3>2. \A g \in Games : games'[grouped][g] = "pending"
      BY <2>1, <2>5, <3>1 DEF TypeOK
    <3>3. Current(req[c])'
      BY <1>0, <2>1, <2>2, <2>5, <3>2, AfterThenStatus DEF Current, Scheduled
    <3> QED
      BY <1>0, <2>3, <3>3, LoneKept
  <2> QED
    BY <1>7, <2>4, <2>5 DEF CreateGames
<1>8. CASE GeneratePlayoffs(c)
  <2>1. req'[c].step = "count" /\ req'[c].batch = grouped
    BY <1>0, <1>8, AfterBegin DEF GeneratePlayoffs, Idle
  <2>2. Current(req[c])'
    BY <1>8, <2>1 DEF GeneratePlayoffs, Current, rows
  <2> QED
    BY <1>0, <1>8, <2>2, StageKept, LoneKept DEF GeneratePlayoffs
<1>9. CASE CountPending(c)
  <2>1. status = "group_stage" /\ req[c].batch = grouped /\ UNCHANGED <<status, rows>>
    BY <1>0, <1>9 DEF CountPending, Current, At
  <2>2. CASE End(c)
    BY <1>0, <2>1, <2>2, AfterEnd, CurrentIdly, StageKept, LoneKept
  <2>3. CASE ~Pending /\ Go(c, "results")
    <3>1. ~Pending'
      BY <2>1, <2>3 DEF Pending, PendingGames, rows
    <3>2. req'[c].step = "results" /\ req'[c].batch = req[c].batch
      BY <1>0, <2>3, AfterGo
    <3>3. Current(req[c])'
      BY <2>1, <3>1, <3>2 DEF Current, rows
    <3> QED
      BY <1>0, <2>1, <3>3, StageKept, LoneKept
  <2> QED
    BY <1>9, <2>2, <2>3 DEF CountPending
<1>10. CASE ReadResults(c)
  <2> DEFINE b == req[c].batch
             bracket == [exists |-> TRUE, seeds |-> games[b], played |-> FALSE]
  <2>1. /\ status = "group_stage" /\ b = grouped /\ ~Pending /\ Scheduled
        /\ UNCHANGED <<status, rows>>
    BY <1>0, <1>10 DEF ReadResults, Current, At, StageHasRows
  <2>2. CASE End(c)
    BY <1>0, <2>1, <2>2, AfterEnd, CurrentIdly, StageKept, LoneKept
  <2>3. CASE req' = [req EXCEPT ![c] = [Idle EXCEPT !.step = "bracket", !.bracket = bracket]]
    <3>1. b \in Batches
      BY <2>1 DEF Scheduled, TypeOK
    <3>2. ASSUME NEW g \in Games PROVE games[b][g] \in Played
      <4>1. games[b][g] \in Outcomes /\ games[b][g] # "none"
        BY <2>1, <3>1 DEF Scheduled, TypeOK
      <4>2. <<b, g>> \in Batches \X Games /\ <<b, g>>[1] = b /\ <<b, g>>[2] = g
        BY <3>1
      <4>3. games[b][g] # "pending"
        BY <2>1, <4>2 DEF Pending, PendingGames
      <4> QED
        BY <4>1, <4>3 DEF Outcomes, Played
    <3>3. req'[c].step = "bracket" /\ req'[c].bracket = bracket
      BY <1>0, <2>3 DEF TypeOK, Idle
    <3>4. Current(req[c])'
      BY <2>1, <3>2, <3>3 DEF Current
    <3> QED
      BY <1>0, <2>1, <3>4, StageKept, LoneKept
  <2> QED
    BY <1>10, <2>2, <2>3 DEF ReadResults
<1>11. CASE CreateBracket(c)
  <2>1. /\ status = "group_stage" /\ req[c].bracket.exists
        /\ \A g \in Games : req[c].bracket.seeds[g] \in Played
        /\ UNCHANGED <<status, groups, grouped, games>>
    BY <1>0, <1>11 DEF CreateBracket, Current, At
  <2>2. PICK b \in Fresh : brackets' = [brackets EXCEPT ![b] = req[c].bracket]
    BY <1>11 DEF CreateBracket
  <2>3. b \in Brackets'
    BY <2>1, <2>2 DEF Fresh, Brackets, TypeOK
  <2>4. StageHasRows'
    BY <1>0, <2>1, <2>2, <2>3 DEF StageHasRows, Scheduled, Brackets, TypeOK
  <2>5. Current(req[c])'
    BY <1>0, <1>11, <2>1, <2>3, AfterThenStatus DEF CreateBracket, Current
  <2> QED
    BY <1>0, <2>4, <2>5, LoneKept
<1>12. CASE ApplyRosterChange(c)
  <2>1. StageHasRows'
    BY <1>12 DEF ApplyRosterChange, AfterWipe, StageHasRows, Brackets, NoBracket
  <2> QED
    BY <1>0, <1>12, <2>1, AfterAnnounce, CurrentIdly, LoneKept DEF ApplyRosterChange
<1>13. CASE SaveGame(c)
  <2> DEFINE b == req[c].batch
             g == req[c].game
  <2>1. b \in Batches /\ g \in Games /\ req[c].outcome # "none"
    BY <1>0, <1>13 DEF SaveGame, Current, At, AboutGame, Played
  <2>2. games' = games \/ games' = [games EXCEPT ![b][g] = req[c].outcome]
    BY <1>13 DEF SaveGame
  <2>3. ASSUME NEW x \in Batches, NEW y \in Games, games[x][y] # "none" PROVE games'[x][y] # "none"
    BY <2>1, <2>2, <2>3 DEF TypeOK
  <2>4. StageHasRows'
    BY <1>0, <1>13, <2>3 DEF SaveGame, StageHasRows, Scheduled, Brackets, TypeOK
  <2>5. req'[c].step \in {"idle", "broadcast", "reload"}
    BY <1>0, <1>13, AfterEnd, AfterAnnounce, AfterGo DEF SaveGame
  <2> QED
    BY <1>0, <2>4, <2>5, CurrentIdly, LoneKept
<1>14. CASE SaveFinal(c)
  <2> DEFINE b == req[c].batch
  <2>1. b \in Brackets /\ req[c].bracket = [brackets[b] EXCEPT !.played = TRUE]
    BY <1>0, <1>14 DEF SaveFinal, Current, At, AboutFinal
  <2>2. /\ brackets' = [brackets EXCEPT ![b] = req[c].bracket]
        /\ UNCHANGED <<status, groups, grouped, games>>
    BY <1>14 DEF SaveFinal
  <2>3. /\ Brackets' = Brackets
        /\ \A x \in Brackets : brackets'[x].seeds = brackets[x].seeds
    BY <2>1, <2>2 DEF Brackets, TypeOK, Bracket
  <2>4. StageHasRows'
    BY <1>0, <2>2, <2>3 DEF StageHasRows, Scheduled
  <2>5. req'[c].step = "finish"
    BY <1>0, <1>14, AfterGo DEF SaveFinal
  <2>6. Current(req[c])'
    BY <2>1, <2>3, <2>5 DEF Current
  <2> QED
    BY <1>0, <2>4, <2>6, LoneKept
<1>15. CASE Finish(c)
  <2>1. Brackets # {} /\ status' = "finished" /\ UNCHANGED rows
    BY <1>0, <1>15 DEF Finish, Current, At
  <2>2. Scheduled
    BY <1>0, <2>1 DEF StageHasRows, TypeOK, Statuses
  <2>3. StageHasRows'
    BY <1>0, <2>1, <2>2 DEF StageHasRows, Scheduled, Brackets, rows
  <2> QED
    BY <1>0, <1>15, <2>3, AfterGo, CurrentIdly, LoneKept DEF Finish
<1>16. CASE Reload(c)
  <2>1. req'[c].step \in {"idle", "broadcast"}
    BY <1>0, <1>16, AfterEnd, AfterAnnounce DEF Reload
  <2> QED
    BY <1>0, <1>16, <2>1, CurrentIdly, StageKept, LoneKept DEF Reload
<1>17. CASE CheckStatus(c)
  <2>1. UNCHANGED <<status, rows>>
    BY <1>17 DEF CheckStatus
  <2>2. \/ AboutGame(req[c], Played) /\ req[c].outcome = "pending"
        \/ AboutFinal(req[c], FALSE)
    BY <1>0, <1>17 DEF CheckStatus, Current, At
  <2>3. CASE End(c)
    BY <1>0, <2>1, <2>3, AfterEnd, CurrentIdly, StageKept, LoneKept
  <2>4. CASE /\ req[c].game = None
             /\ req' = [req EXCEPT ![c].step = "undoFinal", ![c].seen = status]
    <3>1. AboutFinal(req[c], FALSE)
      BY <2>2, <2>4, LifecycleAssumption DEF AboutGame
    <3>2. /\ req'[c].step = "undoFinal" /\ req'[c].seen = status
          /\ req'[c].batch = req[c].batch /\ req'[c].game = req[c].game
          /\ req'[c].bracket = req[c].bracket
      BY <1>0, <2>4 DEF TypeOK, Request
    <3>3. Current(req[c])'
      BY <2>1, <3>1, <3>2 DEF Current, AboutFinal, Brackets, rows
    <3> QED
      BY <1>0, <2>1, <3>3, StageKept, LoneKept
  <2>5. CASE /\ req[c].game # None /\ ~Locked
             /\ req' = [req EXCEPT ![c].step = "undoGame", ![c].seen = status]
    <3>1. AboutGame(req[c], Played) /\ req[c].outcome = "pending"
      BY <2>2, <2>5 DEF AboutFinal
    <3>2. /\ req'[c].step = "undoGame" /\ req'[c].seen = status
          /\ req'[c].batch = req[c].batch /\ req'[c].game = req[c].game
          /\ req'[c].outcome = req[c].outcome
      BY <1>0, <2>5 DEF TypeOK, Request
    <3>3. Current(req[c])'
      BY <2>1, <2>5, <3>1, <3>2 DEF Current, AboutGame, Locked, rows
    <3> QED
      BY <1>0, <2>1, <3>3, StageKept, LoneKept
  <2> QED
    BY <1>17, <2>3, <2>4, <2>5 DEF CheckStatus
<1>18. CASE SaveUndoneFinal(c)
  <2> DEFINE b == req[c].batch
  <2>1. /\ b \in Brackets /\ req[c].bracket = [brackets[b] EXCEPT !.played = FALSE]
        /\ req[c].seen = status
    BY <1>0, <1>18 DEF SaveUndoneFinal, Current, At, AboutFinal
  <2>2. /\ brackets' = [brackets EXCEPT ![b] = req[c].bracket]
        /\ UNCHANGED <<groups, grouped, games>>
        /\ status' = Reopened(status)
    BY <1>18, <2>1 DEF SaveUndoneFinal
  <2>3. /\ Brackets' = Brackets
        /\ \A x \in Brackets : brackets'[x].seeds = brackets[x].seeds
    BY <2>1, <2>2 DEF Brackets, TypeOK, Bracket
  <2>4. StageHasRows'
    BY <1>0, <2>2, <2>3 DEF StageHasRows, Scheduled, Reopened
  <2> QED
    BY <1>0, <1>18, <2>4, AfterAnnounce, CurrentIdly, LoneKept DEF SaveUndoneFinal
<1>19. CASE Broadcast(c) \/ Fail(c)
  BY <1>0, <1>19, AfterEnd, CurrentIdly, StageKept, LoneKept DEF Broadcast, Fail
<1>20. ASSUME NEW b \in Batches, RecordFinal(c, b) \/ UndoFinal(c, b)
       PROVE  LoneInv'
  <2>1. b \in Brackets /\ UNCHANGED <<status, rows>>
    BY <1>20 DEF RecordFinal, UndoFinal, Brackets
  <2>2. \/ /\ req'[c].step = "saveFinal" /\ req'[c].batch = b /\ req'[c].game = None
           /\ req'[c].bracket = [brackets[b] EXCEPT !.played = TRUE]
           /\ ~brackets[b].played
        \/ /\ req'[c].step = "check" /\ req'[c].batch = b /\ req'[c].game = None
           /\ req'[c].bracket = [brackets[b] EXCEPT !.played = FALSE]
    <3>1. CASE RecordFinal(c, b)
      <4>1. req'[c] = [Idle EXCEPT !.step = "saveFinal", !.batch = b,
                                   !.bracket = [brackets[b] EXCEPT !.played = TRUE]]
        BY <1>0, <3>1, AfterBegin DEF RecordFinal
      <4> QED
        BY <3>1, <4>1 DEF Idle, RecordFinal
    <3>2. CASE UndoFinal(c, b)
      <4>1. req'[c] = [Idle EXCEPT !.step = "check", !.batch = b,
                                   !.bracket = [brackets[b] EXCEPT !.played = FALSE]]
        BY <1>0, <3>2, AfterBegin DEF UndoFinal
      <4> QED
        BY <4>1 DEF Idle
    <3> QED
      BY <1>20, <3>1, <3>2
  <2>3. Current(req[c])'
    BY <2>1, <2>2 DEF Current, AboutFinal, Brackets, rows
  <2> QED
    BY <1>0, <2>1, <2>3, StageKept, LoneKept
<1>21. ASSUME NEW b \in Batches, NEW g \in Games, RecordGame(c, b, g) \/ UndoGame(c, b, g)
       PROVE  LoneInv'
  <2>1. UNCHANGED <<status, rows>>
    BY <1>21 DEF RecordGame, UndoGame
  <2>2. CASE RecordGame(c, b, g)
    <3> DEFINE r(winner) == [Idle EXCEPT !.step = "saveGame", !.batch = b, !.game = g, !.outcome = winner]
    <3>1. PICK winner \in {"a", "b"} : req'[c] = r(winner)
      BY <1>0, <2>2, AfterBegin DEF RecordGame
    <3>2. /\ req'[c].step = "saveGame" /\ req'[c].batch = b /\ req'[c].game = g
          /\ req'[c].outcome = winner
      BY <3>1 DEF Idle
    <3>3. Current(req[c])'
      BY <2>1, <2>2, <3>2 DEF RecordGame, Current, AboutGame, Played, rows
    <3> QED
      BY <1>0, <2>1, <3>3, StageKept, LoneKept
  <2>3. CASE UndoGame(c, b, g)
    <3>1. /\ req'[c].step = "check" /\ req'[c].batch = b /\ req'[c].game = g
          /\ req'[c].outcome = "pending"
      BY <1>0, <2>3, AfterBegin DEF UndoGame, Idle
    <3>2. Current(req[c])'
      BY <2>1, <2>3, <3>1 DEF UndoGame, Current, AboutGame, Played, rows
    <3> QED
      BY <1>0, <2>1, <3>2, StageKept, LoneKept
  <2> QED
    BY <1>21, <2>2, <2>3
<1>22. CASE UNCHANGED vars
  <2>1. Current(req[c])'
    BY <1>0, <1>22
       DEF vars, rows, Current, AboutGame, AboutFinal, Scheduled, Brackets, Pending, PendingGames, Changeable
  <2> QED
    BY <1>0, <1>22, <2>1, StageKept, LoneKept DEF vars
<1> QED
  BY <1>0, <1>1, <1>2, <1>3, <1>4, <1>5, <1>6, <1>7, <1>8, <1>9, <1>10, <1>11, <1>12, <1>13,
     <1>14, <1>15, <1>16, <1>17, <1>18, <1>19, <1>20, <1>21, <1>22 DEF Next

-----------------------------------------------------------------------------
(***************************************************************************)
(* Until a call fails, and again once the roster has changed               *)
(***************************************************************************)

LEMMA FitsKept == Fits(status) /\ UNCHANGED <<status, rows>> => Fits(status)'
BY DEF Fits, Scheduled, Brackets, rows

LEMMA SeedsKept == SeedsAreFinal /\ UNCHANGED rows => SeedsAreFinal'
BY DEF SeedsAreFinal, Brackets, rows

LEMMA TidyMade ==
  ASSUME NEW c, Clients = {c}, SeedsAreFinal', Tidy(req[c])'
  PROVE  TidyInv'
BY DEF TidyInv

\* A step that writes nothing leads to a step of which nothing more is asked.
LEMMA TidyKept ==
  ASSUME NEW c, Clients = {c}, SeedsAreFinal, Fits(status), feed = status,
         UNCHANGED <<status, rows, feed>>,
         req'[c].step \notin {"status", "games", "finish", "reload", "bracket"},
         req'[c].step = "broadcast" => req'[c].seen = status
  PROVE  TidyInv'
<1>1. Fits(status)' /\ SeedsAreFinal'
  BY FitsKept, SeedsKept
<1>2. Tidy(req[c])'
  BY <1>1 DEF Tidy
<1> QED
  BY <1>1, <1>2, TidyMade

LEMMA WipeTidies ==
  ASSUME NEW c, Clients = {c}, TypeOK, ApplyRosterChange(c)
  PROVE  TidyInv'
<1>1. status' = "teams_generated" /\ groups' = {} /\ Brackets' = {}
  BY DEF ApplyRosterChange, AfterWipe, Brackets, NoBracket
<1>2. req'[c].step = "broadcast" /\ req'[c].seen = "teams_generated"
  BY AfterAnnounce DEF ApplyRosterChange
<1>3. SeedsAreFinal' /\ Tidy(req[c])'
  BY <1>1, <1>2 DEF SeedsAreFinal, Tidy, Fits
<1> QED
  BY <1>3, TidyMade

\* A group match that is in a schedule is in the only one there is.
LEMMA OnlySchedule ==
  ASSUME GamesHaveGroups, Fits(status), NEW b \in Batches, NEW g \in Games, games[b][g] # "none"
  PROVE  b = grouped /\ b \in groups /\ status \notin {"setup", "teams_generated"}
BY DEF GamesHaveGroups, Fits, NoGames

\* So is the bracket.
LEMMA OnlyBracket ==
  ASSUME TypeOK, Fits(status), NEW b \in Brackets
  PROVE  /\ Brackets = {b} /\ status \in {"playoffs", "finished"}
         /\ brackets[b].played <=> status = "finished"
         /\ groups = {grouped} /\ Scheduled
BY DEF Fits, TypeOK, Statuses

LEMMA NextTidy ==
  ASSUME NEW c, Clients = {c}
  PROVE  TypeOK /\ GamesHaveGroups /\ LoneInv /\ LoneInv' /\ TidyInv /\ Next /\ ~CallFails
           => TidyInv' /\ (status' = status \/ status' \in PromisedUntil!Following(status))
<1> DEFINE Moves == status' = status \/ status' \in PromisedUntil!Following(status)
<1> SUFFICES ASSUME TypeOK, GamesHaveGroups, LoneInv, LoneInv', TidyInv, Next, ~CallFails
             PROVE  TidyInv' /\ Moves
  OBVIOUS
<1>0. /\ c \in Clients /\ \A d \in Clients : d = c
      /\ req[c] \in Request /\ Current(req[c]) /\ StageHasRows /\ StageHasRows'
      /\ Tidy(req[c]) /\ SeedsAreFinal
  BY DEF TypeOK, LoneInv, TidyInv
\* Where most steps begin.
<1>1. ASSUME req[c].step \notin {"status", "games", "finish", "reload", "broadcast"}
      PROVE  Fits(status) /\ feed = status
  BY <1>0, <1>1 DEF Tidy
<1>2. CASE EditLoad(c) \/ GenerateTeams(c) \/ GenerateGroups(c) \/ RosterLoad(c) \/ GeneratePlayoffs(c)
  <2>1. req'[c].step \in {"edit", "teams", "groups", "wipe", "count"} /\ At(c, "idle")
    BY <1>0, <1>2, AfterBegin
       DEF EditLoad, GenerateTeams, GenerateGroups, RosterLoad, GeneratePlayoffs, Begin, Idle
  <2>2. UNCHANGED <<status, rows, feed>>
    BY <1>2 DEF EditLoad, GenerateTeams, GenerateGroups, RosterLoad, GeneratePlayoffs
  <2> QED
    BY <1>0, <1>1, <2>1, <2>2, TidyKept DEF At
<1>3. CASE Edit(c)
  <2>1. req[c].seen = status /\ req[c].step = "edit"
    BY <1>0, <1>3 DEF Edit, Current, At
  <2> QED
    BY <1>0, <1>1, <1>3, <2>1, AfterAnnounce, TidyKept DEF Edit
<1>4. CASE CreateTeams(c)
  <2>1. /\ status = "setup" /\ Fits(status) /\ feed = status
        /\ UNCHANGED <<status, rows, feed>>
        /\ req'[c].step = "status" /\ req'[c].seen = "teams_generated"
    BY <1>0, <1>1, <1>4, AfterThenStatus DEF CreateTeams, Current, At
  <2>2. Tidy(req[c])'
    BY <2>1 DEF Tidy, Fits, Brackets, rows
  <2> QED
    BY <1>0, <2>1, <2>2, SeedsKept, TidyMade
<1>5. CASE UpdateStatus(c)
  <2>1. /\ status' = req[c].seen /\ Fits(req[c].seen) /\ UNCHANGED rows
        /\ req'[c].step = "broadcast" /\ req'[c].seen = status'
    BY <1>0, <1>5, AfterAnnounce DEF UpdateStatus, Tidy, At
  <2>2. Fits(status)'
    BY <2>1 DEF Fits, Scheduled, Brackets, rows
  <2>3. Tidy(req[c])'
    BY <2>1, <2>2 DEF Tidy
  <2>4. Moves
    BY <1>0, <1>5, <2>1 DEF UpdateStatus, Current, At, PromisedUntil!Following
  <2> QED
    BY <1>0, <2>1, <2>3, <2>4, SeedsKept, TidyMade
<1>6. CASE CreateGroupsAndAssign(c)
  <2>1. PICK b \in Fresh : /\ groups' = groups \cup {b} /\ grouped' = b
                           /\ req' = [req EXCEPT ![c].step = "games", ![c].batch = b]
    BY <1>6 DEF CreateGroupsAndAssign
  <2>2. /\ status = "teams_generated" /\ groups = {} /\ Brackets = {} /\ feed = status
        /\ UNCHANGED <<status, brackets, feed>>
    BY <1>0, <1>1, <1>6 DEF CreateGroupsAndAssign, Current, At, Fits
  <2>3. req'[c].step = "games"
    BY <1>0, <2>1 DEF TypeOK, Request
  <2>4. groups' = {grouped'} /\ Brackets' = {}
    BY <2>1, <2>2 DEF Brackets
  <2>5. Tidy(req[c])' /\ SeedsAreFinal'
    BY <2>2, <2>3, <2>4 DEF Tidy, SeedsAreFinal
  <2> QED
    BY <1>0, <2>2, <2>5, TidyMade
<1>7. CASE CreateGames(c)
  <2>1. /\ groups = {grouped} /\ Brackets = {} /\ feed = status
        /\ req[c].batch = grouped /\ UNCHANGED <<status, groups, grouped, brackets, feed>>
    BY <1>0, <1>7 DEF CreateGames, Current, Tidy, At
  <2>2. ThenStatus(c, "group_stage")
    BY <1>7, <2>1 DEF CreateGames, Referenced
  <2>3. req'[c].step = "status" /\ req'[c].seen = "group_stage" /\ Brackets' = {}
    BY <1>0, <2>1, <2>2, AfterThenStatus DEF Brackets
  <2>4. Scheduled'
    BY <1>0, <2>3 DEF LoneInv, Current
  <2>5. Tidy(req[c])' /\ SeedsAreFinal'
    BY <2>1, <2>3, <2>4 DEF Tidy, Fits, SeedsAreFinal
  <2> QED
    BY <1>0, <2>1, <2>5, TidyMade
<1>8. CASE CountPending(c)
  <2>1. req'[c].step \in {"idle", "results"} /\ req[c].step = "count"
    BY <1>0, <1>8, AfterEnd, AfterGo DEF CountPending, At
  <2> QED
    BY <1>0, <1>1, <1>8, <2>1, TidyKept DEF CountPending
<1>9. CASE ReadResults(c)
  <2> DEFINE b == req[c].batch
             bracket == [exists |-> TRUE, seeds |-> games[b], played |-> FALSE]
  <2>1. /\ req[c].step = "results" /\ b = grouped /\ UNCHANGED <<status, rows, feed>>
        /\ Fits(status) /\ feed = status
    BY <1>0, <1>1, <1>9 DEF ReadResults, Current, At
  <2>2. CASE End(c)
    BY <1>0, <2>1, <2>2, AfterEnd, TidyKept
  <2>3. CASE req' = [req EXCEPT ![c] = [Idle EXCEPT !.step = "bracket", !.bracket = bracket]]
    <3>1. req'[c].step = "bracket" /\ req'[c].bracket = bracket
      BY <1>0, <2>3 DEF TypeOK, Idle
    <3>2. req'[c].bracket.seeds = games'[grouped']
      BY <2>1, <3>1 DEF rows
    <3>3. Tidy(req[c])'
      BY <2>1, <3>1, <3>2, FitsKept DEF Tidy
    <3> QED
      BY <1>0, <2>1, <3>3, SeedsKept, TidyMade
  <2> QED
    BY <1>9, <2>2, <2>3 DEF ReadResults
<1>10. CASE CreateBracket(c)
  <2>1. /\ req[c].step = "bracket" /\ status = "group_stage" /\ Fits(status) /\ feed = status
        /\ req[c].bracket.exists /\ ~req[c].bracket.played /\ req[c].bracket.seeds = games[grouped]
        /\ UNCHANGED <<status, groups, grouped, games, feed>>
        /\ groups = {grouped} /\ Scheduled /\ Brackets = {}
    BY <1>0, <1>1, <1>10 DEF CreateBracket, Current, Tidy, At, Fits
  <2>2. PICK b \in Fresh : brackets' = [brackets EXCEPT ![b] = req[c].bracket]
    BY <1>10 DEF CreateBracket
  <2>3. b \in Batches /\ Brackets' = {b} /\ brackets'[b] = req[c].bracket
    BY <2>1, <2>2 DEF Fresh, Brackets, TypeOK
  <2>4. SeedsAreFinal'
    BY <2>1, <2>3 DEF SeedsAreFinal, Scheduled
  <2>5. req'[c].step = "status" /\ req'[c].seen = "playoffs"
    BY <1>0, <1>10, AfterThenStatus DEF CreateBracket
  <2>6. Scheduled'
    BY <2>1 DEF Scheduled
  <2>7. Tidy(req[c])'
    BY <2>1, <2>3, <2>5, <2>6 DEF Tidy, Fits
  <2> QED
    BY <1>0, <2>1, <2>4, <2>7, TidyMade
<1>11. CASE ApplyRosterChange(c)
  <2>1. status \in {"teams_generated", "group_stage", "playoffs"} /\ status' = "teams_generated"
    BY <1>0, <1>11 DEF ApplyRosterChange, AfterWipe, Current, Changeable, At, TypeOK, Statuses
  <2>2. Moves
    BY <2>1 DEF PromisedUntil!Following
  <2> QED
    BY <1>11, <2>2, WipeTidies
<1>12. CASE SaveGame(c)
  <2> DEFINE b == req[c].batch
             g == req[c].game
  <2>1. /\ req[c].step \in {"saveGame", "undoGame"} /\ Fits(status) /\ feed = status
        /\ b \in Batches /\ g \in Games /\ games[b][g] # "none" /\ req[c].outcome # "none"
        /\ req[c].step = "saveGame" => games[b][g] = "pending"
        /\ req[c].step = "undoGame" => status = "group_stage" /\ req[c].seen = status
    BY <1>0, <1>1, <1>12 DEF SaveGame, Current, At, AboutGame, Played
  <2>2. b = grouped /\ b \in groups /\ status \notin {"setup", "teams_generated"}
    BY <2>1, OnlySchedule
  <2>3. Brackets = {}
    <3>1. CASE req[c].step = "undoGame"
      BY <2>1, <3>1 DEF Fits
    <3>2. CASE req[c].step = "saveGame"
      <4> SUFFICES ASSUME NEW x \in Brackets PROVE FALSE
        OBVIOUS
      <4>1. brackets[x].seeds = games[b] /\ brackets[x].seeds[g] \in Played
        BY <1>0, <2>1, <2>2 DEF SeedsAreFinal, StageHasRows
      <4> QED
        BY <2>1, <3>2, <4>1 DEF Played
    <3> QED
      BY <2>1, <3>1, <3>2
  <2>4. /\ games' = [games EXCEPT ![b][g] = req[c].outcome]
        /\ IF req[c].step = "undoGame" THEN Announce(c, status) ELSE Go(c, "reload")
        /\ UNCHANGED <<status, groups, grouped, brackets, feed>>
    BY <1>12, <2>1, <2>2 DEF SaveGame, Referenced, At
  <2>5. games'[b][g] # "none"
    BY <2>1, <2>4 DEF TypeOK
  <2>6. Brackets' = {} /\ SeedsAreFinal'
    BY <2>3, <2>4 DEF Brackets, SeedsAreFinal
  <2>7. Fits(status)'
    <3>1. status = "group_stage" /\ groups = {grouped}
      BY <2>1, <2>2, <2>3 DEF Fits, TypeOK, Statuses
    <3>2. Scheduled'
      BY <1>0, <2>4, <3>1 DEF StageHasRows
    <3> QED
      BY <2>4, <2>6, <3>1, <3>2 DEF Fits
  <2>8. CASE req[c].step = "undoGame"
    <3>1. req'[c].step = "broadcast" /\ req'[c].seen = status'
      BY <1>0, <2>4, <2>8, AfterAnnounce
    <3>2. Tidy(req[c])'
      BY <2>7, <3>1 DEF Tidy
    <3> QED
      BY <2>4, <2>6, <3>2, TidyMade
  <2>9. CASE req[c].step = "saveGame"
    <3>1. req'[c].step = "reload" /\ req'[c].batch = b /\ req'[c].game = g
      BY <1>0, <2>4, <2>9, AfterGo
    <3>2. Tidy(req[c])'
      BY <2>1, <2>5, <2>7, <3>1, LifecycleAssumption DEF Tidy, Found
    <3> QED
      BY <2>4, <2>6, <3>2, TidyMade
  <2> QED
    BY <2>1, <2>8, <2>9
<1>13. CASE SaveFinal(c)
  <2> DEFINE b == req[c].batch
  <2>1. /\ req[c].step = "saveFinal" /\ Fits(status) /\ feed = status
        /\ b \in Brackets /\ req[c].game = None /\ ~brackets[b].played
        /\ req[c].bracket = [brackets[b] EXCEPT !.played = TRUE]
    BY <1>0, <1>1, <1>13 DEF SaveFinal, Current, At, AboutFinal
  <2>2. Brackets = {b} /\ status = "playoffs" /\ groups = {grouped} /\ Scheduled
    BY <2>1, OnlyBracket
  <2>3. /\ brackets' = [brackets EXCEPT ![b] = req[c].bracket]
        /\ UNCHANGED <<status, groups, grouped, games, feed>>
    BY <1>13 DEF SaveFinal
  <2>4. /\ b \in Batches /\ Brackets' = {b}
        /\ brackets'[b].seeds = brackets[b].seeds /\ brackets'[b].played
    BY <2>1, <2>2, <2>3 DEF Brackets, TypeOK, Bracket
  <2>5. SeedsAreFinal'
    BY <1>0, <2>1, <2>3, <2>4 DEF SeedsAreFinal
  <2>6. req'[c].step = "finish" /\ req'[c].batch = b /\ req'[c].game = None
    BY <1>0, <1>13, <2>1, AfterGo DEF SaveFinal
  <2>7. Scheduled'
    BY <2>2, <2>3 DEF Scheduled
  <2>8. Tidy(req[c])'
    BY <2>1, <2>2, <2>3, <2>4, <2>6, <2>7 DEF Tidy, Fits
  <2> QED
    BY <2>3, <2>5, <2>8, TidyMade
<1>14. CASE Finish(c)
  <2>1. /\ req[c].step = "finish" /\ status = "playoffs" /\ Fits("finished")
        /\ req[c].game = None /\ req[c].batch \in Brackets
        /\ status' = "finished" /\ UNCHANGED <<rows, feed>>
    BY <1>0, <1>14 DEF Finish, Tidy, At
  <2>2. req'[c].step = "reload" /\ req'[c].batch = req[c].batch /\ req'[c].game = None
    BY <1>0, <1>14, <2>1, AfterGo DEF Finish
  <2>3. Fits(status)'
    BY <2>1 DEF Fits, Scheduled, Brackets, rows
  <2>4. req'[c].batch \in Brackets'
    BY <2>1, <2>2 DEF Brackets, rows
  <2>5. Tidy(req[c])'
    BY <2>2, <2>3, <2>4 DEF Tidy, Found
  <2>6. Moves
    BY <2>1 DEF PromisedUntil!Following
  <2> QED
    BY <1>0, <2>1, <2>5, <2>6, SeedsKept, TidyMade
<1>15. CASE Reload(c)
  <2>1. req[c].step = "reload" /\ Fits(status) /\ Found(req[c]) /\ UNCHANGED <<status, rows, feed>>
    BY <1>0, <1>15 DEF Reload, Tidy, At
  <2>2. PICK s \in ScoreStatus(c) : Announce(c, s)
    BY <1>15, <2>1 DEF Reload, Found, Brackets
  <2>3. req'[c].step = "broadcast" /\ req'[c].seen = s
    BY <1>0, <2>2, AfterAnnounce
  <2>4. req'[c].seen = status
    BY <1>0, <1>15, <2>3 DEF CallFails, At
  <2>5. Tidy(req[c])'
    BY <2>1, <2>3, <2>4, FitsKept DEF Tidy
  <2> QED
    BY <1>0, <2>1, <2>5, SeedsKept, TidyMade
<1>16. CASE CheckStatus(c)
  <2>1. req[c].step = "check" /\ UNCHANGED <<status, rows, feed>>
    BY <1>16 DEF CheckStatus, At
  <2>2. CASE End(c)
    BY <1>0, <1>1, <2>1, <2>2, AfterEnd, TidyKept
  <2>3. CASE ~End(c)
    <3>1. PICK step \in {"undoFinal", "undoGame"} : req' = [req EXCEPT ![c].step = step, ![c].seen = status]
      BY <1>16, <2>3 DEF CheckStatus
    <3>2. req'[c].step = step
      BY <1>0, <3>1 DEF TypeOK, Request
    <3> QED
      BY <1>0, <1>1, <2>1, <3>2, TidyKept
  <2> QED
    BY <2>2, <2>3
<1>17. CASE SaveUndoneFinal(c)
  <2> DEFINE b == req[c].batch
  <2>1. /\ req[c].step = "undoFinal" /\ Fits(status) /\ feed = status
        /\ b \in Brackets /\ req[c].seen = status
        /\ req[c].bracket = [brackets[b] EXCEPT !.played = FALSE]
    BY <1>0, <1>1, <1>17 DEF SaveUndoneFinal, Current, At, AboutFinal
  <2>2. Brackets = {b} /\ status \in {"playoffs", "finished"} /\ groups = {grouped} /\ Scheduled
    BY <2>1, OnlyBracket
  <2>3. /\ brackets' = [brackets EXCEPT ![b] = req[c].bracket]
        /\ UNCHANGED <<groups, grouped, games, feed>>
        /\ status' = "playoffs" /\ Announce(c, "playoffs")
    BY <1>17, <2>1, <2>2 DEF SaveUndoneFinal, Reopened
  <2>4. /\ b \in Batches /\ Brackets' = {b}
        /\ brackets'[b].seeds = brackets[b].seeds /\ ~brackets'[b].played
    BY <2>1, <2>2, <2>3 DEF Brackets, TypeOK, Bracket
  <2>5. SeedsAreFinal'
    BY <1>0, <2>1, <2>3, <2>4 DEF SeedsAreFinal
  <2>6. req'[c].step = "broadcast" /\ req'[c].seen = "playoffs"
    BY <1>0, <2>3, AfterAnnounce
  <2>7. Scheduled'
    BY <2>2, <2>3 DEF Scheduled
  <2>8. Tidy(req[c])'
    BY <2>2, <2>3, <2>4, <2>6, <2>7 DEF Tidy, Fits
  <2>9. Moves
    BY <2>2, <2>3 DEF PromisedUntil!Following
  <2> QED
    BY <2>5, <2>8, <2>9, TidyMade
<1>18. CASE Broadcast(c)
  <2>1. /\ Fits(status) /\ feed' = status /\ UNCHANGED <<status, rows>>
        /\ req'[c].step = "idle"
    BY <1>0, <1>18, AfterEnd DEF Broadcast, Tidy, At
  <2>2. Tidy(req[c])'
    BY <2>1, FitsKept DEF Tidy
  <2> QED
    BY <1>0, <2>1, <2>2, SeedsKept, TidyMade
\* A request that ends by itself where a call could have failed.
<1>19. CASE Fail(c)
  BY <1>0, <1>8, <1>9, <1>16, <1>19 DEF CallFails
<1>20. ASSUME NEW b \in Batches, RecordFinal(c, b) \/ UndoFinal(c, b)
       PROVE  TidyInv' /\ Moves
  <2>1. At(c, "idle") /\ UNCHANGED <<status, rows, feed>>
    BY <1>20 DEF RecordFinal, UndoFinal, Begin
  <2>2. req'[c].step \in {"saveFinal", "check"}
    <3>1. CASE RecordFinal(c, b)
      <4>1. req'[c] = [Idle EXCEPT !.step = "saveFinal", !.batch = b,
                                   !.bracket = [brackets[b] EXCEPT !.played = TRUE]]
        BY <1>0, <3>1, AfterBegin DEF RecordFinal
      <4> QED
        BY <4>1 DEF Idle
    <3>2. CASE UndoFinal(c, b)
      <4>1. req'[c] = [Idle EXCEPT !.step = "check", !.batch = b,
                                   !.bracket = [brackets[b] EXCEPT !.played = FALSE]]
        BY <1>0, <3>2, AfterBegin DEF UndoFinal
      <4> QED
        BY <4>1 DEF Idle
    <3> QED
      BY <1>20, <3>1, <3>2
  <2> QED
    BY <1>0, <1>1, <2>1, <2>2, TidyKept DEF At
<1>21. ASSUME NEW b \in Batches, NEW g \in Games, RecordGame(c, b, g) \/ UndoGame(c, b, g)
       PROVE  TidyInv' /\ Moves
  <2>1. At(c, "idle") /\ UNCHANGED <<status, rows, feed>>
    BY <1>21 DEF RecordGame, UndoGame, Begin
  <2>2. req'[c].step \in {"saveGame", "check"}
    <3>1. CASE RecordGame(c, b, g)
      <4> DEFINE r(winner) == [Idle EXCEPT !.step = "saveGame", !.batch = b, !.game = g, !.outcome = winner]
      <4>1. PICK winner \in {"a", "b"} : req'[c] = r(winner)
        BY <1>0, <3>1, AfterBegin DEF RecordGame
      <4> QED
        BY <4>1 DEF Idle
    <3>2. CASE UndoGame(c, b, g)
      <4>1. req'[c] = [Idle EXCEPT !.step = "check", !.batch = b, !.game = g, !.outcome = "pending"]
        BY <1>0, <3>2, AfterBegin DEF UndoGame
      <4> QED
        BY <4>1 DEF Idle
    <3> QED
      BY <1>21, <3>1, <3>2
  <2> QED
    BY <1>0, <1>1, <2>1, <2>2, TidyKept DEF At
<1> QED
  BY <1>0, <1>2, <1>3, <1>4, <1>5, <1>6, <1>7, <1>8, <1>9, <1>10, <1>11, <1>12, <1>13, <1>14,
     <1>15, <1>16, <1>17, <1>18, <1>19, <1>20, <1>21 DEF Next

-----------------------------------------------------------------------------
(***************************************************************************)
(* The theorems about MCSpec                                               *)
(***************************************************************************)

mcvars == <<vars, historyVars>>

LEMMA InitOne ==
  ASSUME NEW c, Clients = {c}
  PROVE  MCInit => OneInv
<1> SUFFICES ASSUME MCInit PROVE OneInv
  OBVIOUS
<1>1. TypeOK /\ GamesHaveGroups /\ LoneInv
  BY InitType, InitHaveGroups, InitLone DEF MCInit
<1>2. Brackets = {} /\ groups = {} /\ status = "setup" /\ feed = "setup" /\ until = "setup"
  BY DEF MCInit, Init, Brackets, NoBracket
<1>3. req[c].step = "idle"
  BY DEF MCInit, Init, Idle
<1>4. TidyInv
  BY <1>2, <1>3 DEF TidyInv, SeedsAreFinal, Tidy, Fits
<1> QED
  BY <1>1, <1>2, <1>4 DEF OneInv

\* Only a change of the roster repairs what a failed call has left.
LEMMA NextOne ==
  ASSUME NEW c, Clients = {c}
  PROVE  OneInv /\ [MCNext]_mcvars
           => OneInv' /\ (until' = until \/ until' \in PromisedUntil!Following(until))
<1> SUFFICES ASSUME OneInv, [MCNext]_mcvars
             PROVE  OneInv' /\ (until' = until \/ until' \in PromisedUntil!Following(until))
  OBVIOUS
<1>1. TypeOK' /\ GamesHaveGroups' /\ LoneInv'
  <2>1. [Next]_vars
    BY DEF MCNext, mcvars
  <2> QED
    BY <2>1, NextType, NextHaveGroups, NextLone DEF OneInv
<1>2. CASE UNCHANGED mcvars
  <2>1. TidyInv => TidyInv'
    BY <1>2 DEF mcvars, vars, rows, TidyInv, SeedsAreFinal, Tidy, Fits, Found, Scheduled, Brackets
  <2> QED
    BY <1>1, <1>2, <2>1 DEF OneInv, mcvars, vars, historyVars
<1>3. CASE MCNext /\ Repaired
  <2>1. calls' = "repaired" /\ until' = until
    BY <1>3 DEF MCNext
  <2>2. TidyInv'
    BY <1>3, WipeTidies DEF Repaired, OneInv
  <2> QED
    BY <1>1, <2>1, <2>2 DEF OneInv
<1>4. CASE MCNext /\ ~Repaired /\ (CallFails \/ calls = "failed")
  <2>1. calls' = "failed" /\ until' = until
    BY <1>4 DEF MCNext
  <2> QED
    BY <1>1, <2>1 DEF OneInv
<1>5. CASE MCNext /\ ~Repaired /\ ~CallFails /\ calls # "failed"
  <2>1. calls' = calls /\ until' = (IF calls = "good" THEN status' ELSE until)
    BY <1>5 DEF MCNext
  <2>2. TidyInv' /\ (status' = status \/ status' \in PromisedUntil!Following(status))
    BY <1>1, <1>5, NextTidy DEF MCNext, OneInv
  <2> QED
    BY <1>1, <1>5, <2>1, <2>2 DEF OneInv
<1> QED
  BY <1>2, <1>3, <1>4, <1>5

LEMMA OneInvariant ==
  ASSUME NEW c, Clients = {c}
  PROVE  MCSpec => []OneInv
<1>1. MCInit => OneInv
  BY InitOne
<1>2. OneInv /\ [MCNext]_mcvars => OneInv'
  BY NextOne
<1> QED
  BY <1>1, <1>2, PTL DEF MCSpec, mcvars

\* One request after another: until a call fails, and again once the roster has
\* changed, the rows between requests are those of the status.
THEOREM RowsFit ==
  ASSUME NEW c, Clients = {c}
  PROVE  MCSpec => []RowsFitStatusUnlessFailed
<1>1. OneInv => RowsFitStatusUnlessFailed
  <2> SUFFICES ASSUME TidyInv, Quiet PROVE RowsFitStatus
    BY DEF OneInv, RowsFitStatusUnlessFailed, RowsFitStatus
  <2>1. Fits(status)
    BY DEF TidyInv, Tidy, Quiet, At
  <2>2. ASSUME NEW b \in Batches, Brackets = {b} PROVE Cardinality(Brackets) = 1
    BY <2>2, FS_Singleton
  <2> QED
    BY <2>1, <2>2 DEF Fits, Scheduled, RowsFitStatus
<1> QED
  BY <1>1, OneInvariant, PTL

\* Under the same conditions the last message broadcast carries the status.
THEOREM FeedAgrees ==
  ASSUME NEW c, Clients = {c}
  PROVE  MCSpec => []FeedAgreesUnlessFailed
<1>1. OneInv => FeedAgreesUnlessFailed
  BY DEF OneInv, FeedAgreesUnlessFailed, FeedAgreesWhenQuiet, TidyInv, Tidy, Quiet, At
<1> QED
  BY <1>1, OneInvariant, PTL

\* Under the same conditions, and at every moment, the results that a bracket
\* was seeded from are locked.
THEOREM SeedsLocked ==
  ASSUME NEW c, Clients = {c}
  PROVE  MCSpec => []SeedsAreFinalUnlessFailed
<1>1. OneInv => SeedsAreFinalUnlessFailed
  BY DEF OneInv, SeedsAreFinalUnlessFailed, TidyInv
<1> QED
  BY <1>1, OneInvariant, PTL

\* Whatever calls fail, and however often a request is sent again, a bracket is
\* seeded when every match of its groups has been played.
THEOREM SeededWhenPlayed ==
  ASSUME NEW c, Clients = {c}
  PROVE  MCSpec => []SeededFromResults
<1>1. OneInv => SeededFromResults
  BY DEF OneInv, LoneInv, StageHasRows, SeededFromResults, Played
<1> QED
  BY <1>1, OneInvariant, PTL

\* Whatever calls fail, the stage the tournament is in can be completed.
THEOREM NoDeadEnd ==
  ASSUME NEW c, Clients = {c}
  PROVE  MCSpec => []NeverStuck
<1>1. OneInv => NeverStuck
  BY DEF OneInv, LoneInv, StageHasRows, Scheduled, NeverStuck
<1> QED
  BY <1>1, OneInvariant, PTL

\* Until a call fails, the status implements the lifecycle of module Stages.
THEOREM LifecycleFollowed ==
  ASSUME NEW c, Clients = {c}
  PROVE  MCSpec => FollowsLifecycleUntilFailed
<1>1. MCInit => PromisedUntil!Init
  BY DEF MCInit, PromisedUntil!Init
<1>2. OneInv /\ [MCNext]_mcvars => [PromisedUntil!Next]_until
  BY NextOne DEF PromisedUntil!Next
<1> QED
  BY <1>1, <1>2, OneInvariant, PTL DEF MCSpec, mcvars, FollowsLifecycleUntilFailed, PromisedUntil!Spec

=============================================================================
