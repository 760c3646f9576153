------------------------------ MODULE Lifecycle ------------------------------
(***************************************************************************)
(* One tournament from setup to finished: the requests that read or write  *)
(* its status, its groups, its group matches and its bracket, in           *)
(* internal/service (tournament_service.go, groups.go, playoffs.go,        *)
(* participants.go, match_service.go).                                     *)
(*                                                                         *)
(* A request makes one database call or transaction after another; each is *)
(* one action, and several of them make one change of stage.  The groups   *)
(* of one GenerateGroups are inserted together and deleted together, and   *)
(* so are their matches: a batch stands for them.  The bracket of one      *)
(* GeneratePlayoffs is represented by its final, the only match whose      *)
(* result writes the status; module Playoffs has the others, and module    *)
(* Roster what a change of the roster does to the teams.                   *)
(***************************************************************************)
EXTENDS Naturals, FiniteSets

CONSTANTS
  Clients,    \* requests that may be in flight at once
  Batches,    \* ids of generated groups and brackets (a bound)
  Games,      \* the group matches of a batch; none when there is one team
  None,       \* a NULL id
  Failures    \* database calls may fail

ASSUME LifecycleAssumption ==
  /\ None \notin Batches \cup Games
  /\ Failures \in BOOLEAN

VARIABLES
  status,    \* the tournament's status column
  groups,    \* the batches with rows in the groups table
  grouped,   \* the batch the teams' group_id refer to
  games,     \* the group matches: "none" is no row, "pending", or the winner
  brackets,  \* the brackets in the matches table
  feed,      \* the status in the last message broadcast to the room
  req        \* the requests in flight

rows == <<groups, grouped, games, brackets>>
vars == <<status, rows, feed, req>>

Statuses == {"setup", "teams_generated", "group_stage", "playoffs", "finished"}
Outcomes == {"none", "pending", "a", "b"}

\* The results a bracket was seeded from stand for its seeding.
Bracket == [exists : BOOLEAN, seeds : [Games -> Outcomes], played : BOOLEAN]
NoGames == [g \in Games |-> "none"]
NoBracket == [exists |-> FALSE, seeds |-> NoGames, played |-> FALSE]

Idle == [step |-> "idle", batch |-> None, game |-> None, outcome |-> "none",
         bracket |-> NoBracket, seen |-> "setup"]

Init ==
  /\ status = "setup"
  /\ groups = {}
  /\ grouped = None
  /\ games = [b \in Batches |-> NoGames]
  /\ brackets = [b \in Batches |-> NoBracket]
  /\ feed = "setup"
  /\ req = [c \in Clients |-> Idle]

-----------------------------------------------------------------------------
Brackets == {b \in Batches : brackets[b].exists}

\* New UUIDs: not in a table and not in a request.
Fresh == Batches \ (groups \cup Brackets \cup {req[c].batch : c \in Clients})

At(c, step) == req[c].step = step
Begin(c, request) == At(c, "idle") /\ req' = [req EXCEPT ![c] = request]
Go(c, step) == req' = [req EXCEPT ![c].step = step]
End(c) == req' = [req EXCEPT ![c] = Idle]

\* Go on to broadcast the status s.
Announce(c, s) == req' = [req EXCEPT ![c] = [Idle EXCEPT !.step = "broadcast", !.seen = s]]

\* Go on to UpdateStatus.
ThenStatus(c, s) == req' = [req EXCEPT ![c] = [Idle EXCEPT !.step = "status", !.seen = s]]

-----------------------------------------------------------------------------
(***************************************************************************)
(* UpdateTeam, UpdateParticipant, SwapPlayers, and changes of the list of  *)
(* participants in setup: they write no status and broadcast the one they  *)
(* have read.                                                              *)
(***************************************************************************)
EditLoad(c) ==
  /\ Begin(c, [Idle EXCEPT !.step = "edit", !.seen = status])
  /\ UNCHANGED <<status, rows, feed>>

Edit(c) ==
  /\ At(c, "edit")
  /\ Announce(c, req[c].seen)
  /\ UNCHANGED <<status, rows, feed>>

(***************************************************************************)
(* GenerateTeams, and UpdateStatus, the last write of the three Generates. *)
(***************************************************************************)
GenerateTeams(c) ==
  /\ status = "setup"
  /\ Begin(c, [Idle EXCEPT !.step = "teams"])
  /\ UNCHANGED <<status, rows, feed>>

CreateTeams(c) ==
  /\ At(c, "teams")
  /\ ThenStatus(c, "teams_generated")
  /\ UNCHANGED <<status, rows, feed>>

UpdateStatus(c) ==
  /\ At(c, "status")
  /\ status' = req[c].seen
  /\ Announce(c, req[c].seen)
  /\ UNCHANGED <<rows, feed>>

(***************************************************************************)
(* GenerateGroups: a transaction for the groups and the teams' group_id,   *)
(* an insert of the matches, UpdateStatus.                                 *)
(***************************************************************************)

\* A mutant: groups are generated in any stage.
GenerateGroupsAnytime(c) ==
  /\ Begin(c, [Idle EXCEPT !.step = "groups"])
  /\ UNCHANGED <<status, rows, feed>>

GenerateGroups(c) ==
  /\ status = "teams_generated"
  /\ Begin(c, [Idle EXCEPT !.step = "groups"])
  /\ UNCHANGED <<status, rows, feed>>

CreateGroupsAndAssign(c) ==
  /\ At(c, "groups")
  /\ \E b \in Fresh :
       /\ groups' = groups \cup {b}
       /\ grouped' = b
       /\ req' = [req EXCEPT ![c].step = "games", ![c].batch = b]
  /\ UNCHANGED <<status, games, brackets, feed>>

\* A mutant: the matches refer to no group.
Unreferenced(b) == TRUE

\* matches.group_id is a foreign key.
Referenced(b) == b \in groups

CreateGames(c) ==
  /\ At(c, "games")
  /\ \/ /\ Games = {} \/ Referenced(req[c].batch)
        /\ games' = [games EXCEPT ![req[c].batch] = [g \in Games |-> "pending"]]
        /\ ThenStatus(c, "group_stage")
     \/ /\ Games # {} /\ ~Referenced(req[c].batch)
        /\ End(c)
        /\ UNCHANGED games
  /\ UNCHANGED <<status, groups, grouped, brackets, feed>>

(***************************************************************************)
(* GeneratePlayoffs: the tournament with its groups, the number of group   *)
(* matches left, their results, the insert of the bracket, UpdateStatus.   *)
(***************************************************************************)
GeneratePlayoffs(c) ==
  /\ status = "group_stage"
  /\ Begin(c, [Idle EXCEPT !.step = "count", !.batch = grouped])
  /\ UNCHANGED <<status, rows, feed>>

PendingGames == {x \in Batches \X Games : games[x[1]][x[2]] = "pending"}

\* A mutant: off by one.
PendingMany == Cardinality(PendingGames) > 1

Pending == PendingGames # {}

CountPending(c) ==
  /\ At(c, "count")
  /\ IF Pending THEN End(c) ELSE Go(c, "results")
  /\ UNCHANGED <<status, rows, feed>>

\* A match counts for the groups read before; a bracket takes two teams.
ReadResults(c) ==
  /\ At(c, "results")
  /\ LET b == req[c].batch
     IN  IF b = None \/ Games = {}
         THEN End(c)
         ELSE req' = [req EXCEPT ![c] = [Idle EXCEPT
                        !.step = "bracket",
                        !.bracket = [exists |-> TRUE, seeds |-> games[b], played |-> FALSE]]]
  /\ UNCHANGED <<status, rows, feed>>

CreateBracket(c) ==
  /\ At(c, "bracket")
  /\ \E b \in Fresh : brackets' = [brackets EXCEPT ![b] = req[c].bracket]
  /\ ThenStatus(c, "playoffs")
  /\ UNCHANGED <<status, groups, grouped, games, feed>>

(***************************************************************************)
(* AddParticipant and DeleteParticipant once there are teams: one          *)
(* transaction deletes the schedule and goes back to teams_generated.      *)
(***************************************************************************)

\* A mutant: the roster of a finished tournament may change.
ChangeableAlways == status # "setup"

Changeable == status \notin {"setup", "finished"}

RosterLoad(c) ==
  /\ Changeable
  /\ Begin(c, [Idle EXCEPT !.step = "wipe"])
  /\ UNCHANGED <<status, rows, feed>>

\* A mutant: the status stays.
AfterWipeKept == status

AfterWipe == "teams_generated"

ApplyRosterChange(c) ==
  /\ At(c, "wipe")
  /\ status' = AfterWipe
  /\ groups' = {}
  /\ grouped' = None
  /\ games' = [b \in Batches |-> NoGames]
  /\ brackets' = [b \in Batches |-> NoBracket]
  /\ Announce(c, "teams_generated")
  /\ UNCHANGED feed

-----------------------------------------------------------------------------
(***************************************************************************)
(* RecordResult.  Save of a row that has been deleted inserts it again     *)
(* (gorm): a group match then refers to a deleted group, which fails, and  *)
(* a final comes back.                                                     *)
(***************************************************************************)
RecordGame(c, b, g) ==
  /\ games[b][g] = "pending"
  /\ \E winner \in {"a", "b"} :
       Begin(c, [Idle EXCEPT !.step = "saveGame", !.batch = b, !.game = g, !.outcome = winner])
  /\ UNCHANGED <<status, rows, feed>>

\* Also the Save of RollbackResult.
SaveGame(c) ==
  /\ At(c, "saveGame") \/ At(c, "undoGame")
  /\ LET b == req[c].batch
     IN  \/ /\ ~Referenced(b)
            /\ End(c)
            /\ UNCHANGED games
         \/ /\ Referenced(b)
            /\ games' = [games EXCEPT ![b][req[c].game] = req[c].outcome]
            /\ IF At(c, "undoGame") THEN Announce(c, req[c].seen) ELSE Go(c, "reload")
  /\ UNCHANGED <<status, groups, grouped, brackets, feed>>

RecordFinal(c, b) ==
  /\ brackets[b].exists /\ ~brackets[b].played
  /\ Begin(c, [Idle EXCEPT !.step = "saveFinal", !.batch = b,
                           !.bracket = [brackets[b] EXCEPT !.played = TRUE]])
  /\ UNCHANGED <<status, rows, feed>>

SaveFinal(c) ==
  /\ At(c, "saveFinal")
  /\ brackets' = [brackets EXCEPT ![req[c].batch] = req[c].bracket]
  /\ Go(c, "finish")
  /\ UNCHANGED <<status, groups, grouped, games, feed>>

\* advanceWinner of the final.
Finish(c) ==
  /\ At(c, "finish")
  /\ status' = "finished"
  /\ Go(c, "reload")
  /\ UNCHANGED <<rows, feed>>

\* A mutant: the stage is sent in place of the status.
StageName(c) == {IF req[c].game = None THEN "playoff" ELSE "group"}

\* The status broadcastScore sends: the tournament's, or the one that goes
\* with the stage of the match when the tournament cannot be read.
ScoreStatus(c) ==
  {status} \cup (IF Failures
                 THEN {IF req[c].game = None THEN "playoffs" ELSE "group_stage"}
                 ELSE {})

\* The match is read again and, if it is still there, broadcast.
Reload(c) ==
  /\ At(c, "reload")
  /\ LET b == req[c].batch
         found == IF req[c].game = None THEN brackets[b].exists ELSE games[b][req[c].game] # "none"
     IN  \/ ~found /\ End(c)
         \/ found /\ \E s \in ScoreStatus(c) : Announce(c, s)
  /\ UNCHANGED <<status, rows, feed>>

(***************************************************************************)
(* RollbackResult: the match, the tournament, one transaction.             *)
(***************************************************************************)
UndoGame(c, b, g) ==
  /\ games[b][g] \in {"a", "b"}
  /\ Begin(c, [Idle EXCEPT !.step = "check", !.batch = b, !.game = g, !.outcome = "pending"])
  /\ UNCHANGED <<status, rows, feed>>

UndoFinal(c, b) ==
  /\ brackets[b].exists /\ brackets[b].played
  /\ Begin(c, [Idle EXCEPT !.step = "check", !.batch = b,
                           !.bracket = [brackets[b] EXCEPT !.played = FALSE]])
  /\ UNCHANGED <<status, rows, feed>>

\* A mutant: group scores never lock.
LockedNever == FALSE

\* Group scores lock with the end of the group stage.
Locked == status # "group_stage"

CheckStatus(c) ==
  /\ At(c, "check")
  /\ IF req[c].game = None
     THEN req' = [req EXCEPT ![c].step = "undoFinal", ![c].seen = status]
     ELSE IF Locked THEN End(c)
     ELSE req' = [req EXCEPT ![c].step = "undoGame", ![c].seen = status]
  /\ UNCHANGED <<status, rows, feed>>

\* A mutant: the tournament stays finished.
ReopenedNever(seen) == seen

Reopened(seen) == IF seen = "finished" THEN "playoffs" ELSE seen

SaveUndoneFinal(c) ==
  /\ At(c, "undoFinal")
  /\ brackets' = [brackets EXCEPT ![req[c].batch] = req[c].bracket]
  /\ LET new == Reopened(req[c].seen)
     IN  /\ status' = IF new = req[c].seen THEN status ELSE new
         /\ Announce(c, new)
  /\ UNCHANGED <<groups, grouped, games, feed>>

-----------------------------------------------------------------------------
\* The message a request ends with.
Broadcast(c) ==
  /\ At(c, "broadcast")
  /\ feed' = req[c].seen
  /\ End(c)
  /\ UNCHANGED <<status, rows>>

\* A database call fails: the request ends, what it wrote stays.
Fail(c) ==
  /\ Failures
  /\ req[c].step \notin {"idle", "broadcast"}
  /\ End(c)
  /\ UNCHANGED <<status, rows, feed>>

Next ==
  \/ \E c \in Clients :
       \/ EditLoad(c) \/ Edit(c)
       \/ GenerateTeams(c) \/ CreateTeams(c) \/ UpdateStatus(c)
       \/ GenerateGroups(c) \/ CreateGroupsAndAssign(c) \/ CreateGames(c)
       \/ GeneratePlayoffs(c) \/ CountPending(c) \/ ReadResults(c) \/ CreateBracket(c)
       \/ RosterLoad(c) \/ ApplyRosterChange(c)
       \/ SaveGame(c) \/ SaveFinal(c) \/ Finish(c) \/ Reload(c)
       \/ CheckStatus(c) \/ SaveUndoneFinal(c)
       \/ Broadcast(c) \/ Fail(c)
  \/ \E c \in Clients, b \in Batches : RecordFinal(c, b) \/ UndoFinal(c, b)
  \/ \E c \in Clients, b \in Batches, g \in Games : RecordGame(c, b, g) \/ UndoGame(c, b, g)

Spec == Init /\ [][Next]_vars

-----------------------------------------------------------------------------
(***************************************************************************)
(* Properties                                                              *)
(***************************************************************************)

Steps == {"idle", "edit", "teams", "status", "groups", "games", "count", "results", "bracket",
          "wipe", "saveGame", "undoGame", "saveFinal", "finish", "reload", "check", "undoFinal",
          "broadcast"}

Request == [step : Steps, batch : Batches \cup {None}, game : Games \cup {None},
            outcome : Outcomes, bracket : Bracket, seen : Statuses]

TypeOK ==
  /\ status \in Statuses
  /\ groups \in SUBSET Batches
  /\ grouped \in Batches \cup {None}
  /\ games \in [Batches -> [Games -> Outcomes]]
  /\ brackets \in [Batches -> Bracket]
  /\ feed \in Statuses
  /\ req \in [Clients -> Request]

Quiet == \A c \in Clients : At(c, "idle")

\* A group match belongs to groups that exist, and so does a team: what is
\* left of a schedule is never half of it, whatever roster change deletes the
\* schedule between the writes of GenerateGroups.
GamesHaveGroups ==
  /\ grouped \in groups \cup {None}
  /\ \A b \in Batches \ groups : games[b] = NoGames

\* Between requests the rows are those of the status: no schedule before the
\* group stage; one batch of groups and matches from then on; one bracket,
\* seeded from it, in the playoffs; and its final played when finished.
RowsFitStatus ==
  Quiet =>
    /\ status \in {"setup", "teams_generated"} => groups = {} /\ Brackets = {}
    /\ status \notin {"setup", "teams_generated"} =>
         groups = {grouped} /\ \A g \in Games : games[grouped][g] # "none"
    /\ status = "group_stage" => Brackets = {}
    /\ status \in {"playoffs", "finished"} =>
         /\ Cardinality(Brackets) = 1
         /\ \A b \in Brackets : brackets[b].played <=> status = "finished"

\* Between requests the last message broadcast carries the true status.
FeedAgreesWhenQuiet == Quiet => feed = status

\* The results a bracket was seeded from stay as they are as long as the
\* bracket does ("group scores lock once the bracket exists",
\* match_service.go:189).
SeedsAreFinal == \A b \in Brackets : grouped # None /\ brackets[b].seeds = games[grouped]

\* A tournament leaves setup by way of its teams and never returns, however
\* late a request writes the status it has decided on.
LeavesSetupOnce ==
  [][/\ status = "setup" => status' \in {"setup", "teams_generated"}
     /\ status # "setup" => status' # "setup"]_vars

=============================================================================
