------------------------------ MODULE Playoffs ------------------------------
(***************************************************************************)
(* A tournament in its playoffs: RecordResult and RollbackResult of        *)
(* internal/service/match_service.go on playoff matches, with              *)
(* advanceWinner and the broadcasts they send.                             *)
(*                                                                         *)
(* Every request runs in a goroutine of its own and talks to Postgres one  *)
(* call at a time, without a transaction around the request and without    *)
(* a version check: each call is one action, and what was read is kept in  *)
(* req until it is written back.  Save writes whole rows.                  *)
(*                                                                         *)
(* gorm's Save first saves the preloaded TeamA and TeamB of a match and    *)
(* then sets TeamAID and TeamBID from them: a slot that was filled when    *)
(* the row was read is written as it was read, whatever the service has    *)
(* assigned to it since (Saved).                                           *)
(***************************************************************************)
EXTENDS Bracket

CONSTANTS
  Clients,   \* requests that may be in flight at once
  Teams,
  Built,     \* the bracket as buildBracket creates it
  Side,      \* the teams that may reach each slot of each match
  Failures   \* database calls may fail, the process may restart

Matches == DOMAIN Built
TeamOrNone == Teams \cup {NoTeam}

\* The slots of the rounds, one set for each round.
RoundSlots ==
  {{<<n, slot>> : n \in {k \in Matches : Built[k].round = Built[m].round}, slot \in Slots} :
     m \in Matches}

\* The bracket is one that buildBracket makes: DrawProof proves IsSided and
\* IsTree of every one of them.
ASSUME BracketAssumption ==
  /\ NoTeam \notin Teams
  /\ NoMatch \notin Matches
  /\ Side \in [Matches -> [Slots -> SUBSET Teams]]
  /\ IsSided(Built, Side)

ASSUME TreeAssumption == IsTree(Built)

ASSUME ModeAssumption == Failures \in BOOLEAN

VARIABLES
  matches,  \* the playoff rows of the matches table
  status,   \* the tournament's status column
  feed,     \* the status in the last message broadcast to the room
  req       \* the requests in flight

vars == <<matches, status, feed, req>>

Row == [a : TeamOrNone, b : TeamOrNone, winner : TeamOrNone, done : BOOLEAN]
NoRow == [a |-> NoTeam, b |-> NoTeam, winner |-> NoTeam, done |-> FALSE]
Statuses == {"playoffs", "finished"}
Steps == {"idle", "save", "finish", "advance", "saveNext", "reload",
          "status", "next", "commit", "broadcast"}

\* What a request holds between two calls: its match and the rows and the
\* status it has read; next and seen are what it is about to write or send.
Request == [step : Steps, id : Matches \cup {NoMatch}, row : Row, next : Row, seen : Statuses]
Idle == [step |-> "idle", id |-> NoMatch, row |-> NoRow, next |-> NoRow, seen |-> "playoffs"]

Init ==
  /\ matches = [m \in Matches |-> [a      |-> Built[m].a,
                                   b      |-> Built[m].b,
                                   winner |-> Built[m].winner,
                                   done   |-> Built[m].done]]
  /\ status = "playoffs"
  /\ feed = "playoffs"
  /\ req = [c \in Clients |-> Idle]

-----------------------------------------------------------------------------
HasNext(m) == Built[m].next # NoMatch

\* A mutant: a completed match can be recorded again.
PlayableAgain(row) == row.a # NoTeam /\ row.b # NoTeam

\* The checks of RecordResult: not completed, both teams known.
Playable(row) == ~row.done /\ row.a # NoTeam /\ row.b # NoTeam

\* A mutant: a bye counts as a result to undo.
UndoableBye(row) == row.done

\* The checks of RollbackResult on the match: completed, and not a bye.
Undoable(row) == row.done /\ row.a # NoTeam /\ row.b # NoTeam

\* A next match that has been played locks the result.
Locks(next) == next.done

\* A mutant: the winner is identified by the wrong id.
WinnerIsMatch(m, side) == m

\* The winner, on the side with the higher score (a tie is refused).
WinnerOf(m, side) == matches[m][side]

\* The team advanceWinner carries over.
Advancing(row) == row.winner

\* Mutants: the slot is ignored; the else is missing.
WithSlotA(row, slot, team) == [row EXCEPT !.a = team]
WithSlotBoth(row, slot, team) ==
  IF slot = "b" THEN [row EXCEPT !.a = team, !.b = team] ELSE [row EXCEPT !.a = team]

WithSlot(row, slot, team) ==
  IF slot = "b" THEN [row EXCEPT !.b = team] ELSE [row EXCEPT !.a = team]

\* What RollbackResult assigns to the next match.
Emptied(next, slot) == WithSlot(next, slot, NoTeam)

\* Mutants: the winner stays in the reset match; the teams are reset too.
ResetKeepsWinner(row) == [row EXCEPT !.done = FALSE]
ResetTeams(row) == NoRow

\* The match with its result removed.
Reset(row) == [row EXCEPT !.winner = NoTeam, !.done = FALSE]

\* Undoing the final of a finished tournament reopens the playoffs.
NewStatus(m, seen) == IF ~HasNext(m) /\ seen = "finished" THEN "playoffs" ELSE seen

\* A mutant: the message has the status of the tournament as it was read.
AnnouncedAsRead(m, seen) == seen

\* The status broadcast after an undo.
Announced(m, seen) == NewStatus(m, seen)

\* The status broadcastScore sends: that of the tournament or, when reading
\* it fails, the one that goes with the stage of the match.
ScoreStatus == {status} \cup (IF Failures THEN {"playoffs"} ELSE {})

\* A mutant: Save writes what the service has assigned.
SavedAsAssigned(read, changed) == changed

\* What Save writes for a row that was read as "read" and then changed.
Saved(read, changed) ==
  [changed EXCEPT !.a = IF read.a # NoTeam THEN read.a ELSE @,
                  !.b = IF read.b # NoTeam THEN read.b ELSE @]

At(c, step) == req[c].step = step
Go(c, step) == req' = [req EXCEPT ![c].step = step]

-----------------------------------------------------------------------------
(***************************************************************************)
(* RecordResult                                                            *)
(***************************************************************************)

\* GetByID of the match and of the tournament, the checks, and the winner
\* that the scores decide (they differ).
RecordLoad(c, m, side) ==
  /\ At(c, "idle")
  /\ Playable(matches[m])
  /\ req' = [req EXCEPT ![c] = [Idle EXCEPT
                !.step = "save",
                !.id = m,
                !.row = [matches[m] EXCEPT !.winner = WinnerOf(m, side), !.done = TRUE]]]
  /\ UNCHANGED <<matches, status, feed>>

RecordSave(c) ==
  /\ At(c, "save")
  /\ matches' = [matches EXCEPT ![req[c].id] = req[c].row]
  /\ Go(c, IF HasNext(req[c].id) THEN "advance" ELSE "finish")
  /\ UNCHANGED <<status, feed>>

\* advanceWinner of the final: UpdateStatus(finished).
RecordFinish(c) ==
  /\ At(c, "finish")
  /\ status' = "finished"
  /\ Go(c, "reload")
  /\ UNCHANGED <<matches, feed>>

\* advanceWinner of another match: GetByID of the next one ...
AdvanceLoad(c) ==
  /\ At(c, "advance")
  /\ LET m == req[c].id
         next == matches[Built[m].next]
     IN  req' = [req EXCEPT ![c].step = "saveNext",
                            ![c].next = Saved(next, WithSlot(next, Built[m].slot, Advancing(req[c].row)))]
  /\ UNCHANGED <<matches, status, feed>>

\* ... and Save of the whole row, as it was read but for the slot.
AdvanceSave(c) ==
  /\ At(c, "saveNext")
  /\ matches' = [matches EXCEPT ![Built[req[c].id].next] = req[c].next]
  /\ Go(c, "reload")
  /\ UNCHANGED <<status, feed>>

\* The reload, and the status broadcastScore reads.
RecordReload(c) ==
  /\ At(c, "reload")
  /\ \E seen \in ScoreStatus :
       req' = [req EXCEPT ![c] = [Idle EXCEPT !.step = "broadcast", !.seen = seen]]
  /\ UNCHANGED <<matches, status, feed>>

-----------------------------------------------------------------------------
(***************************************************************************)
(* RollbackResult                                                          *)
(***************************************************************************)

RollbackLoad(c, m) ==
  /\ At(c, "idle")
  /\ Undoable(matches[m])
  /\ req' = [req EXCEPT ![c] = [Idle EXCEPT !.step = "status", !.id = m, !.row = matches[m]]]
  /\ UNCHANGED <<matches, status, feed>>

RollbackTournament(c) ==
  /\ At(c, "status")
  /\ req' = [req EXCEPT ![c].step = IF HasNext(req[c].id) THEN "next" ELSE "commit",
                        ![c].seen = status]
  /\ UNCHANGED <<matches, status, feed>>

\* A played next game locks the result; otherwise its slot is to be emptied.
RollbackNext(c) ==
  /\ At(c, "next")
  /\ LET m == req[c].id
         next == matches[Built[m].next]
     IN  \/ /\ Locks(next)
            /\ req' = [req EXCEPT ![c] = Idle]
         \/ /\ ~Locks(next)
            /\ req' = [req EXCEPT ![c].step = "commit",
                                  ![c].next = Saved(next, Emptied(next, Built[m].slot))]
  /\ UNCHANGED <<matches, status, feed>>

\* One transaction: the status when the final of a finished tournament is
\* undone, the next match if there is one, the match itself.
RollbackCommit(c) ==
  /\ At(c, "commit")
  /\ LET m == req[c].id
         n == Built[m].next
     IN  /\ matches' = [x \in Matches |-> CASE x = m -> Reset(req[c].row)
                                            [] x = n -> req[c].next
                                            [] OTHER -> matches[x]]
         /\ LET new == NewStatus(m, req[c].seen)
            IN  /\ status' = IF new = req[c].seen THEN status ELSE new
                /\ req' = [req EXCEPT ![c] = [Idle EXCEPT !.step = "broadcast",
                                                          !.seen = Announced(m, req[c].seen)]]
  /\ UNCHANGED feed

-----------------------------------------------------------------------------
\* The message both requests end with.
Broadcast(c) ==
  /\ At(c, "broadcast")
  /\ feed' = req[c].seen
  /\ req' = [req EXCEPT ![c] = Idle]
  /\ UNCHANGED <<matches, status>>

\* A database call fails (the client hung up and its context is cancelled,
\* or the database is unreachable): the request ends, what it wrote stays.
Fail(c) ==
  /\ Failures
  /\ req[c].step \notin {"idle", "broadcast"}
  /\ req' = [req EXCEPT ![c] = Idle]
  /\ UNCHANGED <<matches, status, feed>>

\* The process stops with requests in flight and starts again.
Restart ==
  /\ Failures
  /\ \E c \in Clients : ~At(c, "idle")
  /\ req' = [c \in Clients |-> Idle]
  /\ UNCHANGED <<matches, status, feed>>

Continue(c) ==
  \/ RecordSave(c) \/ RecordFinish(c) \/ AdvanceLoad(c) \/ AdvanceSave(c) \/ RecordReload(c)
  \/ RollbackTournament(c) \/ RollbackNext(c) \/ RollbackCommit(c)
  \/ Broadcast(c)

Next ==
  \/ \E c \in Clients, m \in Matches, side \in Slots : RecordLoad(c, m, side)
  \/ \E c \in Clients, m \in Matches : RollbackLoad(c, m)
  \/ \E c \in Clients : Continue(c)
  \/ \E c \in Clients : Fail(c)
  \/ Restart

Spec == Init /\ [][Next]_vars

\* A request that has started runs on: its goroutine is scheduled and the
\* database answers.  Nobody has to send another request.
Fairness == \A c \in Clients : WF_vars(Continue(c))

-----------------------------------------------------------------------------
(***************************************************************************)
(* Properties                                                              *)
(***************************************************************************)

TypeOK ==
  /\ matches \in [Matches -> Row]
  /\ status \in Statuses
  /\ feed \in Statuses
  /\ req \in [Clients -> Request]

Quiet == \A c \in Clients : At(c, "idle")

NextRow(m) == matches[Built[m].next]

\* No team stands in two slots of one round, whatever requests are
\* interleaved, lost or resubmitted (advanceWinner writes whole rows back).
NoTeamTwice ==
  \A round \in RoundSlots : \A x, y \in round :
    x # y /\ matches[x[1]][x[2]] # NoTeam
      => matches[x[1]][x[2]] # matches[y[1]][y[2]]

\* A result names one of the two teams of its match, and a match has a
\* winner exactly when it is completed, however stale the row that a Save
\* wrote back was.
WinnerPlayed ==
  \A m \in Matches :
    /\ matches[m].done <=> matches[m].winner # NoTeam
    /\ matches[m].done => matches[m].winner \in {matches[m].a, matches[m].b}

\* Between requests a completed match has its winner in the next slot
\* ("advance the winner in the playoff bracket", match_service.go:98).
WinnerAdvances ==
  Quiet => \A m \in Matches :
             HasNext(m) /\ matches[m].done
               => NextRow(m)[Built[m].slot] = matches[m].winner

\* Between requests the tournament is finished exactly when its final has a
\* result ("completing it finishes the tournament", match_service.go:230,
\* "undoing the final reopens the playoffs", match_service.go:209).
FinishedIffFinalPlayed ==
  Quiet => \A m \in Matches : ~HasNext(m) => (status = "finished" <=> matches[m].done)

\* Between requests the last message broadcast carries the true status.
FeedAgreesWhenQuiet == Quiet => feed = status

\* The organiser is never stuck: between requests, until the final has a
\* result, some match can be played, or some result whose winner never
\* reached the next match can be undone and entered again.
NeverStuck ==
  Quiet => \/ \A m \in Matches : ~HasNext(m) => matches[m].done
           \/ \E m \in Matches : Playable(matches[m])
           \/ \E m \in Matches :
                /\ HasNext(m) /\ Undoable(matches[m])
                /\ ~NextRow(m).done /\ NextRow(m)[Built[m].slot] = NoTeam

=============================================================================
