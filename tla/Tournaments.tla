----------------------------- MODULE Tournaments -----------------------------
(***************************************************************************)
(* The tournaments table behind the HTTP handlers: who may send which      *)
(* request, the database calls it makes, the message it broadcasts and the *)
(* status code it answers.  What a request checks and writes besides the   *)
(* row of its tournament is in modules Lifecycle, Playoffs and Roster; here*)
(* it reads the row, and later writes the status it decided on, or no      *)
(* status but another table ("same").                                      *)
(***************************************************************************)
EXTENDS Naturals, FiniteSets, Sequences

CONSTANTS
  Clients,   \* requests that may be in flight at once
  Ids,       \* ids of tournaments (a bound on how many are ever created)
  Users,     \* names in the tokens
  Failures   \* database calls may fail

ASSUME TournamentsAssumption == IsFiniteSet(Clients) /\ IsFiniteSet(Ids) /\ Failures \in BOOLEAN

VARIABLES
  status,  \* the status column of each row; "new" before there is a row, "deleted" after
  owner,   \* created_by of each row; {} before there is a row
  room,    \* the last message broadcast to each tournament's room
  req,     \* the requests in flight
  answer   \* the status code that was just answered; 0 after a step without an answer

vars == <<status, owner, room, req, answer>>

Life == INSTANCE Stages WITH status <- "setup"
Statuses == Life!Statuses
Rows == {t \in Ids : status[t] \in Statuses}

\* What is left to do by a request of each kind, once its checks are passed.
Steps ==
  [create   |-> <<"insert">>,
   delete   |-> <<"delete", "broadcast">>,
   names    |-> <<"update", "reload">>,
   change   |-> <<"update", "broadcast", "reload">>,
   generate |-> <<"update", "broadcast", "list">>,
   result   |-> <<"update", "reload", "broadcast">>,
   rollback |-> <<"update", "broadcast", "reload">>]

Kinds == DOMAIN Steps
Nobody == [user |-> "none", isAdmin |-> FALSE]
Actors == [user : Users, isAdmin : BOOLEAN]
Idle == [by |-> Nobody, kind |-> "none", todo |-> <<>>, ids |-> {}, to |-> "new"]

Init ==
  /\ status = [t \in Ids |-> "new"]
  /\ owner = [t \in Ids |-> {}]
  /\ room = [t \in Ids |-> "new"]
  /\ req = [c \in Clients |-> Idle]
  /\ answer = 0

-----------------------------------------------------------------------------
Active == {t \in Rows : status[t] # "finished"}

\* A mutant: a tournament in its playoffs is not in the way either.
CountBeforePlayoffs == Cardinality({t \in Active : status[t] # "playoffs"})

CountActive == Cardinality(Active)

\* A mutant: whoever is logged in.
AnyUser(t, by) == by \in Actors

\* authorizeTournament: the creator, or whoever has the admin group in the token.
Authorized(t, by) == by.isAdmin \/ by.user \in owner[t]

Idles(c) == req[c] = Idle
At(c, step) == req[c].todo # <<>> /\ Head(req[c].todo) = step
Rest(c) == Tail(req[c].todo)

Answer(c, code) ==
  /\ req' = [req EXCEPT ![c] = Idle]
  /\ answer' = code

\* The step is done; with the last one the handler answers.
Done(c, code) ==
  IF Rest(c) = <<>>
  THEN Answer(c, code)
  ELSE /\ req' = [req EXCEPT ![c].todo = Rest(c)]
       /\ answer' = 0

Begin(c, by, kind, ids, to) ==
  /\ req' = [req EXCEPT ![c] = [by |-> by, kind |-> kind, todo |-> Steps[kind], ids |-> ids, to |-> to]]
  /\ answer' = 0

-----------------------------------------------------------------------------
\* AuthMiddleware: no token, or one that does not verify.
Unauthenticated(c) == Idles(c) /\ Answer(c, 401) /\ UNCHANGED <<status, owner, room>>

\* parseID, ShouldBindJSON: an id or a body that does not parse.
Malformed(c) == Idles(c) /\ Answer(c, 400) /\ UNCHANGED <<status, owner, room>>

\* GetTournaments: no token needed, and never an error but a failed call.
GetTournaments(c) == Idles(c) /\ Answer(c, 200) /\ UNCHANGED <<status, owner, room>>

\* GetTournament, GetStandings, GetBracket.
GetTournament(c, t) ==
  /\ Idles(c)
  /\ Answer(c, IF t \in Rows THEN 200 ELSE 404)
  /\ UNCHANGED <<status, owner, room>>

CreateTournament(c, t, by) ==
  /\ Idles(c)
  /\ by.isAdmin
  /\ CountActive = 0
  /\ status[t] = "new"
  /\ \A d \in Clients : t \notin req[d].ids
  /\ Begin(c, by, "create", {t}, "setup")
  /\ UNCHANGED <<status, owner, room>>

\* Not an admin, or another tournament is active.
CreateRefused(c) ==
  /\ Idles(c)
  /\ Answer(c, 403) \/ (CountActive > 0 /\ Answer(c, 409))
  /\ UNCHANGED <<status, owner, room>>

Create(c) ==
  /\ At(c, "insert")
  /\ \E t \in req[c].ids :
       /\ status' = [status EXCEPT ![t] = "setup"]
       /\ owner' = [owner EXCEPT ![t] = {req[c].by.user}]
  /\ Done(c, 201)
  /\ UNCHANGED room

\* Every other mutation reads the row of its tournament first, and checks the
\* user before anything else.
Refused(c, t) ==
  /\ Idles(c)
  /\ \/ t \notin Rows /\ Answer(c, 404)
     \/ t \in Rows /\ ~(\A by \in Actors : Authorized(t, by)) /\ Answer(c, 403)
  /\ UNCHANGED <<status, owner, room>>

Admitted(c, t, by) == Idles(c) /\ t \in Rows /\ Authorized(t, by)

\* The checks behind it: a stage that does not fit, an unknown participant or team.
Conflict(c, t) ==
  /\ Idles(c) /\ t \in Rows
  /\ \E code \in {404, 409} : Answer(c, code)
  /\ UNCHANGED <<status, owner, room>>

DeleteTournament(c, t, by) ==
  /\ Admitted(c, t, by)
  /\ Begin(c, by, "delete", {t}, "deleted")
  /\ UNCHANGED <<status, owner, room>>

\* The stages in which a final may be recorded; RecordResult does not ask for
\* any.  Outside the playoffs there is a final when requests fail or overlap:
\* GeneratePlayoffs has stored the bracket and not the status, or a result was
\* saved after the roster had changed (module Lifecycle).
WithFinal ==
  IF Failures \/ Cardinality(Clients) > 1 THEN Statuses \ {"setup"} ELSE {"playoffs"}

\* The requests that write a status, with the one they find and the one they
\* write: the three Generates, undoing the final, a change of the roster and
\* the result of a final.
Moves ==
  {[kind |-> "generate", from |-> "setup",           to |-> "teams_generated"],
   [kind |-> "generate", from |-> "teams_generated", to |-> "group_stage"],
   [kind |-> "generate", from |-> "group_stage",     to |-> "playoffs"],
   [kind |-> "rollback", from |-> "finished",        to |-> "playoffs"]}
  \cup [kind : {"change"}, from : {"teams_generated", "group_stage", "playoffs"}, to : {"teams_generated"}]
  \cup [kind : {"result"}, from : WithFinal, to : {"finished"}]

Move(c, t, by) ==
  /\ Admitted(c, t, by)
  /\ \E move \in Moves : move.from = status[t] /\ Begin(c, by, move.kind, {t}, move.to)
  /\ UNCHANGED <<status, owner, room>>

\* The requests that write no status: AddParticipants in the setup, which
\* broadcasts nothing; names, participants and swaps; the other results.
Edit(c, t, by) ==
  /\ Admitted(c, t, by)
  /\ \E kind \in Kinds \ {"create", "delete", "generate"} :
       /\ kind = "names" => status[t] = "setup"
       /\ Begin(c, by, kind, {t}, "same")
  /\ UNCHANGED <<status, owner, room>>

-----------------------------------------------------------------------------
\* The rows that refer to the tournament go with it; none is no error.
Delete(c) ==
  /\ At(c, "delete")
  /\ status' = [t \in Ids |-> IF t \in req[c].ids THEN "deleted" ELSE status[t]]
  /\ Done(c, 204)
  /\ UNCHANGED <<owner, room>>

\* A mutant: what is written is not a status.
WrittenAsIs(t, to) == to

\* An update of a deleted row does nothing.
Updated(t, to) == IF to = "same" \/ t \notin Rows THEN status[t] ELSE to

\* A request that inserts rows fails when the tournament they refer to has
\* been deleted; one that only updates rows finds none and goes on.
Update(c) ==
  /\ At(c, "update")
  /\ \/ /\ status' = [t \in Ids |-> IF t \in req[c].ids THEN Updated(t, req[c].to) ELSE status[t]]
        /\ Done(c, 200)
     \/ /\ ~(req[c].ids \subseteq Rows)
        /\ Answer(c, 500)
        /\ UNCHANGED status
  /\ UNCHANGED <<owner, room>>

\* A mutant: a deletion is announced as an update.
AlwaysUpdated(to) == "updated"

Message(to) == IF to = "deleted" THEN "deleted" ELSE "updated"

Broadcast(c) ==
  /\ At(c, "broadcast")
  /\ room' = [t \in Ids |-> IF t \in req[c].ids THEN Message(req[c].to) ELSE room[t]]
  /\ Done(c, IF req[c].kind = "delete" THEN 204 ELSE 200)
  /\ UNCHANGED <<status, owner>>

\* A mutant: the answer is the tournament that was read at first.
AnswerAsRead(kind) == 200

\* GetTournament says that there is none any more; matchRepo.GetByID does not,
\* and respondServiceError takes what it says for an internal error.
CodeOfMissing(kind) == IF kind \in {"names", "change"} THEN 404 ELSE 500

Reload(c) ==
  /\ At(c, "reload")
  /\ IF req[c].ids \subseteq Rows
     THEN Done(c, 200)
     ELSE Answer(c, CodeOfMissing(req[c].kind))
  /\ UNCHANGED <<status, owner, room>>

\* GetTeams, GetGroups, GetByTournamentAndStage: a list, empty when all is gone.
List(c) ==
  /\ At(c, "list")
  /\ Done(c, 200)
  /\ UNCHANGED <<status, owner, room>>

\* A database call fails: the first one, or one of those to come.
Fail(c) ==
  /\ Failures
  /\ ~At(c, "broadcast")
  /\ Answer(c, 500)
  /\ UNCHANGED <<status, owner, room>>

Next ==
  \/ \E c \in Clients, t \in Ids, by \in Actors :
       CreateTournament(c, t, by) \/ DeleteTournament(c, t, by) \/ Move(c, t, by) \/ Edit(c, t, by)
  \/ \E c \in Clients, t \in Ids : GetTournament(c, t) \/ Refused(c, t) \/ Conflict(c, t)
  \/ \E c \in Clients :
       \/ CreateRefused(c) \/ Unauthenticated(c) \/ Malformed(c) \/ GetTournaments(c) \/ Create(c) \/ Delete(c)
       \/ Update(c) \/ Broadcast(c) \/ Reload(c) \/ List(c) \/ Fail(c)

Spec == Init /\ [][Next]_vars

-----------------------------------------------------------------------------
(***************************************************************************)
(* Properties                                                              *)
(***************************************************************************)
Codes == {200, 201, 204, 400, 401, 403, 404, 409, 500}

TypeOK ==
  /\ status \in [Ids -> Statuses \cup {"new", "deleted"}]
  /\ owner \in [Ids -> SUBSET Users]
  /\ room \in [Ids -> {"new", "updated", "deleted"}]
  /\ \A c \in Clients :
       \/ Idles(c)
       \/ /\ req[c].by \in Actors
          /\ req[c].kind \in Kinds
          /\ \E n \in 1..Len(Steps[req[c].kind]) :
               req[c].todo = SubSeq(Steps[req[c].kind], n, Len(Steps[req[c].kind]))
          /\ req[c].ids \in SUBSET Ids
          /\ req[c].to \in Statuses \cup {"same", "deleted"}
  /\ answer \in Codes \cup {0}

\* There is one active tournament at most ("a tournament is already in
\* progress; only one is allowed at a time", errs.go:13).
OneActive == Cardinality(Active) <= 1

=============================================================================
