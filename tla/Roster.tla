------------------------------- MODULE Roster -------------------------------
(***************************************************************************)
(* The participants of a tournament and their teams: GenerateTeams,        *)
(* AddParticipant(s), DeleteParticipant and SwapPlayers of                 *)
(* internal/service/tournament_service.go and participants.go.             *)
(*                                                                         *)
(* A request reads the tournament, decides on a change from what it has    *)
(* read, and writes the change in one transaction (GenerateTeams: in a     *)
(* transaction and an update of the status).  Nothing holds the rows       *)
(* between the read and the write.  Random choices, and "the first team"   *)
(* in the order the database returns them, are choices of any.             *)
(*                                                                         *)
(* What a change does to the schedule (the wipe), and the statuses after   *)
(* teams_generated, are not in this module: until the tournament is        *)
(* finished, the roster operations treat them all alike.                   *)
(***************************************************************************)
EXTENDS Naturals, FiniteSets

CONSTANTS
  Clients,    \* requests that may be in flight at once
  People,     \* ids of participants (a bound on how many there are)
  TeamIds,    \* ids of teams
  NoTeam,     \* a nil TeamID
  Gone,       \* the participant has no row
  Failures    \* database calls may fail

ASSUME RosterAssumption ==
  /\ IsFiniteSet(Clients) /\ IsFiniteSet(People)
  /\ {NoTeam, Gone} \cap TeamIds = {} /\ NoTeam # Gone
  /\ Failures \in BOOLEAN

teamSize == 2

VARIABLES
  status,  \* the tournament's status column
  teams,   \* the rows of the teams table
  member,  \* the team_id of each participant
  req      \* the requests in flight

vars == <<status, teams, member, req>>

\* The change a request is about to write: RosterChange in the repository,
\* with what GenerateTeams and SwapPlayers write in the same terms.
NoChange == [reassign   |-> [p \in {} |-> NoTeam],  \* participants to move, to where
             newTeams   |-> {},
             add        |-> {},                     \* participants to insert
             to         |-> NoTeam,                 \* and their team
             gone       |-> {},                     \* participants to delete
             deleteTeam |-> NoTeam]

Idle == [step |-> "idle", ch |-> NoChange]

Init ==
  /\ status = "setup"
  /\ teams = {}
  /\ member = [p \in People |-> Gone]
  /\ req = [c \in Clients |-> Idle]

-----------------------------------------------------------------------------
Present == {p \in People : member[p] # Gone}
Members(t) == {p \in People : member[p] = t}

\* New UUIDs: not in a table and not in a request.
TeamsOf(ch) == ch.newTeams \cup {ch.to, ch.deleteTeam} \cup {ch.reassign[p] : p \in DOMAIN ch.reassign}
PeopleOf(ch) == ch.add \cup ch.gone \cup DOMAIN ch.reassign
FreshTeams == TeamIds \ (teams \cup UNION {TeamsOf(req[c].ch) : c \in Clients})
FreshPeople == People \ (Present \cup UNION {PeopleOf(req[c].ch) : c \in Clients})

teamWithFewerThan(size) == {t \in teams : Cardinality(Members(t)) < size}
teamWithAtLeast(size) == {t \in teams : Cardinality(Members(t)) >= size}

\* The changes of one addition or removal: p joins t, pairs up with q in a new
\* team n, leaves, takes the team along, or leaves the others to another team.
Join(p, t) == [NoChange EXCEPT !.add = {p}, !.to = t]
PairUp(p, q, n) == [Join(p, n) EXCEPT !.newTeams = {n}, !.reassign = [x \in {q} |-> n]]
Leave(p) == [NoChange EXCEPT !.gone = {p}]
Dissolve(p) == [Leave(p) EXCEPT !.deleteTeam = member[p]]
BreakUp(p, other) ==
  [Dissolve(p) EXCEPT !.reassign = [q \in Members(member[p]) \ {p} |-> other]]

\* The changes addToRoster may return for a newcomer: joins a short team,
\* pairs up with a member of a trio, or makes a pair a trio.
addToRoster(p) ==
  LET short == teamWithFewerThan(teamSize)
      big == teamWithAtLeast(teamSize + 1)
  IN  CASE short # {} -> {Join(p, t) : t \in short}
        [] short = {} /\ big # {} ->
             {PairUp(p, q, n) : q \in UNION {Members(t) : t \in big}, n \in FreshTeams}
        [] OTHER -> {Join(p, t) : t \in teams}

\* A mutant: the member left alone is forgotten.
ForgetRemaining(p) == {Dissolve(p)}

\* The changes removeFromRoster may return: a trio stays as a pair, the
\* last member takes the team along, and the member of a pair left alone
\* moves to another team, if there is one.
removeFromRoster(p) ==
  LET team == member[p]
      remaining == Members(team) \ {p}
  IN  CASE team \notin teams \/ Cardinality(Members(team)) >= teamSize + 1 -> {Leave(p)}
        [] team \in teams /\ remaining = {} -> {Dissolve(p)}
        [] teams = {team} /\ Cardinality(remaining) = 1 -> {Leave(p)}
        [] OTHER -> {BreakUp(p, other) : other \in teams \ {team}}

\* A mutant: one team for each started pair.
RoundUp(n) == (n + teamSize - 1) \div teamSize

numTeams(n) == IF n < teamSize THEN 1 ELSE n \div teamSize

\* The teams buildTeams may deal the shuffled participants to: participant i
\* goes to team i % numTeams, so that sizes differ by one at most.
Dealt(ps, ids) ==
  LET size == Cardinality(ps) \div Cardinality(ids)
  IN  {f \in [ps -> ids] : \A t \in ids : Cardinality({p \in ps : f[p] = t}) \in {size, size + 1}}

Deal(ids, f) == [NoChange EXCEPT !.newTeams = ids, !.reassign = f]

buildTeams(ps) ==
  UNION {{Deal(ids, f) : f \in Dealt(ps, ids)} :
           ids \in {s \in SUBSET FreshTeams : Cardinality(s) = numTeams(Cardinality(ps))}}

-----------------------------------------------------------------------------
At(c, step) == req[c].step = step
Go(c, step, ch) == req' = [req EXCEPT ![c] = [step |-> step, ch |-> ch]]

(***************************************************************************)
(* Reads: GetTournament, the checks and the change decided on.             *)
(***************************************************************************)

\* AddParticipants and, before there are teams, AddParticipant.
AddInSetup(c, ps) ==
  /\ At(c, "idle") /\ status = "setup"
  /\ ps \subseteq FreshPeople /\ ps # {}
  /\ Go(c, "insert", [NoChange EXCEPT !.add = ps])
  /\ UNCHANGED <<status, teams, member>>

DeleteInSetup(c, p) ==
  /\ At(c, "idle") /\ status = "setup"
  /\ p \in Present
  /\ Go(c, "drop", [NoChange EXCEPT !.gone = {p}])
  /\ UNCHANGED <<status, teams, member>>

AddParticipant(c, p) ==
  /\ At(c, "idle") /\ status # "setup"
  /\ p \in FreshPeople
  /\ \E ch \in addToRoster(p) : Go(c, "apply", ch)
  /\ UNCHANGED <<status, teams, member>>

\* With no team left rand.IntN(0) panics: the recovery middleware answers
\* the request and nothing has changed.
AddPanics(c, p) ==
  /\ At(c, "idle") /\ status # "setup"
  /\ p \in FreshPeople
  /\ teams = {}
  /\ UNCHANGED vars

DeleteParticipant(c, p) ==
  /\ At(c, "idle") /\ status # "setup"
  /\ p \in Present
  /\ \E ch \in removeFromRoster(p) : Go(c, "apply", ch)
  /\ UNCHANGED <<status, teams, member>>

\* A mutant: the players' ids are taken for their teams'.
SwapIds(a, b) == [p \in {a, b} |-> IF p = a THEN b ELSE a]

Swapped(a, b) == [p \in {a, b} |-> IF p = a THEN member[b] ELSE member[a]]

SwapPlayers(c, a, b) ==
  /\ At(c, "idle") /\ status # "setup"
  /\ member[a] \in TeamIds /\ member[b] \in TeamIds /\ member[a] # member[b]
  /\ Go(c, "swap", [NoChange EXCEPT !.reassign = Swapped(a, b)])
  /\ UNCHANGED <<status, teams, member>>

GenerateTeams(c) ==
  /\ At(c, "idle") /\ status = "setup"
  /\ Go(c, "participants", NoChange)
  /\ UNCHANGED <<status, teams, member>>

\* GetParticipants; with fewer than two the request ends.
GenerateDeal(c) ==
  /\ At(c, "participants")
  /\ \/ /\ Cardinality(Present) < 2
        /\ req' = [req EXCEPT ![c] = Idle]
     \/ /\ Cardinality(Present) >= 2
        /\ \E ch \in buildTeams(Present) : Go(c, "create", ch)
  /\ UNCHANGED <<status, teams, member>>

-----------------------------------------------------------------------------
(***************************************************************************)
(* Writes.  A transaction that would refer to a deleted team violates a    *)
(* foreign key and is rolled back; deleting a team sets the team_id of the *)
(* members it still has to NULL; an update of a deleted row does nothing.  *)
(***************************************************************************)

Referred(ch) ==
  {ch.reassign[p] : p \in {q \in DOMAIN ch.reassign : member[q] # Gone}}
    \cup (IF ch.add = {} THEN {} ELSE {ch.to})

Valid(ch) == Referred(ch) \ {NoTeam} \subseteq teams \cup ch.newTeams

\* The participants after a change.
Changed(ch) ==
  LET moved(p) == CASE p \in ch.gone -> Gone
                    [] p \in ch.add -> ch.to
                    [] p \in DOMAIN ch.reassign /\ member[p] # Gone -> ch.reassign[p]
                    [] OTHER -> member[p]
  IN  [p \in People |-> IF moved(p) = ch.deleteTeam THEN NoTeam ELSE moved(p)]

\* The transactions of AddParticipants, DeleteParticipant, SwapPlayers,
\* CreateTeamsAndAssign and ApplyRosterChange.
Write(c) ==
  /\ req[c].step \in {"insert", "drop", "swap", "create", "apply"}
  /\ LET ch == req[c].ch
     IN  \/ /\ ~Valid(ch)
            /\ req' = [req EXCEPT ![c] = Idle]
            /\ UNCHANGED <<status, teams, member>>
         \/ /\ Valid(ch)
            /\ member' = Changed(ch)
            /\ teams' = (teams \cup ch.newTeams) \ {ch.deleteTeam}
            /\ status' = IF At(c, "apply") THEN "teams_generated" ELSE status
            /\ req' = [req EXCEPT ![c] = IF At(c, "create")
                                         THEN [step |-> "status", ch |-> NoChange]
                                         ELSE Idle]

\* GenerateTeams: UpdateStatus.
GenerateStatus(c) ==
  /\ At(c, "status")
  /\ status' = "teams_generated"
  /\ req' = [req EXCEPT ![c] = Idle]
  /\ UNCHANGED <<teams, member>>

\* RecordResult and RollbackResult read a match with the members of its two
\* teams, which exist once the schedule does.
ResultLoad(c, t, u) ==
  /\ At(c, "idle") /\ status # "setup"
  /\ {t, u} \subseteq teams /\ t # u
  /\ Go(c, "save", [NoChange EXCEPT !.newTeams = {t, u},
                                   !.reassign = [p \in Members(t) \cup Members(u) |-> member[p]]])
  /\ UNCHANGED <<status, teams, member>>

\* A mutant: the teams are taken to be there.
SavesAlways(ch) == TRUE

\* Teams that were deleted are inserted with the group they had, which went
\* with them: a foreign key refuses the whole Save.
Saves(ch) == ch.newTeams \subseteq teams

\* Save writes the members' team_id as it was read, and inserts those that
\* have been deleted.
ResultSave(c) ==
  /\ At(c, "save")
  /\ LET ch == req[c].ch
     IN  member' = [p \in People |-> IF Saves(ch) /\ p \in DOMAIN ch.reassign THEN ch.reassign[p]
                                    ELSE member[p]]
  /\ req' = [req EXCEPT ![c] = Idle]
  /\ UNCHANGED <<status, teams>>

Fail(c) ==
  /\ Failures
  /\ ~At(c, "idle")
  /\ req' = [req EXCEPT ![c] = Idle]
  /\ UNCHANGED <<status, teams, member>>

Next ==
  \/ \E c \in Clients, ps \in SUBSET People : AddInSetup(c, ps)
  \/ \E c \in Clients, p \in People :
       DeleteInSetup(c, p) \/ AddParticipant(c, p) \/ AddPanics(c, p) \/ DeleteParticipant(c, p)
  \/ \E c \in Clients, a, b \in People : SwapPlayers(c, a, b)
  \/ \E c \in Clients : GenerateTeams(c) \/ GenerateDeal(c) \/ Write(c) \/ GenerateStatus(c)
  \/ \E c \in Clients, t, u \in TeamIds : ResultLoad(c, t, u)
  \/ \E c \in Clients : ResultSave(c) \/ Fail(c)

Spec == Init /\ [][Next]_vars

-----------------------------------------------------------------------------
(***************************************************************************)
(* Properties                                                              *)
(***************************************************************************)

Steps == {"idle", "insert", "drop", "swap", "apply", "participants", "create", "status", "save"}

Change == [reassign   : UNION {[ps -> TeamIds] : ps \in SUBSET People},
           newTeams   : SUBSET TeamIds,
           add        : SUBSET People,
           to         : TeamIds \cup {NoTeam},
           gone       : SUBSET People,
           deleteTeam : TeamIds \cup {NoTeam}]

TypeOK ==
  /\ status \in {"setup", "teams_generated"}
  /\ teams \in SUBSET TeamIds
  /\ member \in [People -> TeamIds \cup {NoTeam, Gone}]
  /\ req \in [Clients -> [step : Steps, ch : Change]]

Quiet == \A c \in Clients : At(c, "idle")
Settled == Quiet /\ status = "teams_generated"

\* A participant's team exists, whatever requests are interleaved.
MembersHaveTeams == \A p \in People : member[p] \in teams \cup {NoTeam, Gone}

\* Teams stay pairs but for one trio, as long as there are two players
\* (README.md:14: "Teams of 2 (odd player makes a team of 3)").
OneTrioAtMost ==
  Settled /\ Cardinality(Present) >= 2 =>
    /\ \A t \in teams : Cardinality(Members(t)) \in {teamSize, teamSize + 1}
    /\ Cardinality(teamWithAtLeast(teamSize + 1)) = Cardinality(Present) % teamSize

=============================================================================
