# TLA+ models of olympics-api

olympics-api runs a family tournament: participants are dealt into teams, the
teams play a round-robin group stage, and a seeded single-elimination playoff
follows. This directory holds TLA+ modules of that program, TLC configurations
that check them on small instances, and TLAPS proofs.

Paths are relative to `src/internal/` unless they begin with another directory.

## 1. Inventory

| Part | State | Operations | Correct when |
|---|---|---|---|
| Tournaments (`service/tournament_service.go`) | rows of `tournaments` | CreateTournament, DeleteTournament | one tournament is active at a time; a deleted one stays deleted; only its creator or an admin changes it |
| Roster and teams (`service/tournament_service.go`, `service/participants.go`) | `participants.team_id`, `teams` | GenerateTeams, AddParticipant(s), DeleteParticipant, SwapPlayers | everybody is on a team, teams are pairs but for one trio, nobody is orphaned |
| Lifecycle (all services) | `tournaments.status`, `groups`, existence of matches | GenerateTeams, GenerateGroups, GeneratePlayoffs, roster changes (which delete the schedule), the final's result | the rows fit the status; the status takes the steps of README.md:18 |
| Group schedule (`service/groups.go`) | group matches | scheduleGroupMatches, roundRobinMatchings, pickGame | every pair of a group meets once, no team plays twice in a round, stations are not overbooked |
| Standings, seeding (`service/standings.go`, `service/playoffs.go`) | none (pure) | computeStandings, sortStandings, seedQualifiers | sums agree with the results; seeds follow wins |
| Playoff bracket (`service/playoffs.go`) | playoff matches at creation | buildBracket, seedPositions | every team enters once, byes go to the best seeds, every slot is fed once |
| Results (`service/match_service.go`, `repository/match_repository.go`) | playoff and group matches, status | RecordResult, RollbackResult, advanceWinner, broadcastScore | what the bracket shows is a single elimination, in which no team stands twice and nobody is stuck; finished iff the final is played |
| WebSocket hub (`service/ws_service.go`) | rooms, a buffer of 32 per viewer | Register, Broadcast, writePump, add, remove | no send on a closed channel; no deadlock; a slow viewer blocks nobody; a lost one leaves |
| HTTP layer (`handler/`, `routes/`, `middleware/`) | none | parsing, authentication, status codes | an answer tells the truth about what was written |
| Start and stop (`cmd/main.go`, `bootstrap/`, `config/`) | none | wiring, migrations, graceful shutdown | requests in flight may be cut off |

**How they interact.** Each HTTP request runs in a goroutine of its own and
calls one service operation with the request's context. The operation reads
rows, checks them, and writes rows back in further database calls. There is no
transaction around an operation (only around single repository methods), no row
lock, no version column and no mutex but the hub's. Two requests therefore interleave between
any two calls, and a client that hangs up, a database error or a stop of the
process ends an operation between any two calls. Broadcasts go to an in-process
hub after the last write, in the goroutine of the request; each viewer has two
goroutines there, one that reads its connection and one that writes to it.

**What is hard** is exactly that: checks made on rows that have changed by the
time of the write, whole rows written back by gorm's `Save`, one change made of
several writes of which only the first ones happen, statuses broadcast in
another order than they were written. `PROJECT.json` lists these under
`hazards`, each at its line with the properties that cover it.

## 2. Modules

| Module | Models | Kind |
|---|---|---|
| `Bracket` | `buildBracket`, `seedPositions` | pure functions |
| `Schedule` | the grouping, `roundRobinMatchings`, `scheduleGroupMatches`, `pickGame` | pure functions |
| `Standings` | `computeStandings`, `sortStandings`, `seedQualifiers` | pure functions |
| `Draw` | from the teams to the bracket: `GenerateGroups`, results of group matches, `GeneratePlayoffs` | state machine; composes `Schedule`, `Standings` and `Bracket` |
| `MCDraw` | | fields and scores, and the checks of the bracket |
| `DrawProof` | | theorems about `Draw`: the brackets that `Bracket` lays out, and how they are seeded |
| `GroupStageProof` | | theorems about `Draw`: the schedule that `Schedule` makes, and what `Standings` computes from its results |
| `Playoffs` | `RecordResult`, `RollbackResult`, `advanceWinner`, `broadcastScore` on playoff matches | state machine; extends `Bracket` |
| `SingleElimination` | | abstract specification: a bracket is its results |
| `MCPlayoffs` | | instances |
| `MCPlayoffsOne` | | one request after another, failing calls; refinement of `SingleElimination`, liveness |
| `PlayoffsProof` | | theorems about `Playoffs`, for any number of requests |
| `PlayoffsOneProof` | | theorems about `MCPlayoffsOne`, for one request after another |
| `Roster` | team generation and roster changes with the transactions they write; the `Save` of a match with the members of its teams | state machine |
| `MCRoster` | | instances, and what holds while requests come one by one |
| `RosterProof` | | theorems about `Roster` and `MCRoster` |
| `Stages` | | abstract specification of the status (README.md:18) |
| `Lifecycle` | all that reads or writes the status, groups, group matches, and the existence of a bracket | state machine |
| `MCLifecycle` | | instances |
| `MCLifecycleOne` | | one request after another, failing calls; refinement of `Stages` |
| `LifecycleProof` | | theorems about `Lifecycle`, for any number of requests, and about `MCLifecycleOne`, for one request after another |
| `Tournaments` | the HTTP requests, their users and answers; creation, deletion and status of several tournaments | state machine; takes the statuses from `Stages` |
| `MCTournaments` | | instances, what an answer means, and what holds while requests come one by one |
| `TournamentsProof` | | theorems about `Tournaments` and `MCTournaments` |
| `Hub` | `service/ws_service.go`: `Register`, `add`, `remove`, `writePump`, `Broadcast`, under the RWMutex | state machine with fairness |
| `MCHub` | | what becomes of the messages |
| `HubProof` | | theorems about `Hub` |

### Conventions

- One action per database call or transaction. What an operation has read it
  keeps in `req[c]`, the record of client `c`'s request, with `step` telling the
  next call. An operation is idle, then a chain of actions; early returns go
  back to `Idle`.
- `GetByID` of a tournament or a match issues several SELECTs (the preloads). A
  model takes them as one read. What this leaves out is a read torn by a
  concurrent write; the races that matter lie between that read and a write,
  and they are all there.
- The tournament is read a first time for the authorization check. That read is
  part of the action before it when nothing else depends on it.
- A gorm `Save` writes the whole row. Two facts of gorm, which is not in this
  repository, are modelled from how `match_repository.go` uses it. `Save` of a
  match that was read with `Preload("TeamA.Members")` saves the preloaded teams
  first and sets the foreign keys from them again, so that a slot that was
  filled when the row was read is written as it was read, whatever the service
  has assigned to it: `Saved` of `Playoffs`. `Save` of a row that has
  been deleted inserts it again: `SaveFinal` and `SaveGame` of `Lifecycle`,
  where the foreign key then refuses a group match.
- `Failures = TRUE` lets any database call fail (`Fail`): the request ends, what
  it has written stays. `Restart` of `Playoffs` ends all of them at once, as a
  stop of the process does; in the other modules it is several `Fail`s.
- Random choices (shuffles, `rand.IntN`) and "the first row" of an unordered
  query are choices of any.
- Fresh UUIDs are ids in no table and no request; the number of ids is the bound
  of a run. Ids are interchangeable, which is why they may be symmetry sets.
- The MC modules add history variables to say under which circumstances a
  property is claimed, so that one run covers an organiser working alone and
  what goes on around: `failed` of `MCPlayoffsOne` (has a call failed) with
  `kept` (the team that stayed in the next match when a result was undone), `calls`
  of `MCLifecycleOne` (has a call failed, and has the roster changed since) with
  `until` (the status until the first failure), `calm` of `MCRoster` (requests
  one by one, no failure), `overlapped` of `MCTournaments` (have two requests
  been in flight at once) with `reached` (has the write of the request been
  executed while its tournament was there), and `fate` of `MCHub` (what became of
  a message for a viewer). They never constrain a step of the model. A request
  that is refused, ends by itself, and could not be told from one that failed at
  the same place has written nothing and does not count as a failure.
- Definitions announced as "a mutant" are not part of the specification: each is
  a plausible mistake in the definition below it. With the mistake in place
  the property it is paired with in `PROJECT.json` is violated.

### State and actions

**Playoffs.** `matches` are the playoff rows (both teams, winner, completed),
`status` the tournament's, `feed` the status in the last message broadcast.
`RecordResult` is `RecordLoad` (both reads and the checks), `RecordSave`, then
`AdvanceLoad` and `AdvanceSave` or, for the final, `RecordFinish`, then
`RecordReload` and `Broadcast`. `RollbackResult` is `RollbackLoad`,
`RollbackTournament`, `RollbackNext` unless it is the final, `RollbackCommit`
(its transaction) and `Broadcast`. Scores are abstracted to the side that won;
ties are refused and leave no trace. `Side` gives the teams that may reach each
slot; it appears in assumptions and properties only. `MCPlayoffs` names the
brackets it builds and their sides as constants (`Built4`, `Side5`), which TLC
computes once.

Because of `Saved` a team that has been sent on to the next match stays there,
though the result that sent it be undone and another one entered. `MCPlayoffsOne`
therefore says what the bracket shows (`Shown`): the result of a match is the team
that stands in the next match, and the winner while none does. It is this that
implements `SingleElimination`: teams play on only from the slots, so a bracket
in which an organiser has undone and re-entered results is still a single
elimination, of the first winners.

**Roster.** `member` is each participant's `team_id` (`Gone` when there is no
row), `teams` the rows of that table. An operation reads the tournament and
decides on a change; the `RosterChange` it decided on is `req[c].ch`, and `Write`
is the transaction, with the foreign keys of the migration: a reference to a
deleted team fails it, and deleting a team sets its members' `team_id` to NULL.
The lock and the stage after team generation are not in this module.

A result that is saved with the members of its teams (`ResultLoad`,
`ResultSave`) writes the `team_id` of each as it was read, and inserts a member
who has been deleted again; it is refused when one of the teams is gone.

**Lifecycle.** The groups of one `GenerateGroups` are a batch, inserted and
deleted together with `group_id` of the teams (`grouped`); `games` are the
matches of each batch; a bracket is represented by its final, which is exact for
two teams. The bracket keeps the results it was seeded from. Three operations
are several writes: `GenerateTeams` (`CreateTeams`, `UpdateStatus`),
`GenerateGroups` (`CreateGroupsAndAssign`, `CreateGames`, `UpdateStatus`) and
`GeneratePlayoffs` (reads `GeneratePlayoffs`, `CountPending`, `ReadResults`;
writes `CreateBracket`, `UpdateStatus`). `ApplyRosterChange` is one transaction.

**Draw.** One organiser and no failures: what is at stake is what the pure
functions compute. `teams` in the order they are dealt, `matches` with round,
station, score and winner, `qualifiers` once the bracket is seeded. Every order
the stable sort may give equal teams is a choice, since the order of the teams
that go into it is the database's. Points are numbers; two results, one for
each side and with unlike differences, make all the ties that matter. A loop of
the code that appends to a list is `concat`, the list of what each turn of it
appends; a loop that looks at what it has appended so far, as
`scheduleGroupMatches` does, is a recursive function. `ByeMarker` is `uuid.Nil`,
which is no team's id; teams are numbers in these modules, so that
`DrawAssumption` says it is not a number.

**Tournaments.** `status` of each tournament ("new" before its row, "deleted"
after), `owner` its creator, `room` the last message to its viewers, `answer` the
status code a step has just answered. `Steps` is the order of database calls
and broadcast in each kind of request once its checks are passed: it differs,
for a result is read again before it is broadcast and everything else after.
Checks come in the order of the code: token, ids and body, existence of the
tournament, user, stage. The requests that write a status are one action,
`Move`, and `Moves` lists them, each with the status it finds and the one it
writes: a change of the roster writes `teams_generated` also where it is the
status already, and the result of a final writes `finished` whatever the status
is, as long as there can be a final (`WithFinal`; module `Lifecycle` shows how
there comes to be one outside the playoffs).

**Hub.** `rooms` is the map of the service, `send` and `closed` the channels,
`viewer` where the two goroutines of a viewer are and whether its connection is
up, `sender` the broadcasts under way with the viewers they have still to visit.
A goroutine that asks for the lock has reached the call of `Lock` or `RLock`; the
lock is the one of `sync.RWMutex`: a waiting writer keeps later readers out, and
its release lets the waiting readers in before the next writer. The message the
pump is writing to the socket counts in the buffer until it has been written. A
ping that is not answered, a deadline that passes and a socket that fails are
one thing, a connection that goes down.

## 3. Runs

Passing runs:

| Run | Instance | Shows |
|---|---|---|
| `draw` | fields of 1 to 13, 16 and 17 teams; all results of 2, 3, 4 and 7 teams | in groups every pair meets once, no team twice in a round, stations are kept while there are enough; standings balance and are an order; byes are earned; the layout is a seeded bracket, `IsSided` and `IsTree` |
| `playoffs_one` | 1 request at a time, failures and restarts, 5 teams, fairness | what the bracket shows implements `SingleElimination`, and a slot holds the first winner sent to it, whatever fails; a result reaches the next match unless a call fails or a first winner has the slot, and until a call fails status and feed follow the final |
| `playoffs_two` | 2 requests, failures, 4 teams | no team twice in a round, winners belong to their match, never stuck |
| `roster` | 2 requests and results, failures, up to 5 people, 3 teams | foreign keys keep `team_id` valid, whatever a result writes back; while requests come one by one everybody has a team, no empty shells, teams are dealt as pairs and one trio |
| `lifecycle_one` | 1 request at a time, failures, 3 group matches | until a call fails, and again after a change of the roster, the rows fit the status, the seeding results are locked and the feed agrees; until a call fails the status implements `Stages`; whatever fails, seeding is from played matches and there is no dead end |
| `lifecycle_two` | 2 requests, failures, 1 group match | no match without its group, setup left once |
| `tournaments` | 2 requests, 2 users with and without the admin group, failures, 2 tournaments | answers are true also when the tournament is deleted meanwhile; only its creator or an admin changes a tournament; while requests come one by one, created only beside finished ones, and a deletion is the last message |
| `hub` | 2 viewers, 2 broadcasts at a time, a buffer of 1, fairness | no send on a closed channel; no deadlock; broadcasts end; lost viewers leave; a viewer that keeps up is written the message |

Runs whose property the code violates (`findings` in `PROJECT.json` quotes the
comment, document or error text each contradicts):

| Run | What happens |
|---|---|
| `undone_winner` | a semifinal is recorded, undone and recorded for the other team: the first winner stays in the final; one organiser suffices |
| `roster_trio` | a player moved off a broken pair makes a team of four; one organiser suffices |
| `lifecycle_skips` | a bracket stored before a failed status update: group stage to finished |
| `reopened_beside` | undoing a superseded final makes two tournaments active; one organiser suffices |

**Races without a run of their own.** A property is claimed only where the code
keeps it; these are the reasons for the restrictions above, each a behaviour of
the models when requests overlap or a call fails:

- `Playoffs`: two semifinals are recorded together and the later `Save` of the
  final writes the empty slot back over the first winner (`WinnerAdvances`, which
  `undone_winner` shows to fail without a race); a semifinal can be undone while
  the final is being recorded;
  two results of one match are both accepted; the final can be undone before its
  status update, which then finishes a tournament without a final.
- `Roster`: two GenerateTeams both create teams; a team is deleted with a
  newcomer on it; a swap decided on before another change alters team sizes.
- `Lifecycle`: after a failed UpdateStatus of GeneratePlayoffs, group results can
  be undone beside the bracket and a retry stores a second one; results can be
  undone between the count and the seeding.
- `Roster`, one organiser: when all participants have been removed the next
  addition panics in `rand.IntN(0)` (`AddPanics`); gin's Recovery answers 500 and
  nothing is written, so that nobody can be added any more.
- `Roster` with a result: a swap made while a result is recorded is undone for
  the members of the match's teams, and a participant deleted meanwhile is back.
- `Draw`: a round of more than six matches, which takes sixteen teams, asks for a
  station more than there are. How often a team plays each game is balanced by
  the code without a bound: it differed by up to three, and no property claims it.
- `Tournaments`: two CreateTournament both pass the count. An error may answer a
  request that was carried out, when the reload for the answer fails; a second
  deletion is confirmed like the first; a result whose match is gone at the
  reload answers 500, where a change of a name answers 404.
- `Hub`: a viewer whose buffer is full does not hear the last message, and is not
  told.

**Bounds.** Four teams are the least with two matches feeding a third, where
concurrent advances meet and a winner that was undone stays; five add byes and a third round. Two requests suffice
for every race between a check and a write; a third would only repeat one. Five
people make a pair and a trio, and three teams let a trio be split and a pair be
broken up beside two others; a fourth team is needed to break up a pair when
teams of four are looked for (`roster_trio`). Three batches in `Lifecycle` leave
room for a schedule, a bracket and one left over by a failure; a field of three
teams plays three group matches, a field of two plays one. Two tournaments are a finished one and its successor;
two users with and without the group are a creator, an admin and a stranger. In
`draw` the fields of 1 to 13 cover one and two groups and three uneven ones, every
bracket of up to 16 with and without byes, and 16 and 17 the rounds with more
matches than stations; 7 teams are two groups of unequal size. In `hub` a buffer
of one, where the code has 32, is full at the first message that is not written;
one message is followed among any number of others, and two broadcasts and two
viewers are the least that queue behind a waiting writer.

**Symmetry.** Ids of people, teams, batches, tournaments, users and requests may
be exchanged. `playoffs_one` and `hub`, the runs with liveness properties, use none.

**Deadlock** is checked everywhere but in `draw`, where a field that was not
played ends with its bracket.

**Fairness** is weak fairness of single goroutines. `playoffs_one`:
`WF_vars(Continue(c))` says that a handler's goroutine goes on once its request
has been accepted, which Go's scheduler and a database that answers provide;
a call that fails ends the obligation (`failed`). `hub`: a broadcast goes on, a
viewer that waits for the lock gets it when it is free, the read of a closed or
failed connection returns, a pump with a message writes it or fails (it has a
deadline of ten seconds), and a pump whose viewer is going hears of it. Nobody is
assumed to send another request, to connect or to disconnect, and a connection
need never fail.

## 4. Proofs

TLAPS checks the theorems of eight modules. They state every invariant and every
action property of the passing runs, and both refinements, for every value of
the constants: any number of requests, participants, teams, group
matches, tournaments, viewers, any bracket. Where a theorem needs a single
client, it says so. Nothing is assumed but the named
`ASSUME`s of the modules, which TLC evaluates on every run of the module, and
finiteness of a set where something is counted.

**The bracket (`DrawProof`).** For any number of teams: `TeamsEnterOnce`,
`SlotsAreFed`, `SidesAreApart`, `TopSeedsAreApart`, the four properties of the
layout, and `ByesEarned`. The layout needs no invariant beyond "the teams are
those that were dealt" (`AlwaysDealt`); the work is in what `buildBracket` computes.

- Induction and recursion: the induction theorems of the library take an
  operator, so `FirstOf` (a set of numbers has a least one) is derived from the
  well-foundedness of `<`, and `Induction` and `Iterates` from it, in terms of
  sets. `SeedPositionsRecursion` then says that the recursive function
  `seedPositions` exists and is what its equation says. Powers of two
  (`PowerNext`, `PowerSum`) are counted as subsets.
- `SeedsInOrder`: the seed positions of a bracket of 2^k are a permutation of 1
  to 2^k. `FirstRoundIs`: of the two seeds of a first-round match the better one
  is there, and the other one unless it is a bye. `TeamsEnterOnce` follows.
- `FeedersAre`: the match that feeds a slot is found from their ids.
- `TeamsBelowAre`, `SidesNest`, `SidesDisjoint`: the places of the first round
  below a slot are one block of a power of two.
- `SeedsAreSpread`: of the best 2^k seeds one stands in each such block. Two
  seeds meet in the smallest block that holds both (`SeedsMeet`), so that
  `TopSeedsMeetLate` holds.
- `ByesEarned`: the recursion of `seedQualifiers` gives the orders of the rows in
  which none has more wins than one before it (`SeedQualifiersAre`), a team has
  one row however the teams were dealt (`GroupTeams`, `OneRowPerTeam`), and a team
  with a bye is seeded before the teams of any match that is played
  (`ByesBeforeMatches`). The invariant `Seeded` says that the seeds are such an
  order of the standings as they are, which are final by then.
- `BuiltIsSided`, `BuiltIsTree`: `buildBracket` of any two or more different teams
  satisfies `BracketAssumption` and `TreeAssumption` of `Playoffs`, so that the
  theorems below hold of all brackets the program can make.

**The group stage (`GroupStageProof`).** For any number of teams:
`GroupsPlayRoundRobin`, `StationsAreRespected`, `StandingsAreListed` and
`StandingsAreBalanced`, the properties of the schedule and of the standings. The
inductive invariant is `OnSchedule` (`AlwaysOnSchedule`): every match is still as
`scheduleGroupMatches` made it, or is that match with one of the results. A result
changes its scores, winner and completion and an undo takes it back to the
schedule, so that what is proved of the schedule is true of the matches at any
time (`GroupMatchesAre`). The rest is what the functions compute.

- `CircleMethod`: the rounds of `roundRobinMatchings` are a round robin of any
  teams. In round r place p of the circle holds what was in `Place(h, r, p)` at
  first (`CircleTurns`), which is a permutation of the places
  (`PlacesArePermuted`); two places face each other in one round
  (`PlacesMeet`, by cases on the parity of their sum) and in no other
  (`PlacesMeetOnce`). The bye marker makes their number even, and leaving out its
  pairs leaves the rest (`WithByeIs`).
- `PairingsAre`: dealing puts each team in one group (`GroupsAre`), and listing
  the rounds of all groups loses and repeats no pair. `ConcatLists` says of a
  loop that it appends, each once, the elements of its parts when these are
  disjoint.
- `ScheduleIs`: the schedule is those pairs with a game each. `pickGame` chooses
  a game with a free station when there is one (`PickedGame`), and in every
  round either no station is free or none is overbooked (`Balanced`); a match
  more keeps it so (`BalancedGrows`).
- Sums: `SumFunction` of the community modules folds over a set in an order it
  does not tell. `SumsExist`, `SumsAgree` and `SumRest` show, by induction over the
  set, that the sum is one and that any element can be taken out first;
  `SumChanged` and `SumOfFibers` follow, what a sum is when one term changes and
  when the terms are counted group by group.
- `StandingsAreListed`: some row is ahead of no other and can be put last, after a list
  of the rest (`RowsCanBeListed`), because being ahead has no cycles. `StandingsAreBalanced`: each completed match has one winner and one
  loser among the teams of its group, which have one row each (`RowsAre`,
  `OneOfEach`), and what it adds to one point difference it takes from another:
  `PointsCancel`, by induction over the completed matches.

**Results, concurrent (`PlayoffsProof`).** For any bracket that is sided and a
tree, any number of clients, with and without failures:

- `TypeCorrect`: `Spec => []TypeOK`.
- `NeverTwice`: `Spec => []NoTeamTwice`. The property is not inductive: a stale row written back is harmless only because of where
  its teams come from. The strengthening `InSides` says that every row, in the
  table or in a request, holds in each slot only teams that may reach that slot
  (`Side`), and that a request at a step holds rows of the match that step is
  about. Advancing keeps it because sides are nested, and it implies
  `NoTeamTwice` because the sides of one round are disjoint.
- `WinnersPlayed`: `Spec => []WinnerPlayed`. The
  invariant `AllConsistent` adds that the copies in flight are consistent and
  that a slot that is filled in the copy of a match stays as it is. It rests on
  `Saved`: if `Save` wrote the emptied slot, an undo would take a team out of a
  match that has been recorded in the meantime.
- `NeverAtADeadEnd`: `Spec => []NeverStuck`. The
  invariant `AllComplete` adds that a completed match has both its teams unless
  it is a bye, and that a bye is never touched. The argument then looks at the
  first round with an open match: all the matches that feed it are completed, so
  it can be played, or one of their winners never came and can be undone. That
  there is a first such round is the one induction, `FirstOf` again.

**Results, one request after another (`PlayoffsOneProof`).** For a single client
and any bracket, whatever calls fail:

- `FirstWinnersStay` (`SlotsHoldFirstWinners`). The invariant `BracketInv` is
  `Sound`, what the rows are between the writes of a request, with `Phase`, that
  what the request in flight has read is still so at its next call. `Placed`, the
  part of `Sound` about a match and the slot it feeds, distinguishes by `kept`
  whether the team there is the winner or one from before an undo. Recording a
  match again changes nothing further on, for its `Save` of the next match writes
  the slot as it was read (`SavedFields`).
- `PlayoffsAreSingleElimination`: `Shown` changes in two kinds of steps
  (`EliminationSteps`). Saving a result enters it, unless a team has been sent on
  before; undoing one takes it back, unless its winner was sent on. Sending the
  winner on shows what was shown, and so does everything else.
- `StatusIsTrue`: until a call fails, status and feed follow the final
  (`StatusFits`: but for the steps in which they are about to).

**Roster (`RosterProof`).**

- `TypeCorrect` and `NobodyOnLostTeam` (`MembersHaveTeams`), for any number of
  participants, teams and requests. `TeamsInv` adds that what a result is about
  to write back names only teams it would refuse to write without.
- `OneOrganiserKeepsRosterWhole` and `TeamsAreDealtInPairs`, while requests come
  one by one. `WholeInv` says of a calm history that the roster is whole once
  teams are there, and of a request in flight that its change was decided on the
  roster as it still is (`CalmInv`): an addition, a removal of one of five
  kinds, a swap, or teams dealt. Each kind leaves a whole roster. Wholeness is
  put in terms of two different members of a team (`WholeOf`), so that counting
  is needed only for pairs and trios.

**Lifecycle (`LifecycleProof`).**

- For any number of requests: `TypeCorrect`; `NoOrphanGames`; `SetupLeftOnce`, with
  `InSetup`: in setup there are no rows for a request to find, so that the only
  status still to be written is "teams_generated".
- For a single client and any number of group matches, also none, which is the
  group stage of a single team: `RowsFit`, `FeedAgrees`, `SeedsLocked`,
  `SeededWhenPlayed`, `NoDeadEnd`, and `LifecycleFollowed`, the refinement of
  `Stages`. Two invariants: `LoneInv` holds whatever fails (each stage has the
  rows it needs, since a status is written after them, and what a request has
  read is so), `TidyInv` until a call fails and again after a change of the
  roster (there are no other rows).

**Tournaments (`TournamentsProof`).** For any number of tournaments, users and
requests: `TypeCorrect`, where a request is at a step of its kind (`TypeInv`);
`RowsChangedByEntitled`, where a request in flight stays entitled because nobody
but its creation gives a row an owner (`EntitledInv`); `AnswersTellTheTruth`,
where behind its write a request has changed its tournament or lost it
(`TruthInv`). While no two requests overlap: `CreatedOneAtATime` and
`DeletionHeardLast` (`OneInv`).

**Hub (`HubProof`).** For every set of rooms, viewers, broadcasts and messages and
every size of the buffers:

- `TypeCorrect`: `Spec => []TypeOK`, with it that no buffer overflows.
- `SendsOnOpen`: `Spec => []NeverSendsOnClosed`. It is not inductive either: that
  the viewers a broadcast has left to visit have open channels depends on the
  lock. The strengthening `HubInv` says that a request has viewers left to visit
  only while it holds the read lock and only such as are still in the room
  (`SendersInRooms`), and that a viewer is in no room but its own, from the end
  of `add` to that of `remove`, with its channel open (`ViewersInRooms`). `add` and
  `remove` keep it because a writer finds no broadcast under way, and those it
  lets in start from the room as it leaves it (`AdmittedInRooms`).

**Only model-checked.** The liveness properties, `WinnerAdvancesEventually` of
`playoffs_one` and `BroadcastsEnd`, `LostViewersLeave` and `WrittenUnlessSlow` of
`hub`: fairness and `ENABLED` are out of TLAPS's reach. And the four runs that show
what the code does not keep.

## 5. Not modelled

The bodies of requests and answers, the texts of errors, the verification of
tokens, CORS, logging, configuration and health checks: they keep no state, and
no check of the models depends on more of them than whether they pass. The
migrations themselves are not modelled, the constraints they create are. Names
(UpdateTeam, UpdateParticipant) matter only for the status they broadcast.
Which games a team plays is modelled, how well they are spread is not claimed.

## 6. Plan

Done, in this order: `Bracket`, `Playoffs` with `SingleElimination`, `Roster`,
`Lifecycle` with `Stages`, `Tournaments`, `Hub`, `Schedule` and `Standings` with
`Draw`, and the proofs of section 4, those of the group stage last. Not claimed so
far, and worth a property when the code comes to promise one: how evenly the
games are spread over the teams, and that two requests at once keep the roster
whole, for which the service would need transactions around its operations.
