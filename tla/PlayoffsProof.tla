---------------------------- MODULE PlayoffsProof ----------------------------
(***************************************************************************)
(* Safety of module Playoffs for every bracket, every number of concurrent *)
(* requests, and with or without failures.                                 *)
(***************************************************************************)
EXTENDS Playoffs, TLAPS, WellFoundedInduction

Ended == {"idle", "broadcast"}

\* A row of match m names only teams that may reach its slots.
RowInSides(m, row) ==
  /\ row.a \in Side[m]["a"] \cup {NoTeam}
  /\ row.b \in Side[m]["b"] \cup {NoTeam}
  /\ row.winner \in Side[m]["a"] \cup Side[m]["b"] \cup {NoTeam}

\* The copies a request holds do so too, and it is where its match sends it.
RequestInSides(r) ==
  /\ r.step \notin Ended => r.id \in Matches /\ RowInSides(r.id, r.row)
  /\ r.step \in {"advance", "saveNext", "next"} => HasNext(r.id)
  /\ r.step \in {"saveNext", "commit"} /\ HasNext(r.id)
       => RowInSides(Built[r.id].next, r.next)

InSides ==
  /\ \A m \in Matches : RowInSides(m, matches[m])
  /\ \A c \in Clients : RequestInSides(req[c])

-----------------------------------------------------------------------------
(***************************************************************************)
(* The operators on rows                                                   *)
(***************************************************************************)

LEMMA WithSlotType ==
  ASSUME NEW row \in Row, NEW slot, NEW team \in TeamOrNone
  PROVE  WithSlot(row, slot, team) \in Row
BY DEF WithSlot, Row

LEMMA SavedType ==
  ASSUME NEW read \in Row, NEW changed \in Row
  PROVE  Saved(read, changed) \in Row
BY DEF Saved, Row

LEMMA ResetType ==
  ASSUME NEW row \in Row
  PROVE  Reset(row) \in Row
BY DEF Reset, Row, TeamOrNone

LEMMA WithSlotInSides ==
  ASSUME NEW n, NEW row \in Row, NEW slot \in Slots, RowInSides(n, row),
         NEW team \in Side[n][slot] \cup {NoTeam}
  PROVE  RowInSides(n, WithSlot(row, slot, team))
BY DEF WithSlot, Row, Slots, RowInSides

LEMMA SavedInSides ==
  ASSUME NEW n, NEW read \in Row, NEW changed \in Row,
         RowInSides(n, read), RowInSides(n, changed)
  PROVE  RowInSides(n, Saved(read, changed))
BY DEF Saved, Row, RowInSides

LEMMA ResetInSides ==
  ASSUME NEW m, NEW row \in Row, RowInSides(m, row)
  PROVE  RowInSides(m, Reset(row))
BY DEF Reset, Row, RowInSides

\* The winner of a match may reach the slot it feeds.
LEMMA WinnerInSide ==
  ASSUME NEW m \in Matches, HasNext(m), NEW row \in Row, RowInSides(m, row)
  PROVE  /\ Built[m].next \in Matches
         /\ Built[m].slot \in Slots
         /\ row.winner \in Side[Built[m].next][Built[m].slot] \cup {NoTeam}
BY BracketAssumption DEF HasNext, RowInSides, Slots, IsSided, Matches

-----------------------------------------------------------------------------
(***************************************************************************)
(* Type correctness                                                        *)
(***************************************************************************)

LEMMA IdleType == Idle \in Request
BY DEF Idle, Request, Steps, NoRow, Row, TeamOrNone, Statuses

LEMMA InitType == Init => TypeOK
<1> SUFFICES ASSUME Init PROVE TypeOK
  OBVIOUS
<1>1. ASSUME NEW m \in Matches
      PROVE  [a |-> Built[m].a, b |-> Built[m].b,
              winner |-> Built[m].winner, done |-> Built[m].done] \in Row
  <2>1. Side[m]["a"] \subseteq Teams /\ Side[m]["b"] \subseteq Teams
    BY BracketAssumption DEF Slots, IsSided, Matches
  <2>2. Built[m].a \in TeamOrNone /\ Built[m].b \in TeamOrNone
    BY <2>1, BracketAssumption DEF TeamOrNone, IsSided, Matches
  <2>3. Built[m].winner \in TeamOrNone /\ Built[m].done \in BOOLEAN
    BY <2>2, BracketAssumption DEF TeamOrNone, IsSided, Matches
  <2> QED
    BY <2>2, <2>3 DEF Row
<1>2. matches \in [Matches -> Row]
  BY <1>1 DEF Init
<1> QED
  BY <1>2, IdleType DEF Init, TypeOK, Statuses

\* AdvanceLoad and RollbackNext read the next match: that there is one is
\* part of InSides.
LEMMA NextType == TypeOK /\ InSides /\ [Next]_vars => TypeOK'
<1> SUFFICES ASSUME TypeOK, InSides, [Next]_vars PROVE TypeOK'
  OBVIOUS
<1>1. ASSUME NEW c \in Clients, NEW m \in Matches, NEW side \in Slots, RecordLoad(c, m, side)
      PROVE  TypeOK'
  <2>1. [matches[m] EXCEPT !.winner = WinnerOf(m, side), !.done = TRUE] \in Row
    BY DEF TypeOK, Row, WinnerOf, Slots
  <2> QED
    BY <1>1, <2>1, IdleType DEF RecordLoad, TypeOK, Request, Steps, Idle
<1>2. ASSUME NEW c \in Clients, RecordSave(c)
      PROVE  TypeOK'
  BY <1>2 DEF RecordSave, TypeOK, Request, Steps, At, Go
<1>3. ASSUME NEW c \in Clients, RecordFinish(c)
      PROVE  TypeOK'
  BY <1>3 DEF RecordFinish, TypeOK, Request, Steps, Statuses, At, Go
<1>4. ASSUME NEW c \in Clients, AdvanceLoad(c), RequestInSides(req[c])
      PROVE  TypeOK'
  <2> DEFINE m == req[c].id
             next == matches[Built[m].next]
  <2>1. m \in Matches /\ HasNext(m) /\ req[c].row \in Row
    BY <1>4 DEF AdvanceLoad, At, RequestInSides, Ended, TypeOK, Request
  <2>2. Built[m].next \in Matches
    BY <2>1, BracketAssumption DEF HasNext, IsSided, Matches
  <2>3. next \in Row /\ Advancing(req[c].row) \in TeamOrNone
    BY <2>1, <2>2 DEF TypeOK, Advancing, Row
  <2>4. Saved(next, WithSlot(next, Built[m].slot, Advancing(req[c].row))) \in Row
    BY <2>3, WithSlotType, SavedType
  <2> QED
    BY <1>4, <2>4 DEF AdvanceLoad, TypeOK, Request, Steps
<1>5. ASSUME NEW c \in Clients, AdvanceSave(c)
      PROVE  TypeOK'
  BY <1>5 DEF AdvanceSave, TypeOK, Request, Steps, At, Go
<1>6. ASSUME NEW c \in Clients, RecordReload(c)
      PROVE  TypeOK'
  <2>1. ScoreStatus \subseteq Statuses
    BY DEF ScoreStatus, TypeOK, Statuses
  <2>2. PICK seen \in ScoreStatus :
          req' = [req EXCEPT ![c] = [Idle EXCEPT !.step = "broadcast", !.seen = seen]]
    BY <1>6 DEF RecordReload
  <2>3. [Idle EXCEPT !.step = "broadcast", !.seen = seen] \in Request
    BY <2>1, IdleType DEF Request, Steps
  <2> QED
    BY <1>6, <2>2, <2>3 DEF RecordReload, TypeOK
<1>7. ASSUME NEW c \in Clients, NEW m \in Matches, RollbackLoad(c, m)
      PROVE  TypeOK'
  BY <1>7, IdleType DEF RollbackLoad, TypeOK, Request, Steps, Idle
<1>8. ASSUME NEW c \in Clients, RollbackTournament(c)
      PROVE  TypeOK'
  <2>1. req[c] \in Request /\ status \in Statuses
    BY DEF TypeOK
  <2>2. \A step \in Steps : [req[c] EXCEPT !.step = step, !.seen = status] \in Request
    BY <2>1 DEF Request
  <2>3. PICK step \in Steps : req' = [req EXCEPT ![c] = [req[c] EXCEPT !.step = step, !.seen = status]]
    <3>1. CASE HasNext(req[c].id)
      BY <1>8, <2>1, <3>1 DEF RollbackTournament, Steps, TypeOK, Request
    <3>2. CASE ~HasNext(req[c].id)
      BY <1>8, <2>1, <3>2 DEF RollbackTournament, Steps, TypeOK, Request
    <3> QED
      BY <3>1, <3>2
  <2> QED
    BY <1>8, <2>2, <2>3 DEF RollbackTournament, TypeOK
<1>9. ASSUME NEW c \in Clients, RollbackNext(c), RequestInSides(req[c])
      PROVE  TypeOK'
  <2> DEFINE m == req[c].id
             next == matches[Built[m].next]
  <2>1. m \in Matches /\ HasNext(m)
    BY <1>9 DEF RollbackNext, At, RequestInSides, Ended
  <2>2. next \in Row
    BY <2>1, BracketAssumption DEF HasNext, TypeOK, IsSided, Matches
  <2>3. Saved(next, Emptied(next, Built[m].slot)) \in Row
    BY <2>2, WithSlotType, SavedType DEF Emptied, TeamOrNone
  <2>4. CASE req' = [req EXCEPT ![c] = Idle]
    BY <1>9, <2>4, IdleType DEF RollbackNext, TypeOK
  <2>5. CASE req' = [req EXCEPT ![c].step = "commit",
                                ![c].next = Saved(next, Emptied(next, Built[m].slot))]
    BY <1>9, <2>3, <2>5 DEF RollbackNext, TypeOK, Request, Steps
  <2> QED
    BY <1>9, <2>4, <2>5 DEF RollbackNext
<1>10. ASSUME NEW c \in Clients, RollbackCommit(c)
       PROVE  TypeOK'
  <2> DEFINE m == req[c].id
  <2>1. req[c].row \in Row /\ req[c].next \in Row /\ req[c].seen \in Statuses
    BY DEF TypeOK, Request
  <2>2. NewStatus(m, req[c].seen) \in Statuses
    BY <2>1 DEF NewStatus, Statuses
  <2>3. matches' \in [Matches -> Row]
    BY <1>10, <2>1, ResetType DEF Announced, RollbackCommit, TypeOK
  <2>4. status' \in Statuses
    BY <1>10, <2>2 DEF Announced, RollbackCommit, TypeOK
  <2>5. req' \in [Clients -> Request]
    BY <1>10, <2>2, IdleType DEF Announced, RollbackCommit, TypeOK, Request, Steps, Idle
  <2> QED
    BY <1>10, <2>3, <2>4, <2>5 DEF Announced, RollbackCommit, TypeOK
<1>11. ASSUME NEW c \in Clients, Broadcast(c)
       PROVE  TypeOK'
  BY <1>11, IdleType DEF Broadcast, TypeOK, Request
<1>12. ASSUME NEW c \in Clients, Fail(c)
       PROVE  TypeOK'
  BY <1>12, IdleType DEF Fail, TypeOK
<1>13. CASE Restart
  BY <1>13, IdleType DEF Restart, TypeOK
<1>14. CASE UNCHANGED vars
  BY <1>14 DEF vars, TypeOK
<1> QED
  BY <1>1, <1>2, <1>3, <1>4, <1>5, <1>6, <1>7, <1>8, <1>9, <1>10, <1>11, <1>12, <1>13, <1>14
     DEF Next, Continue, InSides

-----------------------------------------------------------------------------
(***************************************************************************)
(* Every row and every copy of a row stays within the sides of its match   *)
(***************************************************************************)

LEMMA InitInSides == Init => InSides
<1> SUFFICES ASSUME Init PROVE InSides
  OBVIOUS
<1>1. ASSUME NEW m \in Matches
      PROVE  RowInSides(m, matches[m])
  BY BracketAssumption DEF Init, RowInSides, IsSided, Matches
<1>2. ASSUME NEW c \in Clients
      PROVE  RequestInSides(req[c])
  BY DEF Init, Idle, RequestInSides, Ended
<1> QED
  BY <1>1, <1>2 DEF InSides

\* The requests of the other clients are as they were.
LEMMA OthersInSides ==
  ASSUME TypeOK, InSides, NEW c \in Clients, NEW r,
         req' = [req EXCEPT ![c] = r], RequestInSides(r)
  PROVE  \A d \in Clients : RequestInSides(req'[d])
BY DEF TypeOK, InSides

LEMMA NextInSides == TypeOK /\ InSides /\ [Next]_vars => InSides'
<1> SUFFICES ASSUME TypeOK, InSides, [Next]_vars PROVE InSides'
  OBVIOUS
<1> DEFINE Rows == \A m \in Matches : RowInSides(m, matches'[m])
           Requests == \A c \in Clients : RequestInSides(req'[c])
<1>0. RequestInSides(Idle)
  BY DEF Idle, RequestInSides, Ended
<1>1. ASSUME UNCHANGED matches PROVE Rows
  BY <1>1 DEF InSides
<1>2. ASSUME NEW c \in Clients, NEW m \in Matches, NEW side \in Slots, RecordLoad(c, m, side)
      PROVE  Rows /\ Requests
  <2> DEFINE row == [matches[m] EXCEPT !.winner = WinnerOf(m, side), !.done = TRUE]
  <2>1. matches[m] \in Row /\ RowInSides(m, matches[m])
    BY DEF TypeOK, InSides
  <2>2. RowInSides(m, row)
    BY <2>1 DEF RowInSides, WinnerOf, Slots, Row
  <2>3. RequestInSides([Idle EXCEPT !.step = "save", !.id = m, !.row = row])
    BY <2>2 DEF RequestInSides, Idle, Ended
  <2> QED
    BY <1>1, <1>2, <2>3, OthersInSides DEF RecordLoad
<1>3. ASSUME NEW c \in Clients, RecordSave(c)
      PROVE  Rows /\ Requests
  <2> DEFINE r == [req[c] EXCEPT !.step = IF HasNext(req[c].id) THEN "advance" ELSE "finish"]
  <2>1. req[c] \in Request /\ req[c].id \in Matches /\ RowInSides(req[c].id, req[c].row)
    BY <1>3 DEF RecordSave, At, InSides, RequestInSides, Ended, TypeOK
  <2>2. Rows
    BY <1>3, <2>1 DEF RecordSave, TypeOK, InSides
  <2>3. RequestInSides(r)
    BY <2>1 DEF RequestInSides, Request, Ended
  <2> QED
    BY <1>3, <2>2, <2>3, OthersInSides DEF RecordSave, Go
<1>4. ASSUME NEW c \in Clients, RecordFinish(c)
      PROVE  Rows /\ Requests
  <2>1. req[c] \in Request /\ req[c].step = "finish" /\ RequestInSides(req[c])
    BY <1>4 DEF RecordFinish, At, InSides, TypeOK
  <2>2. RequestInSides([req[c] EXCEPT !.step = "reload"])
    BY <2>1 DEF RequestInSides, Request, Ended
  <2> QED
    BY <1>1, <1>4, <2>2, OthersInSides DEF RecordFinish, Go
<1>5. ASSUME NEW c \in Clients, AdvanceLoad(c)
      PROVE  Rows /\ Requests
  <2> DEFINE m == req[c].id
             next == matches[Built[m].next]
             changed == WithSlot(next, Built[m].slot, Advancing(req[c].row))
             r == [req[c] EXCEPT !.step = "saveNext", !.next = Saved(next, changed)]
  <2>1. req[c] \in Request /\ m \in Matches /\ HasNext(m) /\ RowInSides(m, req[c].row)
    BY <1>5 DEF AdvanceLoad, At, InSides, RequestInSides, Ended, TypeOK
  <2>2. /\ Built[m].next \in Matches
        /\ Built[m].slot \in Slots
        /\ Advancing(req[c].row) \in Side[Built[m].next][Built[m].slot] \cup {NoTeam}
    BY <2>1, WinnerInSide DEF Request, Advancing
  <2>3. next \in Row /\ RowInSides(Built[m].next, next)
    BY <2>2 DEF TypeOK, InSides
  <2>4. changed \in Row
    BY <2>1, <2>3, WithSlotType DEF Request, Row, Advancing
  <2>5. RowInSides(Built[m].next, Saved(next, changed))
    BY <2>2, <2>3, <2>4, WithSlotInSides, SavedInSides
  <2>6. RequestInSides(r)
    <3>1. r.step = "saveNext" /\ r.id = m /\ r.row = req[c].row /\ r.next = Saved(next, changed)
      BY <2>1 DEF Request
    <3> QED
      BY <2>1, <2>5, <3>1 DEF RequestInSides, Ended
  <2>7. req' = [req EXCEPT ![c] = r]
    BY <1>5 DEF AdvanceLoad, TypeOK
  <2> QED
    BY <1>1, <1>5, <2>6, <2>7, OthersInSides DEF AdvanceLoad
<1>6. ASSUME NEW c \in Clients, AdvanceSave(c)
      PROVE  Rows /\ Requests
  <2> DEFINE m == req[c].id
  <2>1. req[c] \in Request /\ m \in Matches /\ HasNext(m) /\ RowInSides(m, req[c].row)
    BY <1>6 DEF AdvanceSave, At, InSides, RequestInSides, Ended, TypeOK
  <2>2. RowInSides(Built[m].next, req[c].next)
    BY <1>6, <2>1 DEF AdvanceSave, At, InSides, RequestInSides
  <2>3. Rows
    BY <1>6, <2>2 DEF AdvanceSave, TypeOK, InSides
  <2>4. RequestInSides([req[c] EXCEPT !.step = "reload"])
    BY <2>1 DEF RequestInSides, Request, Ended
  <2> QED
    BY <1>6, <2>3, <2>4, OthersInSides DEF AdvanceSave, Go
<1>7. ASSUME NEW c \in Clients, RecordReload(c)
      PROVE  Rows /\ Requests
  <2>1. PICK seen \in ScoreStatus :
          req' = [req EXCEPT ![c] = [Idle EXCEPT !.step = "broadcast", !.seen = seen]]
    BY <1>7 DEF RecordReload
  <2>2. RequestInSides([Idle EXCEPT !.step = "broadcast", !.seen = seen])
    BY DEF RequestInSides, Idle, Ended
  <2> QED
    BY <1>1, <1>7, <2>1, <2>2, OthersInSides DEF RecordReload
<1>8. ASSUME NEW c \in Clients, NEW m \in Matches, RollbackLoad(c, m)
      PROVE  Rows /\ Requests
  <2>1. RequestInSides([Idle EXCEPT !.step = "status", !.id = m, !.row = matches[m]])
    BY DEF RequestInSides, Idle, Ended, InSides
  <2> QED
    BY <1>1, <1>8, <2>1, OthersInSides DEF RollbackLoad
<1>9. ASSUME NEW c \in Clients, RollbackTournament(c)
      PROVE  Rows /\ Requests
  <2> DEFINE step == IF HasNext(req[c].id) THEN "next" ELSE "commit"
             r == [req[c] EXCEPT !.step = step, !.seen = status]
  <2>1. req[c] \in Request /\ req[c].step = "status" /\ RequestInSides(req[c])
    BY <1>9 DEF RollbackTournament, At, InSides, TypeOK
  <2>2. RequestInSides(r)
    BY <2>1 DEF RequestInSides, Request, Ended
  <2>3. req' = [req EXCEPT ![c] = r]
    BY <1>9 DEF RollbackTournament, TypeOK
  <2> QED
    BY <1>1, <1>9, <2>2, <2>3, OthersInSides DEF RollbackTournament
<1>10. ASSUME NEW c \in Clients, RollbackNext(c)
       PROVE  Rows /\ Requests
  <2> DEFINE m == req[c].id
             next == matches[Built[m].next]
             changed == Emptied(next, Built[m].slot)
             r == [req[c] EXCEPT !.step = "commit", !.next = Saved(next, changed)]
  <2>1. req[c] \in Request /\ m \in Matches /\ HasNext(m) /\ RowInSides(m, req[c].row)
    BY <1>10 DEF RollbackNext, At, InSides, RequestInSides, Ended, TypeOK
  <2>2. /\ Built[m].next \in Matches
        /\ Built[m].slot \in Slots
    BY <2>1, BracketAssumption DEF HasNext, IsSided, Matches
  <2>3. next \in Row /\ RowInSides(Built[m].next, next)
    BY <2>2 DEF TypeOK, InSides
  <2>4. changed \in Row
    BY <2>3, WithSlotType DEF Emptied, TeamOrNone
  <2>5. RowInSides(Built[m].next, Saved(next, changed))
    BY <2>2, <2>3, <2>4, WithSlotInSides, SavedInSides DEF Emptied
  <2>6. RequestInSides(r)
    <3>1. r.step = "commit" /\ r.id = m /\ r.row = req[c].row /\ r.next = Saved(next, changed)
      BY <2>1 DEF Request
    <3> QED
      BY <2>1, <2>5, <3>1 DEF RequestInSides, Ended
  <2>7. CASE req' = [req EXCEPT ![c] = Idle]
    BY <1>0, <1>1, <1>10, <2>7, OthersInSides DEF RollbackNext
  <2>8. CASE req' = [req EXCEPT ![c].step = "commit", ![c].next = Saved(next, changed)]
    <3>1. req' = [req EXCEPT ![c] = r]
      BY <2>8 DEF TypeOK
    <3> QED
      BY <1>1, <1>10, <2>6, <3>1, OthersInSides DEF RollbackNext
  <2> QED
    BY <1>10, <2>7, <2>8 DEF RollbackNext
<1>11. ASSUME NEW c \in Clients, RollbackCommit(c)
       PROVE  Rows /\ Requests
  <2> DEFINE m == req[c].id
             new == NewStatus(m, req[c].seen)
  <2>1. req[c] \in Request /\ m \in Matches /\ RowInSides(m, req[c].row)
    BY <1>11 DEF Announced, RollbackCommit, At, InSides, RequestInSides, Ended, TypeOK
  <2>2. RowInSides(m, Reset(req[c].row))
    BY <2>1, ResetInSides DEF Request
  <2>3. Built[m].next \in Matches => RowInSides(Built[m].next, req[c].next)
    BY <1>11, BracketAssumption DEF Announced, RollbackCommit, At, InSides, RequestInSides, HasNext, IsSided, Matches
  <2>4. Rows
    BY <1>11, <2>2, <2>3 DEF Announced, RollbackCommit, InSides
  <2>5. RequestInSides([Idle EXCEPT !.step = "broadcast", !.seen = new])
    BY DEF RequestInSides, Idle, Ended
  <2> QED
    BY <1>11, <2>4, <2>5, OthersInSides DEF Announced, RollbackCommit
<1>12. ASSUME NEW c \in Clients, Broadcast(c) \/ Fail(c)
       PROVE  Rows /\ Requests
  BY <1>0, <1>1, <1>12, OthersInSides DEF Broadcast, Fail
<1>13. CASE Restart
  BY <1>0, <1>1, <1>13 DEF Restart, InSides
<1>14. CASE UNCHANGED vars
  BY <1>14 DEF vars, InSides
<1> QED
  BY <1>2, <1>3, <1>4, <1>5, <1>6, <1>7, <1>8, <1>9, <1>10, <1>11, <1>12, <1>13, <1>14
     DEF Next, Continue, InSides

LEMMA SidesInvariant == Spec => [](TypeOK /\ InSides)
<1>1. Init => TypeOK /\ InSides
  BY InitType, InitInSides
<1>2. TypeOK /\ InSides /\ [Next]_vars => TypeOK' /\ InSides'
  BY NextType, NextInSides
<1> QED
  BY <1>1, <1>2, PTL DEF Spec

\* Every column and every copy a request holds has its type, in every
\* interleaving of RecordResult and RollbackResult.
THEOREM TypeCorrect == Spec => []TypeOK
BY SidesInvariant, PTL

\* The slots of a round have disjoint sides.
LEMMA InSidesNoTeamTwice == TypeOK /\ InSides => NoTeamTwice
<1> SUFFICES ASSUME TypeOK, InSides,
                    NEW round \in RoundSlots, NEW x \in round, NEW y \in round,
                    x # y, matches[x[1]][x[2]] # NoTeam
             PROVE  matches[x[1]][x[2]] # matches[y[1]][y[2]]
  BY DEF NoTeamTwice
<1>1. /\ x[1] \in Matches /\ x[2] \in Slots
      /\ y[1] \in Matches /\ y[2] \in Slots
  BY DEF RoundSlots
<1>2. ASSUME NEW m \in Matches, NEW s \in Slots
      PROVE  matches[m][s] \in Side[m][s] \cup {NoTeam}
  BY DEF InSides, RowInSides, TypeOK, Row, Slots
<1>3. Side[x[1]][x[2]] \cap Side[y[1]][y[2]] = {}
  <2>1. /\ Built[x[1]].round = Built[y[1]].round
        /\ x = <<x[1], x[2]>> /\ y = <<y[1], y[2]>>
    BY DEF RoundSlots
  <2>2. <<x[1], x[2]>> # <<y[1], y[2]>>
    BY <2>1
  <2> QED
    BY <1>1, <2>1, <2>2, BracketAssumption DEF IsSided, Matches
<1> QED
  BY <1>1, <1>2, <1>3

\* No team ever stands in two slots of one round, whichever requests are
\* interleaved, fail, or write back the stale rows they have read.
THEOREM NeverTwice == Spec => []NoTeamTwice
BY SidesInvariant, InSidesNoTeamTwice, PTL

-----------------------------------------------------------------------------
(***************************************************************************)
(* Results name teams of their match, for Save restores preloaded teams    *)
(***************************************************************************)

\* A row is completed exactly when it has a winner, one of its two teams.
Consistent(row) ==
  /\ row.done <=> row.winner # NoTeam
  /\ row.done => row.winner \in {row.a, row.b}

\* So are the rows a request will write.
RequestConsistent(r) ==
  /\ r.step = "save" => Consistent(r.row)
  /\ r.step \in {"saveNext", "commit"} /\ HasNext(r.id) => Consistent(r.next)

AllConsistent ==
  /\ \A m \in Matches : Consistent(matches[m])
  /\ \A c \in Clients : RequestConsistent(req[c])

LEMMA SavedConsistent ==
  ASSUME NEW row \in Row, Consistent(row),
         NEW slot \in Slots, NEW team \in TeamOrNone
  PROVE  Consistent(Saved(row, WithSlot(row, slot, team)))
BY DEF Saved, WithSlot, Consistent, Row, Slots

LEMMA ResetConsistent ==
  ASSUME NEW row \in Row
  PROVE  Consistent(Reset(row))
BY DEF Reset, Consistent, Row

LEMMA OthersConsistent ==
  ASSUME TypeOK, AllConsistent, NEW c \in Clients, NEW r,
         req' = [req EXCEPT ![c] = r], RequestConsistent(r)
  PROVE  \A d \in Clients : RequestConsistent(req'[d])
BY DEF TypeOK, AllConsistent

LEMMA InitConsistent == Init => AllConsistent
<1> SUFFICES ASSUME Init PROVE AllConsistent
  OBVIOUS
<1>1. ASSUME NEW m \in Matches
      PROVE  Consistent(matches[m])
  BY BracketAssumption DEF Init, Consistent, IsSided, Matches
<1>2. ASSUME NEW c \in Clients
      PROVE  RequestConsistent(req[c])
  BY DEF Init, Idle, RequestConsistent
<1> QED
  BY <1>1, <1>2 DEF AllConsistent

LEMMA NextConsistent == TypeOK /\ InSides /\ AllConsistent /\ [Next]_vars => AllConsistent'
<1> SUFFICES ASSUME TypeOK, InSides, AllConsistent, [Next]_vars PROVE AllConsistent'
  OBVIOUS
<1> DEFINE Rows == \A m \in Matches : Consistent(matches'[m])
           Requests == \A c \in Clients : RequestConsistent(req'[c])
<1>0. RequestConsistent(Idle)
  BY DEF Idle, RequestConsistent
<1>1. ASSUME UNCHANGED matches PROVE Rows
  BY <1>1 DEF AllConsistent
\* A request that takes a step after which it writes no row.
<1>2. ASSUME NEW r, r.step \notin {"save", "saveNext", "commit"}
      PROVE  RequestConsistent(r)
  BY <1>2 DEF RequestConsistent
\* The request holds a match that has a next one, of which it makes a copy.
<1>3. ASSUME NEW c \in Clients, AdvanceLoad(c) \/ RollbackNext(c)
      PROVE  /\ req[c] \in Request
             /\ HasNext(req[c].id)
             /\ Built[req[c].id].slot \in Slots
             /\ matches[Built[req[c].id].next] \in Row
             /\ Consistent(matches[Built[req[c].id].next])
  <2>1. req[c].id \in Matches /\ HasNext(req[c].id)
    BY <1>3 DEF AdvanceLoad, RollbackNext, At, InSides, RequestInSides, Ended
  <2>2. Built[req[c].id].next \in Matches /\ Built[req[c].id].slot \in Slots
    BY <2>1, BracketAssumption DEF HasNext, IsSided, Matches
  <2> QED
    BY <2>1, <2>2 DEF TypeOK, AllConsistent
<1>4. ASSUME NEW c \in Clients, NEW m \in Matches, NEW side \in Slots, RecordLoad(c, m, side)
      PROVE  Rows /\ Requests
  <2> DEFINE row == [matches[m] EXCEPT !.winner = WinnerOf(m, side), !.done = TRUE]
  <2>1. matches[m] \in Row /\ Playable(matches[m])
    BY <1>4 DEF TypeOK, RecordLoad
  <2>2. Consistent(row)
    BY <2>1 DEF Consistent, Playable, WinnerOf, Slots, Row
  <2>3. RequestConsistent([Idle EXCEPT !.step = "save", !.id = m, !.row = row])
    BY <2>2 DEF RequestConsistent, Idle
  <2> QED
    BY <1>1, <1>4, <2>3, OthersConsistent DEF RecordLoad
<1>5. ASSUME NEW c \in Clients, RecordSave(c)
      PROVE  Rows /\ Requests
  <2> DEFINE r == [req[c] EXCEPT !.step = IF HasNext(req[c].id) THEN "advance" ELSE "finish"]
  <2>1. Rows
    BY <1>5 DEF RecordSave, At, AllConsistent, RequestConsistent, TypeOK
  <2>2. RequestConsistent(r)
    <3>1. req[c] \in Request
      BY DEF TypeOK
    <3> QED
      BY <1>2, <3>1 DEF Request
  <2> QED
    BY <1>5, <2>1, <2>2, OthersConsistent DEF RecordSave, Go
<1>6. ASSUME NEW c \in Clients, AdvanceLoad(c)
      PROVE  Rows /\ Requests
  <2> DEFINE m == req[c].id
             next == matches[Built[m].next]
             saved == Saved(next, WithSlot(next, Built[m].slot, Advancing(req[c].row)))
             r == [req[c] EXCEPT !.step = "saveNext", !.next = saved]
  <2>1. Advancing(req[c].row) \in TeamOrNone
    BY DEF Advancing, TypeOK, Request, Row
  <2>2. Consistent(saved)
    BY <1>3, <1>6, <2>1, SavedConsistent
  <2>3. RequestConsistent(r)
    BY <1>3, <1>6, <2>2 DEF RequestConsistent, Request
  <2>4. req' = [req EXCEPT ![c] = r]
    BY <1>6 DEF AdvanceLoad, TypeOK
  <2> QED
    BY <1>1, <1>6, <2>3, <2>4, OthersConsistent DEF AdvanceLoad
<1>7. ASSUME NEW c \in Clients, AdvanceSave(c)
      PROVE  Rows /\ Requests
  <2>1. req[c] \in Request /\ HasNext(req[c].id)
    BY <1>7 DEF AdvanceSave, At, InSides, RequestInSides, TypeOK
  <2>2. Rows
    BY <1>7, <2>1 DEF AdvanceSave, At, AllConsistent, RequestConsistent, TypeOK
  <2>3. RequestConsistent([req[c] EXCEPT !.step = "reload"])
    BY <1>2, <2>1 DEF Request
  <2> QED
    BY <1>7, <2>2, <2>3, OthersConsistent DEF AdvanceSave, Go
<1>8. ASSUME NEW c \in Clients, RollbackNext(c)
      PROVE  Rows /\ Requests
  <2> DEFINE m == req[c].id
             next == matches[Built[m].next]
             saved == Saved(next, Emptied(next, Built[m].slot))
             r == [req[c] EXCEPT !.step = "commit", !.next = saved]
  <2>1. Consistent(saved)
    BY <1>3, <1>8, SavedConsistent DEF Emptied, TeamOrNone
  <2>2. RequestConsistent(r)
    BY <1>3, <1>8, <2>1 DEF RequestConsistent, Request
  <2>3. CASE req' = [req EXCEPT ![c] = Idle]
    BY <1>0, <1>1, <1>8, <2>3, OthersConsistent DEF RollbackNext
  <2>4. CASE req' = [req EXCEPT ![c].step = "commit", ![c].next = saved]
    <3>1. req' = [req EXCEPT ![c] = r]
      BY <2>4 DEF TypeOK
    <3> QED
      BY <1>1, <1>8, <2>2, <3>1, OthersConsistent DEF RollbackNext
  <2> QED
    BY <1>8, <2>3, <2>4 DEF RollbackNext
<1>9. ASSUME NEW c \in Clients, RollbackTournament(c)
      PROVE  Rows /\ Requests
  <2> DEFINE r == [req[c] EXCEPT !.step = IF HasNext(req[c].id) THEN "next" ELSE "commit",
                                 !.seen = status]
  <2>1. req[c] \in Request
    BY DEF TypeOK
  <2>2. RequestConsistent(r)
    BY <2>1 DEF RequestConsistent, Request
  <2>3. req' = [req EXCEPT ![c] = r]
    BY <1>9 DEF RollbackTournament, TypeOK
  <2> QED
    BY <1>1, <1>9, <2>2, <2>3, OthersConsistent DEF RollbackTournament
<1>10. ASSUME NEW c \in Clients, RollbackCommit(c)
       PROVE  Rows /\ Requests
  <2> DEFINE m == req[c].id
  <2>1. Consistent(Reset(req[c].row))
    BY ResetConsistent DEF TypeOK, Request
  <2>2. Built[m].next \in Matches => Consistent(req[c].next)
    BY <1>10, BracketAssumption DEF Announced, RollbackCommit, At, AllConsistent, RequestConsistent, HasNext, IsSided, Matches
  <2>3. Rows
    BY <1>10, <2>1, <2>2 DEF Announced, RollbackCommit, AllConsistent
  <2>4. RequestConsistent([Idle EXCEPT !.step = "broadcast", !.seen = NewStatus(m, req[c].seen)])
    BY DEF RequestConsistent, Idle
  <2> QED
    BY <1>10, <2>3, <2>4, OthersConsistent DEF Announced, RollbackCommit
<1>11. ASSUME NEW c \in Clients, RecordFinish(c)
       PROVE  Rows /\ Requests
  <2>1. req[c] \in Request
    BY DEF TypeOK
  <2>2. RequestConsistent([req[c] EXCEPT !.step = "reload"])
    BY <1>2, <2>1 DEF Request
  <2> QED
    BY <1>1, <1>11, <2>2, OthersConsistent DEF RecordFinish, Go
<1>12. ASSUME NEW c \in Clients, RecordReload(c)
       PROVE  Rows /\ Requests
  <2>1. PICK seen \in ScoreStatus :
          req' = [req EXCEPT ![c] = [Idle EXCEPT !.step = "broadcast", !.seen = seen]]
    BY <1>12 DEF RecordReload
  <2>2. RequestConsistent([Idle EXCEPT !.step = "broadcast", !.seen = seen])
    BY DEF RequestConsistent, Idle
  <2> QED
    BY <1>1, <1>12, <2>1, <2>2, OthersConsistent DEF RecordReload
<1>13. ASSUME NEW c \in Clients, NEW m \in Matches, RollbackLoad(c, m)
       PROVE  Rows /\ Requests
  <2>1. RequestConsistent([Idle EXCEPT !.step = "status", !.id = m, !.row = matches[m]])
    BY DEF RequestConsistent, Idle
  <2> QED
    BY <1>1, <1>13, <2>1, OthersConsistent DEF RollbackLoad
<1>14. ASSUME NEW c \in Clients, Broadcast(c) \/ Fail(c)
       PROVE  Rows /\ Requests
  BY <1>0, <1>1, <1>14, OthersConsistent DEF Broadcast, Fail
<1>15. CASE Restart
  BY <1>0, <1>1, <1>15 DEF Restart, AllConsistent
<1>16. CASE UNCHANGED vars
  BY <1>16 DEF vars, AllConsistent
<1> QED
  BY <1>4, <1>5, <1>6, <1>7, <1>8, <1>9, <1>10, <1>11, <1>12, <1>13, <1>14, <1>15, <1>16
     DEF Next, Continue, AllConsistent

\* However stale the rows that concurrent requests write back, a completed
\* match has a winner and it is one of its two teams.
THEOREM WinnersPlayed == Spec => []WinnerPlayed
<1>1. Init => TypeOK /\ InSides /\ AllConsistent
  BY InitType, InitInSides, InitConsistent
<1>2. TypeOK /\ InSides /\ AllConsistent /\ [Next]_vars
        => TypeOK' /\ InSides' /\ AllConsistent'
  BY NextType, NextInSides, NextConsistent
<1>3. AllConsistent => WinnerPlayed
  BY DEF AllConsistent, Consistent, WinnerPlayed
<1> QED
  BY <1>1, <1>2, <1>3, PTL DEF Spec

-----------------------------------------------------------------------------
(***************************************************************************)
(* Some match can always be played or undone                               *)
(***************************************************************************)

\* A match that was decided when the bracket was built.
Bye(m) == Built[m].done

\* A row of match m has the teams it once had: both in the first round and in
\* a completed match, and those that had a bye.
Complete(m, row) ==
  /\ (Built[m].round = 1 \/ row.done) /\ ~Bye(m) => row.a # NoTeam /\ row.b # NoTeam
  /\ \A f \in Matches : Bye(f) /\ Built[f].next = m => row[Built[f].slot] # NoTeam

\* So have the copies of a request, which is never about a bye.
RequestComplete(r) ==
  /\ r.step \notin Ended => ~Bye(r.id) /\ Complete(r.id, r.row)
  /\ r.step \in {"saveNext", "commit"} /\ HasNext(r.id) => Complete(Built[r.id].next, r.next)

AllComplete ==
  /\ \A m \in Matches :
       /\ Complete(m, matches[m])
       /\ Bye(m) => matches[m].done /\ ~Undoable(matches[m])
  /\ \A c \in Clients : RequestComplete(req[c])

LEMMA NextIsNoBye ==
  ASSUME NEW m \in Matches, HasNext(m)
  PROVE  /\ Built[m].next \in Matches /\ Built[m].slot \in Slots
         /\ Built[Built[m].next].round > 1 /\ ~Bye(Built[m].next) /\ Built[m].next # m
<1>1. Built[m].next \in Matches /\ Built[m].slot \in Slots
  BY BracketAssumption DEF HasNext, IsSided, Matches
<1>2. Built[m].round \in Nat \ {0} /\ Built[Built[m].next].round = Built[m].round + 1
  BY TreeAssumption DEF HasNext, IsTree, Matches
<1>3. Built[Built[m].next].round > 1 /\ Built[Built[m].next].round # Built[m].round
  BY <1>2
<1>4. ~Bye(Built[m].next)
  <2>1. Built[Built[m].next].done => Built[Built[m].next].round = 1
    BY <1>1, TreeAssumption DEF IsTree, Matches
  <2> QED
    BY <1>3, <2>1 DEF Bye
<1> QED
  BY <1>1, <1>3, <1>4

\* Save never empties a slot that was filled when the row was read.
LEMMA SavedComplete ==
  ASSUME NEW n, NEW row \in Row, Complete(n, row),
         NEW slot \in Slots, NEW team \in TeamOrNone
  PROVE  Complete(n, Saved(row, WithSlot(row, slot, team)))
<1> DEFINE saved == Saved(row, WithSlot(row, slot, team))
<1>1. /\ row.a # NoTeam => saved.a # NoTeam
      /\ row.b # NoTeam => saved.b # NoTeam
      /\ saved.done = row.done
  BY DEF Saved, WithSlot, Row, Slots
<1>2. \A s \in Slots : row[s] # NoTeam => saved[s] # NoTeam
  BY <1>1 DEF Slots
<1>3. \A f \in Matches : Bye(f) /\ Built[f].next = n => Built[f].slot \in Slots
  BY BracketAssumption, TreeAssumption DEF Bye, IsSided, IsTree, Matches
<1> HIDE DEF saved
<1>4. Complete(n, saved)
  BY <1>1, <1>2, <1>3 DEF Complete
<1> QED
  BY <1>4 DEF saved

\* What stays complete when the teams stay.
LEMMA SameTeamsComplete ==
  ASSUME NEW m \in Matches, NEW row, NEW new, Complete(m, row), new.a = row.a, new.b = row.b,
         new.done => row.done \/ (row.a # NoTeam /\ row.b # NoTeam)
  PROVE  Complete(m, new)
<1>1. \A f \in Matches : Bye(f) /\ Built[f].next = m => Built[f].slot \in Slots
  BY BracketAssumption, TreeAssumption DEF Bye, IsSided, IsTree, Matches
<1> QED
  BY <1>1 DEF Complete, Slots

LEMMA OthersComplete ==
  ASSUME TypeOK, AllComplete, NEW c \in Clients, NEW r,
         req' = [req EXCEPT ![c] = r], RequestComplete(r)
  PROVE  \A d \in Clients : RequestComplete(req'[d])
BY DEF TypeOK, AllComplete

LEMMA InitComplete == Init => AllComplete
<1> SUFFICES ASSUME Init PROVE AllComplete
  OBVIOUS
<1>1. ASSUME NEW m \in Matches
      PROVE  /\ Complete(m, matches[m])
             /\ Bye(m) => matches[m].done /\ ~Undoable(matches[m])
  <2>1. /\ matches[m].a = Built[m].a /\ matches[m].b = Built[m].b /\ matches[m].done = Built[m].done
    BY DEF Init
  <2>2. ASSUME NEW f \in Matches, Bye(f), Built[f].next = m
        PROVE  matches[m][Built[f].slot] # NoTeam
    <3>1. Built[f].next # NoMatch /\ Built[f].slot \in Slots /\ Built[m][Built[f].slot] = Built[f].winner
      BY <2>2, BracketAssumption, TreeAssumption DEF Bye, IsSided, IsTree, Matches
    <3>2. Built[f].winner # NoTeam
      BY <2>2, BracketAssumption DEF Bye, IsSided, Matches
    <3> QED
      BY <2>1, <3>1, <3>2 DEF Slots
  <2>3. Bye(m) => matches[m].done /\ ~Undoable(matches[m])
    BY <2>1, TreeAssumption DEF Bye, Undoable, IsTree, Matches
  <2>4. (Built[m].round = 1 \/ matches[m].done) /\ ~Bye(m) => matches[m].a # NoTeam /\ matches[m].b # NoTeam
    BY <2>1, TreeAssumption DEF Bye, IsTree, Matches
  <2> QED
    BY <2>2, <2>3, <2>4 DEF Complete
<1>2. ASSUME NEW c \in Clients
      PROVE  RequestComplete(req[c])
  BY DEF Init, Idle, RequestComplete, Ended
<1> QED
  BY <1>1, <1>2 DEF AllComplete

LEMMA NextComplete == TypeOK /\ InSides /\ AllComplete /\ [Next]_vars => AllComplete'
<1> SUFFICES ASSUME TypeOK, InSides, AllComplete, [Next]_vars PROVE AllComplete'
  OBVIOUS
<1> DEFINE Rows == \A m \in Matches : /\ Complete(m, matches'[m])
                                      /\ Bye(m) => matches'[m].done /\ ~Undoable(matches'[m])
           Requests == \A c \in Clients : RequestComplete(req'[c])
<1>0. RequestComplete(Idle)
  BY DEF Idle, RequestComplete, Ended
<1>1. ASSUME UNCHANGED matches PROVE Rows
  BY <1>1 DEF AllComplete
\* What is known of a request in flight.
<1>2. ASSUME NEW c \in Clients, req[c].step \notin Ended
      PROVE  /\ req[c] \in Request /\ req[c].id \in Matches /\ req[c].row \in Row
             /\ ~Bye(req[c].id) /\ Complete(req[c].id, req[c].row)
  BY <1>2 DEF TypeOK, InSides, RequestInSides, AllComplete, RequestComplete, Request
\* The match it feeds.
<1>3. ASSUME NEW c \in Clients, AdvanceLoad(c) \/ RollbackNext(c)
      PROVE  /\ req[c].step \notin Ended
             /\ HasNext(req[c].id)
             /\ Built[req[c].id].slot \in Slots
             /\ matches[Built[req[c].id].next] \in Row
             /\ Complete(Built[req[c].id].next, matches[Built[req[c].id].next])
  <2>1. req[c].step \notin Ended /\ HasNext(req[c].id)
    BY <1>3 DEF AdvanceLoad, RollbackNext, At, InSides, RequestInSides, Ended
  <2> QED
    BY <1>2, <2>1, NextIsNoBye DEF TypeOK, AllComplete
\* A step that leaves the copies of the request alone.
<1>4. ASSUME NEW c \in Clients, req[c].step \notin Ended, NEW r,
             r.id = req[c].id, r.row = req[c].row,
             r.step \notin {"saveNext", "commit"} \/ ~HasNext(r.id)
      PROVE  RequestComplete(r)
  BY <1>2, <1>4 DEF RequestComplete
<1>5. ASSUME NEW c \in Clients, NEW m \in Matches, NEW side \in Slots, RecordLoad(c, m, side)
      PROVE  Rows /\ Requests
  <2> DEFINE row == [matches[m] EXCEPT !.winner = WinnerOf(m, side), !.done = TRUE]
             r == [Idle EXCEPT !.step = "save", !.id = m, !.row = row]
  <2>1. matches[m] \in Row /\ Playable(matches[m]) /\ Complete(m, matches[m]) /\ ~Bye(m)
    BY <1>5 DEF TypeOK, RecordLoad, AllComplete, Playable
  <2>2. row.a = matches[m].a /\ row.b = matches[m].b
    BY <2>1 DEF Row
  <2>3. Complete(m, row)
    <3> HIDE DEF row
    <3> QED
      BY <2>1, <2>2, SameTeamsComplete DEF Playable
  <2>4. r.step = "save" /\ r.id = m /\ r.row = row
    BY DEF Idle
  <2>5. req' = [req EXCEPT ![c] = r]
    BY <1>5 DEF RecordLoad
  <2> HIDE DEF r, row
  <2>6. RequestComplete(r)
    BY <2>1, <2>3, <2>4 DEF RequestComplete
  <2> QED
    BY <1>1, <1>5, <2>5, <2>6, OthersComplete DEF RecordLoad
<1>6. ASSUME NEW c \in Clients, RecordSave(c)
      PROVE  Rows /\ Requests
  <2> DEFINE r == [req[c] EXCEPT !.step = IF HasNext(req[c].id) THEN "advance" ELSE "finish"]
  <2>1. req[c].step \notin Ended
    BY <1>6 DEF RecordSave, At, Ended
  <2>2. Rows
    BY <1>2, <1>6, <2>1 DEF RecordSave, AllComplete, TypeOK
  <2>3. r.id = req[c].id /\ r.row = req[c].row /\ r.step \in {"advance", "finish"}
    BY <1>2, <2>1 DEF Request
  <2>4. req' = [req EXCEPT ![c] = r]
    BY <1>6 DEF RecordSave, Go
  <2> HIDE DEF r
  <2>5. RequestComplete(r)
    BY <1>4, <2>1, <2>3
  <2> QED
    BY <2>2, <2>4, <2>5, OthersComplete
<1>7. ASSUME NEW c \in Clients, AdvanceLoad(c)
      PROVE  Rows /\ Requests
  <2> DEFINE m == req[c].id
             next == matches[Built[m].next]
             saved == Saved(next, WithSlot(next, Built[m].slot, Advancing(req[c].row)))
             r == [req[c] EXCEPT !.step = "saveNext", !.next = saved]
  <2>1. Advancing(req[c].row) \in TeamOrNone
    BY DEF Advancing, TypeOK, Request, Row
  <2>2. Complete(Built[m].next, saved)
    BY <1>3, <1>7, <2>1, SavedComplete
  <2>3. r.id = m /\ r.row = req[c].row /\ r.next = saved /\ r.step = "saveNext"
    BY <1>2, <1>3, <1>7 DEF Request
  <2>4. req' = [req EXCEPT ![c] = r]
    BY <1>7 DEF AdvanceLoad, TypeOK
  <2> HIDE DEF r, saved
  <2>5. RequestComplete(r)
    BY <1>2, <1>3, <1>7, <2>2, <2>3 DEF RequestComplete
  <2> QED
    BY <1>1, <1>7, <2>4, <2>5, OthersComplete DEF AdvanceLoad
<1>8. ASSUME NEW c \in Clients, AdvanceSave(c)
      PROVE  Rows /\ Requests
  <2> DEFINE r == [req[c] EXCEPT !.step = "reload"]
  <2>1. req[c].step = "saveNext" /\ req[c].step \notin Ended /\ HasNext(req[c].id)
    BY <1>8 DEF AdvanceSave, At, InSides, RequestInSides, Ended
  <2>2. Complete(Built[req[c].id].next, req[c].next) /\ ~Bye(Built[req[c].id].next)
    BY <1>2, <2>1, NextIsNoBye DEF AllComplete, RequestComplete
  <2>3. Rows
    BY <1>8, <2>2 DEF AdvanceSave, AllComplete, TypeOK
  <2>4. r.id = req[c].id /\ r.row = req[c].row /\ r.step = "reload"
    BY <1>2, <2>1 DEF Request
  <2>5. req' = [req EXCEPT ![c] = r]
    BY <1>8 DEF AdvanceSave, Go
  <2> HIDE DEF r
  <2>6. RequestComplete(r)
    BY <1>4, <2>1, <2>4
  <2> QED
    BY <2>3, <2>5, <2>6, OthersComplete
<1>9. ASSUME NEW c \in Clients, RecordFinish(c) \/ RollbackTournament(c)
      PROVE  Rows /\ Requests
  <2>1. req[c].step \notin Ended
    BY <1>9 DEF RecordFinish, RollbackTournament, At, Ended
  <2>2. \E r : /\ req' = [req EXCEPT ![c] = r]
               /\ r.id = req[c].id /\ r.row = req[c].row
               /\ r.step \notin {"saveNext", "commit"} \/ ~HasNext(r.id)
    <3>1. CASE RecordFinish(c)
      <4> DEFINE r == [req[c] EXCEPT !.step = "reload"]
      <4>1. req' = [req EXCEPT ![c] = r] /\ r.id = req[c].id /\ r.row = req[c].row /\ r.step = "reload"
        BY <1>2, <2>1, <3>1 DEF RecordFinish, Go, Request
      <4> HIDE DEF r
      <4> QED
        BY <4>1
    <3>2. CASE RollbackTournament(c)
      <4> DEFINE step == IF HasNext(req[c].id) THEN "next" ELSE "commit"
                 r == [req[c] EXCEPT !.step = step, !.seen = status]
      <4>1. req' = [req EXCEPT ![c] = r]
        BY <3>2 DEF RollbackTournament, TypeOK
      <4>2. r.id = req[c].id /\ r.row = req[c].row /\ r.step = step
        BY <1>2, <2>1 DEF Request
      <4> HIDE DEF r
      <4> QED
        BY <4>1, <4>2
    <3> QED
      BY <1>9, <3>1, <3>2
  <2>3. PICK r : /\ req' = [req EXCEPT ![c] = r]
                 /\ r.id = req[c].id /\ r.row = req[c].row
                 /\ r.step \notin {"saveNext", "commit"} \/ ~HasNext(r.id)
    BY <2>2
  <2>4. RequestComplete(r)
    BY <1>4, <2>1, <2>3
  <2> QED
    BY <1>1, <1>9, <2>3, <2>4, OthersComplete DEF RecordFinish, RollbackTournament
<1>10. ASSUME NEW c \in Clients, RecordReload(c)
       PROVE  Rows /\ Requests
  <2>1. PICK seen \in ScoreStatus :
          req' = [req EXCEPT ![c] = [Idle EXCEPT !.step = "broadcast", !.seen = seen]]
    BY <1>10 DEF RecordReload
  <2>2. RequestComplete([Idle EXCEPT !.step = "broadcast", !.seen = seen])
    BY DEF RequestComplete, Idle, Ended
  <2> QED
    BY <1>1, <1>10, <2>1, <2>2, OthersComplete DEF RecordReload
<1>11. ASSUME NEW c \in Clients, NEW m \in Matches, RollbackLoad(c, m)
       PROVE  Rows /\ Requests
  <2> DEFINE r == [Idle EXCEPT !.step = "status", !.id = m, !.row = matches[m]]
  <2>1. ~Bye(m) /\ Complete(m, matches[m])
    BY <1>11 DEF RollbackLoad, AllComplete
  <2>2. r.step = "status" /\ r.id = m /\ r.row = matches[m]
    BY DEF Idle
  <2>3. req' = [req EXCEPT ![c] = r]
    BY <1>11 DEF RollbackLoad
  <2> HIDE DEF r
  <2>4. RequestComplete(r)
    BY <2>1, <2>2 DEF RequestComplete
  <2> QED
    BY <1>1, <1>11, <2>3, <2>4, OthersComplete DEF RollbackLoad
<1>12. ASSUME NEW c \in Clients, RollbackNext(c)
       PROVE  Rows /\ Requests
  <2> DEFINE m == req[c].id
             next == matches[Built[m].next]
             saved == Saved(next, Emptied(next, Built[m].slot))
             r == [req[c] EXCEPT !.step = "commit", !.next = saved]
  <2>1. Complete(Built[m].next, saved)
    BY <1>3, <1>12, SavedComplete DEF Emptied, TeamOrNone
  <2>2. r.id = m /\ r.row = req[c].row /\ r.next = saved /\ r.step = "commit"
    BY <1>2, <1>3, <1>12 DEF Request
  <2>3. CASE req' = [req EXCEPT ![c] = Idle]
    BY <1>0, <1>1, <1>12, <2>3, OthersComplete DEF RollbackNext
  <2>4. CASE req' = [req EXCEPT ![c].step = "commit", ![c].next = saved]
    <3>1. req' = [req EXCEPT ![c] = r]
      BY <2>4 DEF TypeOK
    <3> HIDE DEF r, saved
    <3>2. RequestComplete(r)
      BY <1>2, <1>3, <1>12, <2>1, <2>2 DEF RequestComplete
    <3> QED
      BY <1>1, <1>12, <3>1, <3>2, OthersComplete DEF RollbackNext
  <2> QED
    BY <1>12, <2>3, <2>4 DEF RollbackNext
<1>13. ASSUME NEW c \in Clients, RollbackCommit(c)
       PROVE  Rows /\ Requests
  <2> DEFINE m == req[c].id
  <2>1. req[c].step = "commit" /\ req[c].step \notin Ended
    BY <1>13 DEF RollbackCommit, At, Ended
  <2>2. Complete(m, Reset(req[c].row)) /\ ~Bye(m)
    <3>1. /\ Reset(req[c].row).a = req[c].row.a /\ Reset(req[c].row).b = req[c].row.b
          /\ Reset(req[c].row).done = FALSE
      BY <1>2, <2>1 DEF Reset, Row
    <3> QED
      BY <1>2, <2>1, <3>1, SameTeamsComplete
  <2>3. Built[m].next \in Matches => Complete(Built[m].next, req[c].next) /\ ~Bye(Built[m].next)
    BY <1>2, <2>1, BracketAssumption, NextIsNoBye DEF AllComplete, RequestComplete, HasNext, IsSided, Matches
  <2>4. Rows
    BY <1>13, <2>2, <2>3 DEF RollbackCommit, AllComplete
  <2>5. RequestComplete([Idle EXCEPT !.step = "broadcast", !.seen = NewStatus(m, req[c].seen)])
    BY DEF RequestComplete, Idle, Ended
  <2> QED
    BY <1>13, <2>4, <2>5, OthersComplete DEF Announced, RollbackCommit
<1>14. ASSUME NEW c \in Clients, Broadcast(c) \/ Fail(c)
       PROVE  Rows /\ Requests
  BY <1>0, <1>1, <1>14, OthersComplete DEF Broadcast, Fail
<1>15. CASE Restart
  BY <1>0, <1>1, <1>15 DEF Restart, AllComplete
<1>16. CASE UNCHANGED vars
  BY <1>16 DEF vars, AllComplete
<1> QED
  BY <1>5, <1>6, <1>7, <1>8, <1>9, <1>10, <1>11, <1>12, <1>13, <1>14, <1>15, <1>16
     DEF Next, Continue, AllComplete

\* A set of rounds has a first one.
LEMMA FirstOf ==
  ASSUME NEW T, T \subseteq Nat, T # {}
  PROVE  \E x \in T : \A y \in T : x <= y
<1>1. \E x \in T : \A y \in T : <<y, x>> \notin OpToRel(<, Nat)
  BY WFMin, NatLessThanWellFounded, Zenon
<1>2. \A x, y \in Nat : <<y, x>> \notin OpToRel(<, Nat) => ~(y < x)
  BY Zenon DEF OpToRel
<1>3. \E x \in T : \A y \in T : ~(y < x)
  BY <1>1, <1>2, Zenon
<1> QED
  BY ONLY <1>3, T \subseteq Nat

\* In the first round with an open match, that match has both teams, or one
\* of the matches that feed it has a winner that never came and can be undone.
LEMMA CompleteNeverStuck == TypeOK /\ AllComplete => NeverStuck
<1> SUFFICES ASSUME TypeOK, AllComplete, NEW m0 \in Matches, ~HasNext(m0), ~matches[m0].done
             PROVE  \/ \E m \in Matches : Playable(matches[m])
                    \/ \E m \in Matches :
                         /\ HasNext(m) /\ Undoable(matches[m])
                         /\ ~NextRow(m).done /\ NextRow(m)[Built[m].slot] = NoTeam
  BY DEF NeverStuck
<1> DEFINE Open == {m \in Matches : ~matches[m].done}
           OpenRounds == {Built[m].round : m \in Open}
<1>1. OpenRounds \subseteq Nat /\ Built[m0].round \in OpenRounds
  BY TreeAssumption DEF IsTree, Matches
<1>2. PICK first \in OpenRounds : \A y \in OpenRounds : first <= y
  <2> HIDE DEF OpenRounds
  <2> QED
    BY <1>1, FirstOf
<1>3. PICK m \in Open : Built[m].round = first
  OBVIOUS
<1>4. CASE matches[m].a # NoTeam /\ matches[m].b # NoTeam
  BY <1>3, <1>4 DEF Playable
<1>5. ASSUME NEW s \in Slots, matches[m][s] = NoTeam
      PROVE  \E f \in Matches :
               /\ HasNext(f) /\ Undoable(matches[f])
               /\ ~NextRow(f).done /\ NextRow(f)[Built[f].slot] = NoTeam
  <2>1. m \in Matches /\ ~matches[m].done /\ ~Bye(m) /\ Complete(m, matches[m])
    BY <1>3 DEF AllComplete
  <2>2. Built[m].round # 1
    BY <1>5, <2>1 DEF Complete, Slots
  <2>3. Built[m].round > 1
    BY <2>1, <2>2, TreeAssumption DEF IsTree, Matches
  <2>4. PICK f \in Matches : Built[f].next = m /\ Built[f].slot = s
    BY <1>5, <2>1, <2>3, TreeAssumption DEF IsTree, Matches
  <2>5. HasNext(f) /\ NextRow(f) = matches[m]
    BY <2>1, <2>4, BracketAssumption DEF HasNext, NextRow, IsSided, Matches
  <2>6. Built[f].round \in Nat /\ Built[m].round = Built[f].round + 1
    BY <2>4, <2>5, TreeAssumption DEF HasNext, IsTree, Matches
  <2>7. matches[f].done
    <3>1. SUFFICES ASSUME f \in Open PROVE FALSE
      OBVIOUS
    <3>2. first <= Built[f].round
      BY <1>2, <3>1
    <3> QED
      BY <1>3, <2>6, <3>2
  <2>8. ~Bye(f)
    BY <1>5, <2>1, <2>4 DEF Complete
  <2>9. Undoable(matches[f])
    BY <2>7, <2>8 DEF AllComplete, Complete, Undoable
  <2> QED
    BY <1>5, <2>1, <2>4, <2>5, <2>9
<1> QED
  BY <1>4, <1>5 DEF Slots

\* Whatever requests were interleaved or lost, the organiser is never stuck
\* before the final has a result: some match can be played, or a result whose
\* winner never reached the next match can be undone and entered again.
THEOREM NeverAtADeadEnd == Spec => []NeverStuck
<1>1. Init => TypeOK /\ InSides /\ AllComplete
  BY InitType, InitInSides, InitComplete
<1>2. TypeOK /\ InSides /\ AllComplete /\ [Next]_vars
        => TypeOK' /\ InSides' /\ AllComplete'
  BY NextType, NextInSides, NextComplete
<1> QED
  BY <1>1, <1>2, CompleteNeverStuck, PTL DEF Spec

=============================================================================
