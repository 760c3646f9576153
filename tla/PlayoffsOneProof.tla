--------------------------- MODULE PlayoffsOneProof ---------------------------
(***************************************************************************)
(* What an organiser can count on who sends one request after another, for *)
(* every bracket, whatever calls fail: the properties of module            *)
(* MCPlayoffsOne with a single client.                                     *)
(***************************************************************************)
EXTENDS MCPlayoffsOne, PlayoffsProof

-----------------------------------------------------------------------------
(***************************************************************************)
(* The rows of a bracket                                                   *)
(***************************************************************************)

\* What stands in the slot that the winner of a match goes to.
SlotIn(rows, m) == rows[Built[m].next][Built[m].slot]

\* It is the winner, or the one that was sent on first (held) once his result
\* was undone.
Placed(rows, held, m) ==
  IF held[m] = NoTeam
  THEN SlotIn(rows, m) # NoTeam => rows[m].done /\ rows[m].winner = SlotIn(rows, m)
  ELSE /\ SlotIn(rows, m) = held[m]
       /\ rows[m].a # NoTeam /\ rows[m].b # NoTeam
       /\ held[m] \in {rows[m].a, rows[m].b}

\* In the first round the slots are those of the seeding.
Sound(rows, held) ==
  \A m \in Matches :
    /\ Consistent(rows[m])
    /\ HasNext(m) => Placed(rows, held, m)
    /\ Built[m].round = 1 => rows[m].a = Built[m].a /\ rows[m].b = Built[m].b

\* The teams of all matches are the same in two tables.
SameTeams(rows, new) == \A k \in Matches : new[k].a = rows[k].a /\ new[k].b = rows[k].b

\* So are the results of all matches but one.
SameResultsBut(rows, new, m) ==
  \A k \in Matches \ {m} : new[k].done = rows[k].done /\ new[k].winner = rows[k].winner

LEMMA SameSlots ==
  ASSUME NEW rows, NEW new, SameTeams(rows, new), NEW k \in Matches, HasNext(k)
  PROVE  SlotIn(new, k) = SlotIn(rows, k)
BY NextIsNoBye DEF SameTeams, SlotIn, Slots

\* A result is entered.
LEMMA SoundRecorded ==
  ASSUME NEW rows, NEW held, Sound(rows, held), NEW m \in Matches, ~rows[m].done,
         NEW new, SameTeams(rows, new), SameResultsBut(rows, new, m), Consistent(new[m])
  PROVE  Sound(new, held)
<1>1. ASSUME NEW k \in Matches, HasNext(k) PROVE Placed(new, held, k)
  <2>1. SlotIn(new, k) = SlotIn(rows, k) /\ Placed(rows, held, k)
    BY <1>1, SameSlots DEF Sound
  <2>2. k = m /\ held[k] = NoTeam => SlotIn(rows, k) = NoTeam
    BY <2>1 DEF Placed
  <2> QED
    BY <2>1, <2>2 DEF Placed, SameTeams, SameResultsBut
<1>2. \A k \in Matches : Consistent(new[k])
  BY DEF Sound, Consistent, SameTeams, SameResultsBut
<1> QED
  BY <1>1, <1>2 DEF Sound, SameTeams

\* A winner is sent on to an empty slot.
LEMMA SoundSent ==
  ASSUME NEW rows, NEW held, Sound(rows, held), NEW m \in Matches, HasNext(m),
         rows[m].done, SlotIn(rows, m) = NoTeam,
         NEW new, SlotIn(new, m) = rows[m].winner,
         \A k \in Matches : new[k].done = rows[k].done /\ new[k].winner = rows[k].winner,
         \A k \in Matches : \A s \in Slots :
           <<k, s>> # <<Built[m].next, Built[m].slot>> => new[k][s] = rows[k][s]
  PROVE  Sound(new, held)
<1> DEFINE n == Built[m].next
<1>1. n \in Matches /\ Built[m].slot \in Slots /\ Built[n].round > 1
  BY NextIsNoBye
<1>2. \A k \in Matches \ {n} : new[k].a = rows[k].a /\ new[k].b = rows[k].b
  BY DEF Slots
<1>3. \A s \in Slots : rows[n][s] # NoTeam => new[n][s] = rows[n][s]
  BY <1>1 DEF SlotIn
<1>4. /\ rows[n].a # NoTeam => new[n].a = rows[n].a
      /\ rows[n].b # NoTeam => new[n].b = rows[n].b
      /\ rows[n].a = NoTeam \/ rows[n].b = NoTeam
  BY <1>1, <1>3 DEF Slots, SlotIn
<1>5. ASSUME NEW k \in Matches, HasNext(k) PROVE Placed(new, held, k)
  <2>1. Placed(rows, held, k) /\ Built[k].next \in Matches /\ Built[k].slot \in Slots
    BY <1>5, NextIsNoBye DEF Sound
  <2>2. k = n => held[k] = NoTeam
    BY <1>4, <2>1 DEF Placed
  <2>3. CASE k = m
    BY <2>1, <2>2, <2>3 DEF Placed
  <2>4. CASE k # m
    <3>1. SlotIn(new, k) = SlotIn(rows, k)
      <4>1. <<Built[k].next, Built[k].slot>> # <<n, Built[m].slot>>
        BY <1>5, <2>4, TreeAssumption DEF IsTree, Matches, HasNext
      <4> QED
        BY <2>1, <4>1 DEF SlotIn
    <3> QED
      BY <1>2, <2>1, <2>2, <3>1 DEF Placed
  <2> QED
    BY <2>3, <2>4
<1>6. ASSUME NEW k \in Matches PROVE Consistent(new[k])
  BY <1>2, <1>4 DEF Sound, Consistent
<1> QED
  BY <1>1, <1>2, <1>5, <1>6 DEF Sound

\* A result is undone: whoever stood in the next match stays there.
LEMMA SoundReset ==
  ASSUME NEW rows, NEW held, Sound(rows, held), NEW m \in Matches, Undoable(rows[m]),
         NEW new, SameTeams(rows, new), SameResultsBut(rows, new, m),
         ~new[m].done, new[m].winner = NoTeam,
         NEW then,
         \A k \in Matches : then[k] = IF k = m /\ HasNext(k) THEN SlotIn(rows, k) ELSE held[k]
  PROVE  Sound(new, then)
<1>1. ASSUME NEW k \in Matches, HasNext(k) PROVE Placed(new, then, k)
  <2>1. SlotIn(new, k) = SlotIn(rows, k) /\ Placed(rows, held, k) /\ Consistent(rows[k])
    BY <1>1, SameSlots DEF Sound
  <2>2. CASE k = m
    <3>1. then[k] = SlotIn(rows, k)
      BY <1>1, <2>2
    <3>2. SlotIn(rows, k) # NoTeam => SlotIn(rows, k) \in {rows[k].a, rows[k].b}
      BY <2>1, <2>2 DEF Placed, Consistent, Undoable
    <3> QED
      BY <2>1, <2>2, <3>1, <3>2 DEF Placed, Undoable, SameTeams
  <2>3. CASE k # m
    BY <2>1, <2>3 DEF Placed, SameTeams, SameResultsBut
  <2> QED
    BY <2>2, <2>3
<1>2. \A k \in Matches : Consistent(new[k])
  BY DEF Sound, Consistent, SameTeams, SameResultsBut
<1> QED
  BY <1>1, <1>2 DEF Sound, SameTeams

LEMMA SoundSame ==
  ASSUME NEW rows, NEW held, Sound(rows, held), NEW then, \A k \in Matches : then[k] = held[k]
  PROVE  Sound(rows, then)
BY DEF Sound, Placed

\* Save of the next match: a slot that is filled stays as it is.
LEMMA SavedFields ==
  ASSUME NEW row \in Row, NEW slot \in Slots, NEW team
  PROVE  LET new == Saved(row, WithSlot(row, slot, team))
         IN  /\ new.done = row.done /\ new.winner = row.winner
             /\ new[slot] = IF row[slot] # NoTeam THEN row[slot] ELSE team
             /\ \A s \in Slots \ {slot} : new[s] = row[s]
BY DEF Saved, WithSlot, Row, Slots

-----------------------------------------------------------------------------
(***************************************************************************)
(* The request in flight                                                   *)
(***************************************************************************)

\* What a request has read still holds at its next call.
Phase(rows, st, r) ==
  /\ r.step = "save" => /\ Playable(rows[r.id]) /\ r.row.done
                        /\ r.row.a = rows[r.id].a /\ r.row.b = rows[r.id].b
                        /\ r.row.winner \in {r.row.a, r.row.b}
  /\ r.step \in {"advance", "saveNext", "finish"} => rows[r.id].done /\ r.row.winner = rows[r.id].winner
  /\ r.step = "finish" => ~HasNext(r.id)
  /\ r.step = "saveNext" =>
       r.next = LET n == rows[Built[r.id].next] IN Saved(n, WithSlot(n, Built[r.id].slot, r.row.winner))
  /\ r.step \in {"status", "next", "commit"} => Undoable(rows[r.id]) /\ r.row = rows[r.id]
  /\ r.step = "commit" /\ HasNext(r.id) =>
       /\ ~rows[Built[r.id].next].done
       /\ r.next = LET n == rows[Built[r.id].next] IN Saved(n, WithSlot(n, Built[r.id].slot, NoTeam))
  /\ r.step \in {"next", "commit"} => r.seen = st

BracketInv ==
  /\ TypeOK /\ InSides /\ Sound(matches, kept)
  /\ \A c \in Clients : Phase(matches, status, req[c])

LEMMA PhaseEnded ==
  ASSUME NEW rows, NEW st, NEW r, r.step \in {"idle", "reload", "broadcast"}
  PROVE  Phase(rows, st, r)
BY DEF Phase

LEMMA BracketStart == MCInit => BracketInv
<1> SUFFICES ASSUME MCInit PROVE BracketInv
  OBVIOUS
<1>1. TypeOK /\ InSides
  BY InitType, InitInSides DEF MCInit
<1>2. \A m \in Matches : /\ matches[m].a = Built[m].a /\ matches[m].b = Built[m].b
                         /\ matches[m].winner = Built[m].winner /\ matches[m].done = Built[m].done
                         /\ kept[m] = NoTeam
  BY DEF MCInit, Init
<1>3. ASSUME NEW m \in Matches, HasNext(m) PROVE Placed(matches, kept, m)
  <2>1. /\ Built[m].next \in Matches /\ Built[m].slot \in Slots
        /\ Built[Built[m].next][Built[m].slot] = Built[m].winner
    BY <1>3, BracketAssumption, TreeAssumption DEF HasNext, IsSided, IsTree, Matches
  <2>2. SlotIn(matches, m) = Built[m].winner
    BY <1>2, <2>1 DEF Slots, SlotIn
  <2> QED
    BY <1>2, <1>3, <2>2, BracketAssumption DEF IsSided, Matches, Placed
<1>4. Sound(matches, kept)
  <2>1. \A m \in Matches : Consistent(matches[m])
    BY InitConsistent DEF MCInit, AllConsistent
  <2> QED
    BY <1>2, <1>3, <2>1 DEF Sound
<1>5. \A c \in Clients : Phase(matches, status, req[c])
  BY PhaseEnded DEF MCInit, Init, Idle
<1> QED
  BY <1>1, <1>4, <1>5 DEF BracketInv

\* What is known of a request in flight.
LEMMA InFlightFacts ==
  ASSUME BracketInv, NEW c \in Clients
  PROVE  /\ req[c] \in Request /\ req[c].row \in Row /\ req[c].next \in Row
         /\ Phase(matches, status, req[c])
         /\ req[c].step \notin Ended => req[c].id \in Matches
         /\ req[c].step \in {"advance", "saveNext", "next"} => HasNext(req[c].id)
BY DEF BracketInv, TypeOK, InSides, RequestInSides, Request

\* The steps that leave the rows and the status alone.
LEMMA ReadsKeepPhase ==
  ASSUME BracketInv, NEW c \in Clients,
         \/ \E m \in Matches : RollbackLoad(c, m) \/ \E side \in Slots : RecordLoad(c, m, side)
         \/ AdvanceLoad(c) \/ RecordReload(c) \/ RollbackTournament(c) \/ RollbackNext(c)
         \/ Broadcast(c) \/ Fail(c) \/ Restart
  PROVE  Phase(matches, status, req'[c]) /\ UNCHANGED <<matches, status>>
<1> DEFINE r == req[c]
           m == r.id
           next == matches[Built[m].next]
<1>0. Idle.step = "idle" /\ req[c] \in Request /\ req \in [Clients -> Request]
  BY DEF Idle, BracketInv, TypeOK
<1>1. ASSUME NEW k \in Matches, NEW side \in Slots, RecordLoad(c, k, side)
      PROVE  Phase(matches, status, req'[c]) /\ UNCHANGED <<matches, status>>
  <2> DEFINE row == [matches[k] EXCEPT !.winner = WinnerOf(k, side), !.done = TRUE]
             new == [Idle EXCEPT !.step = "save", !.id = k, !.row = row]
  <2>1. matches[k] \in Row /\ Playable(matches[k])
    BY <1>1 DEF RecordLoad, BracketInv, TypeOK
  <2>2. row.a = matches[k].a /\ row.b = matches[k].b /\ row.done /\ row.winner \in {row.a, row.b}
    BY <2>1 DEF Row, WinnerOf, Slots
  <2>3. new.step = "save" /\ new.id = k /\ new.row = row
    BY DEF Idle
  <2>4. req'[c] = new
    BY <1>0, <1>1 DEF RecordLoad
  <2> HIDE DEF new, row
  <2>5. Phase(matches, status, new)
    BY ONLY <2>1, <2>2, <2>3 DEF Phase
  <2> QED
    BY <1>1, <2>4, <2>5 DEF RecordLoad
<1>2. ASSUME AdvanceLoad(c) PROVE Phase(matches, status, req'[c]) /\ UNCHANGED <<matches, status>>
  <2> DEFINE saved == Saved(next, WithSlot(next, Built[m].slot, r.row.winner))
             new == [r EXCEPT !.step = "saveNext", !.next = saved]
  <2>1. r.step = "advance" /\ r.step \notin Ended
    BY <1>2 DEF AdvanceLoad, At, Ended
  <2>2. new.step = "saveNext" /\ new.id = m /\ new.row = r.row /\ new.next = saved
    BY <1>0 DEF Request
  <2>3. req'[c] = new
    BY <1>0, <1>2 DEF AdvanceLoad, Advancing
  <2> HIDE DEF new, saved
  <2>4. matches[m].done /\ r.row.winner = matches[m].winner
    BY <2>1, InFlightFacts DEF Phase
  <2>5. new.next = LET n == matches[Built[new.id].next]
                    IN  Saved(n, WithSlot(n, Built[new.id].slot, new.row.winner))
    BY <2>2 DEF saved
  <2> QED
    BY <1>2, <2>2, <2>3, <2>4, <2>5 DEF Phase, AdvanceLoad
<1>3. ASSUME RecordReload(c) PROVE Phase(matches, status, req'[c]) /\ UNCHANGED <<matches, status>>
  <2>1. req'[c].step = "broadcast"
    BY <1>0, <1>3 DEF RecordReload, Idle
  <2>2. UNCHANGED <<matches, status>>
    BY <1>3 DEF RecordReload
  <2>3. Phase(matches, status, req'[c])
    BY <2>1, PhaseEnded
  <2> QED
    BY <2>2, <2>3
<1>4. ASSUME NEW k \in Matches, RollbackLoad(c, k)
      PROVE  Phase(matches, status, req'[c]) /\ UNCHANGED <<matches, status>>
  <2> DEFINE new == [Idle EXCEPT !.step = "status", !.id = k, !.row = matches[k]]
  <2>1. new.step = "status" /\ new.id = k /\ new.row = matches[k]
    BY DEF Idle
  <2>2. req'[c] = new
    BY <1>0, <1>4 DEF RollbackLoad
  <2> HIDE DEF new
  <2> QED
    BY <1>4, <2>1, <2>2 DEF Phase, RollbackLoad
<1>5. ASSUME RollbackTournament(c) PROVE Phase(matches, status, req'[c]) /\ UNCHANGED <<matches, status>>
  <2> DEFINE step == IF HasNext(m) THEN "next" ELSE "commit"
             new == [r EXCEPT !.step = step, !.seen = status]
  <2>1. r.step = "status"
    BY <1>5 DEF RollbackTournament, At
  <2>2. new.step = step /\ new.id = m /\ new.row = r.row /\ new.seen = status
    BY <1>0 DEF Request
  <2>3. req'[c] = new
    BY <1>0, <1>5 DEF RollbackTournament
  <2> HIDE DEF new
  <2>4. Undoable(matches[m]) /\ r.row = matches[m]
    BY <2>1, InFlightFacts DEF Phase
  <2>5. step \in {"next", "commit"} /\ (HasNext(m) => step = "next")
    OBVIOUS
  <2> HIDE DEF step
  <2> QED
    BY <1>5, <2>2, <2>3, <2>4, <2>5 DEF Phase, RollbackTournament
<1>6. ASSUME RollbackNext(c) PROVE Phase(matches, status, req'[c]) /\ UNCHANGED <<matches, status>>
  <2> DEFINE saved == Saved(next, WithSlot(next, Built[m].slot, NoTeam))
             new == [r EXCEPT !.step = "commit", !.next = saved]
  <2>1. r.step = "next"
    BY <1>6 DEF RollbackNext, At
  <2>2. CASE req' = [req EXCEPT ![c] = Idle]
    BY <1>0, <1>6, <2>2, PhaseEnded DEF RollbackNext
  <2>3. CASE ~Locks(next) /\ req' = [req EXCEPT ![c].step = "commit",
                                                ![c].next = Saved(next, Emptied(next, Built[m].slot))]
    <3>1. new.step = "commit" /\ new.id = m /\ new.row = r.row /\ new.next = saved /\ new.seen = r.seen
      BY <1>0 DEF Request
    <3>2. req'[c] = new
      BY <1>0, <2>3 DEF Emptied
    <3> HIDE DEF new
    <3>3. Undoable(matches[m]) /\ r.row = matches[m] /\ r.seen = status
      BY <2>1, InFlightFacts DEF Phase
    <3>4. ~matches[Built[new.id].next].done
      BY <2>3, <3>1 DEF Locks
    <3>5. new.next = LET n == matches[Built[new.id].next]
                      IN  Saved(n, WithSlot(n, Built[new.id].slot, NoTeam))
      BY <3>1
    <3> QED
      BY <1>6, <3>1, <3>2, <3>3, <3>4, <3>5 DEF Phase, RollbackNext
  <2> QED
    BY <1>6, <2>2, <2>3 DEF RollbackNext
<1>7. ASSUME Broadcast(c) \/ Fail(c) \/ Restart
      PROVE  Phase(matches, status, req'[c]) /\ UNCHANGED <<matches, status>>
  <2>1. req'[c] = Idle /\ UNCHANGED <<matches, status>>
    BY <1>0, <1>7 DEF Broadcast, Fail, Restart
  <2> QED
    BY <1>0, <2>1, PhaseEnded
<1> QED
  BY <1>1, <1>2, <1>3, <1>4, <1>5, <1>6, <1>7

-----------------------------------------------------------------------------
(***************************************************************************)
(* The steps that write, in terms of teams and results                     *)
(***************************************************************************)

LEMMA RecordSaveDoes ==
  ASSUME BracketInv, NEW c \in Clients, RecordSave(c), NEW m, m = req[c].id
  PROVE  /\ m \in Matches /\ Playable(matches[m])
         /\ SameTeams(matches, matches') /\ SameResultsBut(matches, matches', m)
         /\ matches'[m].done /\ matches'[m].winner \in {matches[m].a, matches[m].b}
         /\ Phase(matches', status', req'[c])
<1> DEFINE r == req[c]
           new == [r EXCEPT !.step = IF HasNext(m) THEN "advance" ELSE "finish"]
<1>0. r.step = "save" /\ r \in Request /\ m \in Matches /\ r.row \in Row /\ Phase(matches, status, r)
  BY InFlightFacts DEF RecordSave, At, Ended
<1>1. matches' = [matches EXCEPT ![m] = r.row] /\ req'[c] = new /\ matches \in [Matches -> Row]
  BY DEF RecordSave, Go, BracketInv, TypeOK
<1>2. /\ new.id = m /\ new.row = r.row
      /\ new.step \in {"advance", "finish"} /\ (new.step = "finish" => ~HasNext(m))
  BY <1>0 DEF Request
<1> HIDE DEF new
<1>3. /\ Playable(matches[m]) /\ r.row.done /\ r.row.a = matches[m].a /\ r.row.b = matches[m].b
      /\ r.row.winner \in {matches[m].a, matches[m].b}
  BY <1>0 DEF Phase
<1>4. matches'[m] = r.row /\ \A k \in Matches \ {m} : matches'[k] = matches[k]
  BY <1>0, <1>1
<1>5. SameTeams(matches, matches') /\ SameResultsBut(matches, matches', m)
  BY <1>3, <1>4 DEF SameTeams, SameResultsBut
<1>6. Phase(matches', status', new)
  BY <1>2, <1>3, <1>4 DEF Phase
<1> QED
  BY <1>0, <1>1, <1>3, <1>4, <1>5, <1>6

LEMMA AdvanceSaveDoes ==
  ASSUME BracketInv, NEW c \in Clients, AdvanceSave(c), NEW m, m = req[c].id
  PROVE  /\ m \in Matches /\ HasNext(m) /\ matches[m].done
         /\ \A k \in Matches : matches'[k].done = matches[k].done /\ matches'[k].winner = matches[k].winner
         /\ SlotIn(matches', m) = IF SlotIn(matches, m) # NoTeam THEN SlotIn(matches, m) ELSE matches[m].winner
         /\ \A k \in Matches : \A s \in Slots :
              <<k, s>> # <<Built[m].next, Built[m].slot>> => matches'[k][s] = matches[k][s]
         /\ Phase(matches', status', req'[c])
<1> DEFINE r == req[c]
           n == Built[m].next
           row == Saved(matches[n], WithSlot(matches[n], Built[m].slot, matches[m].winner))
<1>0. /\ r.step = "saveNext" /\ r \in Request /\ m \in Matches /\ HasNext(m)
      /\ Phase(matches, status, r) /\ matches \in [Matches -> Row]
  BY InFlightFacts DEF AdvanceSave, At, Ended, BracketInv, TypeOK
<1>1. r.next = row /\ matches[m].done
  BY <1>0 DEF Phase
<1>2. matches' = [matches EXCEPT ![n] = row] /\ req'[c].step = "reload"
  BY <1>1 DEF AdvanceSave, Go, BracketInv, TypeOK, Request
<1>3. n \in Matches /\ Built[m].slot \in Slots /\ matches[n] \in Row
  BY <1>0, NextIsNoBye
<1>4. /\ row.done = matches[n].done /\ row.winner = matches[n].winner
      /\ row[Built[m].slot] = IF SlotIn(matches, m) # NoTeam THEN SlotIn(matches, m) ELSE matches[m].winner
      /\ \A s \in Slots \ {Built[m].slot} : row[s] = matches[n][s]
  BY <1>3, SavedFields DEF SlotIn
<1> HIDE DEF row
<1>5. matches'[n] = row /\ \A k \in Matches \ {n} : matches'[k] = matches[k]
  BY <1>0, <1>2, <1>3
<1>6. \A k \in Matches : matches'[k].done = matches[k].done /\ matches'[k].winner = matches[k].winner
  BY <1>4, <1>5
<1>7. SlotIn(matches', m) = IF SlotIn(matches, m) # NoTeam THEN SlotIn(matches, m) ELSE matches[m].winner
  BY <1>4, <1>5 DEF SlotIn
<1>8. \A k \in Matches : \A s \in Slots :
        <<k, s>> # <<n, Built[m].slot>> => matches'[k][s] = matches[k][s]
  BY <1>4, <1>5
<1>9. Phase(matches', status', req'[c])
  BY <1>2, PhaseEnded
<1> QED
  BY <1>0, <1>1, <1>6, <1>7, <1>8, <1>9

LEMMA RollbackCommitDoes ==
  ASSUME BracketInv, NEW c \in Clients, RollbackCommit(c), NEW m, m = req[c].id
  PROVE  /\ m \in Matches /\ Undoable(matches[m])
         /\ HasNext(m) => ~matches[Built[m].next].done
         /\ SameTeams(matches, matches') /\ SameResultsBut(matches, matches', m)
         /\ ~matches'[m].done /\ matches'[m].winner = NoTeam
         /\ Phase(matches', status', req'[c])
<1> DEFINE r == req[c]
           n == Built[m].next
           row == Saved(matches[n], WithSlot(matches[n], Built[m].slot, NoTeam))
<1>0. /\ r.step = "commit" /\ r \in Request /\ m \in Matches /\ Phase(matches, status, r)
      /\ matches \in [Matches -> Row]
  BY InFlightFacts DEF RollbackCommit, At, Ended, BracketInv, TypeOK
<1>1. /\ r.row = matches[m] /\ Undoable(matches[m])
      /\ HasNext(m) => r.next = row /\ ~matches[n].done
  BY <1>0 DEF Phase
<1>2. matches' = [x \in Matches |-> CASE x = m -> Reset(r.row)
                                      [] x = n -> r.next
                                      [] OTHER -> matches[x]]
  BY DEF RollbackCommit
<1>3. n # m /\ (n \in Matches => HasNext(m))
  BY <1>0, BracketAssumption, NextIsNoBye DEF HasNext
<1>4. ASSUME HasNext(m)
       PROVE  /\ row.done = matches[n].done /\ row.winner = matches[n].winner
              /\ row[Built[m].slot] = IF SlotIn(matches, m) # NoTeam THEN SlotIn(matches, m) ELSE NoTeam
              /\ \A s \in Slots \ {Built[m].slot} : row[s] = matches[n][s]
  <2>1. n \in Matches /\ Built[m].slot \in Slots /\ matches[n] \in Row
    BY <1>0, <1>4, NextIsNoBye
  <2> QED
    BY <2>1, SavedFields DEF SlotIn
<1> HIDE DEF row
<1>5. matches'[m] = Reset(matches[m])
  BY <1>0, <1>1, <1>2, <1>3
<1>6. /\ matches'[m].a = matches[m].a /\ matches'[m].b = matches[m].b
      /\ ~matches'[m].done /\ matches'[m].winner = NoTeam
  BY <1>0, <1>5 DEF Reset, Row
<1>7. ASSUME NEW k \in Matches \ {m}
      PROVE  /\ matches'[k].a = matches[k].a /\ matches'[k].b = matches[k].b
             /\ matches'[k].done = matches[k].done /\ matches'[k].winner = matches[k].winner
  <2>1. CASE k = n
    <3>1. HasNext(m) /\ matches'[k] = row /\ matches[n] \in Row /\ Built[m].slot \in Slots
      BY <1>0, <1>1, <1>2, <1>3, <1>7, <2>1, NextIsNoBye
    <3>2. row.done = matches[n].done /\ row.winner = matches[n].winner
      BY <3>1, <1>4
    <3>3. \A s \in Slots : row[s] = matches[n][s]
      BY <3>1, <1>4 DEF SlotIn
    <3> QED
      BY <2>1, <3>1, <3>2, <3>3 DEF Slots
  <2>2. CASE k # n
    BY <1>2, <1>7, <2>2
  <2> QED
    BY <2>1, <2>2
<1>8. SameTeams(matches, matches') /\ SameResultsBut(matches, matches', m)
  BY <1>6, <1>7 DEF SameTeams, SameResultsBut
<1>9. Phase(matches', status', req'[c])
  <2>1. req'[c].step = "broadcast"
    BY DEF RollbackCommit, Idle, BracketInv, TypeOK
  <2> QED
    BY <2>1, PhaseEnded
<1> QED
  BY <1>0, <1>1, <1>6, <1>8, <1>9

LEMMA RecordFinishDoes ==
  ASSUME BracketInv, NEW c \in Clients, RecordFinish(c)
  PROVE  UNCHANGED matches /\ Phase(matches', status', req'[c])
<1>1. req'[c].step = "reload" /\ matches' = matches
  BY DEF RecordFinish, Go, BracketInv, TypeOK, Request
<1> QED
  BY <1>1, PhaseEnded

-----------------------------------------------------------------------------
(***************************************************************************)
(* The invariant                                                           *)
(***************************************************************************)

\* Which of the lemmas a step of the only client falls under.
LEMMA StepsOfOne ==
  ASSUME NEW c, Clients = {c}, BracketInv, Next
  PROVE  \/ Phase(matches, status, req'[c]) /\ UNCHANGED <<matches, status>>
         \/ RecordSave(c) \/ RecordFinish(c) \/ AdvanceSave(c) \/ RollbackCommit(c)
BY ReadsKeepPhase DEF Next, Continue

\* Only an undo changes what is kept.
LEMMA KeptUnlessUndone ==
  ASSUME MCNext, \A k \in Matches : matches[k].done => matches'[k].done
  PROVE  \A k \in Matches : kept'[k] = kept[k]
BY DEF MCNext

LEMMA SoundKept ==
  ASSUME NEW c, Clients = {c}, BracketInv, MCNext
  PROVE  Sound(matches', kept') /\ Phase(matches', status', req'[c])
<1> DEFINE m == req[c].id
<1>0. Next /\ Sound(matches, kept) /\ c \in Clients
  BY DEF MCNext, BracketInv
<1>1. CASE UNCHANGED matches /\ Phase(matches', status', req'[c])
  BY <1>0, <1>1, KeptUnlessUndone, SoundSame
<1>2. CASE RecordSave(c)
  <2>1. /\ m \in Matches /\ Playable(matches[m])
        /\ SameTeams(matches, matches') /\ SameResultsBut(matches, matches', m)
        /\ matches'[m].done /\ matches'[m].winner \in {matches[m].a, matches[m].b}
        /\ Phase(matches', status', req'[c])
    BY <1>0, <1>2, RecordSaveDoes
  <2>2. Consistent(matches'[m])
    BY <2>1 DEF Consistent, Playable, SameTeams
  <2>3. Sound(matches', kept)
    BY <1>0, <2>1, <2>2, SoundRecorded DEF Playable
  <2>4. \A k \in Matches : matches[k].done => matches'[k].done
    BY <2>1 DEF SameResultsBut
  <2> QED
    BY <2>1, <2>3, <2>4, KeptUnlessUndone, SoundSame
<1>3. CASE AdvanceSave(c)
  <2>1. /\ m \in Matches /\ HasNext(m) /\ matches[m].done
        /\ \A k \in Matches : matches'[k].done = matches[k].done /\ matches'[k].winner = matches[k].winner
        /\ SlotIn(matches', m) = IF SlotIn(matches, m) # NoTeam THEN SlotIn(matches, m) ELSE matches[m].winner
        /\ \A k \in Matches : \A s \in Slots :
             <<k, s>> # <<Built[m].next, Built[m].slot>> => matches'[k][s] = matches[k][s]
        /\ Phase(matches', status', req'[c])
    BY <1>0, <1>3, AdvanceSaveDoes
  <2>2. CASE SlotIn(matches, m) = NoTeam
    <3>1. Sound(matches', kept)
      BY <1>0, <2>1, <2>2, SoundSent
    <3> QED
      BY <2>1, <3>1, KeptUnlessUndone, SoundSame
  <2>3. CASE SlotIn(matches, m) # NoTeam
    <3>1. \A k \in Matches : \A s \in Slots : matches'[k][s] = matches[k][s]
      BY <2>1, <2>3 DEF SlotIn
    <3>2. SameTeams(matches, matches')
      BY <3>1 DEF SameTeams, Slots
    <3>3. \A k \in Matches : HasNext(k) => SlotIn(matches', k) = SlotIn(matches, k)
      BY <3>2, SameSlots
    <3>4. Sound(matches', kept)
      BY <1>0, <2>1, <3>2, <3>3 DEF Sound, Placed, Consistent, SameTeams
    <3> QED
      BY <2>1, <3>4, KeptUnlessUndone, SoundSame
  <2> QED
    BY <2>2, <2>3
<1>4. CASE RollbackCommit(c)
  <2>1. /\ m \in Matches /\ Undoable(matches[m])
        /\ SameTeams(matches, matches') /\ SameResultsBut(matches, matches', m)
        /\ ~matches'[m].done /\ matches'[m].winner = NoTeam
        /\ Phase(matches', status', req'[c])
    BY <1>0, <1>4, RollbackCommitDoes
  <2>2. ASSUME NEW k \in Matches
        PROVE  kept'[k] = IF k = m /\ HasNext(k) THEN SlotIn(matches, k) ELSE kept[k]
    <3>1. kept'[k] = IF HasNext(k) /\ matches[k].done /\ ~matches'[k].done THEN SlotTeam(k) ELSE kept[k]
      BY DEF MCNext
    <3>2. matches[k].done /\ ~matches'[k].done <=> k = m
      BY <2>1 DEF SameResultsBut, Undoable
    <3> QED
      BY <3>1, <3>2 DEF SlotIn, SlotTeam, NextRow
  <2> QED
    BY <1>0, <2>1, <2>2, SoundReset
<1>5. CASE RecordFinish(c)
  BY <1>0, <1>1, <1>5, RecordFinishDoes
<1> QED
  BY <1>0, <1>1, <1>2, <1>3, <1>4, <1>5, StepsOfOne

LEMMA BracketKept ==
  ASSUME NEW c, Clients = {c}
  PROVE  BracketInv /\ [MCNext]_mcvars => BracketInv'
<1> SUFFICES ASSUME BracketInv, [MCNext]_mcvars PROVE BracketInv'
  OBVIOUS
<1>1. [Next]_vars
  BY DEF MCNext, mcvars
<1>2. TypeOK' /\ InSides'
  BY <1>1, NextType, NextInSides DEF BracketInv
<1>3. CASE UNCHANGED mcvars
  BY <1>2, <1>3 DEF mcvars, vars, BracketInv
<1>4. CASE MCNext
  BY <1>2, <1>4, SoundKept DEF BracketInv
<1> QED
  BY <1>3, <1>4

LEMMA BracketInvariant ==
  ASSUME NEW c, Clients = {c}
  PROVE  MCSpec => []BracketInv
BY BracketStart, BracketKept, PTL DEF MCSpec

\* With one request after another, whatever calls fail, a slot is filled by a
\* winner of the match below it, and keeps the first one that was sent there
\* although his result is undone.
THEOREM FirstWinnersStay ==
  ASSUME NEW c, Clients = {c}
  PROVE  MCSpec => []SlotsHoldFirstWinners
<1>1. BracketInv => SlotsHoldFirstWinners
  BY DEF BracketInv, Sound, Placed, SlotIn, SlotsHoldFirstWinners, SlotTeam, NextRow
<1> QED
  BY <1>1, BracketInvariant, PTL

-----------------------------------------------------------------------------
(***************************************************************************)
(* The table shows a single-elimination bracket                            *)
(***************************************************************************)

LEMMA ShownIs ==
  ASSUME NEW m \in Matches
  PROVE  /\ Shown[m] = IF HasNext(m) /\ SlotIn(matches, m) # NoTeam
                       THEN SlotIn(matches, m) ELSE matches[m].winner
         /\ Shown'[m] = IF HasNext(m) /\ SlotIn(matches', m) # NoTeam
                        THEN SlotIn(matches', m) ELSE matches'[m].winner
BY DEF Shown, SlotIn, SlotTeam, NextRow

\* A team in a slot is the one that the abstract bracket puts there.
LEMMA TeamsAgree ==
  ASSUME BracketInv, NEW m \in Matches, NEW slot \in Slots, matches[m][slot] # NoTeam
  PROVE  Elimination!TeamIn(m, slot) = matches[m][slot]
<1>1. CASE Built[m].round = 1
  BY <1>1 DEF Elimination!TeamIn, BracketInv, Sound, Slots
<1>2. CASE Built[m].round # 1
  <2> DEFINE Feeds(f) == Built[f].next = m /\ Built[f].slot = slot
             f0 == CHOOSE f \in Elimination!Matches : Feeds(f)
  <2>1. \E f \in Matches : Feeds(f)
    BY <1>2, TreeAssumption DEF IsTree, Matches
  <2>2. f0 \in Matches /\ Built[f0].next = m /\ Built[f0].slot = slot
    BY <2>1 DEF Elimination!Matches, Matches
  <2>3. Elimination!TeamIn(m, slot) = Shown[f0]
    BY <1>2, <2>2 DEF Elimination!TeamIn
  <2> HIDE DEF f0
  <2>4. HasNext(f0) /\ SlotIn(matches, f0) = matches[m][slot]
    BY <2>2, BracketAssumption DEF HasNext, IsSided, Matches, SlotIn
  <2> QED
    BY <2>2, <2>3, <2>4, ShownIs
<1> QED
  BY <1>1, <1>2

\* When nothing moves in the slots and one result changes, the bracket shows
\* the change unless the match has sent a team on.
LEMMA ShownChanges ==
  ASSUME NEW m \in Matches, SameTeams(matches, matches'), SameResultsBut(matches, matches', m)
  PROVE  IF HasNext(m) /\ SlotIn(matches, m) # NoTeam
         THEN UNCHANGED Shown
         ELSE Shown[m] = matches[m].winner /\ Shown' = [Shown EXCEPT ![m] = matches'[m].winner]
<1> DEFINE sent == HasNext(m) /\ SlotIn(matches, m) # NoTeam
<1>1. \A k \in Matches : HasNext(k) => SlotIn(matches', k) = SlotIn(matches, k)
  BY SameSlots
<1>2. ASSUME NEW k \in Matches, k # m \/ sent PROVE Shown'[k] = Shown[k]
  BY <1>1, <1>2, ShownIs DEF SameResultsBut
<1>3. ~sent => Shown[m] = matches[m].winner /\ Shown'[m] = matches'[m].winner
  BY <1>1, ShownIs
<1>4. /\ Shown = [k \in Matches |-> Shown[k]]
      /\ Shown' = [k \in Matches |-> Shown'[k]]
  BY DEF Shown
<1> HIDE DEF sent
<1>5. CASE sent
  <2>1. \A k \in Matches : Shown'[k] = Shown[k]
    BY <1>2, <1>5
  <2>2. UNCHANGED Shown
    BY <1>4, <2>1
  <2> QED
    BY <1>5, <2>2 DEF sent
<1>6. CASE ~sent
  <2>1. Shown' = [Shown EXCEPT ![m] = matches'[m].winner]
    BY <1>2, <1>3, <1>4, <1>6
  <2> QED
    BY <1>3, <1>6, <2>1 DEF sent
<1> QED
  BY <1>5, <1>6

LEMMA EliminationSteps ==
  ASSUME NEW c, Clients = {c}, BracketInv, Next
  PROVE  Elimination!Next \/ UNCHANGED Shown
<1> DEFINE m == req[c].id
<1>0. c \in Clients /\ Sound(matches, kept) /\ Elimination!Matches = Matches
  BY DEF BracketInv, Elimination!Matches, Matches
<1>1. CASE RecordSave(c)
  <2>1. /\ m \in Matches /\ Playable(matches[m])
        /\ SameTeams(matches, matches') /\ SameResultsBut(matches, matches', m)
        /\ matches'[m].done /\ matches'[m].winner \in {matches[m].a, matches[m].b}
    BY <1>0, <1>1, RecordSaveDoes
  <2>2. /\ Elimination!TeamIn(m, "a") = matches[m].a
        /\ Elimination!TeamIn(m, "b") = matches[m].b
    BY <2>1, TeamsAgree DEF Playable, Slots
  <2>3. matches[m].winner = NoTeam
    BY <1>0, <2>1 DEF Sound, Consistent, Playable
  <2>4. ASSUME Shown[m] = matches[m].winner, Shown' = [Shown EXCEPT ![m] = matches'[m].winner]
        PROVE  Elimination!Record(m)
    BY <2>1, <2>2, <2>3, <2>4 DEF Elimination!Record, Playable
  <2>5. \/ UNCHANGED Shown
        \/ Shown[m] = matches[m].winner /\ Shown' = [Shown EXCEPT ![m] = matches'[m].winner]
    BY <2>1, ShownChanges
  <2> QED
    BY <1>0, <2>1, <2>4, <2>5 DEF Elimination!Next
<1>2. CASE RollbackCommit(c)
  <2>1. /\ m \in Matches /\ Undoable(matches[m])
        /\ HasNext(m) => ~matches[Built[m].next].done
        /\ SameTeams(matches, matches') /\ SameResultsBut(matches, matches', m)
        /\ matches'[m].winner = NoTeam
    BY <1>0, <1>2, RollbackCommitDoes
  <2>2. CASE HasNext(m) /\ SlotIn(matches, m) # NoTeam
    BY <2>1, <2>2, ShownChanges
  <2>3. CASE ~(HasNext(m) /\ SlotIn(matches, m) # NoTeam)
    <3>1. Shown[m] = matches[m].winner /\ Shown' = [Shown EXCEPT ![m] = NoTeam]
      BY <2>1, <2>3, ShownChanges
    <3>2. /\ Elimination!TeamIn(m, "a") = matches[m].a
          /\ Elimination!TeamIn(m, "b") = matches[m].b
      BY <2>1, TeamsAgree DEF Undoable, Slots
    <3>3. matches[m].winner # NoTeam
      BY <1>0, <2>1 DEF Sound, Consistent, Undoable
    <3>4. ASSUME HasNext(m) PROVE Built[m].next \in Matches /\ Shown[Built[m].next] = NoTeam
      <4> DEFINE n == Built[m].next
      <4>1. n \in Matches /\ Built[m].slot \in Slots /\ ~matches[n].done /\ SlotIn(matches, m) = NoTeam
        BY <2>1, <2>3, <3>4, NextIsNoBye
      <4>2. matches[n].winner = NoTeam /\ (matches[n].a = NoTeam \/ matches[n].b = NoTeam)
        BY <1>0, <4>1 DEF Sound, Consistent, Slots, SlotIn
      <4>3. HasNext(n) => SlotIn(matches, n) = NoTeam
        BY <1>0, <4>1, <4>2 DEF Sound, Placed
      <4> HIDE DEF n
      <4>4. Shown[n] = NoTeam
        BY <4>1, <4>2, <4>3, ShownIs
      <4> QED
        BY <4>1, <4>4 DEF n
    <3>5. Elimination!Undo(m)
      BY <2>1, <3>1, <3>2, <3>3, <3>4 DEF Elimination!Undo, Undoable, HasNext
    <3> QED
      BY <1>0, <2>1, <3>5 DEF Elimination!Next
  <2> QED
    BY <2>2, <2>3
<1>3. CASE AdvanceSave(c)
  <2>1. /\ m \in Matches /\ HasNext(m) /\ matches[m].done
        /\ \A k \in Matches : matches'[k].winner = matches[k].winner
        /\ SlotIn(matches', m) = IF SlotIn(matches, m) # NoTeam THEN SlotIn(matches, m) ELSE matches[m].winner
        /\ \A k \in Matches : \A s \in Slots :
             <<k, s>> # <<Built[m].next, Built[m].slot>> => matches'[k][s] = matches[k][s]
    BY <1>0, <1>3, AdvanceSaveDoes
  <2>2. ASSUME NEW k \in Matches PROVE Shown'[k] = Shown[k]
    <3>1. CASE k = m
      BY <2>1, <3>1, ShownIs
    <3>2. CASE k # m
      <4>1. ASSUME HasNext(k) PROVE SlotIn(matches', k) = SlotIn(matches, k)
        <5>1. <<Built[k].next, Built[k].slot>> # <<Built[m].next, Built[m].slot>>
          BY <2>1, <3>2, <4>1, TreeAssumption DEF IsTree, Matches, HasNext
        <5>2. Built[k].next \in Matches /\ Built[k].slot \in Slots
          BY <4>1, NextIsNoBye
        <5> QED
          BY <2>1, <5>1, <5>2 DEF SlotIn
      <4> QED
        BY <2>1, <4>1, ShownIs
    <3> QED
      BY <3>1, <3>2
  <2>3. Shown = [k \in Matches |-> Shown[k]] /\ Shown' = [k \in Matches |-> Shown'[k]]
    BY DEF Shown
  <2> QED
    BY <2>2, <2>3
<1>4. CASE UNCHANGED matches
  BY <1>4 DEF Shown, SlotTeam, NextRow
<1> QED
  BY <1>0, <1>1, <1>2, <1>3, <1>4, StepsOfOne, RecordFinishDoes

\* With one request after another, whatever calls fail, what the bracket shows
\* is at every moment a single elimination: what a failed call leaves half done
\* is not seen in it, and neither is the undoing of a result that was sent on.
THEOREM PlayoffsAreSingleElimination ==
  ASSUME NEW c, Clients = {c}
  PROVE  MCSpec => IsSingleElimination
<1>1. MCInit => Elimination!Init
  <2> SUFFICES ASSUME MCInit PROVE Elimination!Init
    OBVIOUS
  <2>1. ASSUME NEW m \in Matches PROVE Shown[m] = Built[m].winner
    <3>1. /\ HasNext(m) => /\ Built[m].next \in Matches /\ Built[m].slot \in Slots
                           /\ Built[Built[m].next][Built[m].slot] = Built[m].winner
      BY BracketAssumption, TreeAssumption DEF HasNext, IsSided, IsTree, Matches
    <3>2. \A k \in Matches : /\ matches[k].a = Built[k].a /\ matches[k].b = Built[k].b
                             /\ matches[k].winner = Built[k].winner
      BY DEF MCInit, Init
    <3>3. HasNext(m) => SlotIn(matches, m) = Built[m].winner
      BY <3>1, <3>2 DEF Slots, SlotIn
    <3> QED
      BY <3>2, <3>3, ShownIs
  <2>2. Shown = [m \in Matches |-> Shown[m]]
    BY DEF Shown
  <2>3. Shown = [m \in Matches |-> Built[m].winner]
    BY <2>1, <2>2
  <2> QED
    BY <2>3 DEF Elimination!Init, Elimination!Matches, Matches
<1>2. BracketInv /\ [MCNext]_mcvars => [Elimination!Next]_Shown
  <2>1. CASE UNCHANGED mcvars
    BY <2>1 DEF mcvars, vars, Shown, SlotTeam, NextRow
  <2>2. CASE MCNext
    BY <2>2, EliminationSteps DEF MCNext
  <2> QED
    BY <2>1, <2>2
<1> QED
  BY <1>1, <1>2, BracketInvariant, PTL DEF MCSpec, IsSingleElimination, Elimination!Spec

-----------------------------------------------------------------------------
(***************************************************************************)
(* The status and what the room has heard of it                            *)
(***************************************************************************)

\* While a request runs, the status follows the final's result at the step
\* "finish", and the room follows the status with the broadcast.
StatusFits(rows, st, heard, r) ==
  /\ \A m \in Matches : ~HasNext(m) => (st = "finished" <=> rows[m].done /\ r.step # "finish")
  /\ r.step \notin {"reload", "broadcast"} => heard = st
  /\ r.step = "broadcast" => r.seen = st

StatusInv ==
  /\ BracketInv
  /\ failed \/ \A c \in Clients : StatusFits(matches, status, feed, req[c])

\* There is one final.
LEMMA OneFinal ==
  ASSUME NEW f \in Matches, NEW g \in Matches, ~HasNext(f), ~HasNext(g)
  PROVE  f = g
BY TreeAssumption DEF HasNext, IsTree, Matches

LEMMA StatusStart == MCInit => StatusInv
<1> SUFFICES ASSUME MCInit PROVE StatusInv
  OBVIOUS
<1>1. BracketInv
  BY BracketStart
<1>2. \A m \in Matches : ~HasNext(m) => ~matches[m].done
  BY TreeAssumption DEF MCInit, Init, HasNext, IsTree, Matches
<1>3. ASSUME NEW c \in Clients PROVE StatusFits(matches, status, feed, req[c])
  BY <1>2 DEF MCInit, Init, Idle, StatusFits
<1> QED
  BY <1>1, <1>3 DEF StatusInv

\* The steps that change none of rows, status and feed.
LEMMA ReadsKeepStatus ==
  ASSUME BracketInv, NEW c \in Clients, StatusFits(matches, status, feed, req[c]),
         \/ \E m \in Matches : RollbackLoad(c, m) \/ \E side \in Slots : RecordLoad(c, m, side)
         \/ AdvanceLoad(c) \/ RollbackTournament(c) \/ RollbackNext(c)
  PROVE  StatusFits(matches', status', feed', req'[c])
<1>1. req \in [Clients -> Request] /\ req[c] \in Request /\ Idle.step = "idle"
  BY DEF BracketInv, TypeOK, Idle
<1>2. UNCHANGED <<matches, status, feed>>
  BY DEF RollbackLoad, RecordLoad, AdvanceLoad, RollbackTournament, RollbackNext
<1>3. req[c].step \in {"idle", "advance", "status", "next"}
  BY DEF RollbackLoad, RecordLoad, AdvanceLoad, RollbackTournament, RollbackNext, At
<1>4. req'[c].step \in {"idle", "save", "saveNext", "status", "next", "commit"}
  <2>1. ASSUME NEW m \in Matches, RollbackLoad(c, m) PROVE req'[c].step = "status"
    BY <1>1, <2>1 DEF RollbackLoad, Idle
  <2>2. ASSUME NEW m \in Matches, NEW side \in Slots, RecordLoad(c, m, side) PROVE req'[c].step = "save"
    BY <1>1, <2>2 DEF RecordLoad, Idle
  <2>3. ASSUME AdvanceLoad(c) PROVE req'[c].step = "saveNext"
    BY <1>1, <2>3 DEF AdvanceLoad, Request
  <2>4. ASSUME RollbackTournament(c) PROVE req'[c].step \in {"next", "commit"}
    BY <1>1, <2>4 DEF RollbackTournament, Request
  <2>5. ASSUME RollbackNext(c) PROVE req'[c].step \in {"idle", "commit"}
    BY <1>1, <2>5 DEF RollbackNext, Request
  <2> QED
    BY <2>1, <2>2, <2>3, <2>4, <2>5
<1> QED
  BY <1>2, <1>3, <1>4 DEF StatusFits

LEMMA RecordKeepsStatus ==
  ASSUME BracketInv, NEW c \in Clients, StatusFits(matches, status, feed, req[c]),
         RecordSave(c) \/ RecordFinish(c) \/ AdvanceSave(c)
  PROVE  StatusFits(matches', status', feed', req'[c])
<1> DEFINE r == req[c]
           m == r.id
<1>1. /\ r \in Request /\ r.row \in Row /\ Phase(matches, status, r) /\ m \in Matches
      /\ matches \in [Matches -> Row] /\ status \in Statuses
  BY InFlightFacts DEF RecordSave, RecordFinish, AdvanceSave, At, Ended, BracketInv, TypeOK
<1>2. CASE RecordSave(c)
  <2>1. r.step = "save" /\ UNCHANGED <<status, feed>> /\ matches' = [matches EXCEPT ![m] = r.row]
    BY <1>2 DEF RecordSave, At
  <2>2. req'[c].step = IF HasNext(m) THEN "advance" ELSE "finish"
    BY <1>1, <1>2 DEF RecordSave, Go, BracketInv, TypeOK, Request
  <2>3. ~matches[m].done /\ r.row.done
    BY <1>1, <2>1 DEF Phase, Playable
  <2>4. ASSUME NEW k \in Matches, ~HasNext(k)
        PROVE  status' = "finished" <=> matches'[k].done /\ req'[c].step # "finish"
    <3>1. status = "finished" <=> matches[k].done
      BY <2>1, <2>4 DEF StatusFits
    <3>2. CASE HasNext(m)
      BY <1>1, <2>1, <2>2, <2>4, <3>1, <3>2
    <3>3. CASE ~HasNext(m)
      BY <1>1, <2>1, <2>2, <2>3, <2>4, <3>1, <3>3, OneFinal
    <3> QED
      BY <3>2, <3>3
  <2> QED
    BY <2>1, <2>2, <2>4 DEF StatusFits
<1>3. CASE RecordFinish(c)
  <2>1. r.step = "finish" /\ UNCHANGED <<matches, feed>> /\ status' = "finished"
    BY <1>3 DEF RecordFinish, At
  <2>2. req'[c].step = "reload"
    BY <1>1, <1>3 DEF RecordFinish, Go, BracketInv, TypeOK, Request
  <2>3. matches[m].done /\ ~HasNext(m)
    BY <1>1, <2>1 DEF Phase
  <2> QED
    BY <1>1, <2>1, <2>2, <2>3, OneFinal DEF StatusFits
<1>4. CASE AdvanceSave(c)
  <2>1. r.step = "saveNext" /\ UNCHANGED <<status, feed>>
    BY <1>4 DEF AdvanceSave, At
  <2>2. req'[c].step = "reload"
    BY <1>1, <1>4 DEF AdvanceSave, Go, BracketInv, TypeOK, Request
  <2>3. \A k \in Matches : matches'[k].done = matches[k].done
    BY <1>4, AdvanceSaveDoes
  <2> QED
    BY <2>1, <2>2, <2>3 DEF StatusFits
<1> QED
  BY <1>2, <1>3, <1>4

\* The undo sends the status that it has written.
LEMMA RollbackKeepsStatus ==
  ASSUME BracketInv, NEW c \in Clients, StatusFits(matches, status, feed, req[c]), RollbackCommit(c)
  PROVE  StatusFits(matches', status', feed', req'[c])
<1> DEFINE r == req[c]
           m == r.id
<1>1. /\ r.step = "commit" /\ Phase(matches, status, r) /\ m \in Matches
      /\ status \in Statuses
  BY InFlightFacts DEF RollbackCommit, At, Ended, BracketInv, TypeOK
<1>2. matches[m].done /\ r.seen = status
  BY <1>1 DEF Phase, Undoable
<1>3. status' = NewStatus(m, status) /\ ~matches'[m].done /\ SameResultsBut(matches, matches', m)
  BY <1>2, RollbackCommitDoes DEF RollbackCommit
<1>4. req'[c].step = "broadcast" /\ req'[c].seen = NewStatus(m, status)
  BY <1>2 DEF RollbackCommit, Announced, Idle, BracketInv, TypeOK
<1>5. ASSUME NEW k \in Matches, ~HasNext(k)
      PROVE  status' = "finished" <=> matches'[k].done
  <2>1. status = "finished" <=> matches[k].done
    BY <1>1, <1>5 DEF StatusFits
  <2>2. CASE HasNext(m)
    BY <1>3, <1>5, <2>1, <2>2 DEF NewStatus, SameResultsBut
  <2>3. CASE ~HasNext(m)
    <3>1. k = m
      BY <1>1, <1>5, <2>3, OneFinal
    <3> QED
      BY <1>2, <1>3, <2>1, <2>3, <3>1 DEF NewStatus
  <2> QED
    BY <2>2, <2>3
<1> QED
  BY <1>3, <1>4, <1>5 DEF StatusFits

\* The last two calls of a request, when reading the status succeeds.
LEMMA MessagesKeepStatus ==
  ASSUME BracketInv, NEW c \in Clients, StatusFits(matches, status, feed, req[c]),
         \/ RecordReload(c) /\ req'[c].seen = status
         \/ Broadcast(c)
  PROVE  StatusFits(matches', status', feed', req'[c])
<1>1. req \in [Clients -> Request]
  BY DEF BracketInv, TypeOK
<1>2. CASE RecordReload(c) /\ req'[c].seen = status
  <2>1. req[c].step = "reload" /\ UNCHANGED <<matches, status, feed>>
    BY <1>2 DEF RecordReload, At
  <2>2. req'[c].step = "broadcast"
    BY <1>1, <1>2 DEF RecordReload, Idle
  <2> QED
    BY <1>2, <2>1, <2>2 DEF StatusFits
<1>3. CASE Broadcast(c)
  <2>1. req[c].step = "broadcast" /\ UNCHANGED <<matches, status>> /\ feed' = req[c].seen
    BY <1>3 DEF Broadcast, At
  <2>2. req'[c].step = "idle"
    BY <1>1, <1>3 DEF Broadcast, Idle
  <2> QED
    BY <2>1, <2>2 DEF StatusFits
<1> QED
  BY <1>2, <1>3

LEMMA StatusKept ==
  ASSUME NEW c, Clients = {c}
  PROVE  StatusInv /\ [MCNext]_mcvars => StatusInv'
<1> SUFFICES ASSUME StatusInv, [MCNext]_mcvars PROVE StatusInv'
  OBVIOUS
<1>1. BracketInv'
  BY BracketKept DEF StatusInv
<1>2. CASE UNCHANGED mcvars
  BY <1>1, <1>2 DEF mcvars, vars, StatusInv
<1>3. CASE MCNext /\ failed'
  BY <1>1, <1>3 DEF StatusInv
<1>4. CASE MCNext /\ ~failed'
  <2>1. Next /\ ~CallFails /\ BracketInv /\ StatusFits(matches, status, feed, req[c])
    BY <1>4 DEF MCNext, StatusInv
  <2>2. Restart \/ Fail(c) => RollbackNext(c) \/ Broadcast(c)
    BY <2>1 DEF CallFails
  <2>3. RecordReload(c) => req'[c].seen = status
    BY <2>1 DEF CallFails
  <2>4. \/ \E m \in Matches : RollbackLoad(c, m) \/ \E side \in Slots : RecordLoad(c, m, side)
        \/ AdvanceLoad(c) \/ RollbackTournament(c) \/ RollbackNext(c)
        \/ RecordSave(c) \/ RecordFinish(c) \/ AdvanceSave(c) \/ RollbackCommit(c)
        \/ RecordReload(c) /\ req'[c].seen = status
        \/ Broadcast(c)
    BY <2>1, <2>2, <2>3 DEF Next, Continue
  <2>5. StatusFits(matches', status', feed', req'[c])
    BY <2>1, <2>4, ReadsKeepStatus, RecordKeepsStatus, RollbackKeepsStatus, MessagesKeepStatus
  <2> QED
    BY <1>1, <2>5 DEF StatusInv
<1> QED
  BY <1>2, <1>3, <1>4

\* With one request after another, and until a call fails, the tournament is
\* finished between requests exactly when its final has a result, and the last
\* message of the room says so.
THEOREM StatusIsTrue ==
  ASSUME NEW c, Clients = {c}
  PROVE  MCSpec => []StatusIsTrueUnlessFailed
<1>1. StatusInv => StatusIsTrueUnlessFailed
  BY DEF StatusInv, StatusFits, StatusIsTrueUnlessFailed, FinishedIffFinalPlayed,
         FeedAgreesWhenQuiet, Quiet, At
<1> QED
  BY <1>1, StatusStart, StatusKept, PTL DEF MCSpec

=============================================================================
