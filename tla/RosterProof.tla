----------------------------- MODULE RosterProof -----------------------------
(***************************************************************************)
(* Safety of module Roster for every number of participants, teams and     *)
(* concurrent requests, with and without failures.                         *)
(***************************************************************************)
EXTENDS MCRoster, TLAPS, FiniteSetTheorems

-----------------------------------------------------------------------------
(***************************************************************************)
(* Type correctness: the changes that are decided on                       *)
(***************************************************************************)

Reassignment == UNION {[ps -> TeamIds] : ps \in SUBSET People}

LEMMA NoChangeType == NoChange \in Change /\ Idle \in [step : Steps, ch : Change]
<1>1. [p \in {} |-> NoTeam] \in Reassignment
  <2>1. [p \in {} |-> NoTeam] \in [{} -> TeamIds] /\ {} \in SUBSET People
    OBVIOUS
  <2> QED
    BY <2>1 DEF Reassignment
<1>2. NoChange \in Change
  BY <1>1 DEF NoChange, Change, Reassignment
<1> QED
  BY <1>2 DEF Idle, Steps

LEMMA ReassignType ==
  ASSUME NEW ps \in SUBSET People, NEW f \in [ps -> TeamIds]
  PROVE  f \in Reassignment
BY DEF Reassignment

\* What the decisions come down to: each possible change, with the members and
\* teams that it is made of.
LEMMA AddForms ==
  ASSUME NEW p \in People, NEW ch \in addToRoster(p)
  PROVE  \/ \E t \in teamWithFewerThan(teamSize) : ch = Join(p, t)
         \/ /\ teamWithFewerThan(teamSize) = {}
            /\ \E t \in teamWithAtLeast(teamSize + 1) : \E q \in Members(t), n \in FreshTeams :
                 ch = PairUp(p, q, n)
         \/ /\ teamWithFewerThan(teamSize) = {}
            /\ \E t \in teams : ch = Join(p, t)
<1> DEFINE short == teamWithFewerThan(teamSize)
           big == teamWithAtLeast(teamSize + 1)
<1>1. CASE short # {}
  BY <1>1 DEF addToRoster
<1>2. CASE short = {} /\ big # {}
  <2>1. addToRoster(p) = {PairUp(p, q, n) : q \in UNION {Members(t) : t \in big}, n \in FreshTeams}
    BY <1>2 DEF addToRoster
  <2> QED
    BY <1>2, <2>1
<1>3. CASE short = {} /\ big = {}
  BY <1>3 DEF addToRoster
<1> QED
  BY <1>1, <1>2, <1>3

LEMMA RemoveForms ==
  ASSUME NEW p \in People, NEW ch \in removeFromRoster(p)
  PROVE  \/ /\ member[p] \notin teams \/ Cardinality(Members(member[p])) >= teamSize + 1
            /\ ch = Leave(p)
         \/ /\ member[p] \in teams
            /\ Members(member[p]) \ {p} = {}
            /\ ch = Dissolve(p)
         \/ /\ teams = {member[p]}
            /\ Members(member[p]) \ {p} # {}
            /\ ch = Leave(p)
         \/ /\ member[p] \in teams
            /\ ~ Cardinality(Members(member[p])) >= teamSize + 1
            /\ \E other \in teams \ {member[p]} : ch = BreakUp(p, other)
<1> DEFINE team == member[p]
           remaining == Members(team) \ {p}
           trio == Cardinality(Members(team)) >= teamSize + 1
<1>1. CASE team \notin teams \/ trio
  BY <1>1 DEF removeFromRoster
<1>2. CASE team \in teams /\ ~trio /\ remaining = {}
  <2>1. Cardinality(remaining) # 1
    BY <1>2, FS_EmptySet
  <2> QED
    BY <1>2, <2>1 DEF removeFromRoster
<1>3. CASE team \in teams /\ ~trio /\ remaining # {} /\ teams = {team} /\ Cardinality(remaining) = 1
  BY <1>3 DEF removeFromRoster
<1>4. CASE team \in teams /\ ~trio /\ remaining # {} /\ ~(teams = {team} /\ Cardinality(remaining) = 1)
  BY <1>4 DEF removeFromRoster
<1> QED
  BY <1>1, <1>2, <1>3, <1>4

LEMMA BuildForms ==
  ASSUME NEW ps, NEW ch \in buildTeams(ps)
  PROVE  \E ids \in SUBSET FreshTeams :
           /\ Cardinality(ids) = numTeams(Cardinality(ps))
           /\ \E f \in Dealt(ps, ids) : ch = Deal(ids, f)
BY DEF buildTeams

LEMMA AddType ==
  ASSUME TypeOK, NEW p \in People
  PROVE  addToRoster(p) \subseteq Change
<1>1. teamWithFewerThan(teamSize) \subseteq TeamIds /\ teams \subseteq TeamIds /\ FreshTeams \subseteq TeamIds
  BY DEF TypeOK, teamWithFewerThan, FreshTeams
<1>2. ASSUME NEW t \in TeamIds PROVE Join(p, t) \in Change
  BY NoChangeType DEF Join, Change
<1>3. ASSUME NEW n \in TeamIds, NEW q \in People PROVE PairUp(p, q, n) \in Change
  <2>1. [x \in {q} |-> n] \in Reassignment
    BY ReassignType
  <2>2. Join(p, n) \in Change
    BY <1>2
  <2> QED
    BY <2>1, <2>2 DEF PairUp, Change, Reassignment
<1>4. \A t : Members(t) \subseteq People
  BY DEF Members
<1> QED
  BY <1>1, <1>2, <1>3, <1>4, AddForms

LEMMA RemoveType ==
  ASSUME TypeOK, NEW p \in People
  PROVE  removeFromRoster(p) \subseteq Change
<1>1. Leave(p) \in Change
  BY NoChangeType DEF Leave, Change
<1>2. ASSUME member[p] \in teams PROVE Dissolve(p) \in Change
  BY <1>1, <1>2 DEF Dissolve, TypeOK, Change
<1>3. ASSUME member[p] \in teams, NEW other \in teams PROVE BreakUp(p, other) \in Change
  <2>1. [q \in Members(member[p]) \ {p} |-> other] \in Reassignment
    BY ReassignType DEF TypeOK, Members
  <2> QED
    BY <1>2, <1>3, <2>1 DEF BreakUp, Change, Reassignment
<1> QED
  BY <1>1, <1>2, <1>3, RemoveForms

LEMMA BuildType ==
  ASSUME TypeOK
  PROVE  buildTeams(Present) \subseteq Change
<1> SUFFICES ASSUME NEW ch \in buildTeams(Present) PROVE ch \in Change
  OBVIOUS
<1>1. PICK ids \in SUBSET FreshTeams :
        \E f \in Dealt(Present, ids) : ch = Deal(ids, f)
  BY BuildForms
<1>2. PICK f \in [Present -> ids] : ch = Deal(ids, f)
  BY <1>1 DEF Dealt
<1>3. ids \subseteq TeamIds /\ Present \subseteq People
  BY DEF FreshTeams, Present
<1>4. f \in Reassignment
  BY <1>3, ReassignType
<1> QED
  BY <1>2, <1>3, <1>4, NoChangeType DEF Deal, Change, Reassignment

-----------------------------------------------------------------------------
(***************************************************************************)
(* Type correctness: the steps                                             *)
(***************************************************************************)

\* What a request becomes, as a statement about each request.
LEMMA AfterGo ==
  ASSUME TypeOK, NEW c \in Clients, NEW step \in Steps, NEW ch \in Change, Go(c, step, ch)
  PROVE  /\ req' \in [Clients -> [step : Steps, ch : Change]]
         /\ req'[c] = [step |-> step, ch |-> ch]
         /\ \A d \in Clients \ {c} : req'[d] = req[d]
BY DEF TypeOK, Go

LEMMA AfterIdle ==
  ASSUME TypeOK, NEW c \in Clients, req' = [req EXCEPT ![c] = Idle]
  PROVE  /\ req' \in [Clients -> [step : Steps, ch : Change]]
         /\ req'[c] = Idle
         /\ \A d \in Clients \ {c} : req'[d] = req[d]
BY NoChangeType DEF TypeOK

\* The members after a change, as they are written.
LEMMA ChangedType ==
  ASSUME TypeOK, NEW ch \in Change
  PROVE  /\ Changed(ch) \in [People -> TeamIds \cup {NoTeam, Gone}]
         /\ \A p \in People :
              \/ Changed(ch)[p] = member[p] /\ Changed(ch)[p] # ch.deleteTeam
              \/ p \in ch.add /\ Changed(ch)[p] = ch.to /\ Changed(ch)[p] # ch.deleteTeam
              \/ /\ p \in DOMAIN ch.reassign /\ member[p] # Gone
                 /\ Changed(ch)[p] = ch.reassign[p] /\ Changed(ch)[p] # ch.deleteTeam
              \/ Changed(ch)[p] \in {NoTeam, Gone}
<1> DEFINE moved(p) == CASE p \in ch.gone -> Gone
                         [] p \in ch.add -> ch.to
                         [] p \in DOMAIN ch.reassign /\ member[p] # Gone -> ch.reassign[p]
                         [] OTHER -> member[p]
<1>1. PICK ps \in SUBSET People : ch.reassign \in [ps -> TeamIds]
  BY DEF Change
<1>2. ASSUME NEW p \in People
      PROVE  \/ moved(p) = Gone
             \/ p \in ch.add /\ moved(p) = ch.to
             \/ p \in DOMAIN ch.reassign /\ member[p] # Gone /\ moved(p) = ch.reassign[p]
             \/ moved(p) = member[p]
  OBVIOUS
<1>3. ASSUME NEW p \in People PROVE moved(p) \in TeamIds \cup {NoTeam, Gone}
  BY <1>1, <1>2, <1>3 DEF TypeOK, Change
<1> HIDE DEF moved
<1>4. Changed(ch) = [p \in People |-> IF moved(p) = ch.deleteTeam THEN NoTeam ELSE moved(p)]
  BY DEF Changed, moved
<1> QED
  BY <1>2, <1>3, <1>4

LEMMA NextType == TypeOK /\ [Next]_vars => TypeOK'
<1> SUFFICES ASSUME TypeOK, [Next]_vars PROVE TypeOK'
  OBVIOUS
<1>1. ASSUME NEW c \in Clients, NEW ps \in SUBSET People, AddInSetup(c, ps) PROVE TypeOK'
  <2>1. [NoChange EXCEPT !.add = ps] \in Change
    BY NoChangeType DEF Change
  <2> QED
    BY <1>1, <2>1, AfterGo DEF AddInSetup, Steps, TypeOK
<1>2. ASSUME NEW c \in Clients, NEW p \in People, DeleteInSetup(c, p) PROVE TypeOK'
  <2>1. [NoChange EXCEPT !.gone = {p}] \in Change
    BY NoChangeType DEF Change
  <2> QED
    BY <1>2, <2>1, AfterGo DEF DeleteInSetup, Steps, TypeOK
<1>3. ASSUME NEW c \in Clients, NEW p \in People, AddParticipant(c, p) PROVE TypeOK'
  BY <1>3, AddType, AfterGo DEF AddParticipant, Steps, TypeOK
<1>4. ASSUME NEW c \in Clients, NEW p \in People, AddPanics(c, p) PROVE TypeOK'
  BY <1>4 DEF AddPanics, vars, TypeOK
<1>5. ASSUME NEW c \in Clients, NEW p \in People, DeleteParticipant(c, p) PROVE TypeOK'
  BY <1>5, RemoveType, AfterGo DEF DeleteParticipant, Steps, TypeOK
<1>6. ASSUME NEW c \in Clients, NEW a \in People, NEW b \in People, SwapPlayers(c, a, b) PROVE TypeOK'
  <2>1. Swapped(a, b) \in [{a, b} -> TeamIds]
    BY <1>6 DEF SwapPlayers, Swapped
  <2>2. [NoChange EXCEPT !.reassign = Swapped(a, b)] \in Change
    BY <2>1, NoChangeType, ReassignType DEF Change, Reassignment
  <2> QED
    BY <1>6, <2>2, AfterGo DEF SwapPlayers, Steps, TypeOK
<1>7. ASSUME NEW c \in Clients, GenerateTeams(c) PROVE TypeOK'
  BY <1>7, NoChangeType, AfterGo DEF GenerateTeams, Steps, TypeOK
<1>8. ASSUME NEW c \in Clients, GenerateDeal(c) PROVE TypeOK'
  BY <1>8, BuildType, AfterGo, AfterIdle DEF GenerateDeal, Steps, TypeOK
<1>9. ASSUME NEW c \in Clients, Write(c) PROVE TypeOK'
  <2> DEFINE ch == req[c].ch
  <2>1. ch \in Change
    BY DEF TypeOK
  <2>2. CASE ~Valid(ch)
    BY <1>9, <2>2, AfterIdle DEF Write, TypeOK
  <2>3. CASE Valid(ch)
    <3>1. \/ Go(c, "status", NoChange)
          \/ req' = [req EXCEPT ![c] = Idle]
      BY <1>9, <2>3 DEF Write, Go
    <3>2. req' \in [Clients -> [step : Steps, ch : Change]]
      BY <3>1, NoChangeType, AfterGo, AfterIdle DEF Steps
    <3>3. teams' \in SUBSET TeamIds
      BY <1>9, <2>1, <2>3 DEF Write, TypeOK, Change
    <3>4. member' \in [People -> TeamIds \cup {NoTeam, Gone}]
      BY <1>9, <2>1, <2>3, ChangedType DEF Write
    <3> QED
      BY <1>9, <2>3, <3>2, <3>3, <3>4 DEF Write, TypeOK
  <2> QED
    BY <2>2, <2>3
<1>10. ASSUME NEW c \in Clients, GenerateStatus(c) PROVE TypeOK'
  BY <1>10, AfterIdle DEF GenerateStatus, TypeOK
<1>11. ASSUME NEW c \in Clients, NEW t \in TeamIds, NEW u \in TeamIds, ResultLoad(c, t, u) PROVE TypeOK'
  <2> DEFINE seen == [p \in Members(t) \cup Members(u) |-> member[p]]
  <2>1. Members(t) \cup Members(u) \subseteq People /\ seen \in [Members(t) \cup Members(u) -> TeamIds]
    BY DEF Members
  <2>2. [NoChange EXCEPT !.newTeams = {t, u}, !.reassign = seen] \in Change
    BY <2>1, NoChangeType, ReassignType DEF Change, Reassignment
  <2> QED
    BY <1>11, <2>2, AfterGo DEF ResultLoad, Steps, TypeOK
<1>12. ASSUME NEW c \in Clients, ResultSave(c) PROVE TypeOK'
  <2> DEFINE ch == req[c].ch
  <2>0. ch \in Change
    BY DEF TypeOK
  <2>1. PICK ps \in SUBSET People : ch.reassign \in [ps -> TeamIds]
    BY <2>0 DEF Change
  <2>2. member' \in [People -> TeamIds \cup {NoTeam, Gone}]
    BY <1>12, <2>1 DEF ResultSave, TypeOK
  <2> QED
    BY <1>12, <2>2, AfterIdle DEF ResultSave, TypeOK
<1>13. ASSUME NEW c \in Clients, Fail(c) PROVE TypeOK'
  BY <1>13, AfterIdle DEF Fail, TypeOK
<1>14. CASE UNCHANGED vars
  BY <1>14 DEF vars, TypeOK
<1> QED
  BY <1>1, <1>2, <1>3, <1>4, <1>5, <1>6, <1>7, <1>8, <1>9, <1>10, <1>11, <1>12, <1>13, <1>14 DEF Next

\* The tables and the requests hold what their columns and types allow: a team
\* is only ever set to an id of a team, NULL, or left out with its row.
THEOREM TypeCorrect == Spec => []TypeOK
<1>1. Init => TypeOK
  BY NoChangeType DEF Init, TypeOK
<1> QED
  BY <1>1, NextType, PTL DEF Spec

-----------------------------------------------------------------------------
(***************************************************************************)
(* Every participant's team exists                                         *)
(***************************************************************************)

\* The result that is about to be saved writes nobody to a team that it would
\* not insert as well: with Saves, to a team that is there.
SavesWhole ==
  \A c \in Clients : At(c, "save") =>
    \A p \in DOMAIN req[c].ch.reassign : req[c].ch.reassign[p] \in req[c].ch.newTeams

TeamsInv == TypeOK /\ SavesWhole /\ MembersHaveTeams

\* A transaction that the foreign keys let pass leaves everybody on a team that
\* is there afterwards: those it writes, and those of a team it deletes.
LEMMA ValidChange ==
  ASSUME TypeOK, MembersHaveTeams, NEW ch \in Change, Valid(ch), NEW p \in People
  PROVE  Changed(ch)[p] \in ((teams \cup ch.newTeams) \ {ch.deleteTeam}) \cup {NoTeam, Gone}
<1>1. CASE Changed(ch)[p] = member[p] /\ Changed(ch)[p] # ch.deleteTeam
  BY <1>1 DEF MembersHaveTeams
<1>2. CASE p \in ch.add /\ Changed(ch)[p] = ch.to /\ Changed(ch)[p] # ch.deleteTeam
  BY <1>2 DEF Valid, Referred
<1>3. CASE /\ p \in DOMAIN ch.reassign /\ member[p] # Gone
           /\ Changed(ch)[p] = ch.reassign[p] /\ Changed(ch)[p] # ch.deleteTeam
  BY <1>3 DEF Valid, Referred
<1> QED
  BY <1>1, <1>2, <1>3, ChangedType

\* Only ResultLoad leaves a request about to save.
LEMMA SavesWholeNext ==
  ASSUME TypeOK, SavesWhole, [Next]_vars
  PROVE  SavesWhole'
<1> DEFINE Keeps(c) == /\ \A d \in Clients \ {c} : req'[d] = req[d]
                       /\ req'[c].step # "save"
<1>1. ASSUME NEW c \in Clients, Keeps(c) PROVE SavesWhole'
  BY <1>1 DEF SavesWhole, At
<1>2. ASSUME NEW c \in Clients, NEW step \in Steps \ {"save"}, NEW ch, Go(c, step, ch) PROVE Keeps(c)
  BY <1>2 DEF Go, TypeOK
<1>3. ASSUME NEW c \in Clients, req' = [req EXCEPT ![c] = Idle] PROVE Keeps(c)
  BY <1>3 DEF Idle, TypeOK
<1> HIDE DEF Keeps
<1>4. ASSUME NEW c \in Clients, NEW t \in TeamIds, NEW u \in TeamIds, ResultLoad(c, t, u)
      PROVE  SavesWhole'
  <2> DEFINE read == [NoChange EXCEPT !.newTeams = {t, u},
                                      !.reassign = [p \in Members(t) \cup Members(u) |-> member[p]]]
  <2>1. /\ req'[c] = [step |-> "save", ch |-> read]
        /\ \A d \in Clients \ {c} : req'[d] = req[d]
    BY <1>4 DEF ResultLoad, Go, TypeOK
  <2>2. \A p \in DOMAIN read.reassign : read.reassign[p] \in read.newTeams
    BY DEF NoChange, Members
  <2> HIDE DEF read
  <2>3. req'[c].ch = read
    BY <2>1
  <2> QED
    BY <2>1, <2>2, <2>3 DEF SavesWhole, At
<1>5. ASSUME NEW c \in Clients, Write(c) PROVE SavesWhole'
  <2>1. \/ req' = [req EXCEPT ![c] = Idle]
        \/ Go(c, "status", NoChange)
    BY <1>5 DEF Write, Go
  <2> QED
    BY <2>1, <1>1, <1>2, <1>3 DEF Steps
<1>6. ASSUME NEW c \in Clients, NEW ps \in SUBSET People, AddInSetup(c, ps) PROVE SavesWhole'
  BY <1>1, <1>2, <1>6 DEF AddInSetup, Steps
<1>7. ASSUME NEW c \in Clients, NEW p \in People,
             DeleteInSetup(c, p) \/ AddParticipant(c, p) \/ DeleteParticipant(c, p)
      PROVE  SavesWhole'
  BY <1>1, <1>2, <1>7 DEF DeleteInSetup, AddParticipant, DeleteParticipant, Steps
<1>8. ASSUME NEW c \in Clients, NEW p \in People, AddPanics(c, p) PROVE SavesWhole'
  BY <1>8 DEF AddPanics, vars, SavesWhole, At
<1>9. ASSUME NEW c \in Clients, NEW a \in People, NEW b \in People, SwapPlayers(c, a, b) PROVE SavesWhole'
  BY <1>1, <1>2, <1>9 DEF SwapPlayers, Steps
<1>10. ASSUME NEW c \in Clients, GenerateTeams(c) \/ GenerateDeal(c) PROVE SavesWhole'
  BY <1>1, <1>2, <1>3, <1>10 DEF GenerateTeams, GenerateDeal, Steps
<1>11. ASSUME NEW c \in Clients, GenerateStatus(c) \/ ResultSave(c) \/ Fail(c) PROVE SavesWhole'
  BY <1>1, <1>3, <1>11 DEF GenerateStatus, ResultSave, Fail
<1>12. CASE UNCHANGED vars
  BY <1>12 DEF vars, SavesWhole, At
<1> QED
  BY <1>4, <1>5, <1>6, <1>7, <1>8, <1>9, <1>10, <1>11, <1>12 DEF Next

LEMMA TeamsInvNext == TeamsInv /\ [Next]_vars => TeamsInv'
<1> SUFFICES ASSUME TypeOK, SavesWhole, MembersHaveTeams, [Next]_vars PROVE MembersHaveTeams'
  BY NextType, SavesWholeNext DEF TeamsInv
<1>1. ASSUME UNCHANGED <<teams, member>> PROVE MembersHaveTeams'
  BY <1>1 DEF MembersHaveTeams
<1>2. ASSUME NEW c \in Clients, Write(c) PROVE MembersHaveTeams'
  <2> DEFINE ch == req[c].ch
  <2>1. ch \in Change
    BY DEF TypeOK
  <2>2. CASE ~Valid(ch)
    BY <1>1, <1>2, <2>2 DEF Write
  <2>3. CASE Valid(ch)
    BY <1>2, <2>1, <2>3, ValidChange DEF Write, MembersHaveTeams
  <2> QED
    BY <2>2, <2>3
<1>3. ASSUME NEW c \in Clients, ResultSave(c) PROVE MembersHaveTeams'
  <2> DEFINE ch == req[c].ch
  <2>1. \A p \in DOMAIN ch.reassign : ch.reassign[p] \in ch.newTeams
    BY <1>3 DEF ResultSave, SavesWhole
  <2>2. CASE Saves(ch)
    BY <1>3, <2>1, <2>2 DEF ResultSave, Saves, MembersHaveTeams
  <2>3. CASE ~Saves(ch)
    BY <1>3, <2>3 DEF ResultSave, MembersHaveTeams
  <2> QED
    BY <2>2, <2>3
<1>4. \A c \in Clients, ps \in SUBSET People : AddInSetup(c, ps) => UNCHANGED <<teams, member>>
  BY DEF AddInSetup
<1>5. \A c \in Clients, p \in People :
        DeleteInSetup(c, p) \/ AddParticipant(c, p) \/ AddPanics(c, p) \/ DeleteParticipant(c, p)
          => UNCHANGED <<teams, member>>
  BY DEF DeleteInSetup, AddParticipant, AddPanics, DeleteParticipant, vars
<1>6. \A c \in Clients, a, b \in People : SwapPlayers(c, a, b) => UNCHANGED <<teams, member>>
  BY DEF SwapPlayers
<1>7. \A c \in Clients, t, u \in TeamIds : ResultLoad(c, t, u) => UNCHANGED <<teams, member>>
  BY DEF ResultLoad
<1>8. \A c \in Clients : GenerateTeams(c) \/ GenerateDeal(c) \/ GenerateStatus(c) \/ Fail(c)
                         => UNCHANGED <<teams, member>>
  BY DEF GenerateTeams, GenerateDeal, GenerateStatus, Fail
<1>9. UNCHANGED vars => UNCHANGED <<teams, member>>
  BY DEF vars
<1> QED
  BY <1>1, <1>2, <1>3, <1>4, <1>5, <1>6, <1>7, <1>8, <1>9 DEF Next

\* However additions, removals, swaps, generated teams and results that are
\* saved with the members they were read with interleave, and whichever calls
\* fail, nobody is left on a team that has been deleted.
THEOREM NobodyOnLostTeam == Spec => []MembersHaveTeams
<1>1. Init => TeamsInv
  BY NoChangeType DEF Init, TeamsInv, TypeOK, SavesWhole, MembersHaveTeams, At, Idle
<1> QED
  BY <1>1, TeamsInvNext, PTL DEF Spec, TeamsInv

-----------------------------------------------------------------------------
(***************************************************************************)
(* One request at a time: the roster is whole                              *)
(***************************************************************************)

\* Everybody is on a team, no team is empty, and one who is alone on a team has
\* nobody to join.
Whole ==
  /\ \A p \in Present : member[p] \in teams
  /\ \A t \in teams : /\ Members(t) # {}
                      /\ Cardinality(Members(t)) < teamSize => teams = {t}

\* Before teams are dealt there are none, and nobody is on one.
NoTeamsYet == teams = {} /\ \A p \in People : member[p] \in {NoTeam, Gone}

\* What one request decided on, in terms of the roster as it still is.
Added(ch) ==
  \E p \in People \ Present :
    \/ \E t \in teams : ch = Join(p, t)
    \/ \E t \in teamWithAtLeast(teamSize + 1) : \E q \in Members(t), n \in TeamIds \ teams :
         /\ teamWithFewerThan(teamSize) = {}
         /\ ch = PairUp(p, q, n)

Removed(ch) ==
  \E p \in Present :
    \/ member[p] \in teamWithAtLeast(teamSize + 1) /\ ch = Leave(p)
    \/ Members(member[p]) = {p} /\ ch = Dissolve(p)
    \/ teams = {member[p]} /\ Members(member[p]) \ {p} # {} /\ ch = Leave(p)
    \/ \E other \in teams \ {member[p]} : ch = BreakUp(p, other)

Exchanged(ch) ==
  \E a, b \in People : /\ member[a] \in TeamIds /\ member[b] \in TeamIds /\ member[a] # member[b]
                       /\ ch = [NoChange EXCEPT !.reassign = Swapped(a, b)]

Built(ch) ==
  /\ Cardinality(Present) >= 2
  /\ \E ids \in SUBSET TeamIds :
       /\ Cardinality(ids) = numTeams(Cardinality(Present))
       /\ \E f \in Dealt(Present, ids) : ch = Deal(ids, f)

Unmoved(ch) == \A p \in DOMAIN ch.reassign : ch.reassign[p] = member[p]

\* The teams as GenerateTeams deals them.
DealtEvenly ==
  /\ \A t \in teams : Cardinality(Members(t)) \in {teamSize, teamSize + 1}
  /\ Cardinality({t \in teams : Cardinality(Members(t)) = teamSize + 1}) = Cardinality(Present) % teamSize

\* A lone request has read what is still so.
Current(c) ==
  LET step == req[c].step
      ch == req[c].ch
  IN  /\ step = "participants" => status = "setup"
      /\ step = "insert" => status = "setup" /\ \E ps \in SUBSET People : ch = [NoChange EXCEPT !.add = ps]
      /\ step = "drop" => status = "setup" /\ \E p \in People : ch = Leave(p)
      /\ step = "create" => status = "setup" /\ Built(ch)
      /\ step = "apply" => status # "setup" /\ (Added(ch) \/ Removed(ch))
      /\ step = "swap" => status # "setup" /\ Exchanged(ch)
      /\ step = "save" => status # "setup" /\ Unmoved(ch)
      /\ step = "status" => status = "setup" /\ DealtEvenly

Alone == \A c, d \in InFlight : c = d

\* Teams are there, and whole, once they are created.
Phase(statusNext) == IF status = "setup" /\ ~statusNext THEN NoTeamsYet ELSE Whole

CalmInv ==
  /\ Alone
  /\ \A c \in Clients : Current(c)
  /\ Phase(\E c \in Clients : At(c, "status"))

WholeInv == TypeOK /\ (calm => CalmInv)

\* Wholeness in terms of the members themselves: a team of two or more has two
\* different ones.
HasOne(m, t) == \E a \in People : m[a] = t
HasTwo(m, t) == \E a, b \in People : a # b /\ m[a] = t /\ m[b] = t

WholeOf(m, ts) ==
  /\ \A p \in People : m[p] # Gone => m[p] \in ts
  /\ \A t \in ts : /\ HasOne(m, t)
                   /\ HasTwo(m, t) \/ ts = {t}

LEMMA TwoOrMore ==
  ASSUME NEW S, IsFiniteSet(S)
  PROVE  Cardinality(S) >= teamSize <=> \E a, b \in S : a # b
<1>1. Cardinality(S) \in Nat
  BY FS_CardinalityType
<1>2. ASSUME Cardinality(S) < 2 PROVE ~\E a, b \in S : a # b
  <2>1. Cardinality(S) = 0 \/ Cardinality(S) = 1
    BY <1>1, <1>2
  <2> QED
    BY <2>1, FS_EmptySet, FS_Singleton
<1>3. ASSUME ~\E a, b \in S : a # b PROVE Cardinality(S) < 2
  <2>1. S = {} \/ \E x : S = {x}
    BY <1>3
  <2> QED
    BY <2>1, FS_EmptySet, FS_Singleton
<1> QED
  BY <1>1, <1>2, <1>3 DEF teamSize

LEMMA MembersFinite ==
  /\ IsFiniteSet(Present)
  /\ \A m, t : IsFiniteSet({p \in People : m[p] = t})
<1>1. IsFiniteSet(People)
  BY RosterAssumption
<1>2. Present \in SUBSET People
  BY DEF Present
<1>3. ASSUME NEW m, NEW t PROVE IsFiniteSet({p \in People : m[p] = t})
  <2>1. {p \in People : m[p] = t} \in SUBSET People
    OBVIOUS
  <2> QED
    BY <1>1, <2>1, FS_Subset
<1> QED
  BY <1>1, <1>2, <1>3, FS_Subset

LEMMA Pairs ==
  ASSUME NEW m, NEW t
  PROVE  LET on == {p \in People : m[p] = t}
         IN  /\ Cardinality(on) < teamSize <=> ~HasTwo(m, t)
             /\ on # {} <=> HasOne(m, t)
<1> DEFINE on == {p \in People : m[p] = t}
<1>1. IsFiniteSet(on)
  BY MembersFinite
<1>2. Cardinality(on) \in Nat
  BY <1>1, FS_CardinalityType
<1>3. Cardinality(on) < teamSize <=> ~Cardinality(on) >= teamSize
  BY <1>2 DEF teamSize
<1>4. HasTwo(m, t) <=> \E a, b \in on : a # b
  BY DEF HasTwo
<1>5. Cardinality(on) >= teamSize <=> \E a, b \in on : a # b
  BY <1>1, TwoOrMore
<1>6. on # {} <=> HasOne(m, t)
  BY DEF HasOne
<1> QED
  BY <1>3, <1>4, <1>5, <1>6

LEMMA TrioWithoutOne ==
  ASSUME NEW t \in teamWithAtLeast(teamSize + 1), NEW q
  PROVE  \E a, b \in Members(t) \ {q} : a # b
<1>1. IsFiniteSet(Members(t)) /\ Cardinality(Members(t)) \in Nat
  BY MembersFinite, FS_CardinalityType DEF Members
<1>2. Cardinality(Members(t)) >= 3
  BY DEF teamWithAtLeast, teamSize
<1>3. /\ IsFiniteSet(Members(t) \ {q})
      /\ \/ Cardinality(Members(t) \ {q}) = Cardinality(Members(t))
         \/ Cardinality(Members(t) \ {q}) = Cardinality(Members(t)) - 1
  BY <1>1, FS_RemoveElement
<1>4. Cardinality(Members(t) \ {q}) >= 2
  BY <1>1, <1>2, <1>3
<1> QED
  BY <1>3, <1>4, TwoOrMore DEF teamSize

LEMMA WholeAsPairs ==
  /\ Whole <=> WholeOf(member, teams)
  /\ Whole' <=> WholeOf(member', teams')
BY Pairs DEF Whole, WholeOf, Present, Members

\* Half of n, rounded down, and what one team out of so many gets.
LEMMA Halves ==
  ASSUME NEW n \in Nat, n >= 2
  PROVE  LET k == n \div 2
         IN  /\ k \in Nat /\ k >= 1
             /\ n = 2 * k \/ n = 2 * k + 1
             /\ n % 2 = n - 2 * k
             /\ k = 1 \/ n \div k = 2
<1> DEFINE k == n \div 2
<1>1. k \in Nat /\ k >= 1 /\ (n = 2 * k \/ n = 2 * k + 1) /\ n % 2 = n - 2 * k
  OBVIOUS
<1> HIDE DEF k
<1>2. ASSUME k >= 2 PROVE n \div k = 2
  <2>1. CASE n = 2 * k
    BY <1>1, <1>2, <2>1
  <2>2. CASE n = 2 * k + 1
    BY <1>1, <1>2, <2>2
  <2> QED
    BY <1>1, <2>1, <2>2
<1>3. k = 1 \/ n \div k = 2
  BY <1>1, <1>2
<1> QED
  BY <1>1, <1>3 DEF k

\* Dealing ps to teams of two or three leaves as many trios as there are
\* participants beyond two for each team: choose two members of each team; the
\* others are the third members of the trios.
LEMMA Trios ==
  ASSUME NEW ps, IsFiniteSet(ps), NEW ids, NEW f \in [ps -> ids],
         \A t \in ids : Cardinality({p \in ps : f[p] = t}) \in {2, 3}
  PROVE  Cardinality({t \in ids : Cardinality({p \in ps : f[p] = t}) = 3})
           = Cardinality(ps) - 2 * Cardinality(ids)
<1> DEFINE on(t) == {p \in ps : f[p] = t}
           first == [t \in ids |-> CHOOSE p \in on(t) : TRUE]
           second == [t \in ids |-> CHOOSE p \in on(t) : p # first[t]]
           third(t) == on(t) \ {first[t], second[t]}
           A == {first[t] : t \in ids}
           B == {second[t] : t \in ids}
           rest == ps \ (A \cup B)
           trios == {t \in ids : Cardinality(on(t)) = 3}
<1>1. ASSUME NEW t \in ids
      PROVE  /\ IsFiniteSet(on(t))
             /\ Cardinality(on(t)) >= 2
             /\ first[t] \in on(t) /\ second[t] \in on(t) /\ first[t] # second[t]
             /\ IsFiniteSet(third(t))
             /\ Cardinality(third(t)) = Cardinality(on(t)) - 2
  <2>1. IsFiniteSet(on(t))
    BY FS_Subset
  <2>2. on(t) # {} /\ Cardinality(on(t)) >= 2
    BY <2>1, FS_EmptySet
  <2>3. first[t] \in on(t)
    BY <2>2
  <2>4. IsFiniteSet(on(t) \ {first[t]}) /\ Cardinality(on(t) \ {first[t]}) = Cardinality(on(t)) - 1
    BY <2>1, <2>3, FS_RemoveElement
  <2>5. on(t) \ {first[t]} # {}
    BY <2>4, FS_EmptySet
  <2>6. second[t] \in on(t) /\ second[t] # first[t]
    BY <2>5
  <2>7. second[t] \in on(t) \ {first[t]} /\ third(t) = (on(t) \ {first[t]}) \ {second[t]}
    BY <2>6
  <2>8. /\ IsFiniteSet(third(t)) 
        /\ Cardinality(third(t)) = Cardinality(on(t) \ {first[t]}) - 1
    BY <2>4, <2>7, FS_RemoveElement
  <2>9. Cardinality(on(t)) \in {2, 3}
    OBVIOUS
  <2> HIDE DEF on, first, second
  <2> QED
    BY <2>1, <2>2, <2>3, <2>4, <2>6, <2>8, <2>9
<1>2. \A t \in ids : /\ f[first[t]] = t /\ f[second[t]] = t /\ first[t] # second[t]
                     /\ first[t] \in ps /\ second[t] \in ps
  BY <1>1
<1> HIDE DEF first, second
<1>3. first \in [ids -> A] /\ second \in [ids -> B]
  BY DEF first, second
<1>4. first \in Bijection(ids, A) /\ second \in Bijection(ids, B)
  BY <1>2, <1>3 DEF Bijection, Injection, Surjection, IsInjective
<1>5. A \cap B = {}
  BY <1>2
<1>6. A \subseteq ps /\ B \subseteq ps
  BY <1>2
<1>7. IsFiniteSet(A) /\ IsFiniteSet(B)
  BY <1>6, FS_Subset
<1>8. IsFiniteSet(ids) /\ Cardinality(A) = Cardinality(ids) /\ Cardinality(B) = Cardinality(ids)
  BY <1>4, <1>7, FS_Bijection, FS_Injection DEF Bijection, ExistsBijection
<1> HIDE DEF A, B
<1>9. Cardinality(rest) = Cardinality(ps) - 2 * Cardinality(ids)
  <2>1. IsFiniteSet(A \cup B) /\ Cardinality(A \cup B) = 2 * Cardinality(ids)
    <3>1. Cardinality(A \cup B) = Cardinality(A) + Cardinality(B) - Cardinality(A \cap B)
      BY <1>7, FS_Union
    <3>2. Cardinality(A \cap B) = 0 /\ Cardinality(ids) \in Nat
      BY <1>5, <1>8, FS_EmptySet, FS_CardinalityType
    <3>3. IsFiniteSet(A \cup B)
      BY <1>7, FS_Union
    <3>4. Cardinality(A \cup B) = Cardinality(ids) + Cardinality(ids) - 0
      BY <1>8, <3>1, <3>2
    <3> QED
      BY <3>2, <3>3, <3>4
  <2>2. ps \cap (A \cup B) = A \cup B
    BY <1>6
  <2>3. Cardinality(rest) = Cardinality(ps) - Cardinality(ps \cap (A \cup B))
    BY FS_Difference
  <2> QED
    BY <2>1, <2>2, <2>3
<1>10. \A t \in trios : \E x : third(t) = {x}
  <2>1. ASSUME NEW t \in trios PROVE Cardinality(third(t)) = 1 /\ IsFiniteSet(third(t))
    <3>1. Cardinality(on(t)) = 3
      OBVIOUS
    <3> HIDE DEF on, third
    <3> QED
      BY <1>1, <3>1
  <2> QED
    BY <2>1, FS_Singleton
<1>11. \A t \in ids \ trios : third(t) = {}
  <2>1. ASSUME NEW t \in ids \ trios PROVE Cardinality(third(t)) = 0 /\ IsFiniteSet(third(t))
    <3>1. Cardinality(on(t)) = 2
      OBVIOUS
    <3> HIDE DEF on, third
    <3> QED
      BY <1>1, <3>1
  <2> QED
    BY <2>1, FS_EmptySet
<1> DEFINE g == [t \in trios |-> CHOOSE x : third(t) = {x}]
<1>12. \A t \in trios : third(t) = {g[t]}
  BY <1>10
<1>13. g \in Bijection(trios, rest)
  <2>1. ASSUME NEW t \in trios PROVE g[t] \in rest /\ f[g[t]] = t
    <3>1. g[t] \in third(t)
      BY <1>12
    <3>2. g[t] \in ps /\ f[g[t]] = t /\ g[t] # first[t] /\ g[t] # second[t]
      BY <3>1
    <3> HIDE DEF g
    <3> QED
      BY <1>2, <3>2 DEF A, B
  <2>2. ASSUME NEW x \in rest PROVE f[x] \in trios /\ g[f[x]] = x
    <3>1. f[x] \in ids /\ x \in on(f[x])
      OBVIOUS
    <3>2. x # first[f[x]] /\ x # second[f[x]]
      BY <3>1 DEF A, B
    <3>3. x \in third(f[x])
      BY <3>1, <3>2
    <3> QED
      BY <3>1, <3>3, <1>11, <1>12
  <2> HIDE DEF trios, rest
  <2>3. g \in [trios -> rest]
    BY <2>1
  <2> HIDE DEF g
  <2> QED
    BY <2>1, <2>2, <2>3 DEF Bijection, Injection, Surjection, IsInjective
<1>14. IsFiniteSet(trios)
  BY <1>8, FS_Subset
<1>15. Cardinality(trios) = Cardinality(rest)
  <2> HIDE DEF g, trios, rest
  <2> QED
    BY <1>13, <1>14, FS_Bijection DEF ExistsBijection
<1> QED
  BY <1>9, <1>15

LEMMA DealtSizes ==
  ASSUME NEW ps, IsFiniteSet(ps), Cardinality(ps) >= 2,
         NEW ids, Cardinality(ids) = numTeams(Cardinality(ps)),
         NEW f \in Dealt(ps, ids)
  PROVE  /\ \A t \in ids : Cardinality({p \in ps : f[p] = t}) \in {2, 3}
         /\ Cardinality(ps) - 2 * Cardinality(ids) = Cardinality(ps) % 2
<1> DEFINE n == Cardinality(ps)
           k == Cardinality(ids)
           on(t) == {p \in ps : f[p] = t}
<1>1. n \in Nat /\ k = n \div 2
  BY FS_CardinalityType DEF numTeams, teamSize
<1>2. /\ k \in Nat /\ k >= 1
      /\ n = 2 * k \/ n = 2 * k + 1
      /\ n % 2 = n - 2 * k
      /\ k = 1 \/ n \div k = 2
  BY <1>1, Halves
<1>3. f \in [ps -> ids] /\ \A t \in ids : Cardinality(on(t)) \in {n \div k, n \div k + 1}
  BY DEF Dealt
<1>4. ASSUME k = 1, NEW t \in ids PROVE Cardinality(on(t)) \in {2, 3}
  <2>1. ASSUME NEW u \in ids PROVE \E p \in ps : f[p] = u
    <3>1. Cardinality(on(u)) # 0
      BY <1>2, <1>3, <1>4
    <3> QED
      BY <3>1, FS_EmptySet
  <2>2. f \in Surjection(ps, ids)
    BY <1>3, <2>1 DEF Surjection
  <2>3. ids = {t}
    BY <1>4, <2>2, FS_Surjection, FS_Singleton
  <2>4. on(t) = ps
    BY <1>3, <2>3
  <2> QED
    BY <1>2, <1>4, <2>4
<1>5. ASSUME k # 1, NEW t \in ids PROVE Cardinality(on(t)) \in {2, 3}
  BY <1>2, <1>3, <1>5
<1> QED
  BY <1>2, <1>4, <1>5

\* The roster that each kind of change leaves.
TeamsAfter(ch) == (teams \cup ch.newTeams) \ {ch.deleteTeam}

LEMMA JoinEffect ==
  ASSUME TypeOK, NEW p \in People, NEW t \in TeamIds
  PROVE  /\ \A x \in People : Changed(Join(p, t))[x] = IF x = p THEN t ELSE member[x]
         /\ TeamsAfter(Join(p, t)) = teams
BY RosterAssumption DEF TypeOK, Changed, TeamsAfter, Join, NoChange

LEMMA PairUpEffect ==
  ASSUME TypeOK, NEW p \in People, NEW q \in People, member[q] # Gone, NEW n \in TeamIds
  PROVE  /\ \A x \in People : Changed(PairUp(p, q, n))[x] = IF x \in {p, q} THEN n ELSE member[x]
         /\ TeamsAfter(PairUp(p, q, n)) = teams \cup {n}
BY RosterAssumption DEF TypeOK, Changed, TeamsAfter, PairUp, Join, NoChange

LEMMA LeaveEffect ==
  ASSUME TypeOK, NEW p \in People
  PROVE  /\ \A x \in People : Changed(Leave(p))[x] = IF x = p THEN Gone ELSE member[x]
         /\ TeamsAfter(Leave(p)) = teams
BY RosterAssumption DEF TypeOK, Changed, TeamsAfter, Leave, NoChange

LEMMA DissolveEffect ==
  ASSUME TypeOK, NEW p \in People, Members(member[p]) = {p}, member[p] \in TeamIds
  PROVE  /\ \A x \in People : Changed(Dissolve(p))[x] = IF x = p THEN Gone ELSE member[x]
         /\ TeamsAfter(Dissolve(p)) = teams \ {member[p]}
BY RosterAssumption DEF TypeOK, Changed, TeamsAfter, Dissolve, Leave, NoChange, Members

LEMMA BreakUpEffect ==
  ASSUME TypeOK, NEW p \in People, member[p] \in TeamIds, NEW other \in TeamIds \ {member[p]}
  PROVE  /\ \A x \in People : Changed(BreakUp(p, other))[x] =
               CASE x = p -> Gone
                 [] x # p /\ member[x] = member[p] -> other
                 [] OTHER -> member[x]
         /\ TeamsAfter(BreakUp(p, other)) = teams \ {member[p]}
BY RosterAssumption DEF TypeOK, Changed, TeamsAfter, BreakUp, Dissolve, Leave, NoChange, Members

LEMMA SwapEffect ==
  ASSUME TypeOK, NEW a \in People, NEW b \in People, member[a] \in TeamIds, member[b] \in TeamIds
  PROVE  LET ch == [NoChange EXCEPT !.reassign = Swapped(a, b)]
         IN  /\ \A x \in People : Changed(ch)[x] = CASE x = a -> member[b]
                                                  [] x # a /\ x = b -> member[a]
                                                  [] OTHER -> member[x]
             /\ TeamsAfter(ch) = teams
BY RosterAssumption DEF TypeOK, Changed, TeamsAfter, Swapped, NoChange

LEMMA DealEffect ==
  ASSUME TypeOK, NEW ids \in SUBSET TeamIds, NEW f \in [Present -> ids]
  PROVE  /\ \A x \in People : Changed(Deal(ids, f))[x] = IF x \in Present THEN f[x] ELSE Gone
         /\ TeamsAfter(Deal(ids, f)) = teams \cup ids
BY RosterAssumption DEF TypeOK, Changed, TeamsAfter, Deal, NoChange, Present

\* A whole roster stays whole: by an addition, a removal and a swap; and teams
\* that are dealt are a whole roster.
LEMMA AddKeepsWhole ==
  ASSUME TypeOK, WholeOf(member, teams), NEW ch, Added(ch)
  PROVE  WholeOf(Changed(ch), TeamsAfter(ch))
<1>1. PICK p \in People \ Present :
        \/ \E t \in teams : ch = Join(p, t)
        \/ \E t \in teamWithAtLeast(teamSize + 1) : \E q \in Members(t), n \in TeamIds \ teams :
             /\ teamWithFewerThan(teamSize) = {}
             /\ ch = PairUp(p, q, n)
  BY DEF Added
<1>2. member[p] = Gone /\ teams \subseteq TeamIds
  BY <1>1 DEF Present, TypeOK
<1>3. ASSUME NEW t \in teams, ch = Join(p, t) PROVE WholeOf(Changed(ch), TeamsAfter(ch))
  <2>1. /\ \A x \in People : Changed(ch)[x] = IF x = p THEN t ELSE member[x]
        /\ TeamsAfter(ch) = teams
    BY <1>2, <1>3, JoinEffect
  <2> HIDE DEF Changed, TeamsAfter
  <2>2. \A u \in teams : HasOne(member, u) => HasOne(Changed(ch), u)
    BY <1>2, <2>1, RosterAssumption DEF HasOne
  <2>3. \A u \in teams : HasTwo(member, u) => HasTwo(Changed(ch), u)
    BY <1>2, <2>1, RosterAssumption DEF HasTwo
  <2> QED
    BY <1>2, <2>1, <2>2, <2>3 DEF WholeOf
<1>4. ASSUME NEW t \in teamWithAtLeast(teamSize + 1), NEW q \in Members(t), NEW n \in TeamIds \ teams,
             teamWithFewerThan(teamSize) = {}, ch = PairUp(p, q, n)
      PROVE  WholeOf(Changed(ch), TeamsAfter(ch))
  <2>1. t \in teams /\ q \in People /\ member[q] = t /\ p # q /\ p \in People
    BY <1>1, <1>2, RosterAssumption DEF teamWithAtLeast, Members
  <2>2. /\ \A x \in People : Changed(ch)[x] = IF x \in {p, q} THEN n ELSE member[x]
        /\ TeamsAfter(ch) = teams \cup {n}
    BY <1>2, <1>4, <2>1, PairUpEffect, RosterAssumption
  <2>3. \E a, b \in Members(t) \ {q} : a # b
    BY TrioWithoutOne
  <2>4. HasTwo(Changed(ch), t)
    BY <1>2, <2>1, <2>2, <2>3, RosterAssumption DEF HasTwo, Members
  <2>5. \A u \in teams : HasTwo(member, u)
    <3>1. \A u \in teams : ~ Cardinality(Members(u)) < teamSize
      BY <1>4 DEF teamWithFewerThan
    <3>2. \A u \in teams : Cardinality(Members(u)) < teamSize <=> ~HasTwo(member, u)
      BY Pairs DEF Members
    <3> QED
      BY <3>1, <3>2
  <2>6. \A u \in teams \ {t} : HasTwo(Changed(ch), u)
    BY <1>2, <2>1, <2>2, <2>5, RosterAssumption DEF HasTwo
  <2>7. HasTwo(Changed(ch), n)
    BY <2>1, <2>2 DEF HasTwo
  <2>8. \A u : HasTwo(Changed(ch), u) => HasOne(Changed(ch), u)
    BY DEF HasTwo, HasOne
  <2>9. \A x \in People : Changed(ch)[x] # Gone => Changed(ch)[x] \in TeamsAfter(ch)
    BY <2>2 DEF WholeOf
  <2> QED
    BY <2>2, <2>4, <2>6, <2>7, <2>8, <2>9 DEF WholeOf
<1> QED
  BY <1>1, <1>3, <1>4

LEMMA RemoveKeepsWhole ==
  ASSUME TypeOK, WholeOf(member, teams), NEW ch, Removed(ch)
  PROVE  WholeOf(Changed(ch), TeamsAfter(ch))
<1>1. PICK p \in Present :
        \/ member[p] \in teamWithAtLeast(teamSize + 1) /\ ch = Leave(p)
        \/ Members(member[p]) = {p} /\ ch = Dissolve(p)
        \/ teams = {member[p]} /\ Members(member[p]) \ {p} # {} /\ ch = Leave(p)
        \/ \E other \in teams \ {member[p]} : ch = BreakUp(p, other)
  BY DEF Removed
<1>2. p \in People /\ member[p] # Gone /\ member[p] \in teams /\ teams \subseteq TeamIds
  BY DEF Present, WholeOf, TypeOK
<1> DEFINE team == member[p]
<1>3. ASSUME ch = Leave(p)
      PROVE  /\ \A x \in People : Changed(ch)[x] = IF x = p THEN Gone ELSE member[x]
             /\ TeamsAfter(ch) = teams
  BY <1>2, <1>3, LeaveEffect
<1>4. CASE team \in teamWithAtLeast(teamSize + 1) /\ ch = Leave(p)
  <2>1. \E a, b \in Members(team) \ {p} : a # b
    BY <1>4, TrioWithoutOne
  <2>2. HasOne(Changed(ch), team) /\ HasTwo(Changed(ch), team)
    BY <1>3, <1>4, <2>1 DEF HasOne, HasTwo, Members
  <2>3. \A u \in teams \ {team} : /\ HasOne(member, u) => HasOne(Changed(ch), u)
                                  /\ HasTwo(member, u) => HasTwo(Changed(ch), u)
    BY <1>3, <1>4 DEF HasOne, HasTwo
  <2> QED
    BY <1>2, <1>3, <1>4, <2>2, <2>3 DEF WholeOf
<1>5. CASE Members(team) = {p} /\ ch = Dissolve(p)
  <2>1. /\ \A x \in People : Changed(ch)[x] = IF x = p THEN Gone ELSE member[x]
        /\ TeamsAfter(ch) = teams \ {team}
    BY <1>2, <1>5, DissolveEffect
  <2>2. ~HasTwo(member, team)
    BY <1>5 DEF HasTwo, Members
  <2>3. teams = {team}
    BY <1>2, <2>2 DEF WholeOf
  <2>4. \A x \in People \ {p} : member[x] = Gone
    BY <1>5, <2>3 DEF WholeOf, Members
  <2> QED
    BY <2>1, <2>3, <2>4 DEF WholeOf
<1>6. CASE teams = {team} /\ Members(team) \ {p} # {} /\ ch = Leave(p)
  <2>1. HasOne(Changed(ch), team)
    BY <1>3, <1>6 DEF HasOne, Members
  <2> QED
    BY <1>2, <1>3, <1>6, <2>1 DEF WholeOf
<1>7. ASSUME NEW other \in teams \ {team}, ch = BreakUp(p, other)
      PROVE  WholeOf(Changed(ch), TeamsAfter(ch))
  <2>1. /\ \A x \in People : Changed(ch)[x] = CASE x = p -> Gone
                                               [] x # p /\ member[x] = team -> other
                                               [] OTHER -> member[x]
        /\ TeamsAfter(ch) = teams \ {team}
    BY <1>2, <1>7, BreakUpEffect
  <2>2. \A x \in People : /\ member[x] # team => Changed(ch)[x] = member[x]
                          /\ Changed(ch)[x] \in {Gone, other, member[x]}
                          /\ Changed(ch)[x] # team
    BY <1>2, <1>7, <2>1, RosterAssumption
  <2>3. \A u \in teams : HasTwo(member, u)
    BY <1>2, <1>7 DEF WholeOf
  <2>4. \A u \in teams \ {team} : HasTwo(Changed(ch), u)
    BY <2>2, <2>3 DEF HasTwo
  <2>5. \A u \in teams \ {team} : HasOne(Changed(ch), u)
    BY <2>4 DEF HasOne, HasTwo
  <2>6. \A x \in People : Changed(ch)[x] # Gone => Changed(ch)[x] \in teams \ {team}
    BY <1>7, <2>2 DEF WholeOf
  <2> QED
    BY <2>1, <2>4, <2>5, <2>6 DEF WholeOf
<1> QED
  BY <1>1, <1>4, <1>5, <1>6, <1>7

LEMMA SwapKeepsWhole ==
  ASSUME TypeOK, WholeOf(member, teams), NEW ch, Exchanged(ch)
  PROVE  WholeOf(Changed(ch), TeamsAfter(ch))
<1>1. PICK a \in People, b \in People :
        /\ member[a] \in TeamIds /\ member[b] \in TeamIds /\ member[a] # member[b]
        /\ ch = [NoChange EXCEPT !.reassign = Swapped(a, b)]
  BY DEF Exchanged
<1>2. /\ \A x \in People : Changed(ch)[x] = CASE x = a -> member[b]
                                             [] x # a /\ x = b -> member[a]
                                             [] OTHER -> member[x]
      /\ TeamsAfter(ch) = teams
  BY <1>1, SwapEffect
<1>3. /\ Changed(ch)[a] = member[b] /\ Changed(ch)[b] = member[a]
      /\ \A x \in People \ {a, b} : Changed(ch)[x] = member[x]
  BY <1>1, <1>2
<1>4. member[a] \in teams /\ member[b] \in teams
  BY <1>1, RosterAssumption DEF WholeOf
<1>5. \A u \in teams : HasTwo(member, u)
  BY <1>1, <1>4 DEF WholeOf
<1>6. ASSUME NEW u \in teams PROVE HasTwo(Changed(ch), u)
  <2>1. PICK x \in People, y \in People : x # y /\ member[x] = u /\ member[y] = u
    BY <1>5 DEF HasTwo
  <2> DEFINE other(z) == IF z = a THEN b ELSE IF z = b THEN a ELSE z
  <2>2. \A z \in {x, y} : other(z) \in People /\ Changed(ch)[other(z)] = u
    BY <1>3, <2>1
  <2>3. other(x) # other(y)
    BY <2>1
  <2> QED
    BY <2>2, <2>3 DEF HasTwo
<1>7. \A u : HasTwo(Changed(ch), u) => HasOne(Changed(ch), u)
  BY DEF HasTwo, HasOne
<1>8. \A x \in People : Changed(ch)[x] # Gone => Changed(ch)[x] \in teams
  BY <1>3, <1>4 DEF WholeOf
<1> QED
  BY <1>2, <1>6, <1>7, <1>8 DEF WholeOf

LEMMA DealIsWhole ==
  ASSUME TypeOK, NoTeamsYet, NEW ch, Built(ch),
         member' = Changed(ch), teams' = TeamsAfter(ch)
  PROVE  Whole' /\ DealtEvenly'
<1>1. PICK ids \in SUBSET TeamIds :
        /\ Cardinality(ids) = numTeams(Cardinality(Present))
        /\ \E f \in Dealt(Present, ids) : ch = Deal(ids, f)
  BY DEF Built
<1>2. PICK f \in Dealt(Present, ids) : ch = Deal(ids, f)
  BY <1>1
<1>3. f \in [Present -> ids]
  BY DEF Dealt
<1>4. /\ \A x \in People : member'[x] = IF x \in Present THEN f[x] ELSE Gone
      /\ teams' = ids
  BY <1>2, <1>3, DealEffect DEF NoTeamsYet
<1>5. Present' = Present
  BY <1>3, <1>4, RosterAssumption DEF Present
<1>6. ASSUME NEW t \in ids PROVE Members(t)' = {p \in Present : f[p] = t}
  BY <1>4, RosterAssumption DEF Members, Present
<1>7. /\ \A t \in ids : Cardinality(Members(t)') \in {2, 3}
      /\ Cardinality({t \in ids : Cardinality(Members(t)') = 3}) = Cardinality(Present) % 2
  <2>1. /\ \A t \in ids : Cardinality({p \in Present : f[p] = t}) \in {2, 3}
        /\ Cardinality(Present) - 2 * Cardinality(ids) = Cardinality(Present) % 2
    BY <1>1, DealtSizes, MembersFinite DEF Built
  <2>2. Cardinality({t \in ids : Cardinality({p \in Present : f[p] = t}) = 3})
          = Cardinality(Present) - 2 * Cardinality(ids)
    BY <1>3, <2>1, Trios, MembersFinite
  <2>3. {t \in ids : Cardinality({p \in Present : f[p] = t}) = 3} = {t \in ids : Cardinality(Members(t)') = 3}
    BY <1>6
  <2> QED
    BY <1>6, <2>1, <2>2, <2>3
<1>8. DealtEvenly'
  BY <1>4, <1>5, <1>7 DEF DealtEvenly, teamSize
<1>9. Whole'
  <2>1. \A p \in Present' : member'[p] \in teams'
    BY <1>3, <1>4, <1>5 DEF Present
  <2>2. \A t \in teams' : Members(t)' # {} /\ ~Cardinality(Members(t)') < teamSize
    <3>1. Cardinality({}) = 0
      BY FS_EmptySet
    <3> QED
      BY <1>4, <1>7, <3>1 DEF teamSize
  <2> QED
    BY <2>1, <2>2 DEF Whole
<1> QED
  BY <1>8, <1>9

-----------------------------------------------------------------------------
(***************************************************************************)
(* One request at a time: the steps                                        *)
(***************************************************************************)

\* A history that is still calm: the step is no failure and leaves one request
\* at most.
LEMMA CalmStep ==
  ASSUME TypeOK, MCNext, calm'
  PROVE  /\ calm
         /\ \A c, d \in InFlight' : c = d
         /\ \A c \in Clients : Fail(c) => GenerateDeal(c) \/ ResultSave(c)
<1>1. calm /\ Cardinality(InFlight') <= 1 /\ ~\E c \in Clients : Fail(c) /\ ~GenerateDeal(c) /\ ~ResultSave(c)
  BY DEF MCNext
<1>2. InFlight' \in SUBSET Clients
  BY DEF InFlight
<1>3. IsFiniteSet(InFlight')
  BY <1>2, FS_Subset, RosterAssumption
<1>4. ~\E c, d \in InFlight' : c # d
  BY <1>1, <1>3, TwoOrMore, FS_CardinalityType DEF teamSize
<1> QED
  BY <1>1, <1>4

\* With one request in flight the invariant is about that request alone.
LEMMA Focus ==
  ASSUME CalmInv, Alone', NEW c \in Clients,
         \A d \in Clients \ {c} : req'[d] = req[d],
         c \in InFlight \/ c \in InFlight'
  PROVE  /\ Current(c) /\ Phase(At(c, "status"))
         /\ Current(c)' /\ Phase(At(c, "status"))' => CalmInv'
<1>1. \A d \in Clients \ {c} : req'[d].step = "idle" /\ req[d].step = "idle"
  BY DEF CalmInv, Alone, InFlight, At
<1>2. \A d \in Clients \ {c} : Current(d)'
  BY <1>1 DEF Current
<1>3. /\ (\E d \in Clients : At(d, "status")) <=> At(c, "status")
      /\ (\E d \in Clients : At(d, "status"))' <=> At(c, "status")'
  BY <1>1 DEF At
<1> QED
  BY <1>2, <1>3 DEF CalmInv, Phase

\* A decision from rows that are still as they were read.
LEMMA CurrentAfterRead ==
  ASSUME UNCHANGED <<status, teams, member>>, NEW ch
  PROVE  /\ Added(ch)' <=> Added(ch)
         /\ Removed(ch)' <=> Removed(ch)
         /\ Exchanged(ch)' <=> Exchanged(ch)
         /\ Built(ch)' <=> Built(ch)
         /\ Unmoved(ch)' <=> Unmoved(ch)
         /\ NoTeamsYet' <=> NoTeamsYet
         /\ Whole' <=> Whole
         /\ DealtEvenly' <=> DealtEvenly
<1>1. Present' = Present /\ \A t : Members(t)' = Members(t)
  BY DEF Present, Members
<1>2. \A size : teamWithFewerThan(size)' = teamWithFewerThan(size) /\ teamWithAtLeast(size)' = teamWithAtLeast(size)
  BY <1>1 DEF teamWithFewerThan, teamWithAtLeast
<1>3. \A p, other : Dissolve(p)' = Dissolve(p) /\ BreakUp(p, other)' = BreakUp(p, other)
  BY <1>1 DEF Dissolve, BreakUp
<1>4. Added(ch)' <=> Added(ch)
  BY <1>1, <1>2 DEF Added
<1>5. Removed(ch)' <=> Removed(ch)
  BY <1>1, <1>2, <1>3 DEF Removed
<1>6. Exchanged(ch)' <=> Exchanged(ch)
  BY DEF Exchanged, Swapped
<1>7. Built(ch)' <=> Built(ch)
  BY <1>1 DEF Built
<1>8. Unmoved(ch)' <=> Unmoved(ch)
  BY DEF Unmoved
<1>9. (NoTeamsYet' <=> NoTeamsYet) /\ (Whole' <=> Whole) /\ (DealtEvenly' <=> DealtEvenly)
  BY <1>1 DEF NoTeamsYet, Whole, DealtEvenly
<1> QED
  BY <1>4, <1>5, <1>6, <1>7, <1>8, <1>9

LEMMA CalmUnchanged ==
  ASSUME CalmInv, UNCHANGED vars, Alone'
  PROVE  CalmInv'
<1>1. Phase(\E c \in Clients : At(c, "status"))'
  BY CurrentAfterRead DEF CalmInv, Phase, At, vars
<1>2. ASSUME NEW c \in Clients PROVE Current(c)'
  <2>1. PICK ch : ch = req[c].ch
    OBVIOUS
  <2>2. ch = req'[c].ch /\ UNCHANGED <<status, teams, member>> /\ req'[c].step = req[c].step /\ Current(c)
    BY <2>1 DEF vars, CalmInv
  <2> QED
    BY <2>1, <2>2, CurrentAfterRead DEF Current
<1> QED
  BY <1>1, <1>2 DEF CalmInv

LEMMA CalmRead ==
  ASSUME TypeOK, CalmInv, Alone', NEW c \in Clients, ~At(c, "status"),
         NEW step \in Steps \ {"idle", "status"}, NEW ch \in Change, Go(c, step, ch),
         UNCHANGED <<status, teams, member>>,
         step = "participants" => status = "setup",
         step = "insert" => status = "setup" /\ \E ps \in SUBSET People : ch = [NoChange EXCEPT !.add = ps],
         step = "drop" => status = "setup" /\ \E p \in People : ch = Leave(p),
         step = "create" => status = "setup" /\ Built(ch),
         step = "apply" => status # "setup" /\ (Added(ch) \/ Removed(ch)),
         step = "swap" => status # "setup" /\ Exchanged(ch),
         step = "save" => status # "setup" /\ Unmoved(ch)
  PROVE  CalmInv'
<1>1. /\ req'[c] = [step |-> step, ch |-> ch]
      /\ \A d \in Clients \ {c} : req'[d] = req[d]
  BY AfterGo
<1>2. c \in InFlight'
  BY <1>1 DEF InFlight, At
<1>3. Phase(At(c, "status")) /\ (Current(c)' /\ Phase(At(c, "status"))' => CalmInv')
  BY <1>1, <1>2, Focus
<1>4. Phase(At(c, "status"))'
  BY <1>1, <1>3, CurrentAfterRead DEF Phase, At
<1>5. /\ Added(ch)' <=> Added(ch)
      /\ Removed(ch)' <=> Removed(ch)
      /\ Exchanged(ch)' <=> Exchanged(ch)
      /\ Built(ch)' <=> Built(ch)
      /\ Unmoved(ch)' <=> Unmoved(ch)
  BY CurrentAfterRead
<1>6. Current(c)'
  BY <1>1, <1>5 DEF Current
<1> QED
  BY <1>3, <1>4, <1>6

LEMMA CalmEnd ==
  ASSUME TypeOK, CalmInv, Alone', NEW c \in Clients, ~At(c, "idle"), req' = [req EXCEPT ![c] = Idle],
         Phase(FALSE)'
  PROVE  CalmInv'
<1>1. /\ req'[c] = Idle
      /\ \A d \in Clients \ {c} : req'[d] = req[d]
  BY AfterIdle
<1>2. Current(c)' /\ ~At(c, "status")'
  BY <1>1 DEF Idle, Current, At
<1>3. c \in InFlight
  BY DEF InFlight
<1>4. Phase(At(c, "status"))'
  BY <1>2 DEF Phase
<1> QED
  BY <1>1, <1>2, <1>3, <1>4, Focus

LEMMA CalmWrite ==
  ASSUME TypeOK, CalmInv, Alone', NEW c \in Clients, Write(c)
  PROVE  CalmInv'
<1> DEFINE ch == req[c].ch
<1>1. /\ req[c].step \in {"insert", "drop", "swap", "create", "apply"}
      /\ ~At(c, "idle") /\ ~At(c, "status") /\ c \in InFlight
      /\ ch \in Change
  BY DEF Write, At, InFlight, TypeOK
<1>2. Current(c) /\ Phase(FALSE)
  <2>1. \A d \in Clients \ {c} : req'[d] = req[d]
    BY DEF Write, TypeOK
  <2> QED
    BY <1>1, <2>1, Focus DEF Phase
<1>3. CASE ~Valid(ch)
  <2>1. req' = [req EXCEPT ![c] = Idle] /\ UNCHANGED <<status, teams, member>>
    BY <1>3 DEF Write
  <2>2. Phase(FALSE)'
    BY <1>2, <2>1, CurrentAfterRead DEF Phase
  <2> QED
    BY <1>1, <2>1, <2>2, CalmEnd
<1>4. CASE Valid(ch)
  <2>1. /\ member' = Changed(ch)
        /\ teams' = TeamsAfter(ch)
        /\ status' = IF At(c, "apply") THEN "teams_generated" ELSE status
        /\ req' = [req EXCEPT ![c] = IF At(c, "create") THEN [step |-> "status", ch |-> NoChange] ELSE Idle]
    BY <1>4 DEF Write, TeamsAfter
  <2>2. CASE At(c, "insert")
    <3>1. status = "setup" /\ NoTeamsYet /\ \E ps \in SUBSET People : ch = [NoChange EXCEPT !.add = ps]
      BY <1>2, <2>2 DEF Current, Phase, At
    <3>2. PICK ps \in SUBSET People : ch = [NoChange EXCEPT !.add = ps]
      BY <3>1
    <3>3. /\ ch.newTeams = {} /\ ch.deleteTeam = NoTeam /\ ch.to = NoTeam
          /\ DOMAIN ch.reassign = {}
      BY <3>2 DEF NoChange
    <3>4. teams' = {}
      BY <2>1, <3>1, <3>3 DEF TeamsAfter, NoTeamsYet
    <3>5. \A p \in People : member'[p] \in {NoTeam, Gone}
      BY <1>1, <2>1, <3>1, <3>3, ChangedType DEF NoTeamsYet
    <3>6. Phase(FALSE)'
      BY <2>1, <2>2, <3>1, <3>4, <3>5 DEF Phase, NoTeamsYet, At
    <3> QED
      BY <1>1, <2>1, <2>2, <3>6, CalmEnd DEF At
  <2>3. CASE At(c, "drop")
    <3>1. status = "setup" /\ NoTeamsYet /\ \E p \in People : ch = Leave(p)
      BY <1>2, <2>3 DEF Current, Phase, At
    <3>2. teams' = {} /\ \A p \in People : member'[p] \in {NoTeam, Gone}
      BY <2>1, <3>1, LeaveEffect DEF NoTeamsYet
    <3>3. Phase(FALSE)'
      BY <2>1, <2>3, <3>1, <3>2 DEF Phase, NoTeamsYet, At
    <3> QED
      BY <1>1, <2>1, <2>3, <3>3, CalmEnd DEF At
  <2>4. CASE At(c, "swap") \/ At(c, "apply")
    <3>1. status # "setup" /\ Whole /\ (Added(ch) \/ Removed(ch) \/ Exchanged(ch))
      BY <1>2, <2>4 DEF Current, Phase, At
    <3>2. WholeOf(Changed(ch), TeamsAfter(ch))
      BY <3>1, WholeAsPairs, AddKeepsWhole, RemoveKeepsWhole, SwapKeepsWhole
    <3>3. Whole'
      BY <2>1, <3>2, WholeAsPairs
    <3>4. Phase(FALSE)'
      BY <2>1, <3>1, <3>3 DEF Phase
    <3> QED
      BY <1>1, <2>1, <2>4, <3>4, CalmEnd DEF At
  <2>5. CASE At(c, "create")
    <3>1. status = "setup" /\ NoTeamsYet /\ Built(ch)
      BY <1>2, <2>5 DEF Current, Phase, At
    <3>2. Whole' /\ DealtEvenly'
      BY <2>1, <3>1, DealIsWhole
    <3>3. /\ req'[c] = [step |-> "status", ch |-> NoChange]
          /\ \A d \in Clients \ {c} : req'[d] = req[d]
      BY <2>1, <2>5 DEF TypeOK
    <3>4. status' = "setup"
      BY <2>1, <2>5, <3>1 DEF At
    <3>5. Current(c)' /\ Phase(At(c, "status"))'
      BY <3>2, <3>3, <3>4 DEF Current, Phase, At
    <3> QED
      BY <1>1, <3>3, <3>5, Focus
  <2> QED
    BY <1>1, <2>2, <2>3, <2>4, <2>5 DEF At
<1> QED
  BY <1>3, <1>4

LEMMA CalmNext ==
  ASSUME TypeOK, CalmInv, MCNext, calm'
  PROVE  CalmInv'
<1> USE DEF At
<1>1. Alone' /\ \A c \in Clients : Fail(c) => GenerateDeal(c) \/ ResultSave(c)
  BY CalmStep DEF Alone
<1>2. ASSUME NEW c \in Clients, NEW ps \in SUBSET People, AddInSetup(c, ps) PROVE CalmInv'
  <2>1. [NoChange EXCEPT !.add = ps] \in Change
    BY NoChangeType DEF Change
  <2> QED
    BY <1>1, <1>2, <2>1, CalmRead DEF AddInSetup, Steps
<1>3. ASSUME NEW c \in Clients, NEW p \in People, DeleteInSetup(c, p) PROVE CalmInv'
  <2>1. Leave(p) = [NoChange EXCEPT !.gone = {p}] /\ Leave(p) \in Change
    BY NoChangeType DEF Leave, Change
  <2> QED
    BY <1>1, <1>3, <2>1, CalmRead DEF DeleteInSetup, Steps
<1>4. ASSUME NEW c \in Clients, NEW p \in People, AddParticipant(c, p) PROVE CalmInv'
  <2>1. PICK ch \in addToRoster(p) : Go(c, "apply", ch)
    BY <1>4 DEF AddParticipant
  <2>2. p \notin Present /\ FreshTeams \subseteq TeamIds \ teams /\ teamWithFewerThan(teamSize) \subseteq teams
    BY <1>4 DEF AddParticipant, FreshPeople, FreshTeams, teamWithFewerThan
  <2>3. Added(ch)
    BY <2>2, AddForms DEF Added
  <2> QED
    BY <1>1, <1>4, <2>1, <2>3, AddType, CalmRead DEF AddParticipant, Steps
<1>5. ASSUME NEW c \in Clients, NEW p \in People, DeleteParticipant(c, p) PROVE CalmInv'
  <2>1. PICK ch \in removeFromRoster(p) : Go(c, "apply", ch)
    BY <1>5 DEF DeleteParticipant
  <2>2. p \in Present /\ status # "setup" /\ Whole
    BY <1>5 DEF DeleteParticipant, CalmInv, Phase
  <2>3. member[p] \in teams /\ p \in Members(member[p])
    BY <2>2 DEF Whole, Present, Members
  <2>4. Removed(ch)
    BY <2>2, <2>3, RemoveForms DEF Removed, teamWithAtLeast
  <2> QED
    BY <1>1, <1>5, <2>1, <2>4, RemoveType, CalmRead DEF DeleteParticipant, Steps
<1>6. ASSUME NEW c \in Clients, NEW a \in People, NEW b \in People, SwapPlayers(c, a, b) PROVE CalmInv'
  <2> DEFINE ch == [NoChange EXCEPT !.reassign = Swapped(a, b)]
  <2>1. Swapped(a, b) \in [{a, b} -> TeamIds]
    BY <1>6 DEF SwapPlayers, Swapped
  <2>2. ch \in Change
    BY <2>1, NoChangeType, ReassignType DEF Change, Reassignment
  <2>3. Exchanged(ch)
    BY <1>6 DEF SwapPlayers, Exchanged
  <2> QED
    BY <1>1, <1>6, <2>2, <2>3, CalmRead DEF SwapPlayers, Steps
<1>7. ASSUME NEW c \in Clients, GenerateTeams(c) PROVE CalmInv'
  BY <1>1, <1>7, NoChangeType, CalmRead DEF GenerateTeams, Steps
<1>8. ASSUME NEW c \in Clients, GenerateDeal(c) PROVE CalmInv'
  <2>1. status = "setup" /\ Phase(FALSE)
    <3>1. c \in InFlight /\ \A d \in Clients \ {c} : req'[d] = req[d]
      BY <1>8 DEF GenerateDeal, InFlight, Go, TypeOK
    <3> QED
      BY <1>1, <1>8, <3>1, Focus DEF GenerateDeal, Current, Phase
  <2>2. CASE req' = [req EXCEPT ![c] = Idle]
    <3>1. Phase(FALSE)'
      BY <1>8, <2>1, CurrentAfterRead DEF GenerateDeal, Phase
    <3> QED
      BY <1>1, <1>8, <2>2, <3>1, CalmEnd DEF GenerateDeal
  <2>3. CASE Cardinality(Present) >= 2 /\ \E ch \in buildTeams(Present) : Go(c, "create", ch)
    <3>1. PICK ch \in buildTeams(Present) : Go(c, "create", ch)
      BY <2>3
    <3>2. PICK ids \in SUBSET FreshTeams :
            /\ Cardinality(ids) = numTeams(Cardinality(Present))
            /\ \E f \in Dealt(Present, ids) : ch = Deal(ids, f)
      BY BuildForms
    <3>3. ids \in SUBSET TeamIds
      BY DEF FreshTeams
    <3>4. Built(ch)
      BY <2>3, <3>2, <3>3 DEF Built
    <3> QED
      BY <1>1, <1>8, <2>1, <3>1, <3>4, BuildType, CalmRead DEF GenerateDeal, Steps
  <2> QED
    BY <1>8, <2>2, <2>3 DEF GenerateDeal
<1>9. ASSUME NEW c \in Clients, GenerateStatus(c) PROVE CalmInv'
  <2>1. Whole
    BY <1>9 DEF GenerateStatus, CalmInv, Phase
  <2>2. Whole'
    BY <1>9, <2>1 DEF GenerateStatus, Whole, Present, Members
  <2>3. Phase(FALSE)'
    BY <1>9, <2>2 DEF GenerateStatus, Phase
  <2> QED
    BY <1>1, <1>9, <2>3, CalmEnd DEF GenerateStatus
<1>10. ASSUME NEW c \in Clients, NEW t \in TeamIds, NEW u \in TeamIds, ResultLoad(c, t, u) PROVE CalmInv'
  <2> DEFINE seen == [p \in Members(t) \cup Members(u) |-> member[p]]
             ch == [NoChange EXCEPT !.newTeams = {t, u}, !.reassign = seen]
  <2>1. Members(t) \cup Members(u) \subseteq People /\ seen \in [Members(t) \cup Members(u) -> TeamIds]
    BY DEF Members
  <2>2. ch \in Change
    BY <2>1, NoChangeType, ReassignType DEF Change, Reassignment
  <2>3. Unmoved(ch)
    BY DEF Unmoved, NoChange
  <2>4. Go(c, "save", ch) /\ status # "setup" /\ ~At(c, "status") /\ UNCHANGED <<status, teams, member>>
    BY <1>10 DEF ResultLoad
  <2> HIDE DEF ch
  <2> QED
    BY <1>1, <2>2, <2>3, <2>4, CalmRead DEF Steps
<1>11. ASSUME NEW c \in Clients, ResultSave(c) PROVE CalmInv'
  <2>1. status # "setup" /\ Unmoved(req[c].ch)
    BY <1>11 DEF ResultSave, CalmInv, Current
  <2>2. member' = member
    BY <1>11, <2>1 DEF ResultSave, Unmoved, TypeOK
  <2>3. Whole'
    BY <1>11, <2>1, <2>2, CurrentAfterRead DEF ResultSave, CalmInv, Phase
  <2>4. Phase(FALSE)'
    BY <1>11, <2>1, <2>3 DEF ResultSave, Phase
  <2> QED
    BY <1>1, <1>11, <2>4, CalmEnd DEF ResultSave
<1>12. ASSUME NEW c \in Clients, Write(c) PROVE CalmInv'
  BY <1>1, <1>12, CalmWrite
<1>13. ASSUME NEW c \in Clients, NEW p \in People, AddPanics(c, p) PROVE CalmInv'
  BY <1>1, <1>13, CalmUnchanged DEF AddPanics
<1> QED
  BY <1>1, <1>2, <1>3, <1>4, <1>5, <1>6, <1>7, <1>8, <1>9, <1>10, <1>11, <1>12, <1>13 DEF MCNext, Next

LEMMA WholeInvNext == WholeInv /\ [MCNext]_<<vars, calm>> => WholeInv'
<1> SUFFICES ASSUME WholeInv, [MCNext]_<<vars, calm>> PROVE WholeInv'
  OBVIOUS
<1>1. TypeOK'
  BY NextType DEF WholeInv, MCNext
<1>2. ASSUME MCNext, calm' PROVE CalmInv'
  BY <1>2, CalmNext, CalmStep DEF WholeInv
<1>3. ASSUME UNCHANGED <<vars, calm>>, calm' PROVE CalmInv'
  <2>1. Alone'
    BY <1>3 DEF WholeInv, CalmInv, Alone, InFlight, At, vars
  <2> QED
    BY <1>3, <2>1, CalmUnchanged DEF WholeInv
<1> QED
  BY <1>1, <1>2, <1>3 DEF WholeInv

LEMMA WholeInvHolds == MCSpec => []WholeInv
<1>1. MCInit => WholeInv
  <2> SUFFICES ASSUME MCInit PROVE WholeInv
    OBVIOUS
  <2>1. TypeOK
    BY NoChangeType DEF MCInit, Init, TypeOK
  <2>2. \A c \in Clients : req[c].step = "idle"
    BY DEF MCInit, Init, Idle
  <2>3. CalmInv
    BY <2>2 DEF MCInit, Init, CalmInv, Alone, InFlight, Current, Phase, NoTeamsYet, At
  <2> QED
    BY <2>1, <2>3 DEF WholeInv
<1> QED
  BY <1>1, WholeInvNext, PTL DEF MCSpec

\* As long as requests come one after another and no call fails, whatever the
\* number of participants: additions, removals and swaps leave everybody on a
\* team, no team empty, and nobody alone who could join another team.
THEOREM OneOrganiserKeepsRosterWhole == MCSpec => []RosterIsWhole
<1>1. WholeInv => RosterIsWhole
  BY DEF WholeInv, CalmInv, Phase, RosterIsWhole, Settled, Quiet, Whole, At
<1> QED
  BY <1>1, WholeInvHolds, PTL

\* And the teams that GenerateTeams deals are pairs, and one trio when the
\* number of participants is odd.
THEOREM TeamsAreDealtInPairs == MCSpec => DealtInPairs
<1> DEFINE Dealing == calm' /\ status = "setup" /\ status' = "teams_generated"
           size(t) == Cardinality({p \in People : member'[p] = t})
           Pairs3 == /\ \A t \in teams' : size(t) \in {teamSize, teamSize + 1}
                     /\ Cardinality({t \in teams' : size(t) = teamSize + 1}) = Cardinality(Present') % teamSize
<1>1. ASSUME WholeInv, MCNext, Dealing PROVE Pairs3
  <2>1. CalmInv
    BY <1>1, CalmStep DEF WholeInv
  <2>2. PICK c \in Clients : Write(c) \/ GenerateStatus(c)
    BY <1>1 DEF MCNext, Next, AddInSetup, DeleteInSetup, AddParticipant, AddPanics, DeleteParticipant,
                SwapPlayers, GenerateTeams, GenerateDeal, ResultLoad, ResultSave, Fail, vars
  <2>3. Current(c)
    BY <2>1 DEF CalmInv
  <2>4. GenerateStatus(c)
    BY <1>1, <2>2, <2>3 DEF Write, Current, At
  <2>5. DealtEvenly
    BY <2>3, <2>4 DEF GenerateStatus, Current, At
  <2> QED
    BY <2>4, <2>5 DEF GenerateStatus, DealtEvenly, Members, Present
<1>2. WholeInv /\ [MCNext]_<<vars, calm>> => [Dealing => Pairs3]_<<vars, calm>>
  BY <1>1
<1> QED
  BY <1>2, WholeInvHolds, PTL DEF MCSpec, DealtInPairs

=============================================================================
