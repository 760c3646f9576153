------------------------------ MODULE HubProof ------------------------------
(***************************************************************************)
(* Safety of module Hub for any number of viewers, rooms and concurrent    *)
(* broadcasts, and every size of the buffers.                              *)
(***************************************************************************)
EXTENDS Hub, TLAPS

ViewerStates == [room     : Rooms \cup {None},
                 register : {"new", "add", "read", "remove", "gone"},
                 pump     : {"none", "select", "ended"},
                 conn     : {"up", "down", "closed"}]
SenderStates == [step : {"idle", "wait", "send"},
                 msg  : Messages \cup {Other, None},
                 room : Rooms \cup {None},
                 todo : SUBSET Viewers]

-----------------------------------------------------------------------------
(***************************************************************************)
(* Type correctness                                                        *)
(***************************************************************************)

\* The readers that a writer lets in are well formed.
LEMMA AdmittedType ==
  ASSUME TypeOK, NEW rs \in [Rooms -> SUBSET Viewers],
         \A s \in Senders : sender[s].step = "wait" => sender[s].room \in Rooms
  PROVE  Admitted(rs) \in [Senders -> SenderStates]
<1> SUFFICES ASSUME NEW s \in Senders
             PROVE  Admitted(rs)[s] \in SenderStates
    BY DEF Admitted
<1>1. sender[s] \in SenderStates
    BY DEF TypeOK, SenderStates
<1>2. CASE sender[s].step = "wait"
    BY <1>1, <1>2 DEF Admitted, SenderStates
<1>3. CASE sender[s].step # "wait"
    BY <1>1, <1>3 DEF Admitted, SenderStates
<1> QED BY <1>2, <1>3

\* A message that does not fit is dropped: a buffer never grows beyond its size.
LEMMA QueuedType ==
  ASSUME TypeOK, NEW v \in Viewers, NEW m \in Messages \cup {Other}
  PROVE  /\ Queued(v, m) \in Seq(Messages \cup {Other})
         /\ Len(Queued(v, m)) <= Buffer
<1>1. send[v] \in Seq(Messages \cup {Other}) /\ Len(send[v]) <= Buffer
    BY DEF TypeOK
<1>2. CASE Len(send[v]) < Buffer
    BY <1>1, <1>2, HubAssumption DEF Queued
<1>3. CASE ~(Len(send[v]) < Buffer)
    BY <1>1, <1>3 DEF Queued
<1> QED BY <1>2, <1>3

-----------------------------------------------------------------------------
(***************************************************************************)
(* The invariant: who is where                                             *)
(***************************************************************************)

\* A request that waits or sends has a room and a message, and one that sends
\* has left to visit only viewers who are still in that room.
SendersInRooms ==
  \A s \in Senders :
    /\ sender[s].step # "idle" => sender[s].room \in Rooms /\ sender[s].msg \in Messages \cup {Other}
    /\ sender[s].todo # {} => /\ sender[s].step = "send"
                              /\ sender[s].todo \subseteq rooms[sender[s].room]

\* A viewer is in no room but its own, from the end of add to that of remove,
\* and its channel is closed only when it is gone.
ViewersInRooms ==
  /\ \A v \in Viewers : viewer[v].register # "new" => viewer[v].room \in Rooms
  /\ \A r \in Rooms : \A v \in rooms[r] :
       viewer[v].room = r /\ viewer[v].register \in {"read", "remove"}
  /\ \A v \in closed : viewer[v].register = "gone"

HubInv == TypeOK /\ SendersInRooms /\ ViewersInRooms

LEMMA InvInit == Init => HubInv
BY HubAssumption DEF Init, HubInv, TypeOK, SendersInRooms, ViewersInRooms, Idle

\* A writer finds no broadcast under way, so what those that it lets in have
\* to visit is the room as it leaves it.
LEMMA AdmittedInRooms ==
  ASSUME HubInv, MayWrite, rooms' \in [Rooms -> SUBSET Viewers], sender' = Admitted(rooms')
  PROVE  SendersInRooms' /\ sender' \in [Senders -> SenderStates]
<1>1. sender' \in [Senders -> SenderStates]
    BY AdmittedType DEF HubInv, SendersInRooms
<1>2. ASSUME NEW s \in Senders
      PROVE  /\ sender'[s].step # "idle" => sender'[s].room \in Rooms /\ sender'[s].msg \in Messages \cup {Other}
             /\ sender'[s].todo # {} => /\ sender'[s].step = "send"
                                        /\ sender'[s].todo \subseteq rooms'[sender'[s].room]
  <2>1. sender[s] \in SenderStates
      BY DEF HubInv, TypeOK, SenderStates
  <2>2. CASE sender[s].step = "wait"
    <3>1. sender'[s] = [sender[s] EXCEPT !.step = "send", !.todo = rooms'[sender[s].room]]
        BY <2>2 DEF Admitted
    <3> QED BY <2>1, <2>2, <3>1 DEF HubInv, SendersInRooms, SenderStates
  <2>3. CASE sender[s].step # "wait"
    <3>1. sender'[s] = sender[s]
        BY <2>3 DEF Admitted
    <3>2. sender[s].todo = {}
        BY <2>1, <2>3 DEF HubInv, SendersInRooms, MayWrite, Readers
    <3> QED BY <2>1, <3>1, <3>2 DEF HubInv, SendersInRooms
  <2> QED BY <2>2, <2>3
<1> QED BY <1>1, <1>2 DEF SendersInRooms

LEMMA InvStep == HubInv /\ [Next]_vars => HubInv'
<1> SUFFICES ASSUME HubInv, [Next]_vars PROVE HubInv'
    OBVIOUS
<1>a. TypeOK
    BY DEF HubInv
<1>b. SendersInRooms
    BY DEF HubInv
<1>c. ViewersInRooms
    BY DEF HubInv
<1>v. viewer \in [Viewers -> ViewerStates]
    BY <1>a DEF TypeOK, ViewerStates
<1>1. CASE UNCHANGED vars
    BY <1>1, <1>a, <1>b, <1>c DEF HubInv, vars, TypeOK, SendersInRooms, ViewersInRooms
<1>2. ASSUME NEW v \in Viewers, NEW r \in Rooms, Register(v, r) PROVE HubInv'
  <2>1. TypeOK'
      BY <1>2, <1>a DEF Register, TypeOK
  <2>2. SendersInRooms'
      BY <1>2, <1>b DEF Register, SendersInRooms
  <2>3. ViewersInRooms'
      BY <1>2, <1>a, <1>c DEF Register, ViewersInRooms, TypeOK
  <2> QED BY <2>1, <2>2, <2>3 DEF HubInv
<1>3. ASSUME NEW v \in Viewers, add(v) PROVE HubInv'
  <2>1. viewer[v].room \in Rooms
      BY <1>3, <1>c DEF add, ViewersInRooms
  <2>2. rooms' \in [Rooms -> SUBSET Viewers]
      BY <1>3, <2>1, <1>a DEF add, TypeOK
  <2>3. SendersInRooms' /\ sender' \in [Senders -> SenderStates]
      BY <1>3, <2>2, AdmittedInRooms DEF add
  <2>4. TypeOK'
    <3>1. viewer' \in [Viewers -> ViewerStates]
        BY <1>3, <1>v DEF add, ViewerStates
    <3>2. UNCHANGED <<send, used>> /\ closed' \subseteq Viewers
        BY <1>3, <1>a DEF add, TypeOK
    <3> QED BY <2>2, <2>3, <3>1, <3>2, <1>a DEF TypeOK, ViewerStates, SenderStates
  <2>5. ViewersInRooms'
      BY <1>3, <2>1, <1>a, <1>c DEF add, ViewersInRooms, TypeOK
  <2> QED BY <2>3, <2>4, <2>5 DEF HubInv
<1>4. ASSUME NEW v \in Viewers, Drop(v) \/ ReadEnds(v) \/ PumpEnds(v) PROVE HubInv'
  <2>1. TypeOK'
    <3>1. viewer' \in [Viewers -> ViewerStates]
      <4>1. CASE Drop(v)
          BY <4>1, <1>v DEF Drop, ViewerStates
      <4>2. CASE ReadEnds(v)
          BY <4>2, <1>v DEF ReadEnds, ViewerStates
      <4>3. CASE PumpEnds(v)
          BY <4>3, <1>v DEF PumpEnds, Return, ViewerStates
      <4> QED BY <1>4, <4>1, <4>2, <4>3
    <3>2. UNCHANGED <<rooms, send, closed, sender, used>>
        BY <1>4 DEF Drop, ReadEnds, PumpEnds
    <3> QED BY <3>1, <3>2, <1>a DEF TypeOK, ViewerStates, SenderStates
  <2>2. SendersInRooms'
      BY <1>4, <1>b DEF Drop, ReadEnds, PumpEnds, SendersInRooms
  <2>3. ViewersInRooms'
    <3>1. CASE Drop(v)
        BY <3>1, <1>a, <1>c DEF Drop, ViewersInRooms, TypeOK
    <3>2. CASE ReadEnds(v)
        BY <3>2, <1>a, <1>c DEF ReadEnds, ViewersInRooms, TypeOK
    <3>3. CASE PumpEnds(v)
        BY <3>3, <1>a, <1>c DEF PumpEnds, Return, ViewersInRooms, TypeOK
    <3> QED BY <1>4, <3>1, <3>2, <3>3
  <2> QED BY <2>1, <2>2, <2>3 DEF HubInv
<1>5. ASSUME NEW v \in Viewers, remove(v) PROVE HubInv'
  <2>1. viewer[v].room \in Rooms
      BY <1>5, <1>c DEF remove, ViewersInRooms
  <2>2. rooms' \in [Rooms -> SUBSET Viewers]
      BY <1>5, <2>1, <1>a DEF remove, TypeOK
  <2>3. SendersInRooms' /\ sender' \in [Senders -> SenderStates]
      BY <1>5, <2>2, AdmittedInRooms DEF remove
  <2>4. TypeOK'
    <3>1. viewer' \in [Viewers -> ViewerStates]
        BY <1>5, <1>v DEF remove, ViewerStates
    <3>2. UNCHANGED <<send, used>> /\ closed' \subseteq Viewers
        BY <1>5, <1>a DEF remove, TypeOK
    <3> QED BY <2>2, <2>3, <3>1, <3>2, <1>a DEF TypeOK, ViewerStates, SenderStates
  <2>5. ViewersInRooms'
      BY <1>5, <2>1, <1>a, <1>c DEF remove, ViewersInRooms, TypeOK
  <2> QED BY <2>3, <2>4, <2>5 DEF HubInv
<1>6. ASSUME NEW v \in Viewers, PumpMessage(v) PROVE HubInv'
  <2>1. TypeOK'
    <3>1. /\ Tail(send[v]) \in Seq(Messages \cup {Other})
          /\ Len(Tail(send[v])) <= Buffer
        BY <1>6, HubAssumption, <1>a DEF PumpMessage, TypeOK
    <3>2. viewer' \in [Viewers -> ViewerStates]
        BY <1>6, <1>v DEF PumpMessage, Return, ViewerStates
    <3>3. UNCHANGED <<rooms, closed, sender, used>> /\ send' = [send EXCEPT ![v] = Tail(send[v])]
        BY <1>6 DEF PumpMessage
    <3> QED BY <3>1, <3>2, <3>3, <1>a DEF TypeOK, ViewerStates
  <2>2. SendersInRooms'
      BY <1>6, <1>b DEF PumpMessage, SendersInRooms
  <2>3. ViewersInRooms'
    <3>1. CASE UNCHANGED viewer
        BY <1>6, <3>1, <1>c DEF PumpMessage, ViewersInRooms
    <3>2. CASE viewer' = Return(v)
        BY <1>6, <3>2, <1>a, <1>c DEF PumpMessage, Return, ViewersInRooms, TypeOK
    <3> QED BY <1>6, <3>1, <3>2 DEF PumpMessage
  <2> QED BY <2>1, <2>2, <2>3 DEF HubInv
<1>7. ASSUME NEW s \in Senders, NEW r \in Rooms, NEW m \in Messages \cup {Other}, Broadcast(s, r, m)
      PROVE  HubInv'
  <2>1. TypeOK'
      BY <1>7, HubAssumption, <1>a DEF Broadcast, TypeOK, Idle
  <2>2. SendersInRooms'
      BY <1>7, <1>a, <1>b DEF Broadcast, SendersInRooms, TypeOK, Idle
  <2>3. ViewersInRooms'
      BY <1>7, <1>c DEF Broadcast, ViewersInRooms
  <2> QED BY <2>1, <2>2, <2>3 DEF HubInv
<1>8. ASSUME NEW s \in Senders, BroadcastEnds(s) PROVE HubInv'
  <2>1. TypeOK'
      BY <1>8, <1>a DEF BroadcastEnds, TypeOK, Idle
  <2>2. SendersInRooms'
      BY <1>8, <1>a, <1>b DEF BroadcastEnds, SendersInRooms, TypeOK, Idle
  <2>3. ViewersInRooms'
      BY <1>8, <1>c DEF BroadcastEnds, ViewersInRooms
  <2> QED BY <2>1, <2>2, <2>3 DEF HubInv
<1>9. ASSUME NEW s \in Senders, NEW v \in Viewers, Send(s, v) PROVE HubInv'
  <2>1. sender[s].msg \in Messages \cup {Other}
      BY <1>9, <1>b DEF Send, SendersInRooms
  <2>2. /\ Queued(v, sender[s].msg) \in Seq(Messages \cup {Other})
        /\ Len(Queued(v, sender[s].msg)) <= Buffer
      BY <2>1, <1>a, QueuedType
  <2>3. TypeOK'
      BY <1>9, <2>2, <1>a DEF Send, Left, TypeOK
  <2>4. SendersInRooms'
      BY <1>9, <1>a, <1>b DEF Send, Left, SendersInRooms, TypeOK
  <2>5. ViewersInRooms'
      BY <1>9, <1>c DEF Send, ViewersInRooms
  <2> QED BY <2>3, <2>4, <2>5 DEF HubInv
<1> QED BY <1>1, <1>2, <1>3, <1>4, <1>5, <1>6, <1>7, <1>8, <1>9 DEF Next, Continue, Refuse

LEMMA Invariant == Spec => []HubInv
BY InvInit, InvStep, PTL DEF Spec

-----------------------------------------------------------------------------
(***************************************************************************)
(* The theorems                                                            *)
(***************************************************************************)

\* Whatever viewers and broadcasts do, the hub's state is well formed; above
\* all no buffer holds more than wsSendBuffer messages.
THEOREM TypeCorrect == Spec => []TypeOK
BY Invariant, PTL DEF HubInv

\* No broadcast ever sends on a closed channel: a viewer whom it has still to
\* visit is in the room, and remove closes a channel only when no broadcast is
\* under way and in the step that takes the viewer out of its room.
THEOREM SendsOnOpen == Spec => []NeverSendsOnClosed
<1>1. HubInv => NeverSendsOnClosed
  <2> SUFFICES ASSUME HubInv, NEW s \in Senders, NEW v \in sender[s].todo, v \in closed
               PROVE  FALSE
      BY DEF NeverSendsOnClosed
  <2>1. sender[s].room \in Rooms /\ v \in rooms[sender[s].room]
      BY DEF HubInv, SendersInRooms
  <2>2. viewer[v].register \in {"read", "remove"}
      BY <2>1 DEF HubInv, ViewersInRooms
  <2> QED BY <2>2 DEF HubInv, ViewersInRooms
<1> QED BY <1>1, Invariant, PTL

=============================================================================
