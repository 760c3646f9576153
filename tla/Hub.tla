-------------------------------- MODULE Hub --------------------------------
(***************************************************************************)
(* The WebSocket hub (internal/service/ws_service.go): viewers of a        *)
(* tournament register a connection, and Broadcast puts a message into the *)
(* buffer of each viewer of a room.                                        *)
(*                                                                         *)
(* A viewer has two goroutines: Register, which reads until the connection *)
(* fails and then leaves the room, and writePump, which writes what is in  *)
(* the buffer.  Rooms are guarded by a sync.RWMutex.  Broadcast holds it   *)
(* for reading while it sends; add and remove take it for writing, hold it *)
(* for one action and let in the readers that have waited meanwhile.       *)
(*                                                                         *)
(* The messages followed through the hub are those of Messages; any number *)
(* of others, all alike, is broadcast around them.                         *)
(***************************************************************************)
EXTENDS Naturals, Sequences

CONSTANTS
  Rooms,     \* ids of tournaments
  Viewers,   \* connections; a viewer that comes again is another one
  Senders,   \* requests that may be in Broadcast at once
  Messages,  \* messages that are broadcast once each and followed
  Other,     \* any other message
  None,      \* no message, no room
  Buffer     \* wsSendBuffer: what a viewer's channel holds

ASSUME HubAssumption ==
  /\ Buffer \in Nat \ {0}
  /\ Other \notin Messages /\ None \notin Messages \cup {Other} \cup Rooms

VARIABLES
  rooms,   \* the viewers of each room; {} when the map has no such key
  viewer,  \* per viewer: its room, where Register is, where its pump is, its connection
  send,    \* the content of each viewer's send channel
  closed,  \* the viewers whose send channel is closed
  sender,  \* per sender: waiting for the read lock, or the viewers left to send to
  used     \* the messages of Messages that have been given to Broadcast

vars == <<rooms, viewer, send, closed, sender, used>>

Idle == [step |-> "idle", msg |-> None, room |-> None, todo |-> {}]

Init ==
  /\ rooms = [r \in Rooms |-> {}]
  /\ viewer = [v \in Viewers |-> [room |-> None, register |-> "new", pump |-> "none", conn |-> "up"]]
  /\ send = [v \in Viewers |-> <<>>]
  /\ closed = {}
  /\ sender = [s \in Senders |-> Idle]
  /\ used = {}

-----------------------------------------------------------------------------
(***************************************************************************)
(* The lock.  A writer waits for the readers; a reader waits for a writer  *)
(* that waits, and gets the lock when that writer has released it.         *)
(***************************************************************************)

\* Senders that hold the read lock; viewers that have called Lock.
Readers == {s \in Senders : sender[s].step = "send"}
Writers == {v \in Viewers : viewer[v].register \in {"add", "remove"}}

\* A mutant: a writer does not wait for the broadcasts under way.
MayWriteAlways == TRUE

MayWrite == Readers = {}

\* The senders once a writer has left the rooms as rs and released the lock.
Admitted(rs) ==
  [s \in Senders |->
    IF sender[s].step = "wait"
    THEN [sender[s] EXCEPT !.step = "send", !.todo = rs[sender[s].room]]
    ELSE sender[s]]

-----------------------------------------------------------------------------
(***************************************************************************)
(* Register.                                                               *)
(***************************************************************************)

\* Connect with an id that is none, from an origin that is not allowed, or
\* that is not a WebSocket handshake: refused, and nothing has changed.
Refuse == UNCHANGED vars

\* The handler has upgraded the connection; add calls Lock.
Register(v, r) ==
  /\ viewer[v].register = "new"
  /\ viewer' = [viewer EXCEPT ![v].room = r, ![v].register = "add"]
  /\ UNCHANGED <<rooms, send, closed, sender, used>>

\* The rest of add, and the start of writePump.
add(v) ==
  /\ viewer[v].register = "add"
  /\ MayWrite
  /\ rooms' = [rooms EXCEPT ![viewer[v].room] = @ \cup {v}]
  /\ viewer' = [viewer EXCEPT ![v].register = "read", ![v].pump = "select"]
  /\ sender' = Admitted(rooms')
  /\ UNCHANGED <<send, closed, used>>

\* The peer leaves or vanishes, or 60 seconds pass without a pong.
Drop(v) ==
  /\ viewer[v].register = "read"
  /\ viewer[v].conn = "up"
  /\ viewer' = [viewer EXCEPT ![v].conn = "down"]
  /\ UNCHANGED <<rooms, send, closed, sender, used>>

\* ReadMessage returns an error: done and the connection are closed, and
\* remove calls Lock.
ReadEnds(v) ==
  /\ viewer[v].register = "read"
  /\ viewer[v].conn # "up"
  /\ viewer' = [viewer EXCEPT ![v].register = "remove", ![v].conn = "closed"]
  /\ UNCHANGED <<rooms, send, closed, sender, used>>

\* The rest of remove.
remove(v) ==
  /\ viewer[v].register = "remove"
  /\ MayWrite
  /\ rooms' = [rooms EXCEPT ![viewer[v].room] = @ \ {v}]
  /\ closed' = closed \cup {v}
  /\ viewer' = [viewer EXCEPT ![v].register = "gone"]
  /\ sender' = Admitted(rooms')
  /\ UNCHANGED <<send, used>>

-----------------------------------------------------------------------------
(***************************************************************************)
(* writePump: a select of the channel, the ticker and done.                *)
(***************************************************************************)

\* A mutant: the connection is left open.
ReturnOnly(v) == [viewer EXCEPT ![v].pump = "ended"]

\* The pump returns; its deferred call closes the connection.
Return(v) == [viewer EXCEPT ![v].pump = "ended", ![v].conn = "closed"]

\* A message is taken from the channel and written; a write that fails, as
\* one does that waits for 10 seconds, ends the pump.
PumpMessage(v) ==
  /\ viewer[v].pump = "select"
  /\ send[v] # <<>>
  /\ send' = [send EXCEPT ![v] = Tail(@)]
  /\ \/ viewer[v].conn # "closed" /\ UNCHANGED viewer
     \/ viewer' = Return(v)
  /\ UNCHANGED <<rooms, closed, sender, used>>

\* A ping fails, or done is closed, or the channel is closed and empty.
PumpEnds(v) ==
  /\ viewer[v].pump = "select"
  /\ viewer' = Return(v)
  /\ UNCHANGED <<rooms, send, closed, sender, used>>

-----------------------------------------------------------------------------
(***************************************************************************)
(* Broadcast.                                                              *)
(***************************************************************************)

\* RLock.
Broadcast(s, r, m) ==
  /\ sender[s] = Idle
  /\ m \notin used
  /\ sender' = [sender EXCEPT ![s] =
       IF Writers = {} THEN [step |-> "send", msg |-> m, room |-> r, todo |-> rooms[r]]
                       ELSE [step |-> "wait", msg |-> m, room |-> r, todo |-> {}]]
  /\ used' = used \cup ({m} \ {Other})
  /\ UNCHANGED <<rooms, viewer, send, closed>>

\* Mutants: wait for a viewer that cannot keep up; queue without a bound; stop
\* at a viewer that cannot keep up.
WhenItFits(v) == Len(send[v]) < Buffer
QueuedAlways(v, m) == Append(send[v], m)
StopWhenFull(s, v) == IF Len(send[v]) < Buffer THEN sender[s].todo \ {v} ELSE {}

\* The select has a default: a send never waits, and what does not fit is
\* dropped for this viewer only.
MaySend(v) == TRUE
Queued(v, m) == IF Len(send[v]) < Buffer THEN Append(send[v], m) ELSE send[v]
Left(s, v) == sender[s].todo \ {v}

\* One iteration of the loop over the room, in any order.
Send(s, v) ==
  /\ v \in sender[s].todo
  /\ MaySend(v)
  /\ send' = [send EXCEPT ![v] = Queued(v, sender[s].msg)]
  /\ sender' = [sender EXCEPT ![s].todo = Left(s, v)]
  /\ UNCHANGED <<rooms, viewer, closed, used>>

\* RUnlock.
BroadcastEnds(s) ==
  /\ sender[s].step = "send" /\ sender[s].todo = {}
  /\ sender' = [sender EXCEPT ![s] = Idle]
  /\ UNCHANGED <<rooms, viewer, send, closed, used>>

-----------------------------------------------------------------------------
Continue(s) == BroadcastEnds(s) \/ \E v \in Viewers : Send(s, v)

Next ==
  \/ Refuse
  \/ \E v \in Viewers, r \in Rooms : Register(v, r)
  \/ \E v \in Viewers : add(v) \/ Drop(v) \/ ReadEnds(v) \/ remove(v) \/ PumpMessage(v) \/ PumpEnds(v)
  \/ \E s \in Senders, r \in Rooms, m \in Messages \cup {Other} : Broadcast(s, r, m)
  \/ \E s \in Senders : Continue(s)

\* Goroutines go on, a lock that is free is given to who waits for it, and a
\* connection that failed makes the read return.  Viewers come and go, and
\* requests broadcast, as they please.
Fairness ==
  /\ \A s \in Senders : WF_vars(Continue(s))
  /\ \A v \in Viewers :
       /\ WF_vars(add(v)) /\ WF_vars(ReadEnds(v)) /\ WF_vars(remove(v))
       /\ WF_vars(PumpMessage(v))
       /\ WF_vars(viewer[v].conn = "closed" /\ PumpEnds(v))

Spec == Init /\ [][Next]_vars /\ Fairness

-----------------------------------------------------------------------------
(***************************************************************************)
(* Properties                                                              *)
(***************************************************************************)

TypeOK ==
  /\ rooms \in [Rooms -> SUBSET Viewers]
  /\ viewer \in [Viewers -> [room     : Rooms \cup {None},
                             register : {"new", "add", "read", "remove", "gone"},
                             pump     : {"none", "select", "ended"},
                             conn     : {"up", "down", "closed"}]]
  /\ send \in [Viewers -> Seq(Messages \cup {Other})]
  /\ \A v \in Viewers : Len(send[v]) <= Buffer
  /\ closed \subseteq Viewers
  /\ sender \in [Senders -> [step : {"idle", "wait", "send"},
                             msg  : Messages \cup {Other, None},
                             room : Rooms \cup {None},
                             todo : SUBSET Viewers]]
  /\ used \subseteq Messages

\* No broadcast has a viewer left to send to whose channel is closed: the
\* send would panic (ws_service.go:59 and :133).
NeverSendsOnClosed == \A s \in Senders : sender[s].todo \cap closed = {}

\* A broadcast ends, however slow the viewers are and whoever waits for the
\* lock ("drop the update for any client that cannot keep up rather than
\* block", ws_service.go:57).
BroadcastsEnd == \A s \in Senders : sender[s].step # "idle" ~> sender[s].step = "idle"

\* When one of a viewer's goroutines has ended, or its connection has failed,
\* both end and the viewer leaves its room ("close the connection on write
\* failure so Register's read loop unblocks", ws_service.go:95).
LostViewersLeave ==
  \A v \in Viewers :
    viewer[v].pump = "ended" \/ viewer[v].conn # "up"
      ~> /\ viewer[v].pump = "ended" /\ viewer[v].register = "gone"
         /\ \A r \in Rooms : v \notin rooms[r]

=============================================================================
