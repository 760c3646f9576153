------------------------------- MODULE MCHub -------------------------------
(***************************************************************************)
(* Hub, and what becomes of the messages.                                  *)
(***************************************************************************)
EXTENDS Hub

-----------------------------------------------------------------------------
(***************************************************************************)
(* A history variable; it never constrains a step.                         *)
(***************************************************************************)
VARIABLE fate   \* what became of a message for a viewer

\* In this step: the broadcast of m gets the lock; v's turn comes in a
\* broadcast of m, and its channel is full; m is written to v.
Begins(m, v) ==
  \E s \in Senders : sender[s].step # "send" /\ sender'[s].msg = m /\ v \in sender'[s].todo
Overflows(m, v) ==
  Len(send[v]) = Buffer /\ \E s \in Senders : sender[s].msg = m /\ Send(s, v)
Written(m, v) == send[v] # <<>> /\ Head(send[v]) = m /\ PumpMessage(v) /\ UNCHANGED viewer

MCInit ==
  /\ Init
  /\ fate = [m \in Messages |-> [v \in Viewers |-> "none"]]

MCNext ==
  /\ Next
  /\ fate' = [m \in Messages |-> [v \in Viewers |->
       CASE Begins(m, v)    -> "due"
         [] Overflows(m, v) -> "dropped"
         [] Written(m, v)   -> "written"
         [] OTHER           -> fate[m][v]]]

MCSpec == MCInit /\ [][MCNext]_<<vars, fate>> /\ Fairness

-----------------------------------------------------------------------------
\* A viewer in the room when a broadcast gets the lock is written the message
\* unless its buffer was full or its connection fails: another viewer's slow
\* connection, or its leaving, takes nothing from it.
WrittenUnlessSlow ==
  \A m \in Messages, v \in Viewers :
    fate[m][v] = "due" ~> fate[m][v] \in {"written", "dropped"} \/ viewer[v].conn # "up"

=============================================================================
