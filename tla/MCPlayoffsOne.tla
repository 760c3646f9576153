---------------------------- MODULE MCPlayoffsOne ----------------------------
(***************************************************************************)
(* Playoffs with one request after another and calls that may fail: what   *)
(* an organiser can count on, and until what fails.                        *)
(***************************************************************************)
EXTENDS MCPlayoffs

(***************************************************************************)
(* History variables: has a database call failed; and the team that stood  *)
(* in the next match when the result of a match was undone, if any did.    *)
(***************************************************************************)
VARIABLES failed, kept

\* A call of a request fails or the process stops, or the call that reads the
\* status to broadcast fails.  A request that ends by itself, without a change,
\* is none of these.
CallFails ==
  \/ (Restart \/ \E c \in Clients : Fail(c)) /\ ~\E c \in Clients : RollbackNext(c) \/ Broadcast(c)
  \/ \E c \in Clients : RecordReload(c) /\ req'[c].seen # status

SlotTeam(m) == NextRow(m)[Built[m].slot]

MCInit ==
  /\ Init
  /\ failed = FALSE
  /\ kept = [m \in Matches |-> NoTeam]

MCNext ==
  /\ Next
  /\ failed' = (failed \/ CallFails)
  /\ kept' = [m \in Matches |-> IF HasNext(m) /\ matches[m].done /\ ~matches'[m].done
                                THEN SlotTeam(m) ELSE kept[m]]

mcvars == <<vars, failed, kept>>

MCSpec == MCInit /\ [][MCNext]_mcvars /\ Fairness

-----------------------------------------------------------------------------
\* A slot holds the team that won the match below it.  Once a result has been
\* undone whose winner had advanced, it holds that first winner, whatever is
\* entered instead (the emptied id of match_service.go:203 is not what Save
\* writes); and never is it the team of a bye that was taken back.
SlotsHoldFirstWinners ==
  \A m \in Matches : HasNext(m) =>
    IF kept[m] = NoTeam
    THEN SlotTeam(m) # NoTeam => matches[m].done /\ matches[m].winner = SlotTeam(m)
    ELSE /\ SlotTeam(m) = kept[m]
         /\ matches[m].a # NoTeam /\ matches[m].b # NoTeam
         /\ kept[m] \in {matches[m].a, matches[m].b}

\* The result of a match as the bracket shows it: the team that was sent on
\* to the next match, and before one is, the winner.
Shown == [m \in Matches |-> IF HasNext(m) /\ SlotTeam(m) # NoTeam
                            THEN SlotTeam(m) ELSE matches[m].winner]

\* What the bracket shows is a single elimination at every moment, whatever
\* fails: each step enters one result, undoes one, or leaves it alone.  A
\* result that has been sent on stands for good, undone or not.
Elimination == INSTANCE SingleElimination WITH results <- Shown

IsSingleElimination == Elimination!Spec

\* As long as no call has failed, and between requests, the tournament is
\* finished exactly when its final has a result (match_service.go:209, 230),
\* and the last message broadcast carries the true status.
StatusIsTrueUnlessFailed == failed \/ (FinishedIffFinalPlayed /\ FeedAgreesWhenQuiet)

\* A recorded result reaches the bracket or is undone, unless a call fails or
\* the slot is taken by a winner from before an undo: the request does not stop
\* by itself between its two writes.
WinnerAdvancesEventually ==
  \A m \in Matches :
    HasNext(m) => (matches[m].done ~> \/ ~matches[m].done
                                      \/ SlotTeam(m) = matches[m].winner
                                      \/ kept[m] # NoTeam
                                      \/ failed)

=============================================================================
