--------------------------- MODULE MCLifecycleOne ---------------------------
(***************************************************************************)
(* Lifecycle with one request after another and calls that may fail: what  *)
(* an organiser can count on, until what fails, and what repairs it.       *)
(***************************************************************************)
EXTENDS MCLifecycle

(***************************************************************************)
(* History variables: has a database call failed, and has the roster been  *)
(* changed since; the status as it was until the first failure.            *)
(***************************************************************************)
VARIABLES calls, until

historyVars == <<calls, until>>

\* A call of a request fails, or the one that reads the status to broadcast.
\* A request that ends by itself at the same place has written nothing.
CallFails ==
  \E c \in Clients :
    \/ Fail(c) /\ ~(CountPending(c) \/ ReadResults(c) \/ CheckStatus(c))
    \/ Reload(c) /\ ~At(c, "idle")' /\ req'[c].seen # status

Repaired == calls = "failed" /\ \E c \in Clients : ApplyRosterChange(c)

MCInit == Init /\ calls = "good" /\ until = "setup"

MCNext ==
  /\ Next
  /\ calls' = CASE Repaired -> "repaired"
                [] CallFails /\ ~Repaired -> "failed"
                [] OTHER -> calls
  /\ until' = IF calls' = "good" THEN status' ELSE until

MCSpec == MCInit /\ [][MCNext]_<<vars, historyVars>>

-----------------------------------------------------------------------------
\* Until a call fails the status takes the steps of the lifecycle and no
\* others ("Lifecycle state machine", README.md:18).
PromisedUntil == INSTANCE Stages WITH status <- until

FollowsLifecycleUntilFailed == PromisedUntil!Spec

\* The rows are those of the status until a call fails, and again once the
\* roster has changed: it deletes what other requests left half done.
RowsFitStatusUnlessFailed == calls = "failed" \/ RowsFitStatus

\* Between requests the last message broadcast carries the true status, until
\* a call fails and again once the roster has changed.
FeedAgreesUnlessFailed == calls = "failed" \/ FeedAgreesWhenQuiet

\* The results a bracket was seeded from stay as they are as long as the
\* bracket does ("group scores lock once the bracket exists",
\* match_service.go:189), until a call fails and again once the roster changes.
SeedsAreFinalUnlessFailed == calls = "failed" \/ SeedsAreFinal

(***************************************************************************)
(* Whatever calls fail.                                                    *)
(***************************************************************************)

\* A bracket is seeded when every group match has been played (playoffs.go:35
\* and errs.go:22), also by a retry.
SeededFromResults == \A b \in Brackets, g \in Games : brackets[b].seeds[g] \in {"a", "b"}

\* The organiser is never stuck with two teams or more: between requests the
\* stage can be completed without throwing the schedule away.
NeverStuck ==
  Quiet /\ Games # {} =>
    /\ status = "group_stage" => Pending \/ grouped # None
    /\ status = "playoffs" => Brackets # {}

=============================================================================
