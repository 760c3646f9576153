------------------------------- MODULE Stages -------------------------------
(***************************************************************************)
(* What the lifecycle of a tournament promises (README.md:18): setup,      *)
(* teams_generated, group_stage, playoffs, finished, in this order.  A     *)
(* change of the roster goes back to teams_generated, undoing the final    *)
(* reopens the playoffs.                                                   *)
(***************************************************************************)
Statuses == {"setup", "teams_generated", "group_stage", "playoffs", "finished"}

\* The statuses a request on a tournament with status s may give it.
Following(s) ==
  CASE s = "setup" -> {"teams_generated"}
    [] s = "teams_generated" -> {"group_stage"}
    [] s = "group_stage" -> {"playoffs", "teams_generated"}
    [] s = "playoffs" -> {"finished", "teams_generated"}
    [] s = "finished" -> {"playoffs"}

VARIABLE status

Init == status = "setup"

Next == status' \in Following(status)

Spec == Init /\ [][Next]_status

=============================================================================
