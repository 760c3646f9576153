--------------------------- MODULE MCTournaments ---------------------------
(***************************************************************************)
(* Tournaments with two of them, two requests and two users.               *)
(***************************************************************************)
EXTENDS Tournaments, TLC

IdSymmetry == Permutations(Ids) \cup Permutations(Clients) \cup Permutations(Users)

-----------------------------------------------------------------------------
(***************************************************************************)
(* History: has the write of the request reached a tournament that was     *)
(* there, and have two requests been in flight at once?  Until then the    *)
(* specification is what one organiser can do.                             *)
(***************************************************************************)
VARIABLES reached, overlapped

mcvars == <<vars, reached, overlapped>>

InFlight == {c \in Clients : ~Idles(c)}

Reaches(c) ==
  \/ At(c, "insert") /\ status' # status
  \/ (At(c, "delete") \/ At(c, "update")) /\ req'[c].todo = Rest(c) /\ req[c].ids \subseteq Rows

MCInit == Init /\ reached = [c \in Clients |-> FALSE] /\ overlapped = FALSE
MCNext ==
  /\ Next
  /\ reached' = [c \in Clients |-> req'[c] # Idle /\ (reached[c] \/ Reaches(c))]
  /\ overlapped' = (overlapped \/ Cardinality(InFlight') > 1)

MCSpec == MCInit /\ [][MCNext]_mcvars

-----------------------------------------------------------------------------
(***************************************************************************)
(* What every client can count on.                                         *)
(***************************************************************************)

\* What an answer says of the writes of its request, whatever others do
\* meanwhile: a refusal (response.go:13) follows none; a change answered with
\* its tournament was made while the tournament was there; one whose deletion
\* is confirmed is gone; and one that a change finds missing after its write
\* has been deleted by somebody else.
AnswersAreTrue ==
  [][\A c \in InFlight \ InFlight' :
       /\ answer' \in {400, 401, 403, 409} => ~reached[c]
       /\ answer' = 200 /\ req[c].kind \in {"names", "change", "rollback"} => reached[c]
       /\ answer' = 204 \/ (answer' = 404 /\ reached[c]) =>
            \A t \in req[c].ids : status'[t] = "deleted"]_mcvars

\* Between the check of the user and the write lie other requests; still a row
\* is only ever written for an admin or for the one who created it ("only the
\* tournament creator or an olympics admin can perform this action",
\* errs.go:11), and created for an admin.
ChangedByEntitled ==
  [][\A t \in Ids : status[t] # status'[t] =>
       \E c \in InFlight : /\ t \in req[c].ids /\ req[c] # req'[c]
                           /\ req[c].by.isAdmin \/ req[c].by.user \in owner[t]]_mcvars

(***************************************************************************)
(* What a single organiser can count on, whatever calls fail.              *)
(***************************************************************************)

\* A tournament is created only when no other one is active ("enforce a
\* single tournament at a time (a finished one may be superseded)",
\* tournament_service.go:114).
CreatedAlone ==
  [][~overlapped' => \A t \in Ids : status[t] = "new" /\ status'[t] = "setup" => Active = {}]_mcvars

\* The last that the viewers of a deleted tournament hear is that it is gone.
DeletionIsLastHeard ==
  ~overlapped /\ InFlight = {} => \A t \in Ids : status[t] = "deleted" => room[t] = "deleted"

=============================================================================
