----------------------------- MODULE MCLifecycle -----------------------------
(***************************************************************************)
(* Lifecycle on batches of one or three group matches: two or three teams. *)
(***************************************************************************)
EXTENDS Lifecycle, TLC

\* Ids are fresh UUIDs: any two may be exchanged.
IdSymmetry == Permutations(Batches) \cup Permutations(Games) \cup Permutations(Clients)

\* The status takes the steps of the lifecycle and no others ("Lifecycle
\* state machine", README.md:18).
Promised == INSTANCE Stages

FollowsLifecycle == Promised!Spec

=============================================================================
