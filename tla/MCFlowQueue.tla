----------------------------- MODULE MCFlowQueue ----------------------------
(* FlowQueue on the smallest trees: a dependency, and two branches. *)
EXTENDS FlowQueue, TLC

CONSTANTS root, left, right

\* Two leaves under the root.
Fork == root :> NoStage @@ left :> root @@ right :> root

\* A leaf under the root.
Pair == root :> NoStage @@ left :> root

WorkerSymmetry == Permutations(Workers)

=============================================================================
