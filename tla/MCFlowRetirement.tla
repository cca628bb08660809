--------------------------- MODULE MCFlowRetirement --------------------------
(* FlowRetirement on every flow that can be built of three stages. *)
EXTENDS FlowRetirement, TLC

StageSymmetry == Permutations(Stages)

=============================================================================
