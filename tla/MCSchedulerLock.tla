-------------------------- MODULE MCSchedulerLock --------------------------
(***************************************************************************)
(* SchedulerLock on three overlapping fires: a holder or a dead owner, a   *)
(* recoverer, and a newcomer who can win the mkdir between the two.        *)
(***************************************************************************)
EXTENDS SchedulerLock, TLC

FireSymmetry == Permutations(Fires)

=============================================================================
