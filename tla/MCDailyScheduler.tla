-------------------------- MODULE MCDailyScheduler --------------------------
(* DailyScheduler on a few fires and two dates. *)
EXTENDS DailyScheduler, TLC

\* Fires are told apart only by being distinct (never under a liveness property).
FireSymmetry == Permutations(Fires)

=============================================================================
