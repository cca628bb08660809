--------------------------- MODULE SubmitAuthority ---------------------------
(***************************************************************************)
(* What daily-scheduler.sh wants of its lock: the authority to submit the  *)
(* day's run belongs to at most one fire, is taken only when nobody has it *)
(* and is never taken away from a fire that is still running.  How the     *)
(* authority is recovered from a dead fire is the implementation's affair: *)
(* here a dead fire simply has it no longer.                               *)
(***************************************************************************)
CONSTANT Fires

VARIABLE holders    \* the fires that may submit now

Init == holders = {}

Acquire(p) == holders = {} /\ holders' = {p}

\* The fire finishes, or dies.
GiveUp(p) == holders = {p} /\ holders' = {}

Next == \E p \in Fires : Acquire(p) \/ GiveUp(p)

Spec == Init /\ [][Next]_holders

=============================================================================
