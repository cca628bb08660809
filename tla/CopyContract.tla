---------------------------- MODULE CopyContract ----------------------------
(***************************************************************************)
(* What one run of the database copy promises whoever started it, without  *)
(* fences, sessions or records: it gives one answer.  "refused" means the  *)
(* target holds nothing of this run and another may be started             *)
(* (LifecycleRefused), "verified" means the target holds the copy, and     *)
(* "intervention" promises neither (LifecycleInterventionRequired).        *)
(* Nothing reaches the target after an answer.  A run that is killed gives *)
(* none.                                                                   *)
(***************************************************************************)
VARIABLES
    copied,   \* does the target hold the copy?
    answer    \* what the run has told its operator

Init == ~copied /\ answer = "none"

Land ==
    /\ answer = "none"
    /\ copied' = TRUE
    /\ UNCHANGED answer

Answer(a, allowed) ==
    /\ answer = "none"
    /\ allowed
    /\ answer' = a
    /\ UNCHANGED copied

Next ==
    \/ Land
    \/ Answer("refused", ~copied)
    \/ Answer("verified", copied)
    \/ Answer("intervention", TRUE)

Spec == Init /\ [][Next]_<<copied, answer>>

=============================================================================
