----------------------------- MODULE OncePerDay -----------------------------
(***************************************************************************)
(* The scheduler's contract (daily-run-state.ts, "Exactly one              *)
(* daily-pipeline run is expected per LOGICAL RUN DATE"), without          *)
(* schedulers, locks, rows or queues.  A date is claimed, its work is      *)
(* launched at most once per claim, and only a date whose work can no      *)
(* longer run is opened again.                                             *)
(***************************************************************************)
CONSTANT Dates

VARIABLE phase    \* per date: "open", "claimed", "launched", "over"

Init == phase = [d \in Dates |-> "open"]

Become(d, from, to) ==
    /\ phase[d] = from
    /\ phase' = [phase EXCEPT ![d] = to]

Claim(d) == Become(d, "open", "claimed")
Launch(d) == Become(d, "claimed", "launched")
End(d) == Become(d, "launched", "over")
Reopen(d) == Become(d, "over", "open")

Next == \E d \in Dates : Claim(d) \/ Launch(d) \/ End(d) \/ Reopen(d)

Spec == Init /\ [][Next]_phase

=============================================================================
