---------------------------- MODULE ScheduledRun ----------------------------
(***************************************************************************)
(* What the parts of the queue agree on about one daily run: the status of *)
(* its row in pipeline_runs and the phase of its flow.  DailyScheduler has *)
(* many runs, FlowQueue works off the flow of one and FlowRetirement       *)
(* removes the flow of one: what each of them does to a run is a step of   *)
(* this specification, or none.                                            *)
(*                                                                         *)
(* A flow is added once, and only to a run that has its row; one that has  *)
(* stopped never runs again.  A row is closed, and closed again, by        *)
(* whoever believes to know how its run ended.  Only a failed run loses    *)
(* its flow, only a failed run without its flow is superseded, and a       *)
(* superseded run is left alone.                                           *)
(***************************************************************************)
VARIABLES
    status,   \* "absent", "running", "success", "failed" or "superseded"
    phase     \* "none", "live", "parked", "completed" or "removed"

run == <<status, phase>>

Init == status = "absent" /\ phase = "none"

\* The row, and then the flow or with it the flow.
Submit ==
    /\ status = "absent" /\ status' = "running"
    /\ phase' \in {"none", "live"}

\* No tree can be built: the row tells, and there is no flow.
Refuse == status = "absent" /\ status' = "failed" /\ UNCHANGED phase

Add == status # "absent" /\ phase = "none" /\ phase' = "live" /\ UNCHANGED status

Close ==
    /\ status \in {"running", "success", "failed"}
    /\ status' \in {"success", "failed"}

CloseRow == Close /\ UNCHANGED phase

\* With the last job to stop, its processor may close the row.
Stop ==
    /\ phase = "live" /\ phase' \in {"parked", "completed"}
    /\ UNCHANGED status \/ Close

\* Whether it had stopped or not.
Remove ==
    /\ status = "failed" /\ phase \in {"live", "parked", "completed"}
    /\ phase' = "removed"
    /\ UNCHANGED status

Supersede ==
    /\ status = "failed" /\ phase = "removed"
    /\ status' = "superseded"
    /\ UNCHANGED phase

Next == Submit \/ Refuse \/ Add \/ CloseRow \/ Stop \/ Remove \/ Supersede

Spec == Init /\ [][Next]_run

=============================================================================
