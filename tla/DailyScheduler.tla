--------------------------- MODULE DailyScheduler ---------------------------
(***************************************************************************)
(* From a scheduler fire to one daily run: scripts/daily-scheduler.sh      *)
(* asks daily-run-status whether today is eligible, takes the submission   *)
(* lock, asks again about the date it approved, and hands that date to     *)
(* daily-queue.sh and run-daily.ts, whose submitDailyPipeline writes the   *)
(* pipeline_runs row and then adds the flow to the queue.                  *)
(*                                                                         *)
(* The lock is SubmitAuthority, which SchedulerLock implements; the flow   *)
(* is reduced to the phases FlowQueue gives it.  Heartbeats decide only    *)
(* whether a person is told, never whether a run is eligible, and are left *)
(* out, as are alerts, logs and the dormant structured lane.               *)
(***************************************************************************)
EXTENDS Naturals, Sequences

CONSTANTS
    Fires,         \* processes that may submit
    LastDate,      \* logical dates are 1..LastDate, in order
    NoDate,        \* the NULL logical_date of a manual run
    Bystanders,    \* may anything submit without holding the lock?
    MaxIncidents   \* bound on crashes and operator acts

ASSUME DatesAssumption == LastDate \in Nat \ {0} /\ NoDate \notin Nat
ASSUME BystandersBoolean == Bystanders \in BOOLEAN
ASSUME MaxIncidentsNat == MaxIncidents \in Nat

VARIABLES
    today,       \* the logical date of the current instant
    due,         \* has DUE_HOUR of today come?
    pc,          \* where each fire is
    approved,    \* $LOGICAL: the date each fire submits for
    row,         \* parentRunId of each fire's submission
    holders,     \* the fires that hold the submission lock
    rows,        \* pipeline_runs: the daily parents, in order of insertion
    flow,        \* the state of each row's flow in the queue
    incidents

vars == <<today, due, pc, approved, row, holders, rows, flow, incidents>>
clock == <<today, due>>
store == <<rows, flow>>

Dates == 1..LastDate
Lock == INSTANCE SubmitAuthority

Init ==
    /\ today = 1
    /\ due = FALSE
    /\ pc = [p \in Fires |-> "idle"]
    /\ approved = [p \in Fires |-> NoDate]
    /\ row = [p \in Fires |-> 0]
    /\ Lock!Init
    /\ rows = <<>>
    /\ flow = <<>>
    /\ incidents = 0

Goto(p, label) == pc' = [pc EXCEPT ![p] = label]
Incident == incidents < MaxIncidents /\ incidents' = incidents + 1

-----------------------------------------------------------------------------
(* The run store *)

\* Rows that answer for a date: a NULL date matches none, a superseded row no
\* longer answers.
RunsFor(d) == {r \in DOMAIN rows : rows[r].date = d /\ ~rows[r].superseded}

\* The due hour of the date is not in the future.
HadBecomeDue(d) == d < today \/ (d = today /\ due)

\* assessDailyRun, the latest row standing for the date unless one succeeded.
Assess(d) ==
    IF \E r \in RunsFor(d) : rows[r].status = "success" THEN "success"
    ELSE IF RunsFor(d) # {}
         THEN rows[CHOOSE r \in RunsFor(d) : \A s \in RunsFor(d) : s <= r].status
    ELSE IF HadBecomeDue(d) THEN "missing"
    ELSE "not_due"

Eligible(d) == Assess(d) = "missing"

\* Mutants of the index: one that is not there, one that forgets failed runs.
NoIndex(d) == FALSE
IndexForgetsFailed(d) == \E r \in RunsFor(d) : rows[r].status # "failed"

\* The partial unique index on logical_date.
Conflicts(d) == d # NoDate /\ RunsFor(d) # {}

\* recordEnd: whatever the row said before.
RecordEnd(r, status) == rows' = [rows EXCEPT ![r].status = status]

-----------------------------------------------------------------------------
(* A fire of daily-scheduler.sh *)

\* The verdict about today's date.  A fire that is not eligible, or cannot
\* read the verdict, exits and leaves nothing.
Evaluate(p) ==
    /\ pc[p] = "idle"
    /\ Eligible(today)
    /\ approved' = [approved EXCEPT ![p] = today]
    /\ Goto(p, "acquire")
    /\ UNCHANGED <<clock, row, holders, store, incidents>>

AcquireLock(p) ==
    /\ pc[p] = "acquire"
    /\ Lock!Acquire(p)
    /\ Goto(p, "recheck")
    /\ UNCHANGED <<clock, approved, row, store, incidents>>

\* Another fire holds it, or recovery is blocked: a no-op for this fire.
LoseLock(p) ==
    /\ pc[p] = "acquire"
    /\ Goto(p, "idle")
    /\ UNCHANGED <<clock, approved, row, holders, store, incidents>>

\* Mutants of the recheck: none, and the one of "today".
NoRecheck(p) ==
    /\ pc[p] = "recheck"
    /\ Goto(p, "submit")
    /\ UNCHANGED <<clock, approved, row, holders, store, incidents>>

RecheckToday(p) ==
    /\ pc[p] = "recheck"
    /\ Goto(p, IF Eligible(today) THEN "submit" ELSE "exit")
    /\ UNCHANGED <<clock, approved, row, holders, store, incidents>>

\* The second verdict, under the lock and about the approved date.
Recheck(p) ==
    /\ pc[p] = "recheck"
    /\ Goto(p, IF Eligible(approved[p]) THEN "submit" ELSE "exit")
    /\ UNCHANGED <<clock, approved, row, holders, store, incidents>>

\* The verdict is empty, unparseable or about another day; or daily-queue.sh
\* finds no live worker; or run-daily's preflight refuses; or the store is not
\* writable.
Refuse(p) ==
    /\ pc[p] \in {"recheck", "submit", "recordStart"}
    /\ Goto(p, "refused")
    /\ UNCHANGED <<clock, approved, row, holders, store, incidents>>

\* daily-queue.sh found a live worker, and run-daily's preflight passes.
PassPreflight(p) ==
    /\ pc[p] = "submit"
    /\ Goto(p, "recordStart")
    /\ UNCHANGED <<clock, approved, row, holders, store, incidents>>

\* A mutant of it: the date is computed again.
LogicalDateOfNow(p) == IF approved[p] = NoDate THEN NoDate ELSE today

\* The date run-daily submits for: what --logical-date says, verbatim.
LogicalDate(p) == approved[p]

\* recordStart of the parent row, or the unique index refusing it.
RecordStart(p) ==
    /\ pc[p] = "recordStart"
    /\ IF Conflicts(LogicalDate(p))
       THEN Goto(p, "exit") /\ UNCHANGED <<row, store>>
       ELSE /\ rows' = Append(rows, [date |-> LogicalDate(p), status |-> "running",
                                     superseded |-> FALSE])
            /\ flow' = Append(flow, "none")
            /\ row' = [row EXCEPT ![p] = Len(rows) + 1]
            /\ Goto(p, "addFlow")
    /\ UNCHANGED <<clock, approved, holders, incidents>>

\* producer.add, atomic in Redis.  Its reply may be an error whether or not the
\* flow was added.
AddFlow(p) ==
    /\ pc[p] = "addFlow"
    /\ \/ /\ flow' = [flow EXCEPT ![row[p]] = "live"]
          /\ \/ Goto(p, "exit")
             \/ Goto(p, "closeFailed")
       \/ Goto(p, "closeFailed") /\ UNCHANGED flow
    /\ UNCHANGED <<clock, approved, row, holders, rows, incidents>>

\* The catch of submitDailyPipeline, whose own write may throw.
CloseFailed(p) ==
    /\ pc[p] = "closeFailed"
    /\ RecordEnd(row[p], "failed") \/ UNCHANGED rows
    /\ Goto(p, "exit")
    /\ UNCHANGED <<clock, approved, row, holders, flow, incidents>>

\* A mutant of the exit: the trap is not set on the way of a refusal.
ExitKeepsLock(p) ==
    /\ pc[p] \in {"exit", "refused"}
    /\ holders' = IF pc[p] = "refused" THEN holders ELSE holders \ {p}
    /\ Goto(p, "idle")
    /\ approved' = [approved EXCEPT ![p] = NoDate]
    /\ row' = [row EXCEPT ![p] = 0]
    /\ UNCHANGED <<clock, store, incidents>>

\* The EXIT trap; a submitter outside the scheduler has no lock to release.
Exit(p) ==
    /\ pc[p] \in {"exit", "refused"}
    /\ \/ p \in holders /\ Lock!GiveUp(p)
       \/ p \notin holders /\ UNCHANGED holders
    /\ Goto(p, "idle")
    /\ approved' = [approved EXCEPT ![p] = NoDate]
    /\ row' = [row EXCEPT ![p] = 0]
    /\ UNCHANGED <<clock, store, incidents>>

Submit(p) ==
    \/ AcquireLock(p) \/ LoseLock(p) \/ Recheck(p) \/ Refuse(p)
    \/ PassPreflight(p) \/ RecordStart(p) \/ AddFlow(p) \/ CloseFailed(p)
    \/ Exit(p)

-----------------------------------------------------------------------------
(* Environment *)

\* The script and its child die together; a later fire recovers the lock.
Crash(p) ==
    /\ pc[p] # "idle"
    /\ Incident
    /\ Goto(p, "idle")
    /\ holders' = holders \ {p}
    /\ approved' = [approved EXCEPT ![p] = NoDate]
    /\ row' = [row EXCEPT ![p] = 0]
    /\ UNCHANGED <<clock, store>>

\* The script dies and the submission it started goes on without it.
Orphan(p) ==
    /\ Bystanders
    /\ pc[p] \in {"submit", "recordStart", "addFlow", "closeFailed"}
    /\ Lock!GiveUp(p)
    /\ Incident
    /\ UNCHANGED <<clock, pc, approved, row, store>>

\* A person runs daily-queue.sh, which computes today's date for itself, or the
\* ad hoc submission, which claims no date.
SubmitByHand(p) ==
    /\ Bystanders
    /\ pc[p] = "idle"
    /\ Incident
    /\ \E d \in {today, NoDate} : approved' = [approved EXCEPT ![p] = d]
    /\ Goto(p, "submit")
    /\ UNCHANGED <<clock, row, holders, store>>

\* A processor closes the row of the flow it works for, before the queue hears of its
\* result; or after the flow has stopped without it, if the machine slept until the
\* lock of its job was lost (FlowQueue's LockExpires).
CloseRow(r) ==
    /\ flow[r] # "none"
    /\ IF flow[r] = "live" THEN UNCHANGED incidents ELSE Incident
    /\ RecordEnd(r, "success") \/ RecordEnd(r, "failed")
    /\ UNCHANGED <<clock, pc, approved, row, holders, flow>>

\* The flow stops, its row closed or not (ScheduledRun's Stop).
EndFlow(r) ==
    /\ flow[r] = "live"
    /\ flow' \in {[flow EXCEPT ![r] = x] : x \in {"completed", "parked"}}
    /\ UNCHANGED <<clock, pc, approved, row, holders, rows, incidents>>

\* bin/reconcile.ts --apply closes a row that says running.  Its snapshot may be
\* torn (FlowQueue), so that nothing is known of the flow.
Reconcile(r) ==
    /\ rows[r].status = "running"
    /\ Incident
    /\ RecordEnd(r, "success") \/ RecordEnd(r, "failed")
    /\ UNCHANGED <<clock, pc, approved, row, holders, flow>>

\* bin/retire-failed-flow.ts --apply: a failed, unsuperseded run whose jobs are
\* all terminal or parked, and exist, loses them.
RemoveFailedFlow(r) ==
    /\ rows[r].status = "failed" /\ ~rows[r].superseded /\ rows[r].date # NoDate
    /\ flow[r] \in {"parked", "completed"}
    /\ Incident
    /\ flow' = [flow EXCEPT ![r] = "removed"]
    /\ UNCHANGED <<clock, pc, approved, row, holders, rows>>

\* A mutant of the supersession: the jobs are not looked at again.
SupersedeUnremoved(r) ==
    /\ rows[r].status = "failed" /\ ~rows[r].superseded
    /\ rows' = [rows EXCEPT ![r].superseded = TRUE]
    /\ UNCHANGED <<clock, pc, approved, row, holders, flow, incidents>>

\* The same run of it, once no job is left: the row is superseded if it still says
\* what was reviewed.  Dying before this is the stuttering alternative.
SupersedeRow(r) ==
    /\ flow[r] = "removed"
    /\ rows[r].status = "failed" /\ ~rows[r].superseded
    /\ rows' = [rows EXCEPT ![r].superseded = TRUE]
    /\ UNCHANGED <<clock, pc, approved, row, holders, flow, incidents>>

DueHourComes ==
    /\ ~due
    /\ due' = TRUE
    /\ UNCHANGED <<today, pc, approved, row, holders, store, incidents>>

\* Midnight in the business timezone.
Midnight ==
    /\ due /\ today < LastDate
    /\ today' = today + 1
    /\ due' = FALSE
    /\ UNCHANGED <<pc, approved, row, holders, store, incidents>>

Next ==
    \/ \E p \in Fires :
          Evaluate(p) \/ Submit(p) \/ Crash(p) \/ Orphan(p) \/ SubmitByHand(p)
    \/ \E r \in DOMAIN rows :
          \/ CloseRow(r) \/ EndFlow(r) \/ Reconcile(r)
          \/ RemoveFailedFlow(r) \/ SupersedeRow(r)
    \/ DueHourComes
    \/ Midnight

Spec == Init /\ [][Next]_vars

\* launchd fires every 15 minutes and a script that started runs to its end.  The
\* lock is released or recovered again and again, and a submitter that keeps trying
\* sometimes finds the worker alive, the keys present and the store writable.
\* Nothing makes midnight, a person or a crash happen.
FairSpec ==
    /\ Spec
    /\ WF_vars(DueHourComes)
    /\ \A p \in Fires :
          /\ WF_vars(Evaluate(p))
          /\ SF_vars(AcquireLock(p))
          /\ SF_vars(Recheck(p))
          /\ SF_vars(PassPreflight(p))
          /\ SF_vars(RecordStart(p))
          /\ WF_vars(Submit(p))

-----------------------------------------------------------------------------
(* Properties *)

Statuses == {"running", "failed", "success"}
Rows == [date : Dates \cup {NoDate}, status : Statuses, superseded : BOOLEAN]
FlowStates == {"none", "live", "parked", "completed", "removed"}
Labels == {"idle", "acquire", "recheck", "submit", "recordStart", "addFlow",
           "closeFailed", "exit", "refused"}

\* Every variable has the type its comment gives it, and a fire remembers
\* a row of the store.
TypeOK ==
    /\ today \in Dates
    /\ due \in BOOLEAN
    /\ pc \in [Fires -> Labels]
    /\ approved \in [Fires -> Dates \cup {NoDate}]
    /\ row \in [Fires -> 0..Len(rows)]
    /\ holders \subseteq Fires
    /\ rows \in Seq(Rows)
    /\ flow \in Seq(FlowStates)
    /\ Len(flow) = Len(rows)
    /\ incidents \in 0..MaxIncidents

\* Two flows of one scheduled date never run at the same time, whoever submitted
\* them and whatever was reconciled, retired or superseded in between.
AtMostOneLiveFlow ==
    \A r, s \in DOMAIN rows :
        /\ rows[r].date # NoDate /\ rows[r].date = rows[s].date
        /\ flow[r] = "live" /\ flow[s] = "live"
        => r = s

\* The lock and the recheck leave the unique index nothing to refuse: from the
\* recheck until its row is written, a lock holder's date has no other run.
\* (Only where nothing submits beside the lock.)
RecheckHolds ==
    \A p \in holders :
        pc[p] \in {"submit", "recordStart"} => ~Conflicts(approved[p])

\* A scheduled run is filed under a date whose due hour had come, however long
\* the script waited and whatever midnight it crossed on the way.
ScheduledDateWasDue ==
    [][\A p \in holders :
          row[p] = 0 /\ row'[p] # 0 => HadBecomeDue(rows'[row'[p]].date)]_vars

\* The recheck gives an approved date up only because a run answers for that very
\* date, never because the clock moved on.
ApprovedRunIsNotDiscarded ==
    [][\A p \in Fires :
          pc[p] = "recheck" /\ pc'[p] = "exit" => RunsFor(approved[p]) # {}]_vars

\* One row answers for a date; a superseded one has no job left in the queue.
RowInv ==
    /\ \A r, s \in DOMAIN rows :
          /\ rows[r].date # NoDate /\ rows[r].date = rows[s].date
          /\ ~rows[r].superseded /\ ~rows[s].superseded
          => r = s
    /\ \A r \in DOMAIN rows : rows[r].superseded => flow[r] = "removed"

\* A submitter that is about to add a flow is the only one to do so for its row.
SubmitterInv ==
    /\ \A p \in Fires :
          /\ pc[p] \in {"addFlow", "closeFailed"} => row[p] # 0
          /\ pc[p] = "addFlow" => flow[row[p]] = "none"
    /\ \A p, q \in Fires :
          pc[p] = "addFlow" /\ pc[q] = "addFlow" /\ row[p] = row[q] => p = q

\* One holder; without bystanders everybody past the lock is it.
LockInv ==
    /\ \A p, q \in holders : p = q
    /\ \A p \in holders : pc[p] \notin {"idle", "acquire"}
    /\ \A p \in Fires :
          ~Bystanders /\ pc[p] \notin {"idle", "acquire"} => p \in holders

\* What a scheduler approved had become due.
ApprovalInv ==
    \A p \in Fires :
        p \in holders \/ pc[p] \in {"acquire", "recheck"} =>
            approved[p] \in Dates /\ HadBecomeDue(approved[p])

\* The inductive invariant.
IInv == TypeOK /\ RowInv /\ SubmitterInv /\ LockInv /\ ApprovalInv

\* What OncePerDay sees of a date: the flow of the run that answers for it.
Phase(d) ==
    IF \E r \in RunsFor(d) : flow[r] = "live" THEN "launched"
    ELSE IF \E r \in RunsFor(d) : flow[r] = "none" THEN "claimed"
    ELSE IF RunsFor(d) # {} THEN "over"
    ELSE "open"

Contract == INSTANCE OncePerDay WITH phase <- [d \in Dates |-> Phase(d)]

\* Exactly one run per logical date: a claim launches work at most once, and a date
\* is claimed again only after the work of its claim can no longer run.
ImplementsOncePerDay == Contract!Spec

\* The run of a row, whose standing is superseded with it.
Status(r) ==
    IF r \notin DOMAIN rows THEN "absent"
    ELSE IF rows[r].superseded THEN "superseded"
    ELSE rows[r].status

Run(r) == INSTANCE ScheduledRun
    WITH status <- Status(r), phase <- IF r \in DOMAIN rows THEN flow[r] ELSE "none"

\* Whatever fires, people and clocks do, each row's run lives the life that the queue
\* gives it and that retirement ends.
ImplementsScheduledRun(r) == Run(r)!Spec

\* A date whose due hour came while the machine was up gets a run before the day is
\* over, through crashes, refused submissions and fires that collide.
DueDateIsClaimed ==
    \A d \in Dates :
        today = d /\ due /\ RunsFor(d) = {} ~> RunsFor(d) # {} \/ today > d

=============================================================================
