----------------------------- MODULE FlowQueue ------------------------------
(***************************************************************************)
(* One daily flow in the queue: submit.ts adds the tree of stages, workers *)
(* run processor.ts for the jobs BullMQ hands them, and bin/reconcile.ts   *)
(* reads the queue to close a pipeline_runs row that nobody else will.     *)
(*                                                                         *)
(* BullMQ (5.78.0) and Redis are outside src/ and modelled from how it     *)
(* uses them: atomic scripts, one lock per active job, a stalled job       *)
(* redelivered MaxStalls times and then failed without a processor, a      *)
(* failed child that keeps its parent waiting.  The rows of the stages,    *)
(* which decide nothing, are left out.                                     *)
(***************************************************************************)
EXTENDS Naturals

CONSTANTS
    Stages,
    NoStage,
    ParentOf,      \* the stage that depends on each stage; NoStage for the root
    Workers,       \* worker processes, each of concurrency 1
    NoWorker,
    Attempts,      \* attempts of a stage
    MaxStalls,     \* BullMQ's maxStalledCount
    Obedient,      \* does every child exit on SIGTERM?
    MaxIncidents   \* bound on crashes, suspensions and failed writes

Children(s) == {c \in Stages : ParentOf[c] = s}
Root == CHOOSE s \in Stages : ParentOf[s] = NoStage

\* buildDAGTree refuses anything but a tree: one root, every stage below it, and
\* (there are finitely many) a leaf.
ASSUME TreeAssumption ==
    /\ NoStage \notin Stages
    /\ ParentOf \in [Stages -> Stages \cup {NoStage}]
    /\ \E r \in Stages : \A s \in Stages : ParentOf[s] = NoStage <=> s = r
    /\ \A below \in SUBSET Stages :
          Root \in below /\ (\A s \in below : Children(s) \subseteq below)
          => below = Stages
    /\ \E s \in Stages : Children(s) = {}
ASSUME WorkersAssumption == NoWorker \notin Workers
ASSUME BoundsAssumption ==
    Attempts \in Nat \ {0} /\ MaxStalls \in Nat /\ MaxIncidents \in Nat
ASSUME ObedientBoolean == Obedient \in BOOLEAN

VARIABLES
    submit,      \* submitDailyPipeline: "start", "recorded", "failing", "done"
    row,         \* status of the parent row in pipeline_runs
    job,         \* per stage, the BullMQ state of its job
    made,        \* per stage, attemptsMade
    stalls,      \* per stage, how often it was found stalled
    lock,        \* per stage, the worker whose token locks it
    exec,        \* per worker, the processor it runs
    spawned,     \* per stage, children spawned (a history variable)
    recon,       \* bin/reconcile.ts: its next step and what it has seen
    incidents

vars == <<submit, row, job, made, stalls, lock, exec, spawned, recon, incidents>>
queue == <<job, made, stalls, lock>>

Idle == [stage |-> NoStage, attempt |-> 0, phase |-> "idle", killed |-> FALSE]

Init ==
    /\ submit = "start"
    /\ row = "absent"
    /\ job = [s \in Stages |-> "absent"]
    /\ made = [s \in Stages |-> 0]
    /\ stalls = [s \in Stages |-> 0]
    /\ lock = [s \in Stages |-> NoWorker]
    /\ exec = [w \in Workers |-> Idle]
    /\ spawned = [s \in Stages |-> 0]
    /\ recon = [step |-> 0, seen |-> {}]
    /\ incidents = 0

Incident == incidents < MaxIncidents /\ incidents' = incidents + 1

-----------------------------------------------------------------------------
(* submitDailyPipeline *)

RecordStart ==
    /\ submit = "start"
    /\ submit' = "recorded"
    /\ row' = "running"
    /\ UNCHANGED <<queue, exec, spawned, recon, incidents>>

\* A mutant: the children of the nodes are dropped.
AddedFlat == [s \in Stages |-> "wait"]

\* FlowProducer.add: leaves can run, the others wait for their children.
Added == [s \in Stages |-> IF Children(s) = {} THEN "wait" ELSE "waiting-children"]

AddFlow ==
    /\ submit = "recorded"
    /\ submit' = "done"
    /\ job' = Added
    /\ UNCHANGED <<row, made, stalls, lock, exec, spawned, recon, incidents>>

\* add throws, whether or not Redis did it.
AddFails ==
    /\ submit = "recorded"
    /\ Incident
    /\ submit' = "failing"
    /\ job' \in {job, Added}
    /\ UNCHANGED <<row, made, stalls, lock, exec, spawned, recon>>

\* The catch closes the row, whatever has become of it meanwhile.
CloseFailed ==
    /\ submit = "failing"
    /\ submit' = "done"
    /\ row' = "failed"
    /\ UNCHANGED <<queue, exec, spawned, recon, incidents>>

\* The process dies, or the recordEnd of its catch throws.
SubmitterDies ==
    /\ submit \in {"recorded", "failing"}
    /\ Incident
    /\ submit' = "done"
    /\ UNCHANGED <<row, queue, exec, spawned, recon>>

-----------------------------------------------------------------------------
(* A worker and its processor *)

\* An idle worker takes a waiting job and locks it.
Begin(w, s, phase) ==
    /\ exec[w].phase = "idle"
    /\ job[s] = "wait"
    /\ job' = [job EXCEPT ![s] = "active"]
    /\ lock' = [lock EXCEPT ![s] = w]
    /\ exec' = [exec EXCEPT ![w] = [stage |-> s, attempt |-> made[s],
                                    phase |-> phase, killed |-> FALSE]]
    /\ UNCHANGED <<submit, row, made, stalls, recon>>

\* processJob records the stage's start and spawns its child.
Take(w, s) ==
    /\ Begin(w, s, "child")
    /\ spawned' = [spawned EXCEPT ![s] = @ + 1]
    /\ UNCHANGED incidents

\* recordStart throws: the attempt fails, and nothing is spawned.
TakeThrows(w, s) ==
    /\ Begin(w, s, "nack")
    /\ Incident
    /\ UNCHANGED spawned

\* A mutant: the timer is armed for first attempts only.
TimeoutOfFirstAttempt(w) ==
    /\ exec[w].phase = "child" /\ ~exec[w].killed /\ exec[w].attempt = 0
    /\ exec' = [exec EXCEPT ![w].killed = TRUE]
    /\ UNCHANGED <<submit, row, queue, spawned, recon, incidents>>

\* timeoutMs passes: SIGTERM, which sets child.killed.  The timer that should
\* follow with SIGKILL tests the same flag and never does.
Timeout(w) ==
    /\ exec[w].phase = "child" /\ ~exec[w].killed
    /\ exec' = [exec EXCEPT ![w].killed = TRUE]
    /\ UNCHANGED <<submit, row, queue, spawned, recon, incidents>>

ChildExits(w) ==
    /\ exec[w].phase = "child"
    /\ \E result \in {"succeeded", "failed"} :
          exec' = [exec EXCEPT ![w].phase = result]
    /\ UNCHANGED <<submit, row, queue, spawned, recon, incidents>>

\* A mutant: one attempt too many.
LastAttemptOffByOne(w) == exec[w].attempt >= Attempts

\* The attempt the processor counts as the last.
LastAttempt(w) == exec[w].attempt + 1 >= Attempts

\* A mutant: isRoot is not looked at.
CloseRowOfAny(w) ==
    /\ \/ /\ exec[w].phase = "succeeded"
          /\ row' = "success"
          /\ exec' = [exec EXCEPT ![w].phase = "ack"]
       \/ /\ exec[w].phase = "failed"
          /\ row' = IF LastAttempt(w) THEN "failed" ELSE row
          /\ exec' = [exec EXCEPT ![w].phase = "nack"]
    /\ UNCHANGED <<submit, queue, spawned, recon, incidents>>

\* recordEnd of the stage and, where this processor is the one to do it, of the
\* parent; then the processor returns or throws.
CloseRow(w) ==
    /\ \/ /\ exec[w].phase = "succeeded"
          /\ row' = IF exec[w].stage = Root THEN "success" ELSE row
          /\ exec' = [exec EXCEPT ![w].phase = "ack"]
       \/ /\ exec[w].phase = "failed"
          /\ row' = IF LastAttempt(w) THEN "failed" ELSE row
          /\ exec' = [exec EXCEPT ![w].phase = "nack"]
    /\ UNCHANGED <<submit, queue, spawned, recon, incidents>>

\* A recordEnd throws: for BullMQ the job failed, whatever the child did.
CloseRowThrows(w) ==
    /\ exec[w].phase \in {"succeeded", "failed"}
    /\ Incident
    /\ exec' = [exec EXCEPT ![w].phase = "nack"]
    /\ UNCHANGED <<submit, row, queue, spawned, recon>>

Done == {"completed", "trimmed"}

\* A child has gone to its final state j[c]; its parent runs when all have completed.
Released(j, c) ==
    LET p == ParentOf[c] IN
    IF p # NoStage /\ j[p] = "waiting-children" /\ \A d \in Children(p) : j[d] \in Done
    THEN [j EXCEPT ![p] = "wait"]
    ELSE j

\* The processor returned.  Without the lock BullMQ refuses the result.
Ack(w) ==
    /\ exec[w].phase = "ack"
    /\ LET s == exec[w].stage IN
       IF lock[s] = w
       THEN /\ job' = Released([job EXCEPT ![s] = "completed"], s)
            /\ lock' = [lock EXCEPT ![s] = NoWorker]
            /\ made' = [made EXCEPT ![s] = @ + 1]
       ELSE UNCHANGED <<job, lock, made>>
    /\ exec' = [exec EXCEPT ![w] = Idle]
    /\ UNCHANGED <<submit, row, stalls, spawned, recon, incidents>>

\* The processor threw: a retry after the backoff, or the end of the job, which
\* keeps its parent waiting for good (removeOnFail: false).
Nack(w) ==
    /\ exec[w].phase = "nack"
    /\ LET s == exec[w].stage IN
       IF lock[s] = w
       THEN /\ job' = [job EXCEPT ![s] = IF LastAttempt(w) THEN "failed" ELSE "delayed"]
            /\ lock' = [lock EXCEPT ![s] = NoWorker]
            /\ made' = [made EXCEPT ![s] = @ + 1]
       ELSE UNCHANGED <<job, lock, made>>
    /\ exec' = [exec EXCEPT ![w] = Idle]
    /\ UNCHANGED <<submit, row, stalls, spawned, recon, incidents>>

-----------------------------------------------------------------------------
(* What BullMQ and the machine do *)

\* The backoff of a retry passes.
Promote(s) ==
    /\ job[s] = "delayed"
    /\ job' = [job EXCEPT ![s] = "wait"]
    /\ UNCHANGED <<submit, row, made, stalls, lock, exec, spawned, recon, incidents>>

\* The worker dies; nobody renews its lock.
WorkerCrash(w) ==
    /\ exec[w].phase # "idle"
    /\ Incident
    /\ LET s == exec[w].stage IN
       lock' = IF lock[s] = w THEN [lock EXCEPT ![s] = NoWorker] ELSE lock
    /\ exec' = [exec EXCEPT ![w] = Idle]
    /\ UNCHANGED <<submit, row, job, made, stalls, spawned, recon>>

\* The machine sleeps for longer than the lock lives; the processor wakes up later
\* and goes on.
LockExpires(w) ==
    /\ exec[w].phase # "idle"
    /\ lock[exec[w].stage] = w
    /\ Incident
    /\ lock' = [lock EXCEPT ![exec[w].stage] = NoWorker]
    /\ UNCHANGED <<submit, row, job, made, stalls, exec, spawned, recon>>

\* The stalled-checker finds an active job that nobody locks.
Stall(s) ==
    /\ job[s] = "active" /\ lock[s] = NoWorker
    /\ IF stalls[s] < MaxStalls
       THEN /\ job' = [job EXCEPT ![s] = "wait"]
            /\ stalls' = [stalls EXCEPT ![s] = @ + 1]
       ELSE job' = [job EXCEPT ![s] = "failed"] /\ UNCHANGED stalls
    /\ UNCHANGED <<submit, row, made, lock, exec, spawned, recon, incidents>>

\* A mutant, the removeOnFail: { count } that submit.ts tells of: removing a failed
\* job releases its parent.
TrimFinished(s) ==
    /\ job[s] \in {"completed", "failed"}
    /\ job' = Released([job EXCEPT ![s] = "trimmed"], s)
    /\ UNCHANGED <<submit, row, made, stalls, lock, exec, spawned, recon, incidents>>

\* removeOnComplete: the completed jobs of later flows push this one out.
TrimCompleted(s) ==
    /\ job[s] = "completed"
    /\ job' = [job EXCEPT ![s] = "trimmed"]
    /\ UNCHANGED <<submit, row, made, stalls, lock, exec, spawned, recon, incidents>>

-----------------------------------------------------------------------------
(* bin/reconcile.ts --apply *)

\* snapshotQueue reads the states one after the other, in this order.
Snapshot == <<"active", "wait", "delayed", "waiting-children", "failed", "completed">>

ReadState ==
    /\ recon.step < 6
    /\ LET state == Snapshot[recon.step + 1]
           found == \E s \in Stages : job[s] = state
           ofRoot == state = "completed" /\ job[Root] = "completed"
       IN recon' = [step |-> recon.step + 1,
                    seen |-> recon.seen \cup (IF found THEN {state} ELSE {})
                                        \cup (IF ofRoot THEN {"root"} ELSE {})]
    /\ UNCHANGED <<submit, row, queue, exec, spawned, incidents>>

\* openParents, after the snapshot.
ReadOpenParents ==
    /\ recon.step = 6
    /\ recon' = IF row = "running" THEN [recon EXCEPT !.step = 7]
                ELSE [step |-> 0, seen |-> {}]
    /\ UNCHANGED <<submit, row, queue, exec, spawned, incidents>>

\* A mutant: parked stages count as able to run.
AssessParkedAsRunnable(seen) ==
    IF seen \cap {"active", "wait", "delayed", "waiting-children"} # {} THEN "in_progress"
    ELSE IF "root" \in seen THEN "terminal_success"
    ELSE IF seen = {} THEN "terminal_removed"
    ELSE "unknown"

\* assessFlow, under the daily policy.
Assessment(seen) ==
    IF seen \cap {"active", "wait", "delayed"} # {} THEN "in_progress"
    ELSE IF "root" \in seen THEN "terminal_success"
    ELSE IF "waiting-children" \in seen THEN "terminal_failed"
    ELSE IF seen = {} THEN "terminal_removed"
    ELSE "unknown"

\* applyTransitions: a compare-and-set on status = 'running'.
ApplyTransition ==
    /\ recon.step = 7
    /\ row' = IF row # "running" THEN row
              ELSE CASE Assessment(recon.seen) = "terminal_success" -> "success"
                     [] Assessment(recon.seen)
                           \in {"terminal_failed", "terminal_removed"} -> "failed"
                     [] OTHER -> row
    /\ recon' = [step |-> 0, seen |-> {}]
    /\ UNCHANGED <<submit, queue, exec, spawned, incidents>>

-----------------------------------------------------------------------------

Processor(w) == CloseRow(w) \/ Ack(w) \/ Nack(w)

Reconcile == ReadState \/ ReadOpenParents \/ ApplyTransition

Next ==
    \/ RecordStart \/ AddFlow \/ AddFails \/ CloseFailed \/ SubmitterDies
    \/ \E w \in Workers :
          \/ \E s \in Stages : Take(w, s) \/ TakeThrows(w, s)
          \/ Timeout(w) \/ ChildExits(w) \/ Processor(w)
          \/ CloseRowThrows(w) \/ WorkerCrash(w) \/ LockExpires(w)
    \/ \E s \in Stages : Promote(s) \/ Stall(s) \/ TrimCompleted(s)
    \/ Reconcile

Spec == Init /\ [][Next]_vars

\* Workers, timers and the stalled-checker go on, and a person keeps running the
\* reconciler.  A child ends by itself when it likes; on SIGTERM it must end only if
\* it is Obedient.
FairSpec ==
    /\ Spec
    /\ WF_vars(AddFlow \/ CloseFailed)
    /\ WF_vars(Reconcile)
    /\ \A w \in Workers :
          /\ WF_vars(\E s \in Stages : Take(w, s))
          /\ WF_vars(Timeout(w))
          /\ WF_vars(Obedient /\ exec[w].killed /\ ChildExits(w))
          /\ WF_vars(Processor(w))
    /\ \A s \in Stages : WF_vars(Promote(s) \/ Stall(s))

-----------------------------------------------------------------------------
(* Properties *)

JobStates == {"absent", "wait", "active", "delayed", "waiting-children",
              "completed", "failed", "trimmed"}
Phases == {"idle", "child", "succeeded", "failed", "ack", "nack"}

\* Every variable has the type its comment gives it.
TypeOK ==
    /\ submit \in {"start", "recorded", "failing", "done"}
    /\ row \in {"absent", "running", "success", "failed"}
    /\ job \in [Stages -> JobStates]
    /\ made \in [Stages -> 0..Attempts]
    /\ stalls \in [Stages -> 0..MaxStalls]
    /\ lock \in [Stages -> Workers \cup {NoWorker}]
    /\ exec \in [Workers -> [stage : Stages \cup {NoStage}, attempt : 0..Attempts,
                             phase : Phases, killed : BOOLEAN]]
    /\ spawned \in [Stages -> Nat]
    /\ recon \in [step : 0..7, seen : SUBSET (JobStates \cup {"root"})]
    /\ incidents \in 0..MaxIncidents

\* The holder of a lock runs the locked job, for the attempt the queue counts.
LockInv ==
    /\ \A w \in Workers : exec[w].phase = "idle" <=> exec[w].stage = NoStage
    /\ \A s \in Stages :
          lock[s] # NoWorker =>
              /\ job[s] = "active"
              /\ exec[lock[s]].stage = s
              /\ exec[lock[s]].attempt = made[s]

\* The flow is in the queue as a whole; a stage past waiting-children has all its
\* children done, and one that waits has a child that is not.
TreeInv ==
    /\ \A s, t \in Stages : job[s] = "absent" => job[t] = "absent"
    /\ submit \in {"start", "recorded"} => \A s \in Stages : job[s] = "absent"
    /\ \A s \in Stages :
          /\ job[s] \notin {"absent", "waiting-children"} =>
                 \A c \in Children(s) : job[c] \in Done
          /\ job[s] = "waiting-children" =>
                 \E c \in Children(s) : job[c] \notin Done

\* A processor, even one that lost its lock, runs a stage whose children are done;
\* a reconciler that has seen the root completed is right about it.
WorkInv ==
    /\ \A w \in Workers :
          exec[w].stage # NoStage =>
              \A c \in Children(exec[w].stage) : job[c] \in Done
    /\ "root" \in recon.seen => job[Root] \in Done
    /\ row = "success" => \A c \in Children(Root) : job[c] \in Done

\* Every child spawned is accounted for by an attempt made, a stall, or the attempt
\* that is running.
SpendInv ==
    \A s \in Stages :
        /\ job[s] \in {"wait", "active", "delayed"} => made[s] < Attempts
        /\ job[s] \in {"absent", "waiting-children", "wait", "delayed", "completed",
                       "trimmed"} => spawned[s] <= made[s] + stalls[s]
        /\ job[s] = "active" => spawned[s] <= made[s] + stalls[s] + 1
        /\ job[s] = "failed" => spawned[s] <= Attempts + MaxStalls
        /\ job[s] \in {"absent", "waiting-children"} => made[s] = 0

\* The inductive invariant.
IInv == TypeOK /\ LockInv /\ TreeInv /\ WorkInv /\ SpendInv

\* A run is recorded as a success only when every stage below the root is done,
\* whichever of the processor and the reconciler recorded it.
SuccessMeansWorkDone ==
    row = "success" => \A s \in Stages \ {Root} : job[s] \in Done

\* No history of failures, crashes, suspensions and redeliveries spawns a stage (each
\* time an LLM bill) more often than its attempts and BullMQ's stalls allow.
SpendIsBounded == \A s \in Stages : spawned[s] <= Attempts + MaxStalls

Runnable == \E s \in Stages : job[s] \in {"wait", "active", "delayed"}

\* The phase DailyScheduler and retirement tell apart.
Phase ==
    IF job[Root] = "absent" THEN "none"
    ELSE IF Runnable THEN "live"
    ELSE IF job[Root] \in Done THEN "completed"
    ELSE "parked"

Run == INSTANCE ScheduledRun WITH status <- row, phase <- Phase

\* A flow that has stopped never runs again: nothing in the queue's own life
\* resurrects a parked flow, and its row is there before it is.
ImplementsScheduledRun == Run!Spec

\* A live flow stops, if children exit when they are told to.
FlowStops == Phase = "live" ~> Phase # "live"

\* The reconciler's invariant for the shapes assessFlow recognises: a run whose flow
\* is parked behind a failed stage, or was never added, stops saying "running".
PinnedRunIsClosed ==
    /\ row = "running" /\ Phase = "parked" /\ job[Root] = "waiting-children"
       ~> row # "running"
    /\ row = "running" /\ Phase = "none" /\ submit = "done" ~> row # "running"

-----------------------------------------------------------------------------
(* What the code's comments say, and the code does not do *)

\* reconcile.ts: "A wrong `failed` on a live run is worse than a late one on a dead
\* run": the reconciler never fails the row of a flow that can run.
LiveRunIsNotFailed ==
    [][recon.step = 7 /\ recon'.step = 0 /\ row = "running" /\ row' = "failed"
       => ~Runnable]_vars

\* types.ts: timeoutMs is a "hard wall-clock limit for the spawn".
SpawnIsLimited ==
    \A w \in Workers : exec[w].phase = "child" ~> exec[w].phase # "child"

=============================================================================
