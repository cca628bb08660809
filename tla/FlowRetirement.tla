--------------------------- MODULE FlowRetirement ---------------------------
(***************************************************************************)
(* Retiring the flow of a failed daily run: bin/retire-failed-flow.ts,     *)
(* flow-retirement.ts and flow-cleanup.ts of packages/queue.  An operator  *)
(* inspects the flow and gets a token of what was measured; the apply      *)
(* measures again, publishes its intent, measures a third time, removes    *)
(* the jobs parents first, supersedes the row, and publishes the outcome.  *)
(*                                                                         *)
(* The flow is one that submit.ts builds (SubmitDag), with its other       *)
(* actors about it: workers that come and go, jobs that are retried or     *)
(* stall, completed jobs that are trimmed, a reconciler that may be wrong. *)
(* wait, delayed and prioritized are one state.  A token is the census it  *)
(* is computed over: the plan and the failed set are functions of it, and  *)
(* the row is in it as failed and not superseded, or there is no token.    *)
(***************************************************************************)
EXTENDS SubmitDag, Sequences

VARIABLES
    row,      \* status of the scheduled run
    parent,   \* the flow's tree: for each job the one that waits for it
    job,      \* state of each stage's job
    earlier,  \* the completed jobs that a job, when it completed, came after
    worker,   \* is a worker attached to the queue?
    pc,       \* where the operator's tool is
    step,     \* how many states the present census has read
    census,   \* what it has found: <<job, state>>
    token,    \* the census the operator has confirmed
    plan,     \* jobs the tool has still to remove
    intent,   \* has this attempt published its intent?
    began,    \* has this attempt removed a job?
    outcome   \* what this attempt is to report

flow == <<row, parent, job, earlier, worker>>
measuring == <<step, census>>
report == <<intent, began, outcome>>
tool == <<pc, measuring, token, plan, report>>
vars == <<flow, tool>>

\* The order in which collectFlowJobs asks for the states.
ReadOrder == <<"active", "wait", "waiting-children", "failed", "completed">>
Runnable == {"active", "wait"}
TerminalOrParked == {"failed", "completed", "waiting-children"}
JobStates == Runnable \cup TerminalOrParked
\* Nothing is in the queue for the stage: never, or no more.
Absent == {"none", "gone"}
Nothing == {}

Measuring == {"inspect", "measure", "fresh", "remaining"}
Steps == Measuring \cup {"idle", "intent", "recheck", "remove", "supersede", "outcome"}

Jobs == DOMAIN parent
Children(s) == {c \in Jobs : parent[c] = s}
Pending(s, j) == {c \in Children(s) : j[c] \notin {"completed", "gone"}}

Init ==
    /\ row = "absent" /\ parent = <<>>
    /\ job = [s \in Stages |-> "none"] /\ earlier = [s \in Stages |-> {}]
    /\ worker \in BOOLEAN
    /\ pc = "idle" /\ step = 0 /\ census = {} /\ token = Nothing
    /\ plan = {}
    /\ intent = FALSE /\ began = FALSE /\ outcome = "unknown"

-----------------------------------------------------------------------------
\* The flow's own life.

\* submitDailyPipeline: the row, then the flow; a graph that no tree can express
\* fails the row, without a job.
Submit ==
    /\ row = "absent"
    /\ \E deps \in Graphs, skipped \in SUBSET Stages \ {Stages} :
        LET graph == Resolved(deps, skipped)
        IN  IF BuildsTree(graph)
            THEN /\ row' = "running"
                 /\ parent' = Tree(graph)
                 /\ job' = [s \in Stages |->
                       IF s \notin DOMAIN parent' THEN "none"
                       ELSE IF \E c \in DOMAIN parent' : parent'[c] = s
                       THEN "waiting-children" ELSE "wait"]
            ELSE row' = "failed" /\ UNCHANGED <<parent, job>>
    /\ UNCHANGED <<earlier, worker, tool>>

Attach == worker' = TRUE /\ UNCHANGED <<row, parent, job, earlier, tool>>

\* Stopped or killed: what it was running stays active.
Detach == worker' = FALSE /\ UNCHANGED <<row, parent, job, earlier, tool>>

Take(s) ==
    /\ worker /\ job[s] = "wait"
    /\ job' = [job EXCEPT ![s] = "active"]
    /\ UNCHANGED <<row, parent, earlier, worker, tool>>

\* A job that needs s is released if s was the last it waited for.
Releasing(s, j) ==
    IF /\ s \in Jobs /\ parent[s] \in Jobs
       /\ j[parent[s]] = "waiting-children" /\ Pending(parent[s], j) = {}
    THEN [j EXCEPT ![parent[s]] = "wait"]
    ELSE j

\* processJob closes the row with the root, whatever the row says.
Complete(s) ==
    /\ worker /\ job[s] = "active"
    /\ job' = Releasing(s, [job EXCEPT ![s] = "completed"])
    /\ earlier' = [earlier EXCEPT ![s] = {t \in Jobs : job[t] = "completed"}]
    /\ row' = IF parent[s] = NoStage THEN "success" ELSE row
    /\ UNCHANGED <<parent, worker, tool>>

\* A job out of attempts closes the row.  One whose write of the row fails, or
\* that the stalled-check fails, which no processor hears of, leaves it as it is.
Fail(s) ==
    /\ worker /\ job[s] = "active"
    /\ job' = [job EXCEPT ![s] = "failed"]
    /\ row' \in {"failed", row}
    /\ UNCHANGED <<parent, earlier, worker, tool>>

\* A retry, or a stalled job put back.
Again(s) ==
    /\ worker /\ job[s] = "active"
    /\ job' = [job EXCEPT ![s] = "wait"]
    /\ UNCHANGED <<row, parent, earlier, worker, tool>>

\* removeOnComplete keeps the last jobs to complete, and removes the oldest.
Trim ==
    /\ worker
    /\ \E s \in Jobs :
        /\ job[s] = "completed" /\ \A t \in earlier[s] : job[t] # "completed"
        /\ job' = [job EXCEPT ![s] = "gone"]
    /\ UNCHANGED <<row, parent, earlier, worker, tool>>

\* The reconciler, which can be wrong about a live flow (reconcile.ts:105).
Reconcile ==
    /\ row = "running"
    /\ row' = "failed"
    /\ UNCHANGED <<parent, job, earlier, worker, tool>>

Flow ==
    \/ Submit \/ Attach \/ Detach \/ Trim \/ Reconcile
    \/ \E s \in Jobs : Take(s) \/ Complete(s) \/ Fail(s) \/ Again(s)

-----------------------------------------------------------------------------
\* The operator's tool.

\* --inspect, or --apply with a token.  A row that is not failed is refused at
\* once, as it would be after the census.
Begin ==
    /\ pc = "idle" /\ row = "failed"
    /\ pc' = "inspect" \/ (pc' = "measure" /\ token # Nothing)
    /\ step' = 0 /\ census' = {}
    /\ intent' = FALSE /\ began' = FALSE /\ outcome' = "unknown"
    /\ plan' = {}
    /\ UNCHANGED <<flow, token>>

\* collectFlowJobs: one state after the other.
Read ==
    /\ pc \in Measuring /\ step < Len(ReadOrder)
    /\ step' = step + 1
    /\ census' = census \cup {<<s, ReadOrder[step']>> : s \in {t \in Jobs : job[t] = ReadOrder[step']}}
    /\ UNCHANGED <<flow, pc, token, plan, report>>

Seen(c) == {x[1] : x \in c}

\* A mutant: a job is reviewable only with all its children.
ReviewableWithChildren(c) ==
    /\ \A x, y \in c : x[1] = y[1] => x = y
    /\ Cardinality({s \in Seen(c) : parent[s] = NoStage}) = 1
    /\ \A s \in Seen(c) : Children(s) \subseteq Seen(c)
\* A mutant: the jobs that were found need not hang together.
ReviewableInPieces(c) == \A x, y \in c : x[1] = y[1] => x = y
\* planFlowRemoval: every job once, one root, and no job without its parent.  What
\* is left of a tree is then connected.
Reviewable(c) ==
    /\ \A x, y \in c : x[1] = y[1] => x = y
    /\ Cardinality({s \in Seen(c) : parent[s] = NoStage}) = 1
    /\ \A s \in Seen(c) : parent[s] \in Seen(c) \cup {NoStage}

\* assertRetirable, of a census and the row and workers of the moment.
Retirable(c) ==
    /\ ~worker /\ row = "failed"
    /\ c # {}
    /\ \A x \in c : x[2] \in TerminalOrParked
    /\ Reviewable(c)

Measured(p) == pc = p /\ step = Len(ReadOrder)

Inspect ==
    /\ Measured("inspect")
    /\ pc' = "idle"
    /\ token' = IF Retirable(census) THEN census ELSE token
    /\ UNCHANGED <<flow, measuring, plan, report>>

Authorize ==
    /\ Measured("measure")
    /\ pc' = IF Retirable(census) /\ census = token THEN "intent" ELSE "idle"
    /\ UNCHANGED <<flow, measuring, token, plan, report>>

PublishIntent ==
    /\ pc = "intent"
    /\ \/ pc' = "fresh" /\ intent' = TRUE
       \/ pc' = "idle" /\ UNCHANGED intent
    /\ step' = 0 /\ census' = {}
    /\ UNCHANGED <<flow, token, plan, began, outcome>>

\* The census that was checked is the census that is removed.
Recheck ==
    /\ Measured("fresh")
    /\ IF Retirable(census) /\ census = token
       THEN pc' = "recheck" /\ plan' = Seen(census) /\ UNCHANGED outcome
       ELSE pc' = "outcome" /\ outcome' = "refused" /\ UNCHANGED plan
    /\ UNCHANGED <<flow, measuring, token, intent, began>>

RecheckWorkers ==
    /\ pc = "recheck"
    /\ IF worker
       THEN pc' = "outcome" /\ outcome' = "refused"
       ELSE pc' = "remove" /\ UNCHANGED outcome
    /\ UNCHANGED <<flow, measuring, token, plan, intent, began>>

\* A mutant: the leaves go first.
LeavesFirst(p) == {s \in p : Children(s) \cap p = {}}
\* The removal order: a parent before its own children.
ParentsFirst(p) == {s \in p : parent[s] \notin p}

\* job.remove() takes the job and all that it waits for, in one script, and then
\* releases its parent if it was the last to be waited for.  It refuses if any of
\* them is locked, as a job is that an attached worker runs.
Locked(S) == worker /\ \E s \in S : job[s] = "active"

Remove ==
    /\ pc = "remove" /\ plan # {}
    /\ \E s \in ParentsFirst(plan) :
        LET taken == {t \in Subtree(parent, s) : job[t] # "gone"}
        IN  /\ job[s] \in Absent \/ ~Locked(taken)
            /\ plan' = plan \ {s}
            /\ IF job[s] \in Absent
               THEN UNCHANGED <<job, began>>
               ELSE /\ job' = Releasing(s, [t \in Stages |->
                                  IF t \in taken THEN "gone" ELSE job[t]])
                    /\ began' = TRUE
    /\ UNCHANGED <<row, parent, earlier, worker, pc, measuring, token, intent, outcome>>

Collect ==
    /\ pc = "remove" /\ plan = {}
    /\ pc' = "remaining" /\ step' = 0 /\ census' = {}
    /\ UNCHANGED <<flow, token, plan, report>>

VerifyRemoval ==
    /\ Measured("remaining")
    /\ IF census = {}
       THEN pc' = "supersede" /\ UNCHANGED outcome
       ELSE pc' = "outcome" /\ outcome' = "partial"
    /\ UNCHANGED <<flow, measuring, token, plan, intent, began>>

\* One conditional update, and its verification.
Supersede ==
    /\ pc = "supersede"
    /\ pc' = "outcome"
    /\ IF row = "failed"
       THEN row' = "superseded" /\ outcome' = "complete"
       ELSE UNCHANGED row /\ outcome' = "partial"
    /\ UNCHANGED <<parent, job, earlier, worker, measuring, token, plan, intent, began>>

\* A mutant: whatever is thrown is recorded as a refusal.
ThrowIsRefusal ==
    /\ pc \in {"fresh", "recheck", "remove", "remaining", "supersede"}
    /\ pc' = "outcome" /\ outcome' = "refused"
    /\ UNCHANGED <<flow, measuring, token, plan, intent, began>>
\* Anything that is thrown between the intent and the outcome but a refusal.
Throw ==
    /\ pc \in {"fresh", "recheck", "remove", "remaining", "supersede"}
    /\ pc' = "outcome" /\ outcome' = "unknown"
    /\ UNCHANGED <<flow, measuring, token, plan, intent, began>>

\* Published or not, the attempt is over; so it is when the tool is killed.
End ==
    /\ pc # "idle"
    /\ pc' = "idle"
    /\ UNCHANGED <<flow, measuring, token, plan, report>>

Tool ==
    \/ Begin \/ Read \/ Inspect \/ Authorize \/ PublishIntent \/ Recheck
    \/ RecheckWorkers \/ Remove \/ Collect \/ VerifyRemoval \/ Supersede \/ Throw
    \/ End

Next == Flow \/ Tool

Spec == Init /\ [][Next]_vars

-----------------------------------------------------------------------------
\* Properties.

Present(s) == job[s] \notin Absent

\* A superseded date, which may be run again, has no job left that could run for it
\* (flow-cleanup.ts:6-9).
SupersededMeansGone ==
    row = "superseded" => \A s \in Stages : ~Present(s)

\* Removing a job makes no other executable (flow-cleanup.ts:6-9).
RemovalReleasesNobody ==
    [][ pc = "remove" /\ plan' # plan
          => \A s \in Stages : job'[s] \in Runnable => job[s] \in Runnable ]_vars

\* Whatever has been trimmed of a flow, what there is of it at any moment can be
\* reviewed: it is never refused for its shape.
Census == {x \in Jobs \X JobStates : job[x[1]] = x[2]}
TrimmedFlowIsReviewable == Census # {} => Reviewable(Census)

\* The two bundles are true of the attempt: nothing is removed before the intent is
\* published, nothing has been if the outcome is a refusal, and a complete outcome
\* means the row is superseded (retire-failed-flow.ts:19-25, :375-378).
EvidenceIsTrue ==
    /\ began => intent
    /\ outcome = "refused" => ~began
    /\ outcome = "complete" => row = "superseded"

\* submit.ts:83-92: skipping and the making of a tree lose no ordering, in the flow
\* that is in the queue, whatever it was built from.
EveryDependencyIsAwaited ==
    Jobs # {} =>
        /\ \E x \in Submissions : x[1] = parent
        /\ \A x \in Submissions : x[1] = parent => Awaits(parent, x[2], x[3])

\* submit.ts:144: whatever it was built from, only cycles, and what none but they wait
\* for, are left out of the flow in the queue without an error.
OnlyCyclesAreDropped ==
    Jobs # {} =>
        \A x \in Submissions : x[1] = parent => LeavesOutCycles(parent, Resolved(x[2], x[3]))

\* flow-cleanup.ts:187-188: a retry after a partial removal must be able to finish,
\* an absent job is the desired state.
Refused == pc \in {"inspect", "measure"} /\ step = Len(ReadOrder) /\ pc' = "idle"
Stranded == row = "failed" /\ Jobs # {} /\ \A s \in Jobs : ~Present(s)
RetryCanFinish == [][Refused => ~Stranded]_vars

-----------------------------------------------------------------------------
\* The inductive invariant.

TypeOK ==
    /\ row \in {"absent", "running", "success", "failed", "superseded"}
    /\ Jobs \subseteq Stages
    /\ \A s \in Jobs : parent[s] \in Jobs \cup {NoStage}
    /\ job \in [Stages -> JobStates \cup Absent]
    /\ \A s \in Stages : job[s] = "none" <=> s \notin Jobs
    /\ earlier \in [Stages -> SUBSET Stages]
    /\ worker \in BOOLEAN
    /\ pc \in Steps /\ step \in 0..Len(ReadOrder)
    /\ census \in SUBSET (Jobs \X JobStates)
    /\ token \in SUBSET (Jobs \X JobStates)
    /\ plan \in SUBSET Jobs
    /\ intent \in BOOLEAN /\ began \in BOOLEAN
    /\ outcome \in {"unknown", "refused", "partial", "complete"}

IsRoot(s) == s \in Jobs /\ parent[s] = NoStage
AllGone == \A s \in Stages : ~Present(s)

\* The jobs hang together: whatever is passed down from the root reaches all.
TreeInv ==
    /\ row = "absent" => Jobs = {}
    /\ Jobs # {} => \E r \in Jobs : IsRoot(r)
    /\ \A r, q \in Jobs : IsRoot(r) /\ IsRoot(q) => r = q
    /\ \A r \in Jobs, T \in SUBSET Stages :
          IsRoot(r) /\ r \in T /\ (\A p \in T \cap Jobs : Children(p) \subseteq T)
              => Jobs \subseteq T

\* A job runs after the jobs it waits for, and is trimmed after them.
OrderInv ==
    \A s \in Jobs : \A c \in Children(s) :
        /\ job[s] # "waiting-children" => job[c] \in {"completed", "gone"}
        /\ job[s] = "completed" => job[c] = "gone" \/ c \in earlier[s]
        /\ job[s] = "gone" => job[c] = "gone"

\* The root ends the run, if it is not removed.
RootInv ==
    /\ \A r \in Jobs :
          IsRoot(r) /\ job[r] \in {"completed", "gone"} => row = "success" \/ AllGone
    /\ row = "superseded" => AllGone

\* What is to be removed includes the root, and goes from the root downwards.
PlanInv ==
    /\ pc \in {"recheck", "remove"} =>
          \E r \in Jobs : IsRoot(r) /\ (r \in plan \/ job[r] = "gone")
    /\ pc \in {"remaining", "supersede"} => \E r \in Jobs : IsRoot(r) /\ job[r] = "gone"
    /\ pc \in {"recheck", "remove"} =>
          \A s \in plan : parent[s] \in plan \cup {NoStage} \/ job[parent[s]] = "gone"

EvidenceInv ==
    /\ pc \in {"fresh", "recheck", "remove", "remaining", "supersede"} =>
          intent /\ outcome = "unknown"
    /\ pc \in {"inspect", "measure", "intent", "fresh", "recheck"} =>
          ~began /\ outcome = "unknown"
    /\ EvidenceIsTrue

IInv == TypeOK /\ TreeInv /\ OrderInv /\ RootInv /\ PlanInv /\ EvidenceInv

-----------------------------------------------------------------------------
\* The abstract run.

\* The phase DailyScheduler tells apart.  What has been trimmed of a flow that succeeded
\* was completed; the root of any other is the last to go, by removal.
Phase ==
    IF Jobs = {} THEN "none"
    ELSE IF AllGone /\ row # "success" THEN "removed"
    ELSE IF \E s \in Jobs : job[s] \in Runnable THEN "live"
    ELSE IF \E r \in Jobs : IsRoot(r) /\ job[r] \in {"completed", "gone"}
         THEN "completed"
    ELSE "parked"

Run == INSTANCE ScheduledRun WITH status <- row, phase <- Phase

\* Whatever tree was submitted, the flow lives one life: it is removed whole, from a
\* failed run only, and neither the trimming of jobs nor the removal lets a flow that
\* has stopped run again (flow-cleanup.ts:6-9).
ImplementsScheduledRun == Run!Spec

=============================================================================
