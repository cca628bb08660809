# A specification of the daily pipeline's orchestration and of the database copy

Formal models (TLA+), model-checking configurations (TLC) and proofs (TLAPS) for
two parts of this repository.  One decides *whether, when and how often* the daily
pipeline runs: `scripts/daily-scheduler.sh`, `scripts/heartbeat.sh`,
`packages/pipeline-runs` and `packages/queue`.  The other moves the production
database once and must never be wrong about where it is: the copy lifecycle of
`packages/db/src/pg-copy` and `packages/queue/bin/pg-copy-ops.ts`.  The applications
under `apps/` are what the pipeline runs; here they are child processes that exit
with 0 or do not.

Everything is checked from this directory: `tlc -config X.cfg M` for a run,
`tlapm M_proofs.tla` for the proofs.  `PROJECT.json` lists runs, the source lines
of every definition, the hazards and the findings.

## 1. Inventory

| part | source | state it keeps | operations |
|---|---|---|---|
| scheduler lock | `scripts/daily-scheduler.sh:193-444` | `$LOCK`, `$LOCK/owner`, `$LOCK.recovery`, mtime | acquire, sign, recover a dead owner's lock, release |
| daily scheduler | `scripts/daily-scheduler.sh`, `daily-queue.sh`, `queue/bin/run-daily.ts` | its approved date | verdict, lock, recheck, preflight, submit |
| run store | `packages/pipeline-runs` | table `pipeline_runs` (SQLite), its partial unique index | `recordStart`, `recordEnd`, `assessDailyRun`, supersede |
| submission | `packages/queue/src/submit.ts` | parent row, BullMQ flow | build the tree, write the row, add the flow, close the row if that fails |
| worker | `queue/src/processor.ts`, `queue.ts`, `bin/worker.ts` | a job, its lock, a child process | take, spawn, time out, record, return or throw |
| reconciler | `queue/src/reconcile.ts`, `bin/reconcile.ts` | a snapshot | read queue, read rows, assess, compare-and-set |
| retirement | `queue/src/flow-cleanup.ts`, `flow-retirement.ts`, `bin/retire-failed-flow.ts` | a token, a plan, an intent and an outcome on disk | inspect, apply: measure three times, remove job by job, supersede |
| heartbeat | `scripts/heartbeat.sh` | heartbeat file, `$lock`, `$lock/owner`, `$lock.recovery` | append and trim under a lock, reclaim a dead writer's lock |
| watchdog | `scripts/pipeline-watchdog.sh`, `pipeline-runs/src/heartbeat.ts` | a stamp of the last alert | read verdict and heartbeat, alert |
| structured lane | `structured-scheduling.ts`, `bin/structured-worker.ts` | a second queue | one-job flows |
| publication, launchd tools | `atomic-publish.ts`, `credential-file.ts`, `launchd-*.ts` | files | publish, render, inspect |
| copy lifecycle | `db/src/pg-copy/lifecycle.ts`, `commit-disposition.ts`, `source-fence.ts`, `source-manifest.ts`, `stage2.ts`, `verify.ts`, `queue/bin/pg-copy-ops.ts` | a fence (locks of one backend's transaction), the target's transaction, evidence bundles | Stage 1, confirm, copy, commit, classify, verify, gate, release, hold |
| evidence publication | `db/src/pg-copy/evidence.ts`, `atomic-rename.ts`, `pg-copy-ops.ts:2125-2540` | directories at three names, a receipt, a latch | choose, clear, build, sync, rename, resolve, freeze, verify, accept |
| copy catalogues | the rest of `db/src/pg-copy`, `pg-copy-export-authority.ts` | none of a protocol | extract, compare |
| database access | `packages/db/src` | pools, claims, write intents | claim, migrate, query |
| ledger | `packages/investment-ledger` | JSON documents | append, reconcile, publish |
| applications | `apps/*` | their own | a stage each |

How they interact.  launchd starts the scheduler every 900 s.  A fire asks
`daily-run-status` (a read of `pipeline_runs`) whether today is eligible, takes
the lock, asks again about *the same date*, and runs `daily-queue.sh`, which runs
`run-daily.ts`, which calls `submitDailyPipeline`: one insert into
`pipeline_runs`, one `FlowProducer.add` into Redis.  Workers are processes of
their own, which BullMQ hands jobs to, leaves first; each stage is a spawned child.
The processor of the root closes the parent row as a success, the processor of an
exhausted stage closes it as failed, and the reconciler (a command line a person
runs) closes what nobody closed.  A failed run keeps its date until a person
retires it: the jobs are removed and the row superseded.  Nothing is shared but
the file system, the SQLite file and Redis; there is no transaction across any two
of them.  Scheduler and watchdog both append to the heartbeat, under a lock of its own.

The copy is one process with two PostgreSQL clusters and an operator at a
terminal.  A *supervisor* session holds the fence, a transaction with locks on all
reviewed tables; a *prover* session says from outside whether it is held.  Stage 1
fences the source and records its contents; Stage 2 copies them into an open
transaction of the target and commits; a verifier reads both sides again; a gate
authorizes the release on disk; one ROLLBACK releases, and a census proves it.
Everything that cannot be undone with proof ends in a *hold*, a menu of operations
that a person chooses from until a release is proved.  What a hold decides and what
came of it are two records, and the hold does not go on before each is *published*: built
in a temporary directory, synced, renamed to a name that must be free, verified.

What is hard here: fires overlap and are killed anywhere; the lock is recovered on
evidence read in several steps; midnight falls between the verdict and the submission;
submitters outlive the fire that started them or never had the lock; the reply
of `add` is lost; a worker sleeps through its lock's life and wakes up beside its
successor; a recorded result is not the acknowledged one; the reconciler reads the queue in
several reads and the rows afterwards; a retirement is killed between two removals;
two writers trim one file; a COMMIT or a ROLLBACK is not answered, a backend dies
between a proof and its use; a rename happens and is not reported, a failed attempt leaves
wreckage beside directories of others, the power goes before an fsync.  `PROJECT.json` "hazards" has each at its line.

## 2. Modules

| module | models | implements |
|---|---|---|
| `SubmitAuthority` | what a lock is for: one holder | |
| `SchedulerLock` | the lock as a file protocol, one action per system call | `SubmitAuthority` |
| `OncePerDay` | the contract of the scheduler: a date is open, claimed, launched, over | |
| `ScheduledRun` | one daily run as all of them know it: the status of its row, the phase of its flow | |
| `DailyScheduler` | fires, clock, run store, flows, retirement, people | `OncePerDay`; for each row `ScheduledRun`; of its lock, `SubmitAuthority` |
| `FlowQueue` | one flow: submission, workers, BullMQ, child processes, reconciler | `ScheduledRun` |
| `SubmitDag` | `resolveSkips` and `buildDAGTree`, on every graph, cyclic ones included | |
| `FlowRetirement` | a flow that `SubmitDag` builds, and its retirement | `ScheduledRun` |
| `HeartbeatLog` | an append-only log that is trimmed from the front | |
| `Heartbeat` | `heartbeat_record`, one action per system call | `HeartbeatLog` |
| `CopyContract` | what a copy promises: one answer, and what it means | |
| `CopyLifecycle` | one production apply, from the fence to the last answer | `CopyContract` |
| `Publication` | one record of a hold on its way to its final name | |
| `MC*` | constants for TLC | |
| `*_proofs` | the theorems | |

They compose through their abstract specifications.  `SchedulerLock` implements
`SubmitAuthority`, and what `DailyScheduler` does to its lock is a behaviour of the same
`SubmitAuthority` (`LockIsAuthority`).  `ScheduledRun` is what the queue, the retirement
and the scheduler agree on about one run.  `FlowQueue` works a flow off, `FlowRetirement`
removes one, `DailyScheduler` has a run for every row, and each of the three is shown to
do to a run only what `ScheduledRun` allows.  So the coarse `CloseRow`, `EndFlow`,
`RemoveFailedFlow` and `SupersedeRow` of `DailyScheduler` and the detailed steps of the
other two have one meaning: a row before a flow, one flow, no life after it has stopped,
removal of a failed run's flow only, supersession only after it.  What one model
leaves out is another's: `FlowQueue` has neither retirement nor supersession, so that its
row is never "superseded", and in `FlowRetirement` every processor holds the lock of its
job.  Since `FlowQueue`'s processors may close a row after the flow has stopped (the lock of a
job is lost in a sleep, another worker finishes), so may `DailyScheduler`'s `CloseRow`,
as one of its bounded incidents.  `FlowRetirement` EXTENDS `SubmitDag`: its flows are the
trees of it, so what it shows is of every flow that can be submitted.

**SchedulerLock.**  `pc` is the line a fire is at; `lockDir`, `owner`, `aged` and `guard`
are the disk; `seen` is the owner `recovery_decision` read.  `Mkdir` serves the first attempt,
the one on a lock found missing and the replacement of a claimed lock.  `Claim` is the rename,
which may fail whether the lock is still there or not.  `rm -rf`
is `RemoveFile` then `RemoveDir`, by name, as the script does it.  `Crash` may come
between any two.  `Age` is the passing of `LOCK_STALE_AFTER_S` (900 s).  It does not
happen between the reading of the owner and of the age, a few milliseconds apart,
unless `Suspends`.  A slot of `Fires` is reused only when nothing remembers
it, so a dead owner's pid stays dead: pid reuse is not modelled.

**DailyScheduler.**  A step for each thing others can see: the verdict, the lock,
the recheck, the preflight, the row, the flow, the exit.  `Refuse` stands for
every early exit that leaves nothing (unreadable verdict, no live worker, missing keys).
`LogicalDate` is the argument handed down verbatim.  `AddFlow` has the lost reply.
`Orphan` is a submission whose script was killed (`daily-queue.sh` runs it in a
pipe) and `SubmitByHand` one without the lock; both exist only if `Bystanders`.
`CloseRow`, `EndFlow` and `Reconcile` are the visible steps of `FlowQueue`; `Reconcile`
may close any running row, because the snapshot may be torn.

**FlowQueue.**  `job`, `made`, `stalls` and `lock` are BullMQ's; `exec` is the processor a
worker runs, which keeps running when its lock is gone; `row` is the parent row;
`recon` the reconciler's snapshot, read state by state in the order of
`snapshotQueue`.  BullMQ is not in the repository: its moves (`Ack`, `Nack`,
`Promote`, `Stall`, `Released`) are modelled from the options `submit.ts` and
`queue.ts` give it, and marked external.  `prioritized` is left out (nothing sets
a priority).  The rows of the stages are left out, but a write of one that throws is not
(`TakeThrows`, `CloseRowThrows`).  `spawned` is a history variable.

**SubmitDag.**  `Reach` is the least set closed under a relation, so that
`Resolved` and `Visited` need no recursion and mean on a cyclic graph what the
code's `seen` and `visited` sets make of it.  `BuildsTree` is the conjunction of the
errors `buildDAGTree` throws.  The lists are sets: `resolveSkips` removes duplicates.

**FlowRetirement.**  The flow's own life is there because it goes on around the tool:
workers attach, take, complete, fail and retry jobs, completed jobs are trimmed oldest
first, the reconciler closes rows.  `census` is what `collectFlowJobs` has found so
far, one `Read` per state.  A token is the census it was computed over.  `Remove` is
`job.remove()` as BullMQ does it (marked external, as the tests in
`tests/flow-retirement.int.test.ts:136-153` and `:199` show it): it takes the job
with everything below it, and releases the parent.  `End` at any step is a kill.
`Fail` closes the row, or leaves it where no processor could: the stalled-check failed the
job, or the write threw.

**Heartbeat.**  As in `SchedulerLock`, `pc` is the line a call is at, `seen` the owner
that was read and `recovering` who made the guard.  `left` are the attempts of
`HEARTBEAT_LOCK_TIMEOUT`, `snapshot` is the temporary file.  The guard's age, which
only decides between waiting and giving up, is left open.  A rename that fails leaves the
lock (`LoseClaim`); a call that cannot remove
its own lock or guard leaves the disk as a kill there does.  `Age` is not taken while a
recoverer is between the reading of an owner and of the age, the same assumption as
`~Suspends` of `SchedulerLock`.  A writer killed between mkdir and signature, or
between unlink and rmdir, leaves a lock without an owner, which by design nobody
reclaims; `OperatorClears` is the remedy the message names.

**CopyLifecycle.**  One action is the stretch between two awaits whose answers another
party can change.  `fence` is what the supervisor's backend holds: "partial" while
`acquireSourceFence` goes from table to table, "dead" when the backend is gone.  The 21
tables are one version number `source`, which `Write` changes whenever the whole fence
is not held; `manifest` is the version Stage 1 recorded.  `copy` is the target's
transaction: a COMMIT that was "sent" is settled by the server (`Settle`), answered or
not.  `Rollback` has the answers of `releaseFence` and `rollbackAndProveReleased`; they
differ in what a dead backend is (`refused`, since the first asks for the identity
before it sends anything, against `releaseUnknown`).  `Terminate` may end with
the backend signalled and not yet gone: what can still be counted is still held.
Producers, queues and foreign sessions are the reason for which a gate may refuse.
`Incident` bounds refusals and failures *together*: a precondition that does not hold
refuses without one.  `said` is the answer on the terminal; `refusedEarly` is kept apart
from `refused` (see the findings).

**Publication.**  `dir` is what is at each of the three names a record may occupy: the
first attempt's directory, kept for diagnosis, the retry directory and the final name.
A directory is an identity (device and inode), a body ("partial", the "whole" record,
or an "alien" one), whether its root is frozen, what of it a loss of power would spare,
and `claim`, a history bit: this phase made it, knows that it did, and has not begun to take it
apart.  `mine` is `createdIdentity`, `receipt` the retry receipt, `latch` the flag
`indeterminate`, `moving` the identity `finalizeScratch` took before the rename.  One
action is a step of the publisher whose failure the code tells apart, with the `catch`
it ends in; the bounded attempts and pauses of `publishDurable` inside the endless loop of
`publishPhase` are one loop.  Every file operation may fail (`Fault`), the rename may also
happen and not be reported, a look at a whole record may miss it.  Others only put directories
under free names (`Arrive`), and an identity is never used twice: inodes are reused by a file
system, and the code trusts that they are not in the lifetime of a phase.  `PowerLoss` leaves
what was synced and any part of the rest, and ends the run, as a phase is not resumed.
`publishPhase` is the `HoldIntent` and `HoldRecord` of `CopyLifecycle`: its return is what they
take for granted, and `RunEnds` holds there on condition that no record is `Blocked` here.

## 3. Runs

Each takes less than two minutes.

| run | bounds | shows |
|---|---|---|
| `lock` | 3 fires, 3 crashes | `IInv`, `OccupantKeepsLock`, `RecoveryNeedsProofOfDeath`, `NamelessLockIsLeftAlone`, `ImplementsAuthority`, `DeadOwnersLockIsRecovered` |
| `daily` | 2 submitters, 1 date, 2 incidents, bystanders | `IInv`, `AtMostOneLiveFlow`, `ImplementsOncePerDay` |
| `daily_locked` | 2 fires, 2 dates, 1 incident | `RecheckHolds`, `ScheduledDateWasDue`, `ApprovedRunIsNotDiscarded`, `DueDateIsClaimed` |
| `flow` | fork of 3 stages, 2 workers, 1 attempt, 1 stall, 2 incidents | `IInv`, `ImplementsScheduledRun`, `SuccessMeansWorkDone` |
| `flow_live` | 2 stages, 1 worker, 2 attempts, 1 stall, 1 incident | `FlowStops`, `PinnedRunIsClosed`, `SpendIsBounded` |
| `flow_torn` | fork, no incident | **violation** of `LiveRunIsNotFailed` |
| `flow_timeout` | fork, disobedient children | **violation** of `SpawnIsLimited` |
| `copy` | 4 incidents, 2 writes | `IInv`, `RetryIsSafe`, `HoldKnowsTheTruth`, `FenceEndsOnRecord`, `SourceStoodStill`, `ImplementsContract`, `RunEnds` |
| `retirement` | every graph and every skip of 3 stages | `SupersededMeansGone`, `TrimmedFlowIsReviewable`, `EvidenceIsTrue`, `EveryDependencyIsAwaited`, `OnlyCyclesAreDropped`, `ImplementsScheduledRun`, `RemovalReleasesNobody` |
| `retirement_retry` | the same | **violation** of `RetryCanFinish` |
| `heartbeat` | 3 calls, 1 attempt each, 2 kills, 2 lines retained of 3 | `IInv`, `LiveWriterKeepsLock`, `ImplementsLog`, `DeadWritersLockIsReclaimed` |
| `publication` | 5 faults, 2 directories of others | `RecordSurvives`, `NothingIsDestroyed`, `PhaseReturns` |

Why these bounds.  *Three fires* are what a lost recovery needs: an owner, a
recoverer, and a newcomer that wins the `mkdir` between the two; *three crashes*
kill each.  *Two submitters* race for a date; a third adds no new role, as the
second may come again after its exit.  *One date* suffices for claims, because dates do not
interact except through midnight, which `daily_locked` crosses.  *Two incidents* are
an orphan and a reconciliation, or a reconciliation and a retirement.  A *fork* is the
smallest tree with a branch to go on while the other fails.  *One stall* and *two attempts* let each of
the counters reach its limit and the two interact.  *Four incidents* are what the longest
story of a copy needs: an answer of COMMIT that is lost, a classification that fails, a
backend that dies, and an operation of the hold that goes wrong; *two writes* let the
source differ from the manifest, and change again.  *Three stages* give a chain, a fork, a
diamond (refused), a cycle beside the root and a skipped stage between two others; the
flow's life itself is unbounded there.  *Three calls* of the heartbeat are an owner, a
recoverer and a newcomer; one attempt each is enough for TLC, as another attempt is
another call, and the proof has any number.  *Three lines* are one more than are retained,
which is when a trim loses something.  *Five faults* reach each clause of
`Blocked`, take a phase through both directories and a removal, and leave one for the last fsync;
*two directories of others* may stand at the two temporary names, or at one of them
and the final one.  What the bounds could hide in the safety
properties, the proofs cover: they are for every value of the constants.

`CHECK_DEADLOCK FALSE` is said only for `DailyScheduler`, which stops after its
last date, and for `CopyLifecycle` and `Publication`, which are one run; the reconciler, launchd, the
heartbeat's callers and the workers never stop.

**Properties worth a word.**  `RecheckHolds` says that with everybody under the
lock the unique index has nothing to refuse; `AtMostOneLiveFlow` says that with
bystanders the index and the order of retirement (jobs first, row second) are enough
by themselves.  `ImplementsOncePerDay` is both as one contract: the phase of a date is
read off its rows *and* its flows.  `SuccessMeansWorkDone` excludes the
root itself: the processor records the success *before* BullMQ hears of it
(`processor.ts:155`), so a root that loses its lock there is recorded and run again.
`SpendIsBounded` has Attempts + MaxStalls, not Attempts, since a stall does not
count as an attempt.  `PinnedRunIsClosed` is restricted to a root in
`waiting-children` and to a flow never added: the daily policy deliberately leaves a
failed root with nothing parked `unknown` (`reconcile.ts:86-90`), and such a row says
`running` until a person looks at it.  `RemovalReleasesNobody` is why the order is
parents first: from the leaves each removal makes the next job executable.
`TrimmedFlowIsReviewable` says that trimming, which takes the oldest completed job,
never cuts a flow so that `planFlowRemoval` refuses what is left.  `EveryDependencyIsAwaited`
and `OnlyCyclesAreDropped` compare the flow in the queue with every graph of three stages and
every skip that it can have been built from.  `HoldKnowsTheTruth` is about what an operator is told: a
hold that believes the fence released withdraws the operations that would end it, so
`released-unproved` and `release-unknown` must not be folded (`lifecycle.ts:1793`).
`FenceEndsOnRecord` and `RetryIsSafe` relate what is on disk to what is true, whatever
dies next.  `RunEnds` excepts a run whose prover is lost: nothing can then prove a
release, and the hold keeps asking.  `RecordSurvives` is about the machine after the power
went, and says nothing once an fsync has failed, which the code does not repeat (finding 4).
`NothingIsDestroyed` is why a receipt must come from the `mkdir` and not from the name.
`PhaseReturns` is the claim that the phase is not wedged by its own wreckage: it comes back however
often it fails, unless it is `Blocked`, whose four clauses TLC finds each necessary.

**Fairness.**  *Lock*: a running script takes its steps, launchd starts it again, and
`Age` and a truthful `ps` are not put off for ever (strong, as both are enabled again
and again but not all the time).  *Scheduler*: weak for the verdict, the due hour
and the steps of a script (a fire that launchd started runs to its end); strong for winning the lock, the recheck, the preflight
and the insert, each of which a fire may lose or refuse many times: launchd retries
every 15 minutes, and the property assumes that the refusals stop some day.
*Queue*: weak for workers, timers, promotion and the stalled-checker, and for the
reconciler, so `PinnedRunIsClosed` is a promise on condition that somebody runs it.
*Publication*: the phase takes its steps; that the faults end is their bound.
*Heartbeat*: as for the lock.  In both, a recovery whose rename of the dead lock fails
is tried again by a later call (strong for `Reclaim`).  *Copy*: the process takes its steps, the server settles what
it was sent, and an operator who is asked again and again some day chooses `ABANDON`, or
`NONE` when that is all there is (strong: each attempt asks anew).
Nothing is assumed of crashes, midnight or, but for that, people, and nothing makes a
child exit unless it is `Obedient` and was signalled.

**Findings.**  The violated runs show (1) the reconciler snapshots the queue before it reads
the rows, and fails a run submitted in between; (2) the SIGKILL after the hard timeout is
never sent, as `child.killed` is true once SIGTERM was sent; (3) a retirement that stops between
the last removal and the update of the row can never be finished with the tool, which refuses a
flow without jobs, against `flow-cleanup.ts:187-188`.

(4) Without a run of its own, since a property of `Publication` states its exception: drop
`~unsynced` from `RecordSurvives` and TLC finds it violated.  A failed fsync of step 9 leaves
a whole temporary directory, which the next attempt renames as it is, trusting that its bytes
"have already been fsynced" (`evidence.ts:1513`); and a failed fsync of step 10b or 11
is followed by `acceptExistingRecord`, which reads and does not sync.  The phase then returns a
record that a loss of power tears or loses, against "durably on disk" (`pg-copy-ops.ts:2435-2436`).
(5) Likewise `Suspends = TRUE` refutes `OccupantKeepsLock`: a host that sleeps for the
stale threshold between two reads of `recovery_decision` lets a live fire's lock be renamed
away, against "a LIVE owner is never displaced" (`daily-scheduler.sh:205`).

Smaller disagreements.  Two clauses of `Blocked` are not what the comments expect.  Once a
rename is `indeterminate` the phase waits for `acceptExistingRecord` (`pg-copy-ops.ts:2211-2223`),
which can never succeed, as the root of an unreported bundle is still 0700 (step 10b was not
reached): it holds for ever, as it does after a failed chmod of step 10b.  And a whole record in a
temporary directory beside a final name that holds the record too is only renamed, again and again,
since a taken name beside a temporary directory is classified as `retained-temporary`
(`lifecycle.ts:2110-2112`): "a destination that already exists is read" (`pg-copy-ops.ts:2192`)
is not so there.  Exit status 3 of the scheduler
(`daily-scheduler.sh:423`, "did not finish") is also given while a recovery is going on.
"The whole flow is dead" (`processor.ts:135`) is not so: the other branches go on
and spend.  A refusal of the bundle or of the producers inside the lifecycle is announced as
"rolled back and proved ... released" (`pg-copy-ops.ts:5061-5068`) although no ROLLBACK
was sent and the fence lasts until its session is closed (`RefuseBundle`).  A stop after an
indeterminate COMMIT is announced as a copy that committed (`pg-copy-ops.ts:5021`), which is
why `StopWith` says "committed" and the contract reads no more into it than
"intervention".  A publication of the retirement's outcome that throws prints REFUSED after the
mutation (`retire-failed-flow.ts:393`).

## 4. Proofs

| module | theorems |
|---|---|
| `SchedulerLock_proofs` | `Invariance`, `SubmittersExclude`, `LiveOwnerKeepsLock`, `RecoveryIsProven`, `NamelessLockIsKept`, `ImplementsSubmitAuthority` |
| `DailyScheduler_proofs` | `Invariance`, `OneLiveFlow`, `FiledDatesWereDue`, `ApprovalsAreKept`, `IndexIsNeverNeeded`, `ImplementsContract`, `LockIsAuthority`, `RunsLiveOnce` |
| `FlowQueue_proofs` | `Invariance`, `SuccessIsTrue`, `SpendingIsBounded`, `ImplementsRun` |
| `SubmitDag_proofs` | `SubmissionsAreOneTree`, and lemmas about skipping and the building of trees that `FlowRetirement_proofs` rests on |
| `FlowRetirement_proofs` | `Invariance`, `SupersededFlowsAreGone`, `RemovalsReleaseNobody`, `FlowsStayReviewable`, `EvidenceStaysTrue`, `DependenciesAreAwaited`, `OnlyCyclesAreLost`, `ImplementsRun` |
| `Heartbeat_proofs` | `Invariance`, `LiveWritersKeepTheirLock`, `ImplementsHeartbeatLog` |
| `Publication_proofs` | `Invariance`, `RecordsSurvive`, `NothingIsLost` |
| `CopyLifecycle_proofs` | `Invariance`, `RetriesAreSafe`, `HoldsAreTruthful`, `RefusalsAreReleases`, `SourceStandsStill`, `FencesEndOnRecord`, `ImplementsCopyContract` |

For any number of fires, dates, workers, writers, attempts, faults and incidents, any tree and any
finite set of stages.  Beyond
the assumptions on constants the models declare, the lock's theorems assume
`~Suspends` (with it, TLC refutes them) and `IndexIsNeverNeeded` assumes
`~Bystanders`.  `RetriesAreSafe`, `FencesEndOnRecord` and `ImplementsCopyContract` assume `~LateCommit`: that
a server which answers the classifier has settled the COMMIT it was sent before.  The code
assumes it too (a session may die while its COMMIT is being applied, and the target be
measured before it is); with `LateCommit` TLC finds all three violated, and the other
properties of the copy not.

*Lock.*  `MutualExclusion` is not inductive.  `GuardInv` says the guard's
creator is the only one deciding; `OccupantInv` that the one fire between its
`mkdir` and its `rmdir` stands in a lock whose file says so; `EvidenceInv`, the
heart, that an *old* lock under decision still belongs to the owner that was read,
who if past `ps` is dead.  It holds because making a lock makes it young and nothing
ages between the two reads.  That is precisely what `Suspends` takes away.

*Scheduler.*  `RowInv` (one unsuperseded row per date, kept by the index; a superseded row's
jobs are gone) gives `AtMostOneLiveFlow`.  `SubmitterInv` ties a submitter to a
flow that is not yet there, `ApprovalInv` carries "had become due" across
midnights, `LockInv` ties a lock holder to its place.  The refinement maps a date to the
phase of its answering row and shows that each step moves at most one date by one legal move.
`RunsLiveOnce` is the same for the run of any row `n`: `RowInv` ties a superseded row to a removed
flow, and a row is made and a flow added once since only the submitter that holds the row adds it.
It is a theorem and no property of a run, as TLC does not evaluate the specification of an
instance with a parameter.

*Queue.*  `TreeInv` (a stage past `waiting-children` has its children done and one in it
has not) carries both `SuccessMeansWorkDone`, with `WorkInv` for processors
that lost their lock and for what the reconciler has seen, and `ImplementsScheduledRun`:
a stopped flow cannot run since only a completing child releases a parent.  The tree
assumption is used as induction over sets of stages: if a set contains the root and
the children of its members, it is all.  `SpendInv` accounts each spawn to an attempt
made, a stall, or the attempt that runs.

*Retirement.*  The heart is `TreeInv`, that what the root passes down reaches every job,
stated for all sets of jobs and used as induction over them, with `OrderInv`: a job is past
waiting only when what it waits for is completed or gone, completed only after it, and
trimmed after it.  Together they make the jobs that remain a tree with the root in it, which
is `TrimmedFlowIsReviewable`, and give `SupersededMeansGone` without trust in the torn
censuses: the plan contains the root, removal goes downwards (`PlanInv`), and BullMQ removes a job
with its subtree.  `ImplementsScheduledRun` adds `RowInv`: a row says success only of a root
that has completed, and the tool removes no flow but of a row that was failed when it looked
and at most succeeded since.  The one removal that changes the phase is that of the root,
which takes all with it; when the run has succeeded meanwhile it takes only completed jobs.

*The shape of a flow.*  `Reach` is a least closed set, so what is reached is shown to be in
a set by showing the set closed.  No job of a tree waits for itself, and what a stage reaches
in the graph its job reaches in the tree, which is `DependenciesAreAwaited`.
For `OnlyCyclesAreLost` a stage that is left out has a dependent that is left out, as it is
not the root; of the finitely many sets reached from such dependents one is largest, and a
stage that reaches it waits for itself (`SmallestSet`, from the library's well-founded order on finite
sets, stands in for induction over the size of the graph).  The same lemma finds
the job that waits for none, with which a flow starts.  `SubmissionsAreOneTree` puts these
together: whatever `buildDAGTree` accepts satisfies `TreeAssumption`, the assumption of `FlowQueue`
on its tree, so that the queue's theorems are about every flow that can be submitted.

*Heartbeat.*  As for the lock, and `OccupantInv` adds that the snapshot of a writer about to
replace the file is still the newest part of that file: nobody else is in the
transaction.  That is exactly what makes `Replace` a `Trim` of the log.

*Copy.*  The invariant is drawn along the two lines the code draws: `CommitLine` (before
COMMIT the target holds nothing, and what vouches for a copy has one) and `FenceLine` (whole or
gone from acquisition to release; while whole, the source is the manifest).
`DispositionLine`, `RecordLine` and `AnswerLine` say what is known, durable and told.  Each
promise is a short consequence.

*Publication.*  `IdentityInv` (a directory is at one name, an identity is given once) and
`ReceiptInv` (what bears the receipt's identity was made here) give `NothingIsDestroyed`.
`SlotInv` says that what is renamed is whole, and where an unreported rename left it;
`DurableInv` that, short of a failed fsync, what is whole has been synced before it is renamed
and what verifies has been synced to its name, which is `RecordSurvives` once the power is gone.

*Only model-checked*: the liveness properties `DeadOwnersLockIsRecovered`,
`DueDateIsClaimed`, `FlowStops`, `PinnedRunIsClosed`, `DeadWritersLockIsReclaimed`,
`PhaseReturns` and `RunEnds` (the prover has no ENABLED).  Every safety property of a passing run
is a theorem.  `MutualExclusion` and
`RefusalProvesRelease` are proved and not run: `ImplementsAuthority` and `ImplementsContract`
contain them.  Nor are the inductive invariants of `FlowRetirement` and `Publication`,
whose consequences the runs check.

## 5. Plan

Done: the three levels of the scheduler first, because a duplicated run costs the most,
a lost one comes next, and a wrong record after that; then retirement and the shape of a
flow, the heartbeat, the copy, and the publication of its records.  What would come next:

1. The restoration and closure of a copy (`--verify-copy-restoration`, `--close-copy`): the
   chain of evidence that a second process reads, as a continuation of `CopyLifecycle`.
2. `AtomicPublish`: link, rename, fsync and the lock, with crashes, against "old or new, never
   torn", as `Publication` does it for evidence.
3. The structured lane beside the daily one, with its own policy of the reconciler.

## 6. Not modelled, and why

The watchdog, alerts and logs decide only who is told.  Isolation mode
and dry runs submit nothing.  The attribution of old rows by `started_at` concerns rows from before the
`logical_date` column.  `supersedeScheduledRun` (`api.ts:84`), which would free the date of a
running row, is called by tests only.  The `skipIf` test of
`processJob` cannot hold: a function does not survive the JSON of `job.data`.  Worker liveness parses
process listings; its answer is `PassPreflight` or `Refuse`.  The structured lane is a flow of one
stage.  Of the copy, the rehearsal and the restoration of producers, the comparison of
catalogues and the bytes of a `COPY` are left out; bundles other than the records of a hold
are published once, without the retries of `Publication`.  Pools, migrations, the legacy copy, claims and write intents are
short transactions of one client each, whose interleavings are PostgreSQL's and are not modelled.  Most of the repository's lines are applications, catalogue
comparisons and tools for one person, and no model here speaks of them.  The applications,
renderers, catalogue comparisons and dashboards keep no protocol state.
