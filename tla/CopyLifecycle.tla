---------------------------- MODULE CopyLifecycle ----------------------------
(***************************************************************************)
(* One production run of the database copy: runProductionApply of          *)
(* packages/queue/bin/pg-copy-ops.ts over runLifecycle of                  *)
(* packages/db/src/pg-copy/lifecycle.ts.  The run fences the source in a   *)
(* transaction of a supervised backend, records what the source holds,     *)
(* copies it, commits, verifies, releases the fence on a published         *)
(* authorization, and reports.  Whatever goes wrong once the fence may be  *)
(* held and cannot be undone with proof ends in a hold: the process stays, *)
(* with the fence, until an operator resolves it.                          *)
(*                                                                         *)
(* One action is the stretch between two awaits whose answers another      *)
(* party can change: a statement with its proof, a publication, an         *)
(* operator's reply.  The 21 tables and their sequences are one value; the *)
(* evidence bundles are names on disk.  Producers, queues and sessions     *)
(* enter only as the reason for which a gate may refuse.                   *)
(***************************************************************************)
EXTENDS Integers

CONSTANTS
    MaxWrites,     \* bound on the number of writes to the source
    MaxIncidents,  \* bound on refusals, lost answers, dead sessions, kills
    LateCommit     \* may a COMMIT still be on its way when the run looks?

ASSUME MaxWritesNat == MaxWrites \in Nat
ASSUME MaxIncidentsNat == MaxIncidents \in Nat
ASSUME LateCommitBoolean == LateCommit \in BOOLEAN

VARIABLES
    pc,         \* where the run is
    fence,      \* what the supervisor's backend holds of the source
    prover,     \* is the second, proving session alive?
    source,     \* version of the source's content
    empty,      \* is there nothing in the tables to be copied?
    copy,       \* the target's transaction
    manifest,   \* the version Stage 1 has recorded
    verdict,    \* the disposition of an unanswered COMMIT
    disk,       \* durable evidence bundles
    said,       \* what the run has told its operator
    hold,       \* the fence state a hold believes in
    action,     \* what the operator chose in the present attempt
    intent,     \* the durable intent of the present attempt
    incidents

vars == <<pc, fence, prover, source, empty, copy, manifest, verdict, disk,
          said, hold, action, intent, incidents>>
evidence == <<manifest, verdict, disk>>
holding == <<hold, action, intent>>

\* The source and its sessions, and the target's transaction.
sessions == <<fence, prover, source, empty>>

None == "none"
NoManifest == -1

Preparing == {"acquire", "export", "publish", "reprove", "confirm", "rollback"}
Copying == {"bundle", "quiescence", "copy", "reproveSource", "submit", "commit"}
Settling == {"classify", "disposition", "pristineGate", "pristineRelease",
             "pristineRecord"}
Proving == {"snapshotEnd", "verify", "verified", "gate", "authorize", "release",
            "outcome"}
Holding == {"hold", "intent", "perform", "record"}
Steps == Preparing \cup Copying \cup Settling \cup Proving \cup Holding
         \cup {"closing", "done", "crashed"}

\* The fence has been taken whole, and no release is proved.
Fenced == (Preparing \ {"acquire", "rollback"}) \cup Copying
          \cup (Settling \ {"pristineRecord"}) \cup (Proving \ {"outcome"})
AfterPristine == {"pristineGate", "pristineRelease", "pristineRecord"}

Running == pc \notin {"done", "crashed"}

\* The menu of a hold (HOLD_ACTIONS).
HoldStates == {"held", "notHeld", "unproved", "releasedUnproved",
               "releaseUnknown", "released"}
Unsettled == {"REPROVE_AND_GATE", "CENSUS_ONLY", "ABANDON"}
Actions == Unsettled \cup {"TERMINATE", "NONE"}
HoldActions ==
    [held |-> Unsettled, notHeld |-> Unsettled, unproved |-> Unsettled,
     releasedUnproved |-> {"CENSUS_ONLY", "ABANDON"},
     releaseUnknown |-> Unsettled \cup {"TERMINATE"},
     released |-> {"NONE"}]

\* A mutant: a released fence is thought to need nothing more.
MenuOfUnresolved(state) == [HoldActions EXCEPT !.released = {}][state]
Menu(state) == HoldActions[state]

Init ==
    /\ pc = "acquire"
    /\ fence = "idle" /\ prover = TRUE
    /\ source = 0 /\ empty \in BOOLEAN
    /\ copy = None
    /\ manifest = NoManifest /\ verdict = None /\ disk = {}
    /\ said = "nothing"
    /\ hold = "unproved" /\ action = None /\ intent = None
    /\ incidents = 0

-----------------------------------------------------------------------------
\* The vocabulary of a step.

Incident == incidents < MaxIncidents /\ incidents' = incidents + 1
NoIncident == UNCHANGED incidents

Goto(p, q) == pc = p /\ pc' = q

\* proveFence and attemptFenceProof: the complete fence, seen from a second
\* backend.
Proof == prover /\ fence = "held"

\* A step whose precondition `ok` fails is refused; one whose precondition
\* holds may be refused by an incident.
Blame(ok) == IF ok THEN Incident ELSE NoIncident

Publish(bundle) ==
    /\ disk' = disk \cup {bundle}
    /\ UNCHANGED <<manifest, verdict>>

\* enterHold.
Enter(state, line) ==
    /\ hold' = state
    /\ said' = line
    /\ action' = None /\ intent' = None

\* The proof a stopped lifecycle takes of its fence before it reports: held,
\* not held, or nothing established.
ProvenState(s) ==
    \/ s = "unproved"
    \/ prover /\ fence = "held" /\ s = "held"
    \/ prover /\ fence # "held" /\ s = "notHeld"

\* stop() after COMMIT leaves the rest to a person, who reads that the copy
\* committed.
StopWith(s) ==
    /\ pc' = "hold"
    /\ Enter(s, "committed")

BestEffort(bundle) ==
    /\ disk' \in {disk, disk \cup {bundle}}
    /\ UNCHANGED <<manifest, verdict>>

\* A fresh proof says what is held; the outcome is published as well as can be.
Stop ==
    /\ \E s \in HoldStates : ProvenState(s) /\ StopWith(s)
    /\ BestEffort("stopped")

\* Before runApply has returned stop() has no pid to prove by, and no result to
\* publish.
StopBlind == StopWith("unproved") /\ UNCHANGED evidence

\* ROLLBACK and the supervisor's own census.  `ifDead` is what a caller makes
\* of a backend that is gone.
Rollback(answer, ifDead) ==
    /\ \/ fence = "dead" /\ answer = ifDead /\ NoIncident /\ UNCHANGED fence
       \/ fence # "dead" /\ answer = "released" /\ NoIncident /\ fence' = "idle"
       \/ fence # "dead" /\ answer = "releasedUnproved" /\ Incident
          /\ fence' = "idle"
       \/ fence # "dead" /\ answer = "refused" /\ Incident /\ UNCHANGED fence
       \/ fence # "dead" /\ answer = "releaseUnknown" /\ Incident
          /\ fence' \in {fence, "idle"}
    /\ UNCHANGED <<prover, source, empty>>

\* rollbackAndProveReleased: a transport failure says nothing.
RollbackAndProve(answer) == Rollback(answer, "releaseUnknown")

\* A mutant: a supervisor that does not answer is taken for a released fence.
ReleaseForgiving(answer) == Rollback(answer, "released")
\* releaseFence asks the backend who it is before it sends ROLLBACK.
ReleaseFence(answer) == Rollback(answer, "refused")

Answers == {"released", "releasedUnproved", "releaseUnknown", "refused"}

\* A mutant: an unknown release is folded into an unproved one.
HoldStateFolded(answer) == IF answer = "refused" THEN "unproved" ELSE "releasedUnproved"
\* What a ROLLBACK outcome other than a proved release is to a hold.
HoldStateOfRelease(answer) == IF answer = "refused" THEN "unproved" ELSE answer

-----------------------------------------------------------------------------
\* Stage 1: fence the source, and record under the fence what it holds.

\* acquireSourceFence locks table by table: a refusal leaves some of it.
Acquire ==
    /\ pc = "acquire"
    /\ \/ /\ fence = "idle"
          /\ fence' = "partial"
          /\ UNCHANGED pc
       \/ /\ fence = "partial"
          /\ fence' = "held"
          /\ pc' = "export"
    /\ NoIncident
    /\ UNCHANGED <<prover, source, empty, copy, evidence, said, holding>>

\* The export snapshot is taken under a proved fence.
Export ==
    /\ Goto("export", "publish")
    /\ Proof
    /\ manifest' = source
    /\ NoIncident
    /\ UNCHANGED <<sessions, copy, verdict, disk, said, holding>>

\* Proved again, the manifest is published, and proved twice more.
PublishManifest ==
    /\ Goto("publish", "reprove")
    /\ Proof
    /\ Publish("stage1")
    /\ NoIncident
    /\ UNCHANGED <<sessions, copy, said, holding>>

\* runInspect derives the source a second time, for the confirmation.
Inspect ==
    /\ Goto("reprove", "confirm")
    /\ Proof /\ source = manifest
    /\ NoIncident
    /\ UNCHANGED <<sessions, copy, evidence, said, holding>>

Confirm ==
    /\ Goto("confirm", "bundle")
    /\ NoIncident
    /\ UNCHANGED <<sessions, copy, evidence, said, holding>>

\* Any failure up to the confirmation.
GiveUp ==
    /\ pc \in Preparing \ {"rollback"}
    /\ pc' = "rollback"
    /\ Blame(\/ pc = "acquire" /\ fence # "dead"
             \/ pc = "confirm"
             \/ Proof)
    /\ UNCHANGED <<sessions, copy, evidence, said, holding>>

\* releaseOrHold before the lifecycle owns the fence, cleanUpPreCommit in it:
\* one ROLLBACK, and a hold if it does not prove the release.
ReleaseOrHold ==
    /\ pc = "rollback"
    /\ \E a \in Answers :
        /\ RollbackAndProve(a)
        /\ \/ /\ a = "released"
              /\ pc' = "closing"
              /\ said' = "refused"
              /\ UNCHANGED holding
           \/ /\ a # "released"
              /\ pc' = "hold"
              /\ Enter(HoldStateOfRelease(a), "stopped")
    /\ UNCHANGED <<copy, evidence>>

-----------------------------------------------------------------------------
\* The lifecycle up to COMMIT.

\* L1 and L2, the bundle and the producers.
ReadBundle ==
    /\ Goto("bundle", "quiescence")
    /\ NoIncident
    /\ UNCHANGED <<sessions, copy, evidence, said, holding>>

AssertQuiescent ==
    /\ Goto("quiescence", "copy")
    /\ NoIncident
    /\ UNCHANGED <<sessions, copy, evidence, said, holding>>

\* Either refuses with LifecycleRefused, which no ROLLBACK precedes, and the
\* caller announces as a release that was proved.
RefuseBundle ==
    /\ pc \in {"bundle", "quiescence"}
    /\ pc' = "closing"
    /\ said' = "refusedEarly"
    /\ Incident
    /\ UNCHANGED <<sessions, copy, evidence, holding>>

\* The Stage-2 source session could not be opened: no class of the lifecycle's.
LoseStageSource ==
    /\ Goto("copy", "hold")
    /\ Incident
    /\ Enter("unproved", "stopped")
    /\ UNCHANGED <<sessions, copy, evidence>>

\* runApply: the adopted fence proved (A3), the source equal to the manifest
\* (A5), an empty target (A10), 21 tables and their sequences (A11, A12).
CopyTables ==
    /\ Goto("copy", "reproveSource")
    /\ Proof /\ source = manifest
    /\ copy' = "open"
    /\ NoIncident
    /\ UNCHANGED <<sessions, evidence, said, holding>>

\* A13: target against source, and the source once more, before COMMIT.
ReproveSource ==
    /\ Goto("reproveSource", "submit")
    /\ Proof
    /\ NoIncident
    /\ UNCHANGED <<sessions, copy, evidence, said, holding>>

\* A mutant: the target's transaction is left as it was.
FailAndForgetTarget ==
    /\ pc \in {"copy", "reproveSource"}
    /\ pc' = "rollback"
    /\ Blame(Proof)
    /\ UNCHANGED <<sessions, copy, evidence, said, holding>>
\* Any failure before COMMIT is submitted rolls the target back, and then the
\* fence, once and with proof (cleanUpPreCommit).
FailBeforeCommit ==
    /\ pc \in {"copy", "reproveSource"}
    /\ pc' = "rollback"
    /\ Blame(Proof)
    /\ copy' = None
    /\ UNCHANGED <<sessions, evidence, said, holding>>

Submit ==
    /\ Goto("submit", "commit")
    /\ copy' = "sent"
    /\ NoIncident
    /\ UNCHANGED <<sessions, evidence, said, holding>>

Acknowledged ==
    /\ Goto("commit", "snapshotEnd")
    /\ copy = "landed"
    /\ NoIncident
    /\ UNCHANGED <<sessions, copy, evidence, said, holding>>

\* A mutant: an unanswered COMMIT is taken for one that failed.
CommitUnknownIsFailure ==
    /\ Goto("commit", "rollback")
    /\ LateCommit \/ copy # "sent"
    /\ Blame(copy # None)
    /\ UNCHANGED <<sessions, copy, evidence, said, holding>>
\* CommitOutcomeUnknown: an error, another tag, or no answer.
CommitUnknown ==
    /\ Goto("commit", "classify")
    /\ LateCommit \/ copy # "sent"
    /\ Blame(copy # None)
    /\ UNCHANGED <<sessions, copy, evidence, said, holding>>

-----------------------------------------------------------------------------
\* An unanswered COMMIT: classify the target, then decide.

Matched == copy = "landed" \/ empty
Pristine == copy # "landed" \/ empty

\* A mutant: an untouched target is looked for first.
DecidePristineFirst(matched, pristine) ==
    IF pristine THEN "pristine" ELSE IF matched THEN "exact" ELSE "indeterminate"
\* decideDisposition: an empty copy cannot be told from an untouched target.
Decide(matched, pristine) ==
    IF matched = pristine THEN "indeterminate"
    ELSE IF matched THEN "exact" ELSE "pristine"

\* A measurement that cannot be taken establishes nothing.
Classify ==
    /\ Goto("classify", "disposition")
    /\ \/ verdict' = Decide(Matched, Pristine) /\ NoIncident
       \/ verdict' = "indeterminate" /\ Incident
    /\ UNCHANGED <<sessions, copy, manifest, disk, said, holding>>

\* The disposition is durable before anything acts on it.
PublishDisposition ==
    /\ pc = "disposition"
    /\ Publish("disposition")
    /\ NoIncident
    /\ \/ /\ verdict = "exact"
          /\ pc' = "snapshotEnd"
          /\ UNCHANGED <<said, holding>>
       \/ /\ verdict = "pristine"
          /\ pc' = "pristineGate"
          /\ UNCHANGED <<said, holding>>
       \/ /\ verdict = "indeterminate"
          /\ StopWith("unproved")
    /\ UNCHANGED <<sessions, copy>>

\* The operational gate asks everything of the world and nothing of a copy.
PristineGate ==
    /\ Goto("pristineGate", "pristineRelease")
    /\ Proof
    /\ NoIncident
    /\ UNCHANGED <<sessions, copy, evidence, said, holding>>

SettlingStops ==
    /\ pc \in {"disposition", "pristineGate"}
    /\ Blame(pc = "disposition" \/ Proof)
    /\ StopBlind
    /\ UNCHANGED <<sessions, copy>>

\* A refusal of releaseFence leaves releaseAfterPristine as it came.
PristineRelease ==
    /\ pc = "pristineRelease"
    /\ \E a \in Answers :
        /\ ReleaseFence(a)
        /\ \/ /\ a = "released"
              /\ pc' = "pristineRecord"
              /\ UNCHANGED <<said, holding>>
           \/ /\ a = "refused"
              /\ pc' = "hold"
              /\ Enter("unproved", "stopped")
           \/ /\ a \notin {"released", "refused"}
              /\ StopWith(a)
    /\ UNCHANGED <<copy, evidence>>

\* The record that permits a retry.
PristineRecord ==
    /\ pc = "pristineRecord"
    /\ \/ /\ Publish("pristine")
          /\ NoIncident
          /\ pc' = "closing"
          /\ said' = "refused"
          /\ UNCHANGED holding
       \/ /\ Incident
          /\ StopWith("released")
          /\ UNCHANGED evidence
    /\ UNCHANGED <<sessions, copy>>

-----------------------------------------------------------------------------
\* From COMMIT to the proved release.

\* L4.
EndSnapshot ==
    /\ Goto("snapshotEnd", "verify")
    /\ NoIncident
    /\ UNCHANGED <<sessions, copy, evidence, said, holding>>

\* L5: the fence before, the contents on fresh sessions, the fence after.
BeginVerification ==
    /\ Goto("verify", "verified")
    /\ Proof
    /\ NoIncident
    /\ UNCHANGED <<sessions, copy, evidence, said, holding>>

Identical == source = manifest /\ Matched

EndVerification ==
    /\ Goto("verified", "gate")
    /\ Proof /\ Identical
    /\ Publish("pass")
    /\ NoIncident
    /\ UNCHANGED <<sessions, copy, said, holding>>

\* L6.
ReleaseGate ==
    /\ Goto("gate", "authorize")
    /\ Proof
    /\ NoIncident
    /\ UNCHANGED <<sessions, copy, evidence, said, holding>>

\* A mutant: the authorization is kept for the outcome record.
AuthorizeUnpublished ==
    /\ Goto("authorize", "release")
    /\ NoIncident
    /\ UNCHANGED <<sessions, copy, evidence, said, holding>>
\* L7: durable while what it authorizes can still be undone.
Authorize ==
    /\ Goto("authorize", "release")
    /\ Publish("gate")
    /\ NoIncident
    /\ UNCHANGED <<sessions, copy, said, holding>>

\* L4 to L7 stop on a refusal.
ProvingStops ==
    /\ pc \in {"snapshotEnd", "verify", "verified", "gate", "authorize"}
    /\ Blame(\/ pc \in {"snapshotEnd", "authorize"}
             \/ Proof /\ (pc = "verified" => Identical))
    /\ Stop
    /\ UNCHANGED <<sessions, copy>>

\* L8 and L9: the release, and its proof.
Release ==
    /\ pc = "release"
    /\ \E a \in Answers :
        /\ ReleaseFence(a)
        /\ \/ /\ a = "released"
              /\ pc' = "outcome"
              /\ UNCHANGED <<evidence, said, holding>>
           \/ /\ a = "refused"
              /\ Stop
           \/ /\ a \notin {"released", "refused"}
              /\ StopWith(a)
              /\ BestEffort("stopped")
    /\ UNCHANGED copy

\* L11: the outcome is attempted once, and must be durable.
PublishOutcome ==
    /\ pc = "outcome"
    /\ \/ /\ Publish("outcome")
          /\ NoIncident
          /\ pc' = "closing"
          /\ said' = "verified"
          /\ UNCHANGED holding
       \/ /\ Incident
          /\ StopWith("released")
          /\ UNCHANGED evidence
    /\ UNCHANGED <<sessions, copy>>

\* The prover is closed, then the supervisor, whose psql takes its transaction
\* with it.
Close ==
    /\ Goto("closing", "done")
    /\ fence' = "dead" /\ prover' = FALSE
    /\ NoIncident
    /\ UNCHANGED <<source, empty, copy, evidence, said, holding>>

-----------------------------------------------------------------------------
\* The hold.

\* censusFromProver: what it says of the locks it can count, and of others.
Counted == CASE fence = "held" -> "held"
             [] fence = "partial" -> "unproved"
             [] OTHER -> "released"

Uncounted == {"releaseUnknown", "unproved"}

Census(state) ==
    \/ state \in Uncounted /\ Blame(prover)
    \/ state = Counted /\ prover /\ NoIncident

HoldDecide(a) ==
    /\ Goto("hold", "intent")
    /\ a \in Menu(hold)
    /\ action' = a /\ intent' = None
    /\ NoIncident
    /\ UNCHANGED <<sessions, copy, evidence, said, hold>>

\* The operator's reply was refused or did not come: the attempt is recorded.
HoldUndecided ==
    /\ Goto("hold", "record")
    /\ Incident
    /\ action' = None /\ intent' = None
    /\ UNCHANGED <<sessions, copy, evidence, said, hold>>

\* publishPhase tries until the very intent is durable.
HoldIntent ==
    /\ Goto("intent", "perform")
    /\ intent' = action
    /\ NoIncident
    /\ UNCHANGED <<sessions, copy, evidence, said, hold, action>>

\* CENSUS_ONLY and NONE.
LookOnly ==
    /\ action \in {"CENSUS_ONLY", "NONE"}
    /\ Census(hold')
    /\ UNCHANGED sessions

\* TERMINATE and ABANDON end the supervisor's backend, from the prover; one
\* that cannot be reached, or refuses, ends nothing.  A backend that is not
\* reaped when the attempts run out is still counted, whenever it may die.
Terminate ==
    /\ action \in {"TERMINATE", "ABANDON"}
    /\ \/ /\ ~prover
          /\ NoIncident
          /\ UNCHANGED <<hold, sessions>>
       \/ /\ Incident
          /\ hold' \in {hold, "releaseUnknown"}
          /\ UNCHANGED sessions
       \/ /\ prover /\ Incident
          /\ hold' \in Uncounted \cup {Counted}
          /\ UNCHANGED sessions
       \/ /\ prover /\ NoIncident
          /\ fence' = "dead" /\ hold' = "released"
          /\ UNCHANGED <<prover, source, empty>>
       \/ /\ prover /\ Incident
          /\ fence' = "dead" /\ hold' \in Uncounted
          /\ UNCHANGED <<prover, source, empty>>

\* REPROVE_AND_GATE: a complete fence, a fresh gate, one ROLLBACK, and an
\* independent census.
Regate ==
    /\ action = "REPROVE_AND_GATE"
    /\ \/ ~Proof /\ Census(hold') /\ UNCHANGED sessions
       \/ Proof /\ Incident /\ hold' \in {"held", "releaseUnknown", "unproved", hold}
          /\ UNCHANGED sessions
       \/ /\ Proof
          /\ ReleaseFence("released")
          /\ hold' = "released"
       \/ /\ Proof /\ Incident
          /\ fence' \in {"held", "idle"}
          /\ hold' \in {"releaseUnknown", "unproved",
                        IF fence' = "held" THEN "held" ELSE "released"}
          /\ UNCHANGED <<prover, source, empty>>

HoldPerform ==
    /\ Goto("perform", "record")
    /\ LookOnly \/ Terminate \/ Regate
    /\ UNCHANGED <<copy, evidence, said, action, intent>>

\* The outcome is durable before the hold ends, and it ends only on a performed
\* operation after which the fence is proved gone.
HoldRecord ==
    /\ pc = "record"
    /\ Publish("resolution")
    /\ pc' = IF hold = "released" /\ action # None THEN "closing" ELSE "hold"
    /\ NoIncident
    /\ UNCHANGED <<sessions, copy, said, holding>>

-----------------------------------------------------------------------------
\* What the run does not decide.

\* The server settles a COMMIT it was sent.
Settle ==
    /\ copy = "sent"
    /\ copy' = "landed" \/ (copy' = None /\ incidents < MaxIncidents)
    /\ incidents' = IF copy' = None THEN incidents + 1 ELSE incidents
    /\ UNCHANGED <<pc, sessions, evidence, said, holding>>

\* Anybody writes to a source that the whole fence does not cover.
Write ==
    /\ fence # "held"
    /\ source < MaxWrites
    /\ source' = source + 1
    /\ UNCHANGED <<pc, fence, prover, empty, copy, evidence, said, holding,
                   incidents>>

LoseSession ==
    /\ Running /\ Incident
    /\ \/ fence # "dead" /\ fence' = "dead" /\ UNCHANGED prover
       \/ prover /\ prover' = FALSE /\ UNCHANGED fence
    /\ UNCHANGED <<pc, source, empty, copy, evidence, said, holding>>

\* The process is killed: its sessions go, and so does what it had not
\* committed.
Crash ==
    /\ Running /\ Incident
    /\ pc' = "crashed"
    /\ fence' = "dead" /\ prover' = FALSE
    /\ copy' = IF copy = "open" THEN None ELSE copy
    /\ UNCHANGED <<source, empty, evidence, said, holding>>

Stage1 == Acquire \/ Export \/ PublishManifest \/ Inspect \/ Confirm \/ GiveUp
          \/ ReleaseOrHold
Stage2 == ReadBundle \/ AssertQuiescent \/ RefuseBundle \/ LoseStageSource
          \/ CopyTables \/ ReproveSource \/ FailBeforeCommit \/ Submit
          \/ Acknowledged \/ CommitUnknown
Unknown == Classify \/ PublishDisposition \/ PristineGate \/ SettlingStops
           \/ PristineRelease \/ PristineRecord
Committed == EndSnapshot \/ BeginVerification \/ EndVerification \/ ReleaseGate
             \/ Authorize \/ ProvingStops \/ Release \/ PublishOutcome \/ Close
Held == HoldUndecided \/ HoldIntent \/ HoldPerform \/ HoldRecord

Program == Stage1 \/ Stage2 \/ Unknown \/ Committed \/ Held
Environment == Settle \/ Write \/ LoseSession \/ Crash

Next == Program \/ Environment \/ \E a \in Actions : HoldDecide(a)

Spec == Init /\ [][Next]_vars

\* The process runs on, the server settles what it was sent, and an operator
\* who is asked for ever does sooner or later take the last resort, or the only
\* choice there is.
FairSpec ==
    /\ Spec
    /\ WF_vars(Program)
    /\ WF_vars(Settle)
    /\ \A a \in {"ABANDON", "NONE"} : SF_vars(HoldDecide(a))

-----------------------------------------------------------------------------
\* Properties.

TypeOK ==
    /\ pc \in Steps
    /\ fence \in {"idle", "partial", "held", "dead"}
    /\ prover \in BOOLEAN
    /\ source \in 0..MaxWrites
    /\ empty \in BOOLEAN
    /\ copy \in {None, "open", "sent", "landed"}
    /\ manifest \in 0..MaxWrites \cup {NoManifest}
    /\ verdict \in {None, "exact", "pristine", "indeterminate"}
    /\ disk \subseteq {"stage1", "disposition", "pristine", "pass", "gate",
                       "stopped", "outcome", "resolution"}
    /\ said \in {"nothing", "refused", "refusedEarly", "verified", "committed",
                 "stopped"}
    /\ hold \in HoldStates
    /\ action \in Actions \cup {None} /\ intent \in Actions \cup {None}
    /\ incidents \in 0..MaxIncidents

\* The line the code draws at COMMIT: before it the target holds nothing, and
\* past it every step that vouches for the copy has one to vouch for.
CommitLine ==
    /\ pc \in Preparing \cup {"bundle", "quiescence", "copy"} => copy = None
    /\ pc \in {"reproveSource", "submit"} => copy = "open"
    /\ pc \in Proving => copy = "landed"
    /\ copy = "open" => pc \in {"reproveSource", "submit"}
    /\ ~LateCommit /\ copy = "sent" => pc \in {"commit", "crashed"}

\* The fence is whole or gone from its acquisition to its release, and gone
\* once a release has been proved.  While it is whole the source is what the
\* manifest says.
FenceLine ==
    /\ pc \in Fenced => fence \in {"held", "dead"}
    /\ pc \in {"pristineRecord", "outcome"} => fence \in {"idle", "dead"}
    /\ pc = "closing" /\ fence = "held" => copy = None
    /\ fence = "held" /\ manifest # NoManifest => source = manifest
    /\ pc = "acquire" => manifest = NoManifest
    /\ pc \in Fenced \ {"export"} => manifest # NoManifest

\* A disposition says what the target is, and stays true while it is acted on.
DispositionLine ==
    /\ pc = "disposition" /\ verdict = "exact" => copy = "landed"
    /\ ~LateCommit /\ pc = "disposition" /\ verdict = "pristine" => copy = None
    /\ ~LateCommit /\ pc \in AfterPristine => copy = None
    /\ ~LateCommit /\ "pristine" \in disk => copy = None

\* What is durable when.
RecordLine ==
    /\ pc \in {"release", "outcome"} => "gate" \in disk
    /\ pc \in AfterPristine \/ "pristine" \in disk => "disposition" \in disk
    /\ "pristine" \in disk => pc \in {"closing", "done", "crashed"}
    /\ pc = "intent" => action \in Actions
    /\ pc = "perform" => intent \in Actions

\* One answer, given when the run is over or held, and after which no COMMIT is
\* awaited.
AnswerLine ==
    /\ pc \in Preparing \cup Copying \cup Settling \cup Proving
         => said = "nothing"
    /\ ~LateCommit /\ copy = "sent" => said = "nothing"
    /\ said = "refused" =>
          pc \in {"closing", "done", "crashed"} /\ fence \notin {"held", "partial"}

\* What a hold tells its operator of a fence that is gone is true
\* (lifecycle.ts: released-unproved is not release-unknown), so no menu drops
\* the operations an existing fence needs.
HoldKnowsTheTruth ==
    pc \in Holding /\ hold \in {"released", "releasedUnproved", "notHeld"}
        => fence \notin {"held", "partial"}

IInv ==
    /\ TypeOK
    /\ CommitLine
    /\ FenceLine
    /\ DispositionLine
    /\ RecordLine
    /\ AnswerLine
    /\ HoldKnowsTheTruth

\* A retry is permitted by a record on disk (PRISTINE_RELEASE): the disposition
\* it names is there too, and the target is untouched for good; if no COMMIT
\* arrives after the run has looked for it.
RetryIsSafe ==
    "pristine" \in disk => "disposition" \in disk /\ copy = None

\* The run ends the fence over a committed copy only on the strength of what is
\* on disk: the authorization of the gate, or an operator's intent; if no COMMIT
\* arrives after the run has looked for it.
FenceEndsOnRecord ==
    [][ fence = "held" /\ fence' # "held" /\ copy = "landed"
        /\ pc' \notin {pc, "crashed"}
          => "gate" \in disk \/ intent # None ]_vars

\* When the release of a copy is proved, nothing has been written to the source
\* since the manifest, and the target holds that manifest.
SourceStoodStill ==
    [][ pc = "release" /\ pc' = "outcome"
          => source = manifest /\ copy = "landed" ]_vars

\* The run keeps the contract of a copy, if no COMMIT arrives after the run has
\* looked for it.
Answered ==
    CASE said = "nothing" -> "none"
      [] said = "verified" -> "verified"
      [] said \in {"refused", "refusedEarly"} -> "refused"
      [] said \in {"committed", "stopped"} -> "intervention"

Contract == INSTANCE CopyContract WITH
    copied <- copy = "landed",
    answer <- Answered

ImplementsContract == Contract!Spec

\* A refusal says that the fence was released, with proof, before it was said
\* (pg-copy-ops.ts:5061-5068, :5091).  One refusal says so without: that of the
\* bundle or of the producers (RefuseBundle), whose fence ends with its session.
RefusalProvesRelease ==
    said = "refused" => fence \notin {"held", "partial"}

\* A run ends, unless the session it would prove a release by is lost.
RunEnds == <>(~Running \/ ~prover)

=============================================================================
