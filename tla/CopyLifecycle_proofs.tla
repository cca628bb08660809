------------------------ MODULE CopyLifecycle_proofs ------------------------
(***************************************************************************)
(* The lines of CopyLifecycle (what is in the target, in the source, on    *)
(* disk and told at each step) are one inductive invariant, and the        *)
(* promises of the run follow from it, for any number of writes and        *)
(* incidents.                                                              *)
(***************************************************************************)
EXTENDS CopyLifecycle, TLAPS

(***************************************************************************)
(* The initial states satisfy the invariant.                               *)
(***************************************************************************)
LEMMA InitInvariant == Init => IInv
BY MaxWritesNat, MaxIncidentsNat
   DEF Init, IInv, TypeOK, CommitLine, FenceLine, DispositionLine, RecordLine,
       AnswerLine, HoldKnowsTheTruth, Steps, Preparing, Copying, Settling, Proving, Holding,
       Fenced, AfterPristine, HoldStates, Actions, Unsettled, None, NoManifest

(*****************************************************************************)
(* Stage 1: the fence becomes whole before the manifest is taken, and a      *)
(* failure leaves an empty target to the ROLLBACK.                           *)
(*****************************************************************************)
LEMMA Stage1Keeps == IInv /\ Stage1 => IInv'
<1> SUFFICES ASSUME IInv, Stage1 PROVE IInv'
  OBVIOUS
<1> USE MaxWritesNat, MaxIncidentsNat, LateCommitBoolean
        DEF IInv, TypeOK, CommitLine, FenceLine, DispositionLine, RecordLine,
            AnswerLine, HoldKnowsTheTruth, Steps, Preparing, Copying, Settling, Proving, Holding,
            Fenced, AfterPristine, Running, HoldStates, Actions, Unsettled,
            None, NoManifest, Goto, Incident, NoIncident, Blame, Proof,
            Publish, evidence, holding, sessions
<1>1. CASE Acquire
  BY <1>1 DEF Acquire
<1>2. CASE Export
  BY <1>2 DEF Export
<1>3. CASE PublishManifest
  BY <1>3 DEF PublishManifest
<1>4. CASE Inspect
  BY <1>4 DEF Inspect
<1>5. CASE Confirm
  BY <1>5 DEF Confirm
<1>6. CASE GiveUp
  BY <1>6 DEF GiveUp
<1>7. CASE ReleaseOrHold
  BY <1>7 DEF ReleaseOrHold, RollbackAndProve, Rollback, Answers, HoldStateOfRelease, Enter
<1> QED
  BY <1>1, <1>2, <1>3, <1>4, <1>5, <1>6, <1>7 DEF Stage1

(*****************************************************************************)
(* The lifecycle up to COMMIT: the copy is open only between the copying and *)
(* the submission.                                                           *)
(*****************************************************************************)
LEMMA Stage2Keeps == IInv /\ Stage2 => IInv'
<1> SUFFICES ASSUME IInv, Stage2 PROVE IInv'
  OBVIOUS
<1> USE MaxWritesNat, MaxIncidentsNat, LateCommitBoolean
        DEF IInv, TypeOK, CommitLine, FenceLine, DispositionLine, RecordLine,
            AnswerLine, HoldKnowsTheTruth, Steps, Preparing, Copying, Settling, Proving, Holding,
            Fenced, AfterPristine, Running, HoldStates, Actions, Unsettled,
            None, NoManifest, Goto, Incident, NoIncident, Blame, Proof,
            Publish, evidence, holding, sessions
<1>1. CASE ReadBundle
  BY <1>1 DEF ReadBundle
<1>2. CASE AssertQuiescent
  BY <1>2 DEF AssertQuiescent
<1>3. CASE RefuseBundle
  BY <1>3 DEF RefuseBundle
<1>4. CASE LoseStageSource
  BY <1>4 DEF LoseStageSource, Enter
<1>5. CASE CopyTables
  BY <1>5 DEF CopyTables
<1>6. CASE ReproveSource
  BY <1>6 DEF ReproveSource
<1>7. CASE FailBeforeCommit
  BY <1>7 DEF FailBeforeCommit
<1>8. CASE Submit
  BY <1>8 DEF Submit
<1>9. CASE Acknowledged
  BY <1>9 DEF Acknowledged
<1>10. CASE CommitUnknown
  BY <1>10 DEF CommitUnknown
<1> QED
  BY <1>1, <1>2, <1>3, <1>4, <1>5, <1>6, <1>7, <1>8, <1>9, <1>10 DEF Stage2

(*****************************************************************************)
(* An unanswered COMMIT: a disposition is measured, made durable and only    *)
(* then acted on.                                                            *)
(*****************************************************************************)
LEMMA UnknownKeeps == IInv /\ Unknown => IInv'
<1> SUFFICES ASSUME IInv, Unknown PROVE IInv'
  OBVIOUS
<1> USE MaxWritesNat, MaxIncidentsNat, LateCommitBoolean
        DEF IInv, TypeOK, CommitLine, FenceLine, DispositionLine, RecordLine,
            AnswerLine, HoldKnowsTheTruth, Steps, Preparing, Copying, Settling, Proving, Holding,
            Fenced, AfterPristine, Running, HoldStates, Actions, Unsettled,
            None, NoManifest, Goto, Incident, NoIncident, Blame, Proof,
            Publish, evidence, holding, sessions
<1>1. CASE Classify
  BY <1>1 DEF Classify, Matched, Pristine, Decide
<1>2. CASE PublishDisposition
  BY <1>2 DEF PublishDisposition, StopWith, Enter
<1>3. CASE PristineGate
  BY <1>3 DEF PristineGate
<1>4. CASE SettlingStops
  BY <1>4 DEF SettlingStops, StopBlind, StopWith, Enter
<1>5. CASE PristineRelease
  <2>1. PICK a \in Answers : ReleaseFence(a) /\ PristineRelease!2!(a)!2
    BY <1>5 DEF PristineRelease
  <2>2. pc = "pristineRelease" /\ UNCHANGED <<copy, evidence>>
    BY <1>5 DEF PristineRelease
  <2>3. CASE a = "released"
    BY <2>1, <2>2, <2>3 DEF ReleaseFence, Rollback, StopWith, Enter
  <2>4. CASE a = "refused"
    BY <2>1, <2>2, <2>4 DEF ReleaseFence, Rollback, StopWith, Enter
  <2>5. CASE a \in {"releasedUnproved", "releaseUnknown"}
    BY <2>1, <2>2, <2>5 DEF ReleaseFence, Rollback, StopWith, Enter
  <2> QED
    BY <2>1, <2>3, <2>4, <2>5 DEF Answers
<1>6. CASE PristineRecord
  <2>1. pc = "pristineRecord" /\ UNCHANGED <<sessions, copy>>
    BY <1>6 DEF PristineRecord
  <2>2. CASE /\ Publish("pristine") /\ NoIncident /\ UNCHANGED holding
             /\ pc' = "closing" /\ said' = "refused"
    <3>1. TypeOK'
      BY <2>1, <2>2
    <3>2. CommitLine' /\ FenceLine'
      BY <2>1, <2>2
    <3>3. /\ DispositionLine' /\ RecordLine' /\ AnswerLine'
          /\ HoldKnowsTheTruth'
      BY <2>1, <2>2
    <3> QED
      BY <3>1, <3>2, <3>3
  <2>3. CASE Incident /\ StopWith("released") /\ UNCHANGED evidence
    <3>1. TypeOK'
      BY <2>1, <2>3 DEF StopWith, Enter
    <3>2. CommitLine' /\ FenceLine'
      BY <2>1, <2>3 DEF StopWith, Enter
    <3>3. /\ DispositionLine' /\ RecordLine' /\ AnswerLine'
          /\ HoldKnowsTheTruth'
      BY <2>1, <2>3 DEF StopWith, Enter
    <3> QED
      BY <3>1, <3>2, <3>3
  <2> QED
    BY <1>6, <2>2, <2>3 DEF PristineRecord
<1> QED
  BY <1>1, <1>2, <1>3, <1>4, <1>5, <1>6 DEF Unknown

(*****************************************************************************)
(* From COMMIT to the proved release: the target holds the copy, and the     *)
(* fence is whole or gone until a release is proved.                         *)
(*****************************************************************************)
LEMMA CommittedKeeps == IInv /\ Committed => IInv'
<1> SUFFICES ASSUME IInv, Committed PROVE IInv'
  OBVIOUS
<1> USE MaxWritesNat, MaxIncidentsNat, LateCommitBoolean
        DEF IInv, TypeOK, CommitLine, FenceLine, DispositionLine, RecordLine,
            AnswerLine, HoldKnowsTheTruth, Steps, Preparing, Copying, Settling, Proving, Holding,
            Fenced, AfterPristine, Running, HoldStates, Actions, Unsettled,
            None, NoManifest, Goto, Incident, NoIncident, Blame, Proof,
            Publish, evidence, holding, sessions
<1>1. CASE EndSnapshot
  BY <1>1 DEF EndSnapshot
<1>2. CASE BeginVerification
  BY <1>2 DEF BeginVerification
<1>3. CASE EndVerification
  BY <1>3 DEF EndVerification
<1>4. CASE ReleaseGate
  BY <1>4 DEF ReleaseGate
<1>5. CASE Authorize
  BY <1>5 DEF Authorize
<1>6. CASE ProvingStops
  <2>1. Stop /\ UNCHANGED <<sessions, copy>> /\ pc \in Proving
    BY <1>6 DEF ProvingStops
  <2>2. PICK s \in HoldStates :
           /\ StopWith(s) /\ BestEffort("stopped")
           /\ s \in {"released", "releasedUnproved", "notHeld"}
                => fence \notin {"held", "partial"}
    BY <2>1 DEF Stop, ProvenState
  <2>3. incidents' \in 0..MaxIncidents
    BY <1>6 DEF ProvingStops
  <2>4. /\ pc' = "hold" /\ said' = "committed" /\ hold' = s
        /\ action' = None /\ intent' = None
        /\ disk' \in {disk, disk \cup {"stopped"}}
        /\ UNCHANGED <<manifest, verdict>>
    BY <2>2 DEF StopWith, Enter, BestEffort
  <2>5. TypeOK'
    BY <2>1, <2>3, <2>4
  <2>6. HoldKnowsTheTruth'
    BY <2>1, <2>2, <2>4
  <2>7. CommitLine' /\ FenceLine' /\ DispositionLine' /\ AnswerLine'
    BY <2>1, <2>4
  <2>8. RecordLine'
    BY <2>1, <2>4
  <2> QED
    BY <2>5, <2>6, <2>7, <2>8
<1>7. CASE Release
  <2>1. PICK a \in Answers : ReleaseFence(a) /\ Release!2!(a)!2
    BY <1>7 DEF Release
  <2>2. pc = "release" /\ UNCHANGED copy
    BY <1>7 DEF Release
  <2>3. CASE a = "released"
    <3>1. /\ fence' = "idle" /\ fence \in {"held", "dead"} /\ pc' = "outcome"
          /\ UNCHANGED <<prover, source, empty, copy, evidence, said, holding,
                         incidents>>
      BY <2>1, <2>2, <2>3 DEF ReleaseFence, Rollback
    <3> QED
      BY <2>2, <3>1
  <2>4. CASE a # "released"
    <3>1. PICK s \in HoldStates :
             /\ StopWith(s) /\ BestEffort("stopped")
             /\ s \in {"released", "releasedUnproved", "notHeld"}
                  => fence' \notin {"held", "partial"}
      <4>1. CASE a = "refused"
        BY <2>1, <2>2, <4>1 DEF Stop, ProvenState, ReleaseFence, Rollback
      <4>2. CASE a # "refused"
        BY <2>1, <2>2, <2>4, <4>2 DEF Answers, ReleaseFence, Rollback
      <4> QED
        BY <4>1, <4>2
    <3>2. /\ incidents' \in 0..MaxIncidents
          /\ fence' \in {"idle", "held", "dead"}
          /\ fence' = "held" => fence = "held"
          /\ UNCHANGED <<prover, source, empty>>
      BY <2>1, <2>2 DEF ReleaseFence, Rollback
    <3> QED
      BY <2>2, <3>1, <3>2 DEF StopWith, Enter, BestEffort
  <2> QED
    BY <2>3, <2>4
<1>8. CASE PublishOutcome
  <2>1. pc = "outcome" /\ UNCHANGED <<sessions, copy>>
    BY <1>8 DEF PublishOutcome
  <2>2. CASE /\ Publish("outcome") /\ NoIncident /\ UNCHANGED holding
             /\ pc' = "closing" /\ said' = "verified"
    <3>1. TypeOK'
      BY <2>1, <2>2
    <3>2. CommitLine' /\ FenceLine'
      BY <2>1, <2>2
    <3>3. /\ DispositionLine' /\ RecordLine' /\ AnswerLine'
          /\ HoldKnowsTheTruth'
      BY <2>1, <2>2
    <3> QED
      BY <3>1, <3>2, <3>3
  <2>3. CASE Incident /\ StopWith("released") /\ UNCHANGED evidence
    <3>1. TypeOK'
      BY <2>1, <2>3 DEF StopWith, Enter
    <3>2. CommitLine' /\ FenceLine'
      BY <2>1, <2>3 DEF StopWith, Enter
    <3>3. /\ DispositionLine' /\ RecordLine' /\ AnswerLine'
          /\ HoldKnowsTheTruth'
      BY <2>1, <2>3 DEF StopWith, Enter
    <3> QED
      BY <3>1, <3>2, <3>3
  <2> QED
    BY <1>8, <2>2, <2>3 DEF PublishOutcome
<1>9. CASE Close
  <2>1. /\ pc = "closing" /\ pc' = "done"
        /\ fence' = "dead" /\ prover' \in BOOLEAN
        /\ UNCHANGED <<source, empty, copy, evidence, said, holding, incidents>>
    BY <1>9 DEF Close
  <2> QED
    BY <2>1
<1> QED
  BY <1>1, <1>2, <1>3, <1>4, <1>5, <1>6, <1>7, <1>8, <1>9 DEF Committed

(*****************************************************************************)
(* The hold: an intent precedes its operation, and no fence is taken again.  *)
(*****************************************************************************)
LEMMA HeldKeeps == IInv /\ Held => IInv'
<1> SUFFICES ASSUME IInv, Held PROVE IInv'
  OBVIOUS
<1> USE MaxWritesNat, MaxIncidentsNat, LateCommitBoolean
        DEF IInv, TypeOK, CommitLine, FenceLine, DispositionLine, RecordLine,
            AnswerLine, HoldKnowsTheTruth, Steps, Preparing, Copying, Settling, Proving, Holding,
            Fenced, AfterPristine, Running, HoldStates, Actions, Unsettled,
            None, NoManifest, Goto, Incident, NoIncident, Blame, Proof,
            Publish, evidence, holding, sessions
<1>1. CASE HoldUndecided
  BY <1>1 DEF HoldUndecided
<1>2. CASE HoldIntent
  BY <1>2 DEF HoldIntent
<1>3. CASE HoldPerform
  <2>1. /\ pc = "perform" /\ pc' = "record"
        /\ UNCHANGED <<copy, evidence, said, action, intent>>
    BY <1>3 DEF HoldPerform
  <2>2. /\ hold' \in HoldStates
        /\ incidents' \in 0..MaxIncidents
        /\ fence' \in {fence, "idle", "dead"}
        /\ hold' \in {"released", "releasedUnproved", "notHeld"}
             => fence' \notin {"held", "partial"}
        /\ UNCHANGED <<prover, source, empty>>
    <3>1. CASE LookOnly
      BY <2>1, <3>1 DEF LookOnly, Census, Counted, Uncounted
    <3>2. CASE Terminate
      BY <2>1, <3>2 DEF Terminate, Counted, Uncounted
    <3>3. CASE Regate
      BY <2>1, <3>3 DEF Regate, Census, Counted, Uncounted, ReleaseFence, Rollback
    <3> QED
      BY <1>3, <3>1, <3>2, <3>3 DEF HoldPerform
  <2> QED
    BY <2>1, <2>2
<1>4. CASE HoldRecord
  <2>1. /\ pc = "record" /\ pc' \in {"hold", "closing"}
        /\ pc' = "closing" => hold = "released"
        /\ Publish("resolution")
        /\ UNCHANGED <<sessions, copy, said, holding, incidents>>
    BY <1>4 DEF HoldRecord
  <2> QED
    BY <2>1
<1> QED
  BY <1>1, <1>2, <1>3, <1>4 DEF Held

(*****************************************************************************)
(* The environment: what the server, other writers, lost sessions and a kill *)
(* do.                                                                       *)
(*****************************************************************************)
LEMMA EnvironmentKeeps == IInv /\ Environment => IInv'
<1> SUFFICES ASSUME IInv, Environment PROVE IInv'
  OBVIOUS
<1> USE MaxWritesNat, MaxIncidentsNat, LateCommitBoolean
        DEF IInv, TypeOK, CommitLine, FenceLine, DispositionLine, RecordLine,
            AnswerLine, HoldKnowsTheTruth, Steps, Preparing, Copying, Settling, Proving, Holding,
            Fenced, AfterPristine, Running, HoldStates, Actions, Unsettled,
            None, NoManifest, Goto, Incident, NoIncident, Blame, Proof,
            Publish, evidence, holding, sessions
<1>1. CASE Settle
  BY <1>1 DEF Settle
<1>2. CASE Write
  <2>1. source' \in 0..MaxWrites
    BY <1>2 DEF Write
  <2>2. /\ fence # "held"
        /\ UNCHANGED <<pc, fence, prover, empty, copy, evidence, said, holding,
                       incidents>>
    BY <1>2 DEF Write
  <2> QED
    BY <2>1, <2>2
<1>3. CASE LoseSession
  <2>1. CASE fence' = "dead" /\ UNCHANGED prover
    BY <1>3, <2>1 DEF LoseSession
  <2>2. CASE UNCHANGED fence
    <3>1. prover' \in BOOLEAN
      BY <1>3 DEF LoseSession
    <3>2. incidents' \in 0..MaxIncidents
      BY <1>3 DEF LoseSession
    <3>3. UNCHANGED <<pc, source, empty, copy, evidence, said, holding>>
      BY <1>3 DEF LoseSession
    <3> QED
      BY <2>2, <3>1, <3>2, <3>3
  <2> QED
    BY <1>3, <2>1, <2>2 DEF LoseSession
<1>4. CASE Crash
  <2>1. /\ pc' = "crashed" /\ fence' = "dead" /\ prover' = FALSE
        /\ UNCHANGED <<source, empty, evidence, said, holding>>
    BY <1>4 DEF Crash
  <2>2. copy' \in {None, copy} /\ copy' # "open"
    BY <1>4 DEF Crash
  <2>3. incidents' \in 0..MaxIncidents
    BY <1>4 DEF Crash
  <2>4. prover' \in BOOLEAN
    BY <2>1
  <2> QED
    BY <2>1, <2>2, <2>3, <2>4
<1> QED
  BY <1>1, <1>2, <1>3, <1>4 DEF Environment

(***************************************************************************)
(* Choosing an operation puts it before the intent, and changes nothing    *)
(* else.                                                                   *)
(***************************************************************************)
LEMMA DecideKeeps == IInv /\ (\E a \in Actions : HoldDecide(a)) => IInv'
<1> SUFFICES ASSUME IInv, NEW a \in Actions, HoldDecide(a) PROVE IInv'
  OBVIOUS
<1> USE MaxWritesNat, MaxIncidentsNat
        DEF IInv, TypeOK, CommitLine, FenceLine, DispositionLine, RecordLine,
            AnswerLine, HoldKnowsTheTruth, Steps, Preparing, Copying, Settling,
            Proving, Holding, Fenced, AfterPristine, None, NoManifest
<1> QED
  BY DEF HoldDecide, Goto, NoIncident, sessions, evidence

LEMMA NextInvariant == IInv /\ [Next]_vars => IInv'
<1>1. IInv /\ Next => IInv'
  BY Stage1Keeps, Stage2Keeps, UnknownKeeps, CommittedKeeps, HeldKeeps,
     EnvironmentKeeps, DecideKeeps DEF Next, Program
<1>2. IInv /\ UNCHANGED vars => IInv'
  BY DEF vars, IInv, TypeOK, CommitLine, FenceLine, DispositionLine, RecordLine,
         AnswerLine, HoldKnowsTheTruth
<1> QED
  BY <1>1, <1>2

(***************************************************************************)
(* The run's inductive invariant, for any number of writes to the source   *)
(* and of incidents.                                                       *)
(***************************************************************************)
THEOREM Invariance == Spec => []IInv
BY InitInvariant, NextInvariant, PTL DEF Spec

(***************************************************************************)
(* A retry is permitted on disk only when the target is untouched for      *)
(* good, if no COMMIT arrives after the target has been looked at.         *)
(***************************************************************************)
THEOREM RetriesAreSafe == ~LateCommit => (Spec => []RetryIsSafe)
<1> SUFFICES ASSUME ~LateCommit PROVE Spec => []RetryIsSafe
  OBVIOUS
<1>1. IInv => RetryIsSafe
  BY DEF IInv, RecordLine, DispositionLine, RetryIsSafe
<1> QED
  BY <1>1, Invariance, PTL

(***************************************************************************)
(* What a hold says of a fence that is gone is true.                       *)
(***************************************************************************)
THEOREM HoldsAreTruthful == Spec => []HoldKnowsTheTruth
<1>1. IInv => HoldKnowsTheTruth
  BY DEF IInv
<1> QED
  BY <1>1, Invariance, PTL

(***************************************************************************)
(* A refusal that says the release was proved (pg-copy-ops.ts:5062-5074,   *)
(* :5091) left the source open for writers.  The one that undoes a bundle  *)
(* or the producers says so without a ROLLBACK and is excepted.            *)
(***************************************************************************)
THEOREM RefusalsAreReleases == Spec => []RefusalProvesRelease
<1>1. IInv => RefusalProvesRelease
  BY DEF IInv, AnswerLine, RefusalProvesRelease
<1> QED
  BY <1>1, Invariance, PTL

(***************************************************************************)
(* When the release of a copy is proved the source is still what the       *)
(* manifest says, and the target holds it.                                 *)
(***************************************************************************)
THEOREM SourceStandsStill == Spec => SourceStoodStill
<1>1. ASSUME IInv, Next, pc = "release", pc' = "outcome"
      PROVE  source = manifest /\ copy = "landed"
  <2>1. copy = "landed" /\ manifest # NoManifest /\ fence \in {"held", "dead"}
    BY <1>1 DEF IInv, CommitLine, FenceLine, Proving, Fenced
  <2>2. Release
    BY <1>1 DEF Next, Program, Environment, Stage1, Stage2, Unknown, Committed,
         Held, Goto, Acquire, Export, PublishManifest, Inspect, Confirm, GiveUp,
         ReleaseOrHold, ReadBundle, AssertQuiescent, RefuseBundle,
         LoseStageSource, CopyTables, ReproveSource, FailBeforeCommit, Submit,
         Acknowledged, CommitUnknown, Classify, PublishDisposition,
         PristineGate, SettlingStops, PristineRelease, PristineRecord,
         EndSnapshot, BeginVerification, EndVerification, ReleaseGate,
         Authorize, ProvingStops, PublishOutcome, Close, HoldUndecided,
         HoldIntent, HoldPerform, HoldRecord, HoldDecide, Settle, Write,
         LoseSession, Crash, Preparing
  <2>3. fence # "dead"
    BY <1>1, <2>2 DEF Release, ReleaseFence, Rollback, Stop, StopWith, Answers
  <2> QED
    BY <1>1, <2>1, <2>3 DEF IInv, FenceLine
<1>2. IInv /\ [Next]_vars
        => [pc = "release" /\ pc' = "outcome"
              => source = manifest /\ copy = "landed"]_vars
  BY <1>1 DEF vars
<1> QED
  BY <1>2, Invariance, PTL DEF Spec, SourceStoodStill

(***************************************************************************)
(* Who can end a whole fence: the two ROLLBACKs before a copy, the         *)
(* release of a pristine target, the authorized release, the end of the    *)
(* process, an operation of a hold, or the loss of the session.            *)
(***************************************************************************)
LEMMA FenceEnders ==
  ASSUME Next, fence = "held", fence' # "held", pc' \notin {pc, "crashed"}
  PROVE  ReleaseOrHold \/ PristineRelease \/ Release \/ Close \/ HoldPerform
BY DEF Next, Program, Environment, Stage1, Stage2, Unknown, Committed, Held,
     Goto, sessions, Acquire, Export, PublishManifest, Inspect, Confirm, GiveUp,
     ReadBundle, AssertQuiescent, RefuseBundle, LoseStageSource, CopyTables,
     ReproveSource, FailBeforeCommit, Submit, Acknowledged, CommitUnknown,
     Classify, PublishDisposition, PristineGate, SettlingStops, PristineRecord,
     EndSnapshot, BeginVerification, EndVerification, ReleaseGate, Authorize,
     ProvingStops, PublishOutcome, HoldUndecided, HoldIntent, HoldRecord,
     HoldDecide, Settle, Write, LoseSession, Crash

(***************************************************************************)
(* The fence over a committed copy is ended on a published authorization   *)
(* or a published intent.                                                  *)
(***************************************************************************)
THEOREM FencesEndOnRecord == ~LateCommit => (Spec => FenceEndsOnRecord)
<1> SUFFICES ASSUME ~LateCommit PROVE Spec => FenceEndsOnRecord
  OBVIOUS
<1>1. ASSUME IInv, Next, fence = "held", fence' # "held", copy = "landed",
             pc' \notin {pc, "crashed"}
      PROVE  "gate" \in disk \/ intent # None
  <2>1. CASE ReleaseOrHold
    BY <1>1, <2>1 DEF ReleaseOrHold, IInv, CommitLine, Preparing, None
  <2>2. CASE PristineRelease
    BY <1>1, <2>2 DEF PristineRelease, IInv, DispositionLine, AfterPristine, None
  <2>3. CASE Release
    BY <1>1, <2>3 DEF Release, IInv, RecordLine
  <2>4. CASE Close
    BY <1>1, <2>4 DEF Close, Goto, IInv, FenceLine, None
  <2>5. CASE HoldPerform
    BY <1>1, <2>5 DEF HoldPerform, Goto, IInv, RecordLine, Actions, Unsettled, None
  <2> QED
    BY <1>1, <2>1, <2>2, <2>3, <2>4, <2>5, FenceEnders
<1>2. IInv /\ [Next]_vars
        => [ fence = "held" /\ fence' # "held" /\ copy = "landed"
             /\ pc' \notin {pc, "crashed"}
               => "gate" \in disk \/ intent # None ]_vars
  BY <1>1
<1> QED
  BY <1>2, Invariance, PTL DEF Spec, FenceEndsOnRecord

(***************************************************************************)
(* What a step does to the target and to what has been said.               *)
(***************************************************************************)
Quiet ==
    /\ copy' = "landed" <=> copy = "landed"
    /\ said' = said
Lands ==
    /\ said = "nothing" /\ said' = said
    /\ copy' = "landed"
Concludes ==
    /\ said = "nothing"
    /\ copy' = copy
    /\ \/ said' \in {"committed", "stopped"}
       \/ said' \in {"refused", "refusedEarly"} /\ copy # "landed"
       \/ said' = "verified" /\ copy = "landed"

LEMMA StepsAnswerOnce ==
  ASSUME ~LateCommit, IInv, Next
  PROVE  Quiet \/ Lands \/ Concludes
<1> USE DEF IInv, CommitLine, DispositionLine, AnswerLine, Preparing, Copying,
            Settling, Proving, AfterPristine, None, Goto, Enter, StopWith
<1>1. CASE Stage1
  BY <1>1 DEF Stage1, Acquire, Export, PublishManifest, Inspect, Confirm, GiveUp,
       ReleaseOrHold, Quiet, Concludes
<1>2. CASE Stage2
  BY <1>2 DEF Stage2, ReadBundle, AssertQuiescent, RefuseBundle, LoseStageSource,
       CopyTables, ReproveSource, FailBeforeCommit, Submit, Acknowledged,
       CommitUnknown, Quiet, Concludes
<1>3. CASE Unknown
  BY <1>3 DEF Unknown, Classify, PublishDisposition, PristineGate, SettlingStops,
       StopBlind, PristineRelease, PristineRecord, Quiet, Concludes
<1>4. CASE Committed
  BY <1>4 DEF Committed, EndSnapshot, BeginVerification, EndVerification,
       ReleaseGate, Authorize, ProvingStops, Stop, Release, PublishOutcome,
       Close, Quiet, Concludes
<1>5. CASE Held
  BY <1>5 DEF Held, HoldUndecided, HoldIntent, HoldPerform, HoldRecord, Quiet
<1>6. CASE Environment
  BY <1>6 DEF Environment, Settle, Write, LoseSession, Crash, Quiet, Lands
<1>7. CASE \E a \in Actions : HoldDecide(a)
  BY <1>7 DEF HoldDecide, Quiet
<1> QED
  BY <1>1, <1>2, <1>3, <1>4, <1>5, <1>6, <1>7 DEF Next, Program

(***************************************************************************)
(* A run gives one answer, a refusal leaves nothing on the target, and     *)
(* what is verified is there: the run implements the contract.             *)
(***************************************************************************)
THEOREM ImplementsCopyContract == ~LateCommit => (Spec => ImplementsContract)
<1> SUFFICES ASSUME ~LateCommit PROVE Spec => ImplementsContract
  OBVIOUS
<1>1. Init => Contract!Init
  BY DEF Init, Contract!Init, Answered, None
<1>2. ASSUME IInv, [Next]_vars
      PROVE  [Contract!Next]_<<copy = "landed", Answered>>
  <2>1. CASE UNCHANGED vars
    BY <2>1 DEF vars, Answered
  <2>2. CASE Quiet
    BY <2>2 DEF Quiet, Answered
  <2>3. CASE Lands
    BY <2>3 DEF Lands, Answered, Contract!Next, Contract!Land
  <2>4. CASE Concludes
    BY <2>4 DEF Concludes, Answered, Contract!Next, Contract!Answer
  <2> QED
    BY <1>2, <2>1, <2>2, <2>3, <2>4, StepsAnswerOnce
<1> QED
  BY <1>1, <1>2, Invariance, PTL DEF Spec, ImplementsContract, Contract!Spec

=============================================================================
