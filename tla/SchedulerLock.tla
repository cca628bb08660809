---------------------------- MODULE SchedulerLock ----------------------------
(***************************************************************************)
(* The submission lock of scripts/daily-scheduler.sh, as the file-system   *)
(* protocol the script runs: mkdir of $LOCK, an owner file that signs it,  *)
(* recovery of a dead owner's lock under a second mkdir mutex              *)
(* ($LOCK.recovery), release by `rm -rf`.                                  *)
(*                                                                         *)
(* One action is one system call whose result another process can affect   *)
(* or observe.  `rm -rf $LOCK` is two of them, the owner file and then the *)
(* directory.  A fire may be killed between any two.                       *)
(*                                                                         *)
(* A fire is a run of the script.  `Fires` names slots: a slot is used     *)
(* again by a later run, with a fresh pid and token, once nothing on disk  *)
(* or in a live fire's memory mentions the earlier one.  So a slot that is *)
(* "down" and still recorded somewhere is the pid of a dead process, and   *)
(* pid reuse (which the script accepts as improbable) is not modelled.     *)
(***************************************************************************)
EXTENDS Naturals

CONSTANTS
    Fires,       \* scheduler processes that may overlap
    NoOwner,     \* $LOCK/owner does not exist
    Garbage,     \* $LOCK/owner exists and holds no pid
    Suspends,    \* may the host sleep for LOCK_STALE_AFTER_S in mid-decision?
    MaxCrashes   \* bound on the number of kills

ASSUME OwnersDistinct == NoOwner \notin Fires /\ Garbage \notin Fires
ASSUME SuspendsBoolean == Suspends \in BOOLEAN
ASSUME MaxCrashesNat == MaxCrashes \in Nat

VARIABLES
    pc,          \* where each fire is
    lockDir,     \* does $LOCK exist?
    owner,       \* what $LOCK/owner holds
    aged,        \* is the mtime of $LOCK at least LOCK_STALE_AFTER_S old?
    guard,       \* does $LOCK.recovery exist?
    recovering,  \* fires that created $LOCK.recovery and have not removed it
    seen,        \* the owner each recovering fire has read
    crashes

vars == <<pc, lockDir, owner, aged, guard, recovering, seen, crashes>>
disk == <<lockDir, owner, aged>>
recovery == <<guard, recovering>>

Owners == Fires \cup {NoOwner, Garbage}

\* Steps inside recovery_decision, all taken by the guard's creator.
Deciding == {"check", "remkdir", "readOwner", "ps", "stat", "claim",
             "unguard", "unguardHeld"}
\* Steps of a fire that has made the present $LOCK and not yet given it up.
Occupying == {"sign", "unguardHeld", "held", "release", "rmFile", "rmDir"}
Steps == {"down", "mkdir", "guard", "blocked"} \cup Deciding \cup Occupying

Alive(p) == pc[p] # "down"
Occupants == {p \in Fires : pc[p] \in Occupying}

\* acquire_lock has succeeded and release_lock has not begun: the fire has the
\* authority to submit the day's run.
Holders == {p \in Fires : pc[p] \in {"unguardHeld", "held"}}

\* Nobody who is still running created the recovery guard.
GuardAbandoned == guard /\ recovering = {}

Init ==
    /\ pc = [p \in Fires |-> "down"]
    /\ lockDir = FALSE
    /\ owner = NoOwner
    /\ aged = FALSE
    /\ guard = FALSE
    /\ recovering = {}
    /\ seen = [p \in Fires |-> NoOwner]
    /\ crashes = 0

Goto(p, label) == pc' = [pc EXCEPT ![p] = label]

-----------------------------------------------------------------------------
(* Acquisition *)

\* launchd, or a person, starts an eligible fire: a new process, whose pid and
\* token no file and no other fire remembers.
Start(p) ==
    /\ pc[p] = "down"
    /\ owner # p
    /\ \A q \in Fires : seen[q] # p
    /\ Goto(p, "mkdir")
    /\ UNCHANGED <<disk, recovery, seen, crashes>>

\* A mutant: mkdir -p, which succeeds on a lock that exists.
MkdirExisting(p) ==
    /\ pc[p] \in {"mkdir", "remkdir"}
    /\ lockDir' = TRUE
    /\ Goto(p, "sign")
    /\ UNCHANGED <<owner, aged, recovery, seen, crashes>>

\* mkdir "$LOCK": the first attempt, the attempt on a lock found missing under
\* the guard, and the replacement of a claimed lock.
Mkdir(p) ==
    /\ pc[p] \in {"mkdir", "remkdir"}
    /\ \/ /\ ~lockDir
          /\ lockDir' = TRUE
          /\ owner' = NoOwner
          /\ aged' = FALSE
          /\ Goto(p, "sign")
       \/ /\ lockDir
          /\ Goto(p, IF pc[p] = "mkdir" THEN "guard" ELSE "unguard")
          /\ UNCHANGED disk
    /\ UNCHANGED <<recovery, seen, crashes>>

\* record_owner: write pid and token, read both back.
Sign(p) ==
    /\ pc[p] = "sign"
    /\ owner' = p
    /\ aged' = FALSE
    /\ Goto(p, IF p \in recovering THEN "unguardHeld" ELSE "held")
    /\ UNCHANGED <<lockDir, recovery, seen, crashes>>

\* record_owner could not write the file, or wrote something else: a lock that
\* cannot be signed is given up.
SignFails(p) ==
    /\ pc[p] = "sign"
    /\ \/ UNCHANGED disk
       \/ owner' = Garbage /\ aged' = FALSE /\ UNCHANGED lockDir
    /\ Goto(p, "rmFile")
    /\ UNCHANGED <<recovery, seen, crashes>>

-----------------------------------------------------------------------------
(* Recovery *)

\* mkdir "$LOCK.recovery"; failing is the distinct outcome 3.
TakeGuard(p) ==
    /\ pc[p] = "guard"
    /\ \/ /\ ~guard
          /\ guard' = TRUE
          /\ recovering' = recovering \cup {p}
          /\ Goto(p, "check")
       \/ /\ guard
          /\ Goto(p, "blocked")
          /\ UNCHANGED recovery
    /\ UNCHANGED <<disk, seen, crashes>>

\* A mutant: the blocked fire tidies the guard away.
ReportBlockedTidily(p) ==
    /\ pc[p] = "blocked"
    /\ guard' = FALSE
    /\ Goto(p, "down")
    /\ UNCHANGED <<disk, recovering, seen, crashes>>

\* The caller reports the blocked guard and exits 3.
ReportBlocked(p) ==
    /\ pc[p] = "blocked"
    /\ Goto(p, "down")
    /\ UNCHANGED <<disk, recovery, seen, crashes>>

\* [ ! -d "$LOCK" ]
CheckLock(p) ==
    /\ pc[p] = "check"
    /\ Goto(p, IF lockDir THEN "readOwner" ELSE "remkdir")
    /\ UNCHANGED <<disk, recovery, seen, crashes>>

\* A mutant: a lock without a name is nobody's, and goes on to the age.
ReadOwnerOrNobody(p) ==
    /\ pc[p] = "readOwner"
    /\ IF lockDir /\ owner \in Fires
       THEN seen' = [seen EXCEPT ![p] = owner] /\ Goto(p, "ps")
       ELSE Goto(p, "stat") /\ UNCHANGED seen
    /\ UNCHANGED <<disk, recovery, crashes>>

\* The owner is read again under the guard.  No owner file and an unreadable
\* one end the attempt: owner_state says ownerless or malformed.
ReadOwner(p) ==
    /\ pc[p] = "readOwner"
    /\ \/ /\ lockDir /\ owner \in Fires
          /\ seen' = [seen EXCEPT ![p] = owner]
          /\ Goto(p, "ps")
       \/ /\ ~(lockDir /\ owner \in Fires)
          /\ Goto(p, "unguard")
          /\ UNCHANGED seen
    /\ UNCHANGED <<disk, recovery, crashes>>

\* A mutant: the exit status of ps is read the wrong way round.
PsInverted(p) ==
    /\ pc[p] = "ps"
    /\ IF Alive(seen[p])
       THEN Goto(p, "stat") /\ UNCHANGED seen
       ELSE Goto(p, "unguard") /\ seen' = [seen EXCEPT ![p] = NoOwner]
    /\ UNCHANGED <<disk, recovery, crashes>>

\* ps answers: alive ends the attempt, dead goes on to the age.
PsAnswers(p) ==
    /\ pc[p] = "ps"
    /\ IF Alive(seen[p])
       THEN Goto(p, "unguard") /\ seen' = [seen EXCEPT ![p] = NoOwner]
       ELSE Goto(p, "stat") /\ UNCHANGED seen
    /\ UNCHANGED <<disk, recovery, crashes>>

\* A mutant: what ps cannot tell is dead.
PsUnknownIsDead(p) ==
    /\ pc[p] = "ps"
    /\ Goto(p, "stat")
    /\ UNCHANGED <<disk, recovery, seen, crashes>>

\* ps is missing or refuses: unknown, which is never dead.
PsUnknown(p) ==
    /\ pc[p] = "ps"
    /\ Goto(p, "unguard")
    /\ seen' = [seen EXCEPT ![p] = NoOwner]
    /\ UNCHANGED <<disk, recovery, crashes>>

\* A mutant: the age of the lock is not looked at.
StatIgnoresAge(p) ==
    /\ pc[p] = "stat"
    /\ Goto(p, "claim")
    /\ UNCHANGED <<disk, recovery, seen, crashes>>

\* lock_dir_age_s, which is 0 for a directory that is gone, against the
\* threshold.
Stat(p) ==
    /\ pc[p] = "stat"
    /\ IF lockDir /\ aged
       THEN Goto(p, "claim") /\ UNCHANGED seen
       ELSE Goto(p, "unguard") /\ seen' = [seen EXCEPT ![p] = NoOwner]
    /\ UNCHANGED <<disk, recovery, crashes>>

\* claim_stale_lock: rename $LOCK to a name only this fire uses.  What happens
\* to the renamed directory afterwards is nobody else's business.
Reclaim(p) ==
    /\ lockDir
    /\ lockDir' = FALSE /\ owner' = NoOwner /\ aged' = FALSE
    /\ Goto(p, "remkdir")

\* The rename fails: the lock is gone, or could not be renamed and stands.
LoseClaim(p) ==
    /\ Goto(p, "unguard")
    /\ UNCHANGED disk

Claim(p) ==
    /\ pc[p] = "claim"
    /\ Reclaim(p) \/ LoseClaim(p)
    /\ seen' = [seen EXCEPT ![p] = NoOwner]
    /\ UNCHANGED <<recovery, crashes>>

\* rmdir "$LOCK.recovery", with or without the lock in hand.
RemoveGuard(p) ==
    /\ pc[p] \in {"unguard", "unguardHeld"}
    /\ guard' = FALSE
    /\ recovering' = recovering \ {p}
    /\ Goto(p, IF pc[p] = "unguardHeld" THEN "held" ELSE "down")
    /\ UNCHANGED <<disk, seen, crashes>>

-----------------------------------------------------------------------------
(* Submission and release *)

\* The work done under the lock (DailyScheduler models it) is over and the EXIT
\* trap runs.
Finish(p) ==
    /\ pc[p] = "held"
    /\ Goto(p, "release")
    /\ UNCHANGED <<disk, recovery, seen, crashes>>

\* release_lock compares the recorded token with its own.
Release(p) ==
    /\ pc[p] = "release"
    /\ Goto(p, IF lockDir /\ owner = p THEN "rmFile" ELSE "down")
    /\ UNCHANGED <<disk, recovery, seen, crashes>>

\* rm -rf "$LOCK", first half.  Unlinking a file renews the directory's mtime.
RemoveFile(p) ==
    /\ pc[p] = "rmFile"
    /\ owner' = NoOwner
    /\ aged' = (aged /\ owner = NoOwner)
    /\ Goto(p, "rmDir")
    /\ UNCHANGED <<lockDir, recovery, seen, crashes>>

\* rm -rf "$LOCK", second half: the path by name, whoever made it, unless a file
\* is in it again.
RemoveDir(p) ==
    /\ pc[p] = "rmDir"
    /\ lockDir' = (lockDir /\ owner # NoOwner)
    /\ aged' = (aged /\ lockDir')
    /\ Goto(p, IF p \in recovering THEN "unguard" ELSE "down")
    /\ UNCHANGED <<owner, recovery, seen, crashes>>

-----------------------------------------------------------------------------
(* Environment *)

\* SIGKILL, panic or power loss: what is on disk stays there.
Crash(p) ==
    /\ Alive(p)
    /\ crashes < MaxCrashes
    /\ crashes' = crashes + 1
    /\ Goto(p, "down")
    /\ recovering' = recovering \ {p}
    /\ seen' = [seen EXCEPT ![p] = NoOwner]
    /\ UNCHANGED <<disk, guard>>

\* LOCK_STALE_AFTER_S pass without a change in $LOCK.  They do not pass between
\* a recoverer's reading of the owner and its reading of the age, which are
\* milliseconds apart, unless the host can be suspended there.
Age ==
    /\ lockDir /\ ~aged
    /\ Suspends \/ \A p \in Fires : pc[p] \notin {"ps", "stat"}
    /\ aged' = TRUE
    /\ UNCHANGED <<pc, lockDir, owner, recovery, seen, crashes>>

\* The operator's remedy, in the order the log gives: no scheduler process is
\* running, then the guard, or a lock nobody signed, is removed by hand.
OperatorClears ==
    /\ \A p \in Fires : ~Alive(p)
    /\ \/ guard /\ guard' = FALSE /\ UNCHANGED disk
       \/ /\ lockDir /\ owner \notin Fires
          /\ lockDir' = FALSE /\ owner' = NoOwner /\ aged' = FALSE
          /\ UNCHANGED guard
    /\ UNCHANGED <<pc, recovering, seen, crashes>>

Step(p) ==
    \/ Mkdir(p) \/ Sign(p) \/ SignFails(p)
    \/ TakeGuard(p) \/ ReportBlocked(p) \/ CheckLock(p) \/ ReadOwner(p)
    \/ PsAnswers(p) \/ PsUnknown(p) \/ Stat(p) \/ Claim(p) \/ RemoveGuard(p)
    \/ Finish(p) \/ Release(p) \/ RemoveFile(p) \/ RemoveDir(p)

Next ==
    \/ \E p \in Fires : Start(p) \/ Step(p) \/ Crash(p)
    \/ Age
    \/ OperatorClears

Spec == Init /\ [][Next]_vars

\* A running fire keeps running, launchd keeps firing every StartInterval, time
\* passes, and neither ps nor the rename of a lock fails for ever.  Nothing is
\* asked of the operator.
Fairness ==
    /\ \A p \in Fires : WF_vars(Step(p)) /\ WF_vars(Start(p))
    /\ SF_vars(Age)
    /\ SF_vars(\E p \in Fires : PsAnswers(p))
    /\ SF_vars(\E p \in Fires : Claim(p) /\ Reclaim(p))

FairSpec == Spec /\ Fairness

-----------------------------------------------------------------------------
(* Properties *)

TypeOK ==
    /\ pc \in [Fires -> Steps]
    /\ lockDir \in BOOLEAN
    /\ owner \in Owners
    /\ aged \in BOOLEAN
    /\ guard \in BOOLEAN
    /\ recovering \in SUBSET Fires
    /\ seen \in [Fires -> Fires \cup {NoOwner}]
    /\ crashes \in 0..MaxCrashes

\* Two fires never both believe they may submit (daily-scheduler.sh:313-315: "Two
\* schedulers then believed they held it, which is precisely the duplicate
\* daily run the lock exists to prevent").
MutualExclusion == \A p, q \in Holders : p = q

\* A fire that is running between its mkdir and its rmdir stands in its own
\* lock: the directory is there and no other fire has signed it
\* (daily-scheduler.sh:205, "a LIVE owner is never displaced").
OccupantKeepsLock ==
    \A p \in Occupants : lockDir /\ owner \in {p, NoOwner, Garbage}

\* Recovery takes only a lock whose recorded owner is dead, and only once it is
\* old: a nameless lock is never taken, however old it is
\* (daily-scheduler.sh:371-379).
RecoveryNeedsProofOfDeath ==
    [][\A p \in Fires :
          (pc[p] = "claim" /\ lockDir /\ ~lockDir')
             => owner \in Fires /\ ~Alive(owner) /\ aged]_vars

\* A lock that nobody signed leaves the disk only by the hand of the live fire
\* that made it, or of the operator once no fire is running: nobody else's
\* clean-up ever reaches it.
NamelessLockIsLeftAlone ==
    [][(lockDir /\ owner \notin Fires /\ ~lockDir')
          => \/ \E p \in Fires : pc[p] = "rmDir" /\ pc'[p] # "rmDir"
             \/ \A p \in Fires : ~Alive(p)]_vars

\* A lock left by a killed fire that had signed it does not wedge the scheduler:
\* a later fire takes it away, unless another was killed holding the recovery
\* guard (daily-scheduler.sh:196-200).
DeadOwnersLockIsRecovered ==
    \A p \in Fires :
        (lockDir /\ owner = p /\ ~Alive(p))
            ~> (GuardAbandoned \/ ~(lockDir /\ owner = p /\ ~Alive(p)))

\* The lock implements the abstract authority.
Authority == INSTANCE SubmitAuthority WITH holders <- Holders
ImplementsAuthority == Authority!Spec

-----------------------------------------------------------------------------
(* The inductive invariant *)

\* The guard is a mutex: its creator is the one fire inside recovery_decision.
GuardInv ==
    /\ recovering # {} => guard
    /\ \A p, q \in recovering : p = q
    /\ \A p \in Fires : pc[p] \in Deciding => p \in recovering
    /\ \A p \in recovering :
          pc[p] \in Deciding \cup {"sign", "rmFile", "rmDir"}

\* mkdir of $LOCK is a mutex among the running: one fire at a time stands in it,
\* and what the owner file says depends only on where that fire is.
OccupantInv ==
    /\ \A p, q \in Occupants : p = q
    /\ \A p \in Occupants :
          /\ lockDir
          /\ pc[p] \in {"sign", "rmDir"} => owner = NoOwner
          /\ pc[p] \in {"unguardHeld", "held", "release"} => owner = p
          /\ pc[p] = "rmFile" => owner \in {p, NoOwner, Garbage}

\* What a recoverer has read stays good until it acts: a lock old enough to be
\* claimed is still the lock of the owner it read.
EvidenceInv ==
    /\ \A p \in Fires : seen[p] # NoOwner <=> pc[p] \in {"ps", "stat", "claim"}
    /\ \A p \in Fires :
          pc[p] \in {"ps", "stat"} /\ lockDir /\ aged
             => owner = seen[p] /\ Occupants \subseteq {seen[p]}
    /\ \A p \in Fires : pc[p] \in {"stat", "claim"} => ~Alive(seen[p])
    /\ \A p \in Fires :
          pc[p] = "claim" => lockDir /\ aged /\ owner = seen[p] /\ Occupants = {}

IInv == TypeOK /\ GuardInv /\ OccupantInv /\ EvidenceInv

=============================================================================
