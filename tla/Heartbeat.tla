------------------------------ MODULE Heartbeat ------------------------------
(***************************************************************************)
(* heartbeat_record of scripts/heartbeat.sh, which the daily scheduler and *)
(* the watchdog both call: append a record to one file and trim it, as a   *)
(* transaction under a lock made by mkdir, signed with pid and token, and  *)
(* reclaimed from a dead owner under a second mkdir, the recovery guard.   *)
(*                                                                         *)
(* One action is one system call whose result another process can affect   *)
(* or observe.  `Writers` names slots of calls, as in SchedulerLock: a slot *)
(* is used again, with a fresh pid and token, once nothing remembers it.   *)
(* A call that cannot remove its own lock or guard returns an error and    *)
(* leaves the disk as a kill at that point does, so Crash stands for both. *)
(***************************************************************************)
EXTENDS Naturals, Sequences

CONSTANTS
    Writers,     \* calls of heartbeat_record that may overlap
    NoOwner,     \* $lock/owner does not exist
    Garbage,     \* $lock/owner exists and is not a complete record
    Records,     \* what a line of the file can say
    Retain,      \* HEARTBEAT_RETAIN_LINES
    Attempts,    \* HEARTBEAT_LOCK_TIMEOUT in steps of 0.05 s
    MaxLength,   \* bound on the file: trims may fail without end
    MaxCrashes   \* bound on the number of kills

ASSUME OwnersDistinct == NoOwner \notin Writers /\ Garbage \notin Writers
ASSUME BoundsNat ==
    /\ Retain \in Nat \ {0} /\ Attempts \in Nat \ {0}
    /\ MaxLength \in Nat /\ MaxCrashes \in Nat

VARIABLES
    file,        \* the lines of the heartbeat file
    snapshot,    \* $tmp of each writer
    pc,          \* where each call is
    left,        \* attempts each call has left, while it tries
    lockDir,     \* does $lock exist?
    owner,       \* what $lock/owner holds
    aged,        \* is $lock HEARTBEAT_LOCK_STALE_SECONDS old?
    guard,       \* does $lock.recovery exist?
    recovering,  \* calls that created $lock.recovery and have not removed it
    seen,        \* the owner a recovering call has read, if it is to be trusted
    crashes

log == <<file, snapshot>>
disk == <<lockDir, owner, aged>>
recovery == <<guard, recovering>>
vars == <<log, pc, left, disk, recovery, seen, crashes>>

Deciding == {"check", "classify", "ps", "stat", "claim", "unguard", "unguardStop"}
Transacting == {"append", "tail", "replace", "release"}
\* Steps of a call that has made the present $lock and not yet given it up.
Occupying == {"sign", "rmFile", "rmDir"} \cup Transacting
Steps == {"down", "mkdir", "contend", "guard"} \cup Deciding \cup Occupying

Alive(w) == pc[w] # "down"
Occupants == {w \in Writers : pc[w] \in Occupying}
GuardAbandoned == guard /\ recovering = {}

Newest(f) == IF Len(f) <= Retain THEN f ELSE SubSeq(f, Len(f) - Retain + 1, Len(f))

Init ==
    /\ file = <<>> /\ snapshot = [w \in Writers |-> <<>>]
    /\ pc = [w \in Writers |-> "down"] /\ left = [w \in Writers |-> 0]
    /\ lockDir = FALSE /\ owner = NoOwner /\ aged = FALSE
    /\ guard = FALSE /\ recovering = {}
    /\ seen = [w \in Writers |-> NoOwner]
    /\ crashes = 0

Goto(w, label) == pc' = [pc EXCEPT ![w] = label]

Stop(w) == left' = [left EXCEPT ![w] = 0]

\* The end of an attempt that did not get the lock: the next, or no more.
NextAttempt(w) ==
    \/ left[w] > 1 /\ left' = [left EXCEPT ![w] = @ - 1] /\ Goto(w, "mkdir")
    \/ left[w] <= 1 /\ Stop(w) /\ Goto(w, "down")

-----------------------------------------------------------------------------
\* Acquisition.

Call(w) ==
    /\ pc[w] = "down" /\ owner # w /\ \A v \in Writers : seen[v] # w
    /\ left' = [left EXCEPT ![w] = Attempts]
    /\ Goto(w, "mkdir")
    /\ UNCHANGED <<log, disk, recovery, seen, crashes>>

Mkdir(w) ==
    /\ pc[w] = "mkdir"
    /\ \/ lockDir /\ Goto(w, "contend") /\ UNCHANGED <<left, disk>>
       \/ /\ ~lockDir
          /\ lockDir' = TRUE /\ owner' = NoOwner /\ aged' = FALSE
          /\ Goto(w, "sign") /\ Stop(w)
    /\ UNCHANGED <<log, recovery, seen, crashes>>

\* _heartbeat_record_owner; a record that is not read back whole is given up.
Sign(w) ==
    /\ pc[w] = "sign"
    /\ \/ owner' = w /\ aged' = FALSE /\ Goto(w, "append")
       \/ owner' = Garbage /\ aged' = FALSE /\ Goto(w, "rmFile")
       \/ UNCHANGED <<owner, aged>> /\ Goto(w, "rmFile")
    /\ UNCHANGED <<log, left, lockDir, recovery, seen, crashes>>

\* The age of the lock is only what makes a waiting call look closer.
Contend(w) ==
    /\ pc[w] = "contend"
    /\ \/ lockDir /\ aged /\ Goto(w, "guard") /\ UNCHANGED left
       \/ ~(lockDir /\ aged) /\ NextAttempt(w)
    /\ UNCHANGED <<log, disk, recovery, seen, crashes>>

-----------------------------------------------------------------------------
\* _heartbeat_reclaim_stale.

\* A mutant: a guard that is there is taken all the same.
TakeGuardOfOther(w) ==
    /\ pc[w] = "guard"
    /\ guard' = TRUE /\ recovering' = recovering \cup {w}
    /\ Goto(w, "check")
    /\ UNCHANGED <<log, left, disk, seen, crashes>>
\* If it is there its age, which is left open here, decides between waiting and
\* giving up.
TakeGuard(w) ==
    /\ pc[w] = "guard"
    /\ \/ /\ ~guard
          /\ guard' = TRUE /\ recovering' = recovering \cup {w}
          /\ Goto(w, "check") /\ UNCHANGED left
       \/ guard /\ NextAttempt(w) /\ UNCHANGED recovery
       \/ guard /\ Goto(w, "down") /\ Stop(w) /\ UNCHANGED recovery
    /\ UNCHANGED <<log, disk, seen, crashes>>

CheckLock(w) ==
    /\ pc[w] = "check"
    /\ Goto(w, IF lockDir THEN "classify" ELSE "unguard")
    /\ UNCHANGED <<log, left, disk, recovery, seen, crashes>>

\* _heartbeat_owner_classify, from one read; ps is not asked about a record that
\* is not whole.
Classify(w) ==
    /\ pc[w] = "classify"
    /\ \/ /\ lockDir /\ owner \in Writers
          /\ seen' = [seen EXCEPT ![w] = owner] /\ Goto(w, "ps")
       \/ /\ ~(lockDir /\ owner \in Writers)
          /\ Goto(w, "stat") /\ UNCHANGED seen
    /\ UNCHANGED <<log, left, disk, recovery, crashes>>

\* A mutant: an owner that is alive is treated like one that ps does not know.
PsAnswersLoosely(w) ==
    /\ pc[w] = "ps"
    /\ Goto(w, "stat")
    /\ UNCHANGED <<log, left, disk, recovery, seen, crashes>>
\* A mutant: the exit status of ps is read the wrong way round.
PsInverted(w) ==
    /\ pc[w] = "ps"
    /\ IF Alive(seen[w])
       THEN Goto(w, "stat") /\ UNCHANGED seen
       ELSE Goto(w, "unguard") /\ seen' = [seen EXCEPT ![w] = NoOwner]
    /\ UNCHANGED <<log, left, disk, recovery, crashes>>
\* A live owner is never displaced, at any age.
PsAnswers(w) ==
    /\ pc[w] = "ps"
    /\ \/ Alive(seen[w]) /\ Goto(w, "unguard") /\ seen' = [seen EXCEPT ![w] = NoOwner]
       \/ ~Alive(seen[w]) /\ Goto(w, "stat") /\ UNCHANGED seen
    /\ UNCHANGED <<log, left, disk, recovery, crashes>>

PsUnknown(w) ==
    /\ pc[w] = "ps"
    /\ Goto(w, "stat")
    /\ seen' = [seen EXCEPT ![w] = NoOwner]
    /\ UNCHANGED <<log, left, disk, recovery, crashes>>

\* Old and dead is claimed, old and unproved ends the call, young is waited for.
Stat(w) ==
    /\ pc[w] = "stat"
    /\ \/ /\ lockDir /\ aged /\ UNCHANGED seen
          /\ \/ seen[w] # NoOwner /\ Goto(w, "claim")
             \/ seen[w] = NoOwner /\ Goto(w, "unguardStop")
       \/ /\ ~(lockDir /\ aged)
          /\ Goto(w, "unguard") /\ seen' = [seen EXCEPT ![w] = NoOwner]
    /\ UNCHANGED <<log, left, disk, recovery, crashes>>

\* The lock is renamed to a name of this call's own, which is then deleted; if
\* that cannot be done the call ends.
Reclaim(w) ==
    /\ lockDir
    /\ lockDir' = FALSE /\ owner' = NoOwner /\ aged' = FALSE
    /\ Goto(w, "unguard") \/ Goto(w, "unguardStop")

\* The rename fails: the lock is gone, or could not be renamed and stands.
LoseClaim(w) ==
    /\ Goto(w, "unguard")
    /\ UNCHANGED disk

Claim(w) ==
    /\ pc[w] = "claim"
    /\ Reclaim(w) \/ LoseClaim(w)
    /\ seen' = [seen EXCEPT ![w] = NoOwner]
    /\ UNCHANGED <<log, left, recovery, crashes>>

RemoveGuard(w) ==
    /\ guard' = FALSE /\ recovering' = recovering \ {w}
    /\ \/ pc[w] = "unguard" /\ NextAttempt(w)
       \/ pc[w] = "unguardStop" /\ Goto(w, "down") /\ Stop(w)
    /\ UNCHANGED <<log, disk, seen, crashes>>

-----------------------------------------------------------------------------
\* The transaction, and the release that ends it however it went.

AppendRecord(w) ==
    /\ pc[w] = "append"
    /\ \/ /\ Len(file) < MaxLength
          /\ \E r \in Records : file' = Append(file, r)
          /\ Goto(w, "tail")
       \/ Goto(w, "release") /\ UNCHANGED file
    /\ UNCHANGED <<snapshot, left, disk, recovery, seen, crashes>>

\* A mutant: the lock is given up before the file is replaced.
ReadTailAndRelease(w) ==
    /\ pc[w] = "tail"
    /\ snapshot' = [snapshot EXCEPT ![w] = Newest(file)]
    /\ lockDir' = FALSE /\ owner' = NoOwner /\ aged' = FALSE
    /\ Goto(w, "replace")
    /\ UNCHANGED <<file, left, recovery, seen, crashes>>
ReadTail(w) ==
    /\ pc[w] = "tail"
    /\ \/ snapshot' = [snapshot EXCEPT ![w] = Newest(file)] /\ Goto(w, "replace")
       \/ Goto(w, "release") /\ UNCHANGED snapshot
    /\ UNCHANGED <<file, left, disk, recovery, seen, crashes>>

Replace(w) ==
    /\ pc[w] = "replace"
    /\ file' = snapshot[w] \/ UNCHANGED file
    /\ snapshot' = [snapshot EXCEPT ![w] = <<>>]
    /\ Goto(w, "release")
    /\ UNCHANGED <<left, disk, recovery, seen, crashes>>

\* _heartbeat_release compares the token that is there with its own.
Release(w) ==
    /\ pc[w] = "release"
    /\ Goto(w, IF lockDir /\ owner = w THEN "rmFile" ELSE "down")
    /\ UNCHANGED <<log, left, disk, recovery, seen, crashes>>

\* rm -rf, in two halves: the file, which renews the directory's mtime, and the
\* directory, unless a file is in it again.
RemoveFile(w) ==
    /\ pc[w] = "rmFile"
    /\ owner' = NoOwner /\ aged' = (aged /\ owner = NoOwner)
    /\ Goto(w, "rmDir")
    /\ UNCHANGED <<log, left, lockDir, recovery, seen, crashes>>

RemoveDir(w) ==
    /\ pc[w] = "rmDir"
    /\ lockDir' = (lockDir /\ owner # NoOwner)
    /\ aged' = (aged /\ lockDir')
    /\ Goto(w, "down")
    /\ UNCHANGED <<log, left, owner, recovery, seen, crashes>>

-----------------------------------------------------------------------------
\* Environment.

Crash(w) ==
    /\ Alive(w) /\ crashes < MaxCrashes
    /\ crashes' = crashes + 1
    /\ Goto(w, "down") /\ Stop(w)
    /\ recovering' = recovering \ {w}
    /\ seen' = [seen EXCEPT ![w] = NoOwner]
    /\ snapshot' = [snapshot EXCEPT ![w] = <<>>]
    /\ UNCHANGED <<file, disk, guard>>

\* The stale bound passes without a change in $lock, with a writer suspended in it
\* or none; not in the milliseconds in which a recoverer weighs an owner.
Age ==
    /\ lockDir /\ ~aged /\ \A w \in Writers : pc[w] \notin {"ps", "stat"}
    /\ aged' = TRUE
    /\ UNCHANGED <<log, pc, left, lockDir, owner, recovery, seen, crashes>>

\* The operator's remedy: with no call running, the guard or an unsigned lock.
OperatorClears ==
    /\ \A w \in Writers : ~Alive(w)
    /\ \/ guard /\ guard' = FALSE /\ UNCHANGED disk
       \/ /\ lockDir /\ owner \notin Writers
          /\ lockDir' = FALSE /\ owner' = NoOwner /\ aged' = FALSE
          /\ UNCHANGED guard
    /\ UNCHANGED <<log, pc, left, recovering, seen, crashes>>

Step(w) ==
    \/ Mkdir(w) \/ Sign(w) \/ Contend(w)
    \/ TakeGuard(w) \/ CheckLock(w) \/ Classify(w) \/ PsAnswers(w) \/ PsUnknown(w)
    \/ Stat(w) \/ Claim(w) \/ RemoveGuard(w)
    \/ AppendRecord(w) \/ ReadTail(w) \/ Replace(w)
    \/ Release(w) \/ RemoveFile(w) \/ RemoveDir(w)

Next ==
    \/ \E w \in Writers : Call(w) \/ Step(w) \/ Crash(w)
    \/ Age
    \/ OperatorClears

Spec == Init /\ [][Next]_vars

\* A call keeps running, launchd keeps firing, time passes, and neither ps nor the
\* rename of a lock fails for ever.  Nothing is asked of the operator.
Fairness ==
    /\ \A w \in Writers : WF_vars(Step(w)) /\ WF_vars(Call(w))
    /\ SF_vars(Age)
    /\ SF_vars(\E w \in Writers : PsAnswers(w))
    /\ SF_vars(\E w \in Writers : Claim(w) /\ Reclaim(w))

FairSpec == Spec /\ Fairness

-----------------------------------------------------------------------------
\* Properties.

\* However calls overlap, stop or lose their lock, the file is the log the watchdog
\* relies on: no record disappears (heartbeat.sh:19-31).
Log == INSTANCE HeartbeatLog
ImplementsLog == Log!Spec

\* A live writer stands in its own lock from mkdir to rmdir, suspended or not
\* (heartbeat.sh:71-80, :234-236).
LiveWriterKeepsLock ==
    \A w \in Occupants : lockDir /\ owner \in {w, NoOwner, Garbage}

\* The signed lock of a dead writer does not silence the heartbeat, unless a call
\* was killed holding the recovery guard.
DeadWritersLockIsReclaimed ==
    \A w \in Writers :
        (lockDir /\ owner = w /\ ~Alive(w))
            ~> (GuardAbandoned \/ ~(lockDir /\ owner = w /\ ~Alive(w)))

-----------------------------------------------------------------------------
\* The inductive invariant.

LogTypeOK == file \in Seq(Records) /\ snapshot \in [Writers -> Seq(Records)]

TypeOK ==
    /\ pc \in [Writers -> Steps]
    /\ lockDir \in BOOLEAN
    /\ owner \in Writers \cup {NoOwner, Garbage}
    /\ aged \in BOOLEAN /\ guard \in BOOLEAN
    /\ recovering \in SUBSET Writers
    /\ seen \in [Writers -> Writers \cup {NoOwner}]
    /\ crashes \in 0..MaxCrashes

\* A call that tries has an attempt left.
AttemptInv ==
    /\ left \in [Writers -> 0..Attempts]
    /\ \A w \in Writers : pc[w] \in {"mkdir", "contend", "guard"} \cup Deciding <=> left[w] > 0

\* The guard is a mutex.
GuardInv ==
    /\ recovering # {} => guard
    /\ \A v, w \in recovering : v = w
    /\ \A w \in Writers : pc[w] \in Deciding <=> w \in recovering

\* So is the lock among the living, and the file is read and replaced under it.
OccupantInv ==
    /\ \A v, w \in Occupants : v = w
    /\ \A w \in Occupants :
          /\ lockDir
          /\ pc[w] \in {"sign", "rmDir"} => owner = NoOwner
          /\ pc[w] \in Transacting => owner = w
          /\ pc[w] = "rmFile" => owner \in {w, NoOwner, Garbage}
    /\ \A w \in Writers : pc[w] = "replace" => snapshot[w] = Newest(file)

\* What a recoverer has read stays good until it acts on it.
EvidenceInv ==
    /\ \A w \in Writers : seen[w] # NoOwner => pc[w] \in {"ps", "stat", "claim"}
    /\ \A w \in Writers : pc[w] \in {"ps", "claim"} => seen[w] # NoOwner
    /\ \A w \in Writers :
          pc[w] \in {"ps", "stat"} /\ seen[w] # NoOwner /\ lockDir /\ aged
             => owner = seen[w] /\ Occupants \subseteq {seen[w]}
    /\ \A w \in Writers :
          pc[w] \in {"stat", "claim"} /\ seen[w] # NoOwner => ~Alive(seen[w])
    /\ \A w \in Writers :
          pc[w] = "claim" => lockDir /\ aged /\ owner = seen[w] /\ Occupants = {}

IInv == LogTypeOK /\ TypeOK /\ AttemptInv /\ GuardInv /\ OccupantInv /\ EvidenceInv

=============================================================================
