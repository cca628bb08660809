------------------------ MODULE SchedulerLock_proofs ------------------------
(***************************************************************************)
(* Proofs, for any set of fires, that the lock of daily-scheduler.sh keeps *)
(* submitters apart and implements SubmitAuthority, on a host that is not  *)
(* suspended in the middle of a recovery decision.                         *)
(***************************************************************************)
EXTENDS SchedulerLock, TLAPS

USE OwnersDistinct, MaxCrashesNat

(* The invariant holds initially. *)
LEMMA InitInv == Init => IInv
  <1> SUFFICES ASSUME Init
               PROVE  IInv
    OBVIOUS
  <1> USE DEF Init, Steps, Deciding, Occupying, Owners
  <1>0. 0 \in 0..MaxCrashes
    BY MaxCrashesNat
  <1>1. TypeOK
    BY <1>0 DEF TypeOK
  <1>2. GuardInv
    BY DEF GuardInv
  <1>3. Occupants = {}
    BY DEF Occupants
  <1>4. OccupantInv
    BY <1>3 DEF OccupantInv
  <1>5. EvidenceInv
    BY DEF EvidenceInv
  <1>6. QED
    BY <1>1, <1>2, <1>4, <1>5 DEF IInv

(* Every step keeps the types. *)
LEMMA TypeStep == IInv /\ [Next]_vars => TypeOK'
  <1> SUFFICES ASSUME IInv, [Next]_vars
               PROVE  TypeOK'
    OBVIOUS
  <1> USE DEF IInv, TypeOK, Owners, disk, recovery, Goto
  <1>0. Steps = {"down", "mkdir", "guard", "blocked", "check", "remkdir",
                 "readOwner", "ps", "stat", "claim", "unguard", "unguardHeld",
                 "sign", "held", "release", "rmFile", "rmDir"}
    BY DEF Steps, Deciding, Occupying
  <1>1. ASSUME NEW p \in Fires, Start(p) PROVE TypeOK'
    BY <1>0, <1>1 DEF Start
  <1>2. ASSUME NEW p \in Fires, Mkdir(p) PROVE TypeOK'
    BY <1>0, <1>2 DEF Mkdir
  <1>3. ASSUME NEW p \in Fires, Sign(p) PROVE TypeOK'
    BY <1>0, <1>3 DEF Sign
  <1>4. ASSUME NEW p \in Fires, SignFails(p) PROVE TypeOK'
    BY <1>0, <1>4 DEF SignFails
  <1>5. ASSUME NEW p \in Fires, TakeGuard(p) PROVE TypeOK'
    BY <1>0, <1>5 DEF TakeGuard
  <1>6. ASSUME NEW p \in Fires, ReportBlocked(p) PROVE TypeOK'
    BY <1>0, <1>6 DEF ReportBlocked
  <1>7. ASSUME NEW p \in Fires, CheckLock(p) PROVE TypeOK'
    BY <1>0, <1>7 DEF CheckLock
  <1>8. ASSUME NEW p \in Fires, ReadOwner(p) PROVE TypeOK'
    BY <1>0, <1>8 DEF ReadOwner
  <1>9. ASSUME NEW p \in Fires, PsAnswers(p) PROVE TypeOK'
    BY <1>0, <1>9 DEF PsAnswers
  <1>10. ASSUME NEW p \in Fires, PsUnknown(p) PROVE TypeOK'
    BY <1>0, <1>10 DEF PsUnknown
  <1>11. ASSUME NEW p \in Fires, Stat(p) PROVE TypeOK'
    BY <1>0, <1>11 DEF Stat
  <1>12. ASSUME NEW p \in Fires, Claim(p) PROVE TypeOK'
    BY <1>0, <1>12 DEF Claim, Reclaim, LoseClaim
  <1>13. ASSUME NEW p \in Fires, RemoveGuard(p) PROVE TypeOK'
    BY <1>0, <1>13 DEF RemoveGuard
  <1>14. ASSUME NEW p \in Fires, Finish(p) PROVE TypeOK'
    BY <1>0, <1>14 DEF Finish
  <1>15. ASSUME NEW p \in Fires, Release(p) PROVE TypeOK'
    BY <1>0, <1>15 DEF Release
  <1>16. ASSUME NEW p \in Fires, RemoveFile(p) PROVE TypeOK'
    BY <1>0, <1>16 DEF RemoveFile
  <1>17. ASSUME NEW p \in Fires, RemoveDir(p) PROVE TypeOK'
    BY <1>0, <1>17 DEF RemoveDir
  <1>18. ASSUME NEW p \in Fires, Crash(p) PROVE TypeOK'
    BY <1>0, <1>18 DEF Crash
  <1>19. CASE Age
    BY <1>19 DEF Age
  <1>20. CASE OperatorClears
    BY <1>20 DEF OperatorClears
  <1>21. CASE UNCHANGED vars
    BY <1>21 DEF vars
  <1>22. QED
    BY <1>1, <1>2, <1>3, <1>4, <1>5, <1>6, <1>7, <1>8, <1>9, <1>10, <1>11, <1>12,
       <1>13, <1>14, <1>15, <1>16, <1>17, <1>18, <1>19, <1>20, <1>21
    DEF Next, Step

(* Every step keeps the recovery guard with one running fire at most. *)
LEMMA GuardStep ==
    ASSUME IInv, [Next]_vars
    PROVE  GuardInv'
  <1> USE DEF IInv, TypeOK, GuardInv, disk, recovery, Goto, Deciding, Alive
  <1>1. ASSUME NEW p \in Fires, Start(p) PROVE GuardInv'
    BY <1>1 DEF Start
  <1>2. ASSUME NEW p \in Fires, Mkdir(p) PROVE GuardInv'
    BY <1>2 DEF Mkdir
  <1>3. ASSUME NEW p \in Fires, Sign(p) PROVE GuardInv'
    BY <1>3 DEF Sign
  <1>4. ASSUME NEW p \in Fires, SignFails(p) PROVE GuardInv'
    BY <1>4 DEF SignFails
  <1>5. ASSUME NEW p \in Fires, TakeGuard(p) PROVE GuardInv'
    BY <1>5 DEF TakeGuard
  <1>6. ASSUME NEW p \in Fires, ReportBlocked(p) PROVE GuardInv'
    BY <1>6 DEF ReportBlocked
  <1>7. ASSUME NEW p \in Fires, CheckLock(p) PROVE GuardInv'
    BY <1>7 DEF CheckLock
  <1>8. ASSUME NEW p \in Fires, ReadOwner(p) PROVE GuardInv'
    BY <1>8 DEF ReadOwner
  <1>9. ASSUME NEW p \in Fires, PsAnswers(p) PROVE GuardInv'
    BY <1>9 DEF PsAnswers
  <1>10. ASSUME NEW p \in Fires, PsUnknown(p) PROVE GuardInv'
    BY <1>10 DEF PsUnknown
  <1>11. ASSUME NEW p \in Fires, Stat(p) PROVE GuardInv'
    BY <1>11 DEF Stat
  <1>12. ASSUME NEW p \in Fires, Claim(p) PROVE GuardInv'
    BY <1>12 DEF Claim, Reclaim, LoseClaim
  <1>13. ASSUME NEW p \in Fires, RemoveGuard(p) PROVE GuardInv'
    BY <1>13 DEF RemoveGuard
  <1>14. ASSUME NEW p \in Fires, Finish(p) PROVE GuardInv'
    BY <1>14 DEF Finish
  <1>15. ASSUME NEW p \in Fires, Release(p) PROVE GuardInv'
    BY <1>15 DEF Release
  <1>16. ASSUME NEW p \in Fires, RemoveFile(p) PROVE GuardInv'
    BY <1>16 DEF RemoveFile
  <1>17. ASSUME NEW p \in Fires, RemoveDir(p) PROVE GuardInv'
    BY <1>17 DEF RemoveDir
  <1>18. ASSUME NEW p \in Fires, Crash(p) PROVE GuardInv'
    BY <1>18 DEF Crash
  <1>19. CASE Age
    BY <1>19 DEF Age
  <1>20. CASE OperatorClears
    BY <1>20 DEF OperatorClears
  <1>21. CASE UNCHANGED vars
    BY <1>21 DEF vars
  <1>22. QED
    BY <1>1, <1>2, <1>3, <1>4, <1>5, <1>6, <1>7, <1>8, <1>9, <1>10, <1>11, <1>12,
       <1>13, <1>14, <1>15, <1>16, <1>17, <1>18, <1>19, <1>20, <1>21
    DEF Next, Step

(* Every step keeps the running creator of the lock alone in it. *)
LEMMA OccupantStep ==
    ASSUME IInv, [Next]_vars
    PROVE  OccupantInv'
  <1> USE DEF IInv, TypeOK, OccupantInv, Occupants, Occupying, disk, recovery,
              Goto, Alive
  <1>1. ASSUME NEW p \in Fires, Start(p) PROVE OccupantInv'
    BY <1>1 DEF Start
  <1>2. ASSUME NEW p \in Fires, Mkdir(p) PROVE OccupantInv'
    BY <1>2 DEF Mkdir
  <1>3. ASSUME NEW p \in Fires, Sign(p) PROVE OccupantInv'
    BY <1>3 DEF Sign
  <1>4. ASSUME NEW p \in Fires, SignFails(p) PROVE OccupantInv'
    BY <1>4 DEF SignFails
  <1>5. ASSUME NEW p \in Fires, TakeGuard(p) PROVE OccupantInv'
    BY <1>5 DEF TakeGuard
  <1>6. ASSUME NEW p \in Fires, ReportBlocked(p) PROVE OccupantInv'
    BY <1>6 DEF ReportBlocked
  <1>7. ASSUME NEW p \in Fires, CheckLock(p) PROVE OccupantInv'
    BY <1>7 DEF CheckLock
  <1>8. ASSUME NEW p \in Fires, ReadOwner(p) PROVE OccupantInv'
    BY <1>8 DEF ReadOwner
  <1>9. ASSUME NEW p \in Fires, PsAnswers(p) PROVE OccupantInv'
    BY <1>9 DEF PsAnswers
  <1>10. ASSUME NEW p \in Fires, PsUnknown(p) PROVE OccupantInv'
    BY <1>10 DEF PsUnknown
  <1>11. ASSUME NEW p \in Fires, Stat(p) PROVE OccupantInv'
    BY <1>11 DEF Stat
  <1>12. ASSUME NEW p \in Fires, Claim(p) PROVE OccupantInv'
    BY <1>12 DEF Claim, Reclaim, LoseClaim, EvidenceInv
  <1>13. ASSUME NEW p \in Fires, RemoveGuard(p) PROVE OccupantInv'
    BY <1>13 DEF RemoveGuard
  <1>14. ASSUME NEW p \in Fires, Finish(p) PROVE OccupantInv'
    BY <1>14 DEF Finish
  <1>15. ASSUME NEW p \in Fires, Release(p) PROVE OccupantInv'
    BY <1>15 DEF Release
  <1>16. ASSUME NEW p \in Fires, RemoveFile(p) PROVE OccupantInv'
    BY <1>16 DEF RemoveFile
  <1>17. ASSUME NEW p \in Fires, RemoveDir(p) PROVE OccupantInv'
    BY <1>17 DEF RemoveDir
  <1>18. ASSUME NEW p \in Fires, Crash(p) PROVE OccupantInv'
    BY <1>18 DEF Crash
  <1>19. CASE Age
    BY <1>19 DEF Age
  <1>20. CASE OperatorClears
    BY <1>20 DEF OperatorClears
  <1>21. CASE UNCHANGED vars
    BY <1>21 DEF vars
  <1>22. QED
    BY <1>1, <1>2, <1>3, <1>4, <1>5, <1>6, <1>7, <1>8, <1>9, <1>10, <1>11, <1>12,
       <1>13, <1>14, <1>15, <1>16, <1>17, <1>18, <1>19, <1>20, <1>21
    DEF Next, Step

(* Every step keeps what a recoverer has read of the lock good.  Two facts carry
   it: only the guard's creator claims, and no time passes between its reading
   of the owner and its reading of the age. *)
LEMMA EvidenceStep ==
    ASSUME ~Suspends, IInv, [Next]_vars
    PROVE  EvidenceInv'
  <1> USE DEF IInv, TypeOK, EvidenceInv, GuardInv, OccupantInv, Occupants,
              Occupying, Deciding, disk, recovery, Goto, Alive
  <1>1. ASSUME NEW p \in Fires, Start(p) PROVE EvidenceInv'
    BY <1>1 DEF Start
  <1>2. ASSUME NEW p \in Fires, Mkdir(p) PROVE EvidenceInv'
    BY <1>2 DEF Mkdir
  <1>3. ASSUME NEW p \in Fires, Sign(p) PROVE EvidenceInv'
    BY <1>3 DEF Sign
  <1>4. ASSUME NEW p \in Fires, SignFails(p) PROVE EvidenceInv'
    BY <1>4 DEF SignFails
  <1>5. ASSUME NEW p \in Fires, TakeGuard(p) PROVE EvidenceInv'
    BY <1>5 DEF TakeGuard
  <1>6. ASSUME NEW p \in Fires, ReportBlocked(p) PROVE EvidenceInv'
    BY <1>6 DEF ReportBlocked
  <1>7. ASSUME NEW p \in Fires, CheckLock(p) PROVE EvidenceInv'
    BY <1>7 DEF CheckLock
  <1>8. ASSUME NEW p \in Fires, ReadOwner(p) PROVE EvidenceInv'
    BY <1>8 DEF ReadOwner
  <1>9. ASSUME NEW p \in Fires, PsAnswers(p) PROVE EvidenceInv'
    BY <1>9 DEF PsAnswers
  <1>10. ASSUME NEW p \in Fires, PsUnknown(p) PROVE EvidenceInv'
    BY <1>10 DEF PsUnknown
  <1>11. ASSUME NEW p \in Fires, Stat(p) PROVE EvidenceInv'
    BY <1>11 DEF Stat
  <1>12. ASSUME NEW p \in Fires, Claim(p) PROVE EvidenceInv'
    BY <1>12 DEF Claim, Reclaim, LoseClaim
  <1>13. ASSUME NEW p \in Fires, RemoveGuard(p) PROVE EvidenceInv'
    BY <1>13 DEF RemoveGuard
  <1>14. ASSUME NEW p \in Fires, Finish(p) PROVE EvidenceInv'
    BY <1>14 DEF Finish
  <1>15. ASSUME NEW p \in Fires, Release(p) PROVE EvidenceInv'
    BY <1>15 DEF Release
  <1>16. ASSUME NEW p \in Fires, RemoveFile(p) PROVE EvidenceInv'
    <2>1. /\ pc[p] = "rmFile" /\ lockDir /\ owner \in {p, NoOwner, Garbage}
          /\ pc' = [pc EXCEPT ![p] = "rmDir"]
          /\ UNCHANGED <<lockDir, seen>>
          /\ aged' = (aged /\ owner = NoOwner)
      BY <1>16 DEF RemoveFile
    <2>2. ASSUME NEW c \in Fires, pc'[c] \in {"ps", "stat"}, lockDir', aged'
          PROVE  FALSE
      <3>1. pc[c] \in {"ps", "stat"} /\ lockDir /\ aged /\ owner = NoOwner
        BY <2>1, <2>2
      <3>2. owner = seen[c] /\ seen[c] # NoOwner
        BY <3>1
      <3>3. QED
        BY <3>1, <3>2
    <2>3. \A c \in Fires : pc'[c] \in {"ps", "stat", "claim"}
                             <=> pc[c] \in {"ps", "stat", "claim"}
      BY <2>1
    <2>4. \A c \in Fires : pc'[c] \in {"stat", "claim"} => pc'[seen'[c]] = "down"
      BY <2>1
    <2>5. \A c \in Fires : pc'[c] # "claim"
      BY <2>1
    <2>6. QED
      BY <2>1, <2>2, <2>3, <2>4, <2>5
  <1>17. ASSUME NEW p \in Fires, RemoveDir(p) PROVE EvidenceInv'
    BY <1>17 DEF RemoveDir
  <1>18. ASSUME NEW p \in Fires, Crash(p) PROVE EvidenceInv'
    BY <1>18 DEF Crash
  <1>19. CASE Age
    BY <1>19 DEF Age
  <1>20. CASE OperatorClears
    BY <1>20 DEF OperatorClears
  <1>21. CASE UNCHANGED vars
    BY <1>21 DEF vars
  <1>22. QED
    BY <1>1, <1>2, <1>3, <1>4, <1>5, <1>6, <1>7, <1>8, <1>9, <1>10, <1>11, <1>12,
       <1>13, <1>14, <1>15, <1>16, <1>17, <1>18, <1>19, <1>20, <1>21
    DEF Next, Step

(* The strengthened invariant holds for ever, on a host that is not suspended. *)
THEOREM Invariance == ~Suspends => (Spec => []IInv)
  <1> SUFFICES ASSUME ~Suspends
               PROVE  Spec => []IInv
    OBVIOUS
  <1>1. IInv /\ [Next]_vars => IInv'
    BY TypeStep, GuardStep, OccupantStep, EvidenceStep DEF IInv
  <1>2. QED
    BY <1>1, InitInv, PTL DEF Spec

(* Two fires never both hold the authority to submit: daily-scheduler.sh:313-315. *)
THEOREM SubmittersExclude == ~Suspends => (Spec => []MutualExclusion)
  <1>1. IInv => MutualExclusion
    BY DEF IInv, OccupantInv, Occupants, Occupying, MutualExclusion, Holders
  <1>2. QED
    BY <1>1, Invariance, PTL

(* No running fire's lock is displaced: daily-scheduler.sh:205. *)
THEOREM LiveOwnerKeepsLock == ~Suspends => (Spec => []OccupantKeepsLock)
  <1>1. IInv => OccupantKeepsLock
    BY DEF IInv, OccupantInv, Occupants, Occupying, OccupantKeepsLock
  <1>2. QED
    BY <1>1, Invariance, PTL

(* Recovery takes only an old lock whose recorded owner is dead:
   daily-scheduler.sh:371-379. *)
THEOREM RecoveryIsProven == ~Suspends => (Spec => RecoveryNeedsProofOfDeath)
  <1> SUFFICES ASSUME ~Suspends
               PROVE  Spec => RecoveryNeedsProofOfDeath
    OBVIOUS
  <1>1. IInv /\ [Next]_vars =>
          [\A p \in Fires : (pc[p] = "claim" /\ lockDir /\ ~lockDir')
                             => owner \in Fires /\ ~Alive(owner) /\ aged]_vars
    BY DEF IInv, TypeOK, EvidenceInv
  <1>2. QED
    BY <1>1, Invariance, PTL DEF Spec, RecoveryNeedsProofOfDeath

(* A lock nobody signed goes only by its maker's hand or the operator's:
   daily-scheduler.sh:276-294 and :370-379. *)
THEOREM NamelessLockIsKept == ~Suspends => (Spec => NamelessLockIsLeftAlone)
  <1> SUFFICES ASSUME ~Suspends
               PROVE  Spec => NamelessLockIsLeftAlone
    OBVIOUS
  <1> DEFINE Allowed ==
               (lockDir /\ owner \notin Fires /\ ~lockDir')
                  => \/ \E p \in Fires : pc[p] = "rmDir" /\ pc'[p] # "rmDir"
                     \/ \A p \in Fires : ~Alive(p)
  <1>1. ASSUME IInv, [Next]_vars
        PROVE  [Allowed]_vars
    <2> SUFFICES ASSUME lockDir, owner \notin Fires, ~lockDir'
                 PROVE  \/ \E p \in Fires : pc[p] = "rmDir" /\ pc'[p] # "rmDir"
                        \/ \A p \in Fires : ~Alive(p)
      OBVIOUS
    <2> USE <1>1 DEF IInv, TypeOK, disk, Goto
    <2>1. ASSUME NEW p \in Fires, RemoveDir(p)
          PROVE  pc[p] = "rmDir" /\ pc'[p] # "rmDir"
      BY <2>1 DEF RemoveDir
    <2>2. ASSUME NEW p \in Fires, Claim(p) PROVE FALSE
      \* What recovery claims has an owner.
      BY <2>2, OwnersDistinct DEF Claim, Reclaim, LoseClaim, EvidenceInv
    <2>3. ASSUME NEW p \in Fires, Start(p) \/ Crash(p) PROVE FALSE
      BY <2>3 DEF Start, Crash
    <2>4. ASSUME NEW p \in Fires,
                 \/ Mkdir(p) \/ Sign(p) \/ SignFails(p) \/ TakeGuard(p)
                 \/ ReportBlocked(p) \/ CheckLock(p) \/ ReadOwner(p)
          PROVE  FALSE
      BY <2>4 DEF Mkdir, Sign, SignFails, TakeGuard, ReportBlocked, CheckLock,
                  ReadOwner
    <2>5. ASSUME NEW p \in Fires,
                 \/ PsAnswers(p) \/ PsUnknown(p) \/ Stat(p) \/ RemoveGuard(p)
                 \/ Finish(p) \/ Release(p) \/ RemoveFile(p)
          PROVE  FALSE
      BY <2>5 DEF PsAnswers, PsUnknown, Stat, RemoveGuard, Finish, Release,
                  RemoveFile
    <2>6. CASE OperatorClears
      BY <2>6 DEF OperatorClears
    <2>7. CASE Age \/ UNCHANGED vars
      BY <2>7 DEF Age, vars
    <2>8. QED
      BY <2>1, <2>2, <2>3, <2>4, <2>5, <2>6, <2>7 DEF Next, Step
  <1>2. QED
    BY <1>1, Invariance, PTL DEF Spec, NamelessLockIsLeftAlone

(* A step of the lock is a step of the authority or leaves it alone. *)
LEMMA AuthorityStep ==
    ASSUME IInv, IInv', [Next]_vars
    PROVE  [Authority!Next]_Holders
  <1> USE DEF IInv, TypeOK, OccupantInv, Occupants, Occupying, Holders, Goto, Alive
  <1>1. ASSUME NEW p \in Fires, Sign(p) PROVE Authority!Acquire(p) \/ Holders' = Holders
    <2>1. Holders = {}
      BY <1>1 DEF Sign
    <2>2. Holders' = {p}
      BY <1>1, <2>1 DEF Sign
    <2>3. QED
      BY <2>1, <2>2 DEF Authority!Acquire
  <1>2. ASSUME NEW p \in Fires, Finish(p) PROVE Authority!GiveUp(p) \/ Holders' = Holders
    <2>1. Holders = {p}
      BY <1>2 DEF Finish
    <2>2. Holders' = {}
      BY <1>2, <2>1 DEF Finish
    <2>3. QED
      BY <2>1, <2>2 DEF Authority!GiveUp
  <1>3. ASSUME NEW p \in Fires, Crash(p) PROVE Authority!GiveUp(p) \/ Holders' = Holders
    <2>1. Holders' = Holders \ {p}
      BY <1>3 DEF Crash
    <2>2. CASE p \in Holders
      <3>1. Holders = {p}
        BY <2>2
      <3>2. QED
        BY <2>1, <3>1 DEF Authority!GiveUp
    <2>3. CASE p \notin Holders
      BY <2>1, <2>3
    <2>4. QED
      BY <2>2, <2>3
  <1>4. ASSUME NEW p \in Fires,
               \/ Start(p) \/ Mkdir(p) \/ SignFails(p) \/ TakeGuard(p)
               \/ ReportBlocked(p) \/ CheckLock(p) \/ ReadOwner(p)
        PROVE  Holders' = Holders
    BY <1>4 DEF Start, Mkdir, SignFails, TakeGuard, ReportBlocked, CheckLock,
                ReadOwner
  <1>5. ASSUME NEW p \in Fires,
               \/ PsAnswers(p) \/ PsUnknown(p) \/ Stat(p) \/ Claim(p)
               \/ RemoveGuard(p) \/ Release(p) \/ RemoveFile(p) \/ RemoveDir(p)
        PROVE  Holders' = Holders
    BY <1>5 DEF PsAnswers, PsUnknown, Stat, Claim, Reclaim, LoseClaim, RemoveGuard, Release,
                RemoveFile, RemoveDir
  <1>6. CASE Age \/ OperatorClears \/ UNCHANGED vars
    BY <1>6 DEF Age, OperatorClears, vars
  <1>7. QED
    BY <1>1, <1>2, <1>3, <1>4, <1>5, <1>6 DEF Next, Step, Authority!Next

(* The file-system protocol implements the abstract authority. *)
THEOREM ImplementsSubmitAuthority == ~Suspends => (Spec => ImplementsAuthority)
  <1> SUFFICES ASSUME ~Suspends
               PROVE  Spec => ImplementsAuthority
    OBVIOUS
  <1>1. Init => Authority!Init
    BY DEF Init, Authority!Init, Holders
  <1>2. IInv /\ IInv' /\ [Next]_vars => [Authority!Next]_Holders
    BY AuthorityStep
  <1>3. QED
    BY <1>1, <1>2, Invariance, PTL DEF Spec, ImplementsAuthority, Authority!Spec

=============================================================================
