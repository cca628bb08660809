-------------------------- MODULE Heartbeat_proofs --------------------------
(***************************************************************************)
(* Proofs, for any set of overlapping calls of heartbeat_record, any file  *)
(* and any bounds, that no live writer's lock is displaced and that the    *)
(* heartbeat file is the log of HeartbeatLog.                              *)
(***************************************************************************)
EXTENDS Heartbeat, TLAPS, SequenceTheorems

USE OwnersDistinct

(* A trimmed file is a file. *)
LEMMA NewestIsAFile ==
    ASSUME NEW f \in Seq(Records)
    PROVE  Newest(f) \in Seq(Records)
  <1>1. CASE Len(f) <= Retain
    BY <1>1 DEF Newest
  <1>2. CASE ~(Len(f) <= Retain)
    <2>1. /\ Retain \in Nat /\ Len(f) \in Nat
          /\ Len(f) - Retain + 1 \in 1..Len(f) + 1 /\ Len(f) \in Len(f) - Retain..Len(f)
      BY <1>2, BoundsNat
    <2>2. SubSeq(f, Len(f) - Retain + 1, Len(f)) \in Seq(Records)
      BY <2>1, SubSeqProperties
    <2>3. QED
      BY <1>2, <2>2 DEF Newest
  <1>3. QED
    BY <1>1, <1>2

(* An attempt that is not the last leaves one. *)
LEMMA AttemptsAreCounted ==
    /\ 0 \in 0..Attempts /\ Attempts \in 0..Attempts /\ Attempts > 0
    /\ \A n \in 0..Attempts : n > 1 => n - 1 \in 0..Attempts /\ n - 1 > 0
  BY BoundsNat

(* What is left of a call's attempts, and where it goes from there. *)
LEMMA NextAttemptTypes ==
    ASSUME NEW w \in Writers, left \in [Writers -> 0..Attempts],
           pc \in [Writers -> Steps], NextAttempt(w)
    PROVE  /\ left' \in [Writers -> 0..Attempts] /\ pc' \in [Writers -> Steps]
           /\ left'[w] > 0 <=> pc'[w] = "mkdir"
           /\ pc'[w] \in {"mkdir", "down"}
           /\ \A v \in Writers \ {w} : left'[v] = left[v] /\ pc'[v] = pc[v]
  <1>1. {"mkdir", "down"} \subseteq Steps
    BY DEF Steps
  <1>2. CASE left[w] > 1
    BY <1>1, <1>2, AttemptsAreCounted DEF NextAttempt, Goto
  <1>3. CASE ~(left[w] > 1)
    BY <1>1, <1>3, AttemptsAreCounted DEF NextAttempt, Stop, Goto
  <1>4. QED
    BY <1>2, <1>3

(* The invariant holds initially. *)
LEMMA InitInv == Init => IInv
  <1> SUFFICES ASSUME Init
               PROVE  IInv
    OBVIOUS
  <1> USE DEF Init, Steps, Deciding, Occupying, Transacting
  <1>0. 0 \in 0..MaxCrashes /\ 0 \in 0..Attempts /\ <<>> \in Seq(Records)
    BY BoundsNat
  <1>1. LogTypeOK /\ TypeOK
    BY <1>0 DEF LogTypeOK, TypeOK
  <1>2. AttemptInv /\ GuardInv
    BY <1>0 DEF AttemptInv, GuardInv
  <1>3. Occupants = {}
    BY DEF Occupants
  <1>4. OccupantInv
    BY <1>3 DEF OccupantInv
  <1>5. EvidenceInv
    BY DEF EvidenceInv
  <1>6. QED
    BY <1>1, <1>2, <1>4, <1>5 DEF IInv

(* Every step keeps the file a file. *)
LEMMA LogTypeStep ==
    ASSUME IInv, [Next]_vars
    PROVE  LogTypeOK'
  <1> USE DEF IInv, LogTypeOK, log
  <1>0. pc \in [Writers -> Steps]
    BY DEF IInv, TypeOK
  <1>1. ASSUME NEW w \in Writers, Call(w) PROVE LogTypeOK'
    BY <1>1, <1>0 DEF Call
  <1>2. ASSUME NEW w \in Writers, Mkdir(w) PROVE LogTypeOK'
    BY <1>2, <1>0 DEF Mkdir
  <1>3. ASSUME NEW w \in Writers, Sign(w) PROVE LogTypeOK'
    BY <1>3 DEF Sign
  <1>4. ASSUME NEW w \in Writers, Contend(w) PROVE LogTypeOK'
    BY <1>4, <1>0 DEF Contend
  <1>5. ASSUME NEW w \in Writers, TakeGuard(w) PROVE LogTypeOK'
    BY <1>5, <1>0 DEF TakeGuard
  <1>6. ASSUME NEW w \in Writers, CheckLock(w) PROVE LogTypeOK'
    BY <1>6, <1>0 DEF CheckLock
  <1>7. ASSUME NEW w \in Writers, Classify(w) PROVE LogTypeOK'
    BY <1>7, <1>0 DEF Classify
  <1>8. ASSUME NEW w \in Writers, PsAnswers(w) PROVE LogTypeOK'
    BY <1>8, <1>0 DEF PsAnswers
  <1>9. ASSUME NEW w \in Writers, PsUnknown(w) PROVE LogTypeOK'
    BY <1>9, <1>0 DEF PsUnknown
  <1>10. ASSUME NEW w \in Writers, Stat(w) PROVE LogTypeOK'
    BY <1>10, <1>0 DEF Stat
  <1>11. ASSUME NEW w \in Writers, Claim(w) PROVE LogTypeOK'
    BY <1>11, <1>0 DEF Claim, Reclaim, LoseClaim
  <1>12. ASSUME NEW w \in Writers, RemoveGuard(w) PROVE LogTypeOK'
    BY <1>12, <1>0 DEF RemoveGuard
  <1>13. ASSUME NEW w \in Writers, AppendRecord(w) PROVE LogTypeOK'
    BY <1>13, <1>0 DEF AppendRecord
  <1>14. ASSUME NEW w \in Writers, ReadTail(w) PROVE LogTypeOK'
    BY <1>14, NewestIsAFile DEF ReadTail
  <1>15. ASSUME NEW w \in Writers, Replace(w) PROVE LogTypeOK'
    BY <1>15, <1>0 DEF Replace
  <1>16. ASSUME NEW w \in Writers, Release(w) PROVE LogTypeOK'
    BY <1>16, <1>0 DEF Release
  <1>17. ASSUME NEW w \in Writers, RemoveFile(w) PROVE LogTypeOK'
    BY <1>17, <1>0 DEF RemoveFile
  <1>18. ASSUME NEW w \in Writers, RemoveDir(w) PROVE LogTypeOK'
    BY <1>18, <1>0 DEF RemoveDir
  <1>19. ASSUME NEW w \in Writers, Crash(w) PROVE LogTypeOK'
    BY <1>19, <1>0 DEF Crash
  <1>20. CASE Age
    BY <1>20, <1>0 DEF Age
  <1>21. CASE OperatorClears
    BY <1>21, <1>0 DEF OperatorClears
  <1>22. CASE UNCHANGED vars
    BY <1>22 DEF vars
  <1>23. QED
    BY <1>1, <1>2, <1>3, <1>4, <1>5, <1>6, <1>7, <1>8, <1>9, <1>10, <1>11,
       <1>12, <1>13, <1>14, <1>15, <1>16, <1>17, <1>18, <1>19, <1>20, <1>21, <1>22
    DEF Next, Step

(* Every step keeps the types. *)
LEMMA TypeStep ==
    ASSUME IInv, [Next]_vars
    PROVE  TypeOK'
  <1> USE DEF IInv, TypeOK, log, disk, recovery, Goto
  <1>0. Steps = {"down", "mkdir", "contend", "guard", "check", "classify", "ps", "stat",
                 "claim", "unguard", "unguardStop", "sign", "rmFile", "rmDir",
                 "append", "tail", "replace", "release"}
    BY DEF Steps, Deciding, Occupying, Transacting
  <1>1. ASSUME NEW w \in Writers, Call(w) PROVE TypeOK'
    BY <1>1, <1>0 DEF Call
  <1>2. ASSUME NEW w \in Writers, Mkdir(w) PROVE TypeOK'
    BY <1>2, <1>0 DEF Mkdir
  <1>3. ASSUME NEW w \in Writers, Sign(w) PROVE TypeOK'
    BY <1>3, <1>0 DEF Sign
  <1>4. ASSUME NEW w \in Writers, Contend(w) PROVE TypeOK'
    BY <1>4, <1>0, NextAttemptTypes DEF Contend, AttemptInv
  <1>5. ASSUME NEW w \in Writers, TakeGuard(w) PROVE TypeOK'
    BY <1>5, <1>0, NextAttemptTypes DEF TakeGuard, AttemptInv
  <1>6. ASSUME NEW w \in Writers, CheckLock(w) PROVE TypeOK'
    BY <1>6, <1>0 DEF CheckLock
  <1>7. ASSUME NEW w \in Writers, Classify(w) PROVE TypeOK'
    BY <1>7, <1>0 DEF Classify
  <1>8. ASSUME NEW w \in Writers, PsAnswers(w) PROVE TypeOK'
    BY <1>8, <1>0 DEF PsAnswers
  <1>9. ASSUME NEW w \in Writers, PsUnknown(w) PROVE TypeOK'
    BY <1>9, <1>0 DEF PsUnknown
  <1>10. ASSUME NEW w \in Writers, Stat(w) PROVE TypeOK'
    BY <1>10, <1>0 DEF Stat
  <1>11. ASSUME NEW w \in Writers, Claim(w) PROVE TypeOK'
    BY <1>11, <1>0 DEF Claim, Reclaim, LoseClaim
  <1>12. ASSUME NEW w \in Writers, RemoveGuard(w) PROVE TypeOK'
    BY <1>12, <1>0, NextAttemptTypes DEF RemoveGuard, AttemptInv
  <1>13. ASSUME NEW w \in Writers, AppendRecord(w) PROVE TypeOK'
    BY <1>13, <1>0 DEF AppendRecord
  <1>14. ASSUME NEW w \in Writers, ReadTail(w) PROVE TypeOK'
    BY <1>14, <1>0 DEF ReadTail
  <1>15. ASSUME NEW w \in Writers, Replace(w) PROVE TypeOK'
    BY <1>15, <1>0 DEF Replace
  <1>16. ASSUME NEW w \in Writers, Release(w) PROVE TypeOK'
    BY <1>16, <1>0 DEF Release
  <1>17. ASSUME NEW w \in Writers, RemoveFile(w) PROVE TypeOK'
    BY <1>17, <1>0 DEF RemoveFile
  <1>18. ASSUME NEW w \in Writers, RemoveDir(w) PROVE TypeOK'
    BY <1>18, <1>0 DEF RemoveDir
  <1>19. ASSUME NEW w \in Writers, Crash(w) PROVE TypeOK'
    <2>1. crashes' \in 0..MaxCrashes
      BY <1>19, BoundsNat DEF Crash
    <2>2. QED
      BY <1>19, <1>0, <2>1 DEF Crash
  <1>20. CASE Age
    BY <1>20, <1>0 DEF Age
  <1>21. CASE OperatorClears
    BY <1>21, <1>0 DEF OperatorClears
  <1>22. CASE UNCHANGED vars
    BY <1>22 DEF vars
  <1>23. QED
    BY <1>1, <1>2, <1>3, <1>4, <1>5, <1>6, <1>7, <1>8, <1>9, <1>10, <1>11,
       <1>12, <1>13, <1>14, <1>15, <1>16, <1>17, <1>18, <1>19, <1>20, <1>21, <1>22
    DEF Next, Step

(* A call that still tries has an attempt left. *)
LEMMA AttemptStep ==
    ASSUME IInv, [Next]_vars
    PROVE  AttemptInv'
  <1> USE DEF IInv, AttemptInv, Deciding, Occupying, Transacting, Goto, Stop
  <1>0. pc \in [Writers -> Steps]
    BY DEF IInv, TypeOK
  <1>1. ASSUME NEW w \in Writers, Call(w) PROVE AttemptInv'
    BY <1>1, <1>0, AttemptsAreCounted DEF Call
  <1>2. ASSUME NEW w \in Writers, Mkdir(w) PROVE AttemptInv'
    BY <1>2, <1>0, AttemptsAreCounted DEF Mkdir
  <1>3. ASSUME NEW w \in Writers, Sign(w) PROVE AttemptInv'
    BY <1>3, <1>0 DEF Sign
  <1>4. ASSUME NEW w \in Writers, Contend(w) PROVE AttemptInv'
    BY <1>4, <1>0, NextAttemptTypes DEF Contend
  <1>5. ASSUME NEW w \in Writers, TakeGuard(w) PROVE AttemptInv'
    <2>1. CASE ~guard
      BY <1>5, <1>0, <2>1 DEF TakeGuard
    <2>2. CASE guard /\ NextAttempt(w)
      BY <1>0, <2>2, NextAttemptTypes
    <2>3. CASE guard /\ Goto(w, "down") /\ Stop(w)
      BY <1>0, <2>3, AttemptsAreCounted
    <2>4. QED
      BY <1>5, <2>1, <2>2, <2>3 DEF TakeGuard
  <1>6. ASSUME NEW w \in Writers, CheckLock(w) PROVE AttemptInv'
    BY <1>6, <1>0 DEF CheckLock
  <1>7. ASSUME NEW w \in Writers, Classify(w) PROVE AttemptInv'
    BY <1>7, <1>0 DEF Classify
  <1>8. ASSUME NEW w \in Writers, PsAnswers(w) PROVE AttemptInv'
    BY <1>8, <1>0 DEF PsAnswers
  <1>9. ASSUME NEW w \in Writers, PsUnknown(w) PROVE AttemptInv'
    BY <1>9, <1>0 DEF PsUnknown
  <1>10. ASSUME NEW w \in Writers, Stat(w) PROVE AttemptInv'
    BY <1>10, <1>0 DEF Stat
  <1>11. ASSUME NEW w \in Writers, Claim(w) PROVE AttemptInv'
    BY <1>11, <1>0 DEF Claim, Reclaim, LoseClaim
  <1>12. ASSUME NEW w \in Writers, RemoveGuard(w) PROVE AttemptInv'
    <2>1. CASE NextAttempt(w)
      BY <1>0, <2>1, NextAttemptTypes
    <2>2. CASE Goto(w, "down") /\ Stop(w)
      BY <1>0, <2>2, AttemptsAreCounted
    <2>3. QED
      BY <1>12, <2>1, <2>2 DEF RemoveGuard
  <1>13. ASSUME NEW w \in Writers, AppendRecord(w) PROVE AttemptInv'
    BY <1>13, <1>0 DEF AppendRecord
  <1>14. ASSUME NEW w \in Writers, ReadTail(w) PROVE AttemptInv'
    BY <1>14, <1>0 DEF ReadTail
  <1>15. ASSUME NEW w \in Writers, Replace(w) PROVE AttemptInv'
    BY <1>15, <1>0 DEF Replace
  <1>16. ASSUME NEW w \in Writers, Release(w) PROVE AttemptInv'
    BY <1>16, <1>0 DEF Release
  <1>17. ASSUME NEW w \in Writers, RemoveFile(w) PROVE AttemptInv'
    BY <1>17, <1>0 DEF RemoveFile
  <1>18. ASSUME NEW w \in Writers, RemoveDir(w) PROVE AttemptInv'
    BY <1>18, <1>0 DEF RemoveDir
  <1>19. ASSUME NEW w \in Writers, Crash(w) PROVE AttemptInv'
    BY <1>19, <1>0, AttemptsAreCounted DEF Crash
  <1>20. CASE Age
    BY <1>20, <1>0 DEF Age
  <1>21. CASE OperatorClears
    BY <1>21, <1>0 DEF OperatorClears
  <1>22. CASE UNCHANGED vars
    BY <1>22 DEF vars
  <1>23. QED
    BY <1>1, <1>2, <1>3, <1>4, <1>5, <1>6, <1>7, <1>8, <1>9, <1>10, <1>11,
       <1>12, <1>13, <1>14, <1>15, <1>16, <1>17, <1>18, <1>19, <1>20, <1>21, <1>22
    DEF Next, Step

(* Every step keeps the recovery guard with one running call at most. *)
LEMMA GuardStep ==
    ASSUME IInv, [Next]_vars
    PROVE  GuardInv'
  <1> USE DEF IInv, GuardInv, Deciding, Alive, log, disk, recovery, Goto, Stop, NextAttempt
  <1>0. /\ pc \in [Writers -> Steps] /\ seen \in [Writers -> Writers \cup {NoOwner}]
         /\ lockDir \in BOOLEAN /\ aged \in BOOLEAN
    BY DEF IInv, TypeOK
  <1>1. ASSUME NEW w \in Writers, Call(w) PROVE GuardInv'
    BY <1>1, <1>0 DEF Call
  <1>2. ASSUME NEW w \in Writers, Mkdir(w) PROVE GuardInv'
    BY <1>2, <1>0 DEF Mkdir
  <1>3. ASSUME NEW w \in Writers, Sign(w) PROVE GuardInv'
    BY <1>3, <1>0 DEF Sign
  <1>4. ASSUME NEW w \in Writers, Contend(w) PROVE GuardInv'
    BY <1>4, <1>0 DEF Contend
  <1>5. ASSUME NEW w \in Writers, TakeGuard(w) PROVE GuardInv'
    BY <1>5, <1>0 DEF TakeGuard
  <1>6. ASSUME NEW w \in Writers, CheckLock(w) PROVE GuardInv'
    BY <1>6, <1>0 DEF CheckLock
  <1>7. ASSUME NEW w \in Writers, Classify(w) PROVE GuardInv'
    BY <1>7, <1>0 DEF Classify
  <1>8. ASSUME NEW w \in Writers, PsAnswers(w) PROVE GuardInv'
    BY <1>8, <1>0 DEF PsAnswers
  <1>9. ASSUME NEW w \in Writers, PsUnknown(w) PROVE GuardInv'
    BY <1>9, <1>0 DEF PsUnknown
  <1>10. ASSUME NEW w \in Writers, Stat(w) PROVE GuardInv'
    BY <1>10, <1>0 DEF Stat
  <1>11. ASSUME NEW w \in Writers, Claim(w) PROVE GuardInv'
    BY <1>11, <1>0 DEF Claim, Reclaim, LoseClaim
  <1>12. ASSUME NEW w \in Writers, RemoveGuard(w) PROVE GuardInv'
    BY <1>12, <1>0 DEF RemoveGuard
  <1>13. ASSUME NEW w \in Writers, AppendRecord(w) PROVE GuardInv'
    BY <1>13, <1>0 DEF AppendRecord
  <1>14. ASSUME NEW w \in Writers, ReadTail(w) PROVE GuardInv'
    BY <1>14, <1>0 DEF ReadTail
  <1>15. ASSUME NEW w \in Writers, Replace(w) PROVE GuardInv'
    BY <1>15, <1>0 DEF Replace
  <1>16. ASSUME NEW w \in Writers, Release(w) PROVE GuardInv'
    BY <1>16, <1>0 DEF Release
  <1>17. ASSUME NEW w \in Writers, RemoveFile(w) PROVE GuardInv'
    BY <1>17, <1>0 DEF RemoveFile
  <1>18. ASSUME NEW w \in Writers, RemoveDir(w) PROVE GuardInv'
    BY <1>18, <1>0 DEF RemoveDir
  <1>19. ASSUME NEW w \in Writers, Crash(w) PROVE GuardInv'
    BY <1>19, <1>0 DEF Crash
  <1>20. CASE Age
    BY <1>20, <1>0 DEF Age
  <1>21. CASE OperatorClears
    BY <1>21, <1>0 DEF OperatorClears, TypeOK
  <1>22. CASE UNCHANGED vars
    BY <1>22 DEF vars
  <1>23. QED
    BY <1>1, <1>2, <1>3, <1>4, <1>5, <1>6, <1>7, <1>8, <1>9, <1>10, <1>11,
       <1>12, <1>13, <1>14, <1>15, <1>16, <1>17, <1>18, <1>19, <1>20, <1>21, <1>22
    DEF Next, Step

(* Every step keeps the creator of the lock alone in it, and the file as it read it. *)
LEMMA OccupantStep ==
    ASSUME IInv, [Next]_vars
    PROVE  OccupantInv'
  <1> USE DEF IInv, OccupantInv, Occupants, Occupying, Transacting, Alive, log, disk, recovery, Goto, Stop, NextAttempt
  <1>0. /\ pc \in [Writers -> Steps] /\ seen \in [Writers -> Writers \cup {NoOwner}]
         /\ lockDir \in BOOLEAN /\ aged \in BOOLEAN
    BY DEF IInv, TypeOK
  <1>1. ASSUME NEW w \in Writers, Call(w) PROVE OccupantInv'
    BY <1>1, <1>0 DEF Call
  <1>2. ASSUME NEW w \in Writers, Mkdir(w) PROVE OccupantInv'
    BY <1>2, <1>0 DEF Mkdir
  <1>3. ASSUME NEW w \in Writers, Sign(w) PROVE OccupantInv'
    BY <1>3, <1>0 DEF Sign
  <1>4. ASSUME NEW w \in Writers, Contend(w) PROVE OccupantInv'
    BY <1>4, <1>0 DEF Contend
  <1>5. ASSUME NEW w \in Writers, TakeGuard(w) PROVE OccupantInv'
    BY <1>5, <1>0 DEF TakeGuard
  <1>6. ASSUME NEW w \in Writers, CheckLock(w) PROVE OccupantInv'
    BY <1>6, <1>0 DEF CheckLock
  <1>7. ASSUME NEW w \in Writers, Classify(w) PROVE OccupantInv'
    BY <1>7, <1>0 DEF Classify
  <1>8. ASSUME NEW w \in Writers, PsAnswers(w) PROVE OccupantInv'
    BY <1>8, <1>0 DEF PsAnswers
  <1>9. ASSUME NEW w \in Writers, PsUnknown(w) PROVE OccupantInv'
    BY <1>9, <1>0 DEF PsUnknown
  <1>10. ASSUME NEW w \in Writers, Stat(w) PROVE OccupantInv'
    BY <1>10, <1>0 DEF Stat
  <1>11. ASSUME NEW w \in Writers, Claim(w) PROVE OccupantInv'
    BY <1>11, <1>0 DEF Claim, Reclaim, LoseClaim, EvidenceInv
  <1>12. ASSUME NEW w \in Writers, RemoveGuard(w) PROVE OccupantInv'
    BY <1>12, <1>0 DEF RemoveGuard
  <1>13. ASSUME NEW w \in Writers, AppendRecord(w) PROVE OccupantInv'
    BY <1>13, <1>0 DEF AppendRecord
  <1>14. ASSUME NEW w \in Writers, ReadTail(w) PROVE OccupantInv'
    <2>1. /\ UNCHANGED <<file, lockDir, owner>> /\ pc[w] = "tail"
          /\ \/ snapshot' = [snapshot EXCEPT ![w] = Newest(file)] /\ pc' = [pc EXCEPT ![w] = "replace"]
             \/ snapshot' = snapshot /\ pc' = [pc EXCEPT ![w] = "release"]
      BY <1>14 DEF ReadTail
    <2>2. Newest(file)' = Newest(file)
      BY <2>1 DEF Newest
    <2>3. \A v \in Writers : pc'[v] = "replace" => snapshot'[v] = Newest(file)
      BY <1>0, <2>1 DEF LogTypeOK
    <2>4. Occupants' = Occupants /\ \A v \in Occupants \ {w} : pc'[v] = pc[v]
      BY <1>0, <2>1
    <2>5. pc'[w] \in Transacting /\ pc[w] \in Transacting
      BY <1>0, <2>1
    <2>6. QED
      BY <2>1, <2>2, <2>3, <2>4, <2>5
  <1>15. ASSUME NEW w \in Writers, Replace(w) PROVE OccupantInv'
    BY <1>15, <1>0 DEF Replace
  <1>16. ASSUME NEW w \in Writers, Release(w) PROVE OccupantInv'
    BY <1>16, <1>0 DEF Release
  <1>17. ASSUME NEW w \in Writers, RemoveFile(w) PROVE OccupantInv'
    BY <1>17, <1>0 DEF RemoveFile
  <1>18. ASSUME NEW w \in Writers, RemoveDir(w) PROVE OccupantInv'
    BY <1>18, <1>0 DEF RemoveDir
  <1>19. ASSUME NEW w \in Writers, Crash(w) PROVE OccupantInv'
    BY <1>19, <1>0 DEF Crash
  <1>20. CASE Age
    BY <1>20, <1>0 DEF Age
  <1>21. CASE OperatorClears
    BY <1>21, <1>0 DEF OperatorClears
  <1>22. CASE UNCHANGED vars
    BY <1>22 DEF vars
  <1>23. QED
    BY <1>1, <1>2, <1>3, <1>4, <1>5, <1>6, <1>7, <1>8, <1>9, <1>10, <1>11,
       <1>12, <1>13, <1>14, <1>15, <1>16, <1>17, <1>18, <1>19, <1>20, <1>21, <1>22
    DEF Next, Step

(* Every step keeps what a recoverer has read of the lock good.  Two facts carry
   it: only the guard's creator claims, and no time passes between its reading
   of the owner and its reading of the age. *)
LEMMA EvidenceStep ==
    ASSUME IInv, [Next]_vars
    PROVE  EvidenceInv'
  <1> USE DEF IInv, EvidenceInv, GuardInv, OccupantInv, Occupants, Occupying,
              Transacting, Deciding, Alive, log, disk, recovery, Goto, Stop, NextAttempt
  <1>0. /\ pc \in [Writers -> Steps] /\ seen \in [Writers -> Writers \cup {NoOwner}]
         /\ lockDir \in BOOLEAN /\ aged \in BOOLEAN
    BY DEF IInv, TypeOK
  <1>1. ASSUME NEW w \in Writers, Call(w) PROVE EvidenceInv'
    BY <1>1, <1>0 DEF Call
  <1>2. ASSUME NEW w \in Writers, Mkdir(w) PROVE EvidenceInv'
    BY <1>2, <1>0 DEF Mkdir
  <1>3. ASSUME NEW w \in Writers, Sign(w) PROVE EvidenceInv'
    BY <1>3, <1>0 DEF Sign
  <1>4. ASSUME NEW w \in Writers, Contend(w) PROVE EvidenceInv'
    BY <1>4, <1>0 DEF Contend
  <1>5. ASSUME NEW w \in Writers, TakeGuard(w) PROVE EvidenceInv'
    BY <1>5, <1>0 DEF TakeGuard
  <1>6. ASSUME NEW w \in Writers, CheckLock(w) PROVE EvidenceInv'
    BY <1>6, <1>0 DEF CheckLock
  <1>7. ASSUME NEW w \in Writers, Classify(w) PROVE EvidenceInv'
    BY <1>7, <1>0 DEF Classify
  <1>8. ASSUME NEW w \in Writers, PsAnswers(w) PROVE EvidenceInv'
    BY <1>8, <1>0 DEF PsAnswers
  <1>9. ASSUME NEW w \in Writers, PsUnknown(w) PROVE EvidenceInv'
    BY <1>9, <1>0 DEF PsUnknown
  <1>10. ASSUME NEW w \in Writers, Stat(w) PROVE EvidenceInv'
    BY <1>10, <1>0 DEF Stat
  <1>11. ASSUME NEW w \in Writers, Claim(w) PROVE EvidenceInv'
    BY <1>11, <1>0 DEF Claim, Reclaim, LoseClaim
  <1>12. ASSUME NEW w \in Writers, RemoveGuard(w) PROVE EvidenceInv'
    BY <1>12, <1>0 DEF RemoveGuard
  <1>13. ASSUME NEW w \in Writers, AppendRecord(w) PROVE EvidenceInv'
    BY <1>13, <1>0 DEF AppendRecord
  <1>14. ASSUME NEW w \in Writers, ReadTail(w) PROVE EvidenceInv'
    BY <1>14, <1>0 DEF ReadTail
  <1>15. ASSUME NEW w \in Writers, Replace(w) PROVE EvidenceInv'
    BY <1>15, <1>0 DEF Replace
  <1>16. ASSUME NEW w \in Writers, Release(w) PROVE EvidenceInv'
    BY <1>16, <1>0 DEF Release
  <1>17. ASSUME NEW w \in Writers, RemoveFile(w) PROVE EvidenceInv'
    <2>1. /\ pc[w] = "rmFile" /\ lockDir /\ owner \in {w, NoOwner, Garbage}
          /\ pc' = [pc EXCEPT ![w] = "rmDir"]
          /\ UNCHANGED <<lockDir, seen>>
          /\ aged' = (aged /\ owner = NoOwner)
      BY <1>17 DEF RemoveFile
    <2>2. ASSUME NEW c \in Writers, pc'[c] \in {"ps", "stat"}, seen[c] # NoOwner, lockDir', aged'
          PROVE  FALSE
      <3>1. pc[c] \in {"ps", "stat"} /\ lockDir /\ aged /\ owner = NoOwner
        BY <1>0, <2>1, <2>2
      <3>2. owner = seen[c]
        BY <2>2, <3>1
      <3>3. QED
        BY <2>2, <3>1, <3>2
    <2>3. \A c \in Writers : pc[c] # "claim"
      BY <2>1
    <2>4. \A c \in Writers : pc'[c] \in {"ps", "stat", "claim"} => pc'[c] = pc[c]
      BY <1>0, <2>1
    <2>5. \A c \in Writers : c # w => pc'[c] = pc[c]
      BY <1>0, <2>1
    <2>6. \A c \in Writers : pc'[c] = "stat" /\ seen'[c] # NoOwner => pc'[seen'[c]] = "down"
      BY <1>0, <2>1, <2>4, <2>5
    <2>7. QED
      BY <1>0, <2>1, <2>2, <2>3, <2>4, <2>5, <2>6
  <1>18. ASSUME NEW w \in Writers, RemoveDir(w) PROVE EvidenceInv'
    BY <1>18, <1>0 DEF RemoveDir
  <1>19. ASSUME NEW w \in Writers, Crash(w) PROVE EvidenceInv'
    BY <1>19, <1>0 DEF Crash
  <1>20. CASE Age
    BY <1>20, <1>0 DEF Age
  <1>21. CASE OperatorClears
    BY <1>21, <1>0 DEF OperatorClears
  <1>22. CASE UNCHANGED vars
    BY <1>22 DEF vars
  <1>23. QED
    BY <1>1, <1>2, <1>3, <1>4, <1>5, <1>6, <1>7, <1>8, <1>9, <1>10, <1>11,
       <1>12, <1>13, <1>14, <1>15, <1>16, <1>17, <1>18, <1>19, <1>20, <1>21, <1>22
    DEF Next, Step

(* The strengthened invariant holds for ever. *)
THEOREM Invariance == Spec => []IInv
  <1>1. IInv /\ [Next]_vars => IInv'
    BY LogTypeStep, TypeStep, AttemptStep, GuardStep, OccupantStep, EvidenceStep DEF IInv
  <1>2. QED
    BY <1>1, InitInv, PTL DEF Spec

(* No live writer's lock is displaced: heartbeat.sh:71-80 and :234-236. *)
THEOREM LiveWritersKeepTheirLock == Spec => []LiveWriterKeepsLock
  <1>1. IInv => LiveWriterKeepsLock
    BY DEF IInv, OccupantInv, Occupants, Occupying, Transacting, LiveWriterKeepsLock
  <1>2. QED
    BY <1>1, Invariance, PTL

(* A step is a step of the log or leaves it alone: what a writer puts back is the
   trimmed file of the moment, since nobody else has written since it was read. *)
LEMMA LogStep ==
    ASSUME IInv, [Next]_vars
    PROVE  [Log!Next]_file
  <1>1. ASSUME NEW w \in Writers, AppendRecord(w) PROVE [Log!Next]_file
    BY <1>1 DEF AppendRecord, Log!Next, Log!Record
  <1>2. ASSUME NEW w \in Writers, Replace(w) PROVE [Log!Next]_file
    BY <1>2 DEF Replace, IInv, OccupantInv, Newest, Log!Next, Log!Trim, Log!Newest
  <1>3. ASSUME NEW w \in Writers,
               \/ Call(w) \/ Mkdir(w) \/ Sign(w) \/ Contend(w) \/ TakeGuard(w)
               \/ CheckLock(w) \/ Classify(w) \/ PsAnswers(w) \/ PsUnknown(w)
        PROVE  UNCHANGED file
    BY <1>3 DEF Call, Mkdir, Sign, Contend, TakeGuard, CheckLock, Classify, PsAnswers,
                PsUnknown, log
  <1>4. ASSUME NEW w \in Writers,
               \/ Stat(w) \/ Claim(w) \/ RemoveGuard(w) \/ ReadTail(w) \/ Release(w)
               \/ RemoveFile(w) \/ RemoveDir(w) \/ Crash(w)
        PROVE  UNCHANGED file
    BY <1>4 DEF Stat, Claim, Reclaim, LoseClaim, RemoveGuard, ReadTail, Release, RemoveFile, RemoveDir,
                Crash, log
  <1>5. CASE Age \/ OperatorClears \/ UNCHANGED vars
    BY <1>5 DEF Age, OperatorClears, vars, log
  <1>6. QED
    BY <1>1, <1>2, <1>3, <1>4, <1>5 DEF Next, Step

(* The heartbeat file loses no record: heartbeat.sh:19-31. *)
THEOREM ImplementsHeartbeatLog == Spec => ImplementsLog
  <1>1. Init => Log!Init
    BY DEF Init, Log!Init
  <1>2. IInv /\ [Next]_vars => [Log!Next]_file
    BY LogStep
  <1>3. QED
    BY <1>1, <1>2, Invariance, PTL DEF Spec, ImplementsLog, Log!Spec

=============================================================================
