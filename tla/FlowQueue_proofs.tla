------------------------- MODULE FlowQueue_proofs --------------------------
(***************************************************************************)
(* Proofs, for any tree of stages and any number of workers, attempts and  *)
(* incidents, that a success means that the work is done, that spending is *)
(* bounded and that a stopped flow stays stopped.                          *)
(***************************************************************************)
EXTENDS FlowQueue, TLAPS

USE WorkersAssumption, BoundsAssumption, ObedientBoolean

(* The root is the stage without a parent. *)
LEMMA RootIsTheRoot ==
  /\ Root \in Stages
  /\ \A s \in Stages : ParentOf[s] = NoStage <=> s = Root
  BY TreeAssumption DEF Root

(* NoStage is no stage. *)
LEMMA NoStageIsNone == NoStage \notin Stages
  BY TreeAssumption

USE NoStageIsNone

(* What an acknowledgement does to the jobs. *)
LEMMA Release ==
  ASSUME NEW j \in [Stages -> JobStates], NEW s \in Stages
  PROVE  /\ Released(j, s) \in [Stages -> JobStates]
         /\ \A t \in Stages : Released(j, s)[t] = j[t]
               \/ (ParentOf[s] = t /\ j[t] = "waiting-children" /\ Released(j, s)[t] = "wait"
                   /\ \A c \in Children(t) : j[c] \in Done)
         /\ \A t \in Stages :
               ParentOf[s] = t /\ Released(j, s)[t] = "waiting-children" =>
                   \E c \in Children(t) : j[c] \notin Done
  BY DEF Released, Done, JobStates

(* The invariant holds initially. *)
LEMMA InitInv == Init => IInv
  <1> SUFFICES ASSUME Init
               PROVE  IInv
    OBVIOUS
  <1> USE DEF Init, Idle
  <1>1. TypeOK
    BY DEF TypeOK, JobStates, Phases
  <1>2. LockInv /\ TreeInv /\ WorkInv /\ SpendInv
    BY RootIsTheRoot DEF LockInv, TreeInv, WorkInv, SpendInv, Done
  <1>3. QED
    BY <1>1, <1>2 DEF IInv

\* What an acknowledged completion of s does.
Completes(w, s) ==
    /\ s \in Stages /\ exec[w].stage = s /\ job[s] = "active"
    /\ job' \in [Stages -> JobStates]
    /\ job'[s] = "completed"
    /\ \A t \in Stages \ {s} :
          \/ job'[t] = job[t]
          \/ /\ ParentOf[s] = t /\ job[t] = "waiting-children" /\ job'[t] = "wait"
             /\ \A c \in Children(t) : c = s \/ job[c] \in Done
    /\ \A t \in Stages :
          ParentOf[s] = t /\ job'[t] = "waiting-children" =>
              \E c \in Children(t) : c # s /\ job[c] \notin Done
    /\ lock' = [lock EXCEPT ![s] = NoWorker]
    /\ made' = [made EXCEPT ![s] = @ + 1]

(* An acknowledgement completes the job, or is refused. *)
LEMMA Acknowledged ==
  ASSUME IInv, NEW w \in Workers, Ack(w)
  PROVE  \/ Completes(w, exec[w].stage)
         \/ UNCHANGED <<job, lock, made>>
  <1> DEFINE s == exec[w].stage
             j == [job EXCEPT ![s] = "completed"]
  <1>0. TypeOK /\ LockInv
    BY DEF IInv
  <1>1. s \in Stages
    BY <1>0 DEF Ack, TypeOK, LockInv
  <1>2. CASE lock[s] # w
    BY <1>2 DEF Ack
  <1>3. CASE lock[s] = w
    <2>1. /\ job' = Released(j, s)
          /\ lock' = [lock EXCEPT ![s] = NoWorker]
          /\ made' = [made EXCEPT ![s] = @ + 1]
      BY <1>3 DEF Ack
    <2>2. job[s] = "active"
      BY <1>0, <1>1, <1>3 DEF LockInv
    <2>3. j \in [Stages -> JobStates] /\ j[s] = "completed" /\ \A t \in Stages \ {s} : j[t] = job[t]
      BY <1>0, <1>1 DEF TypeOK, JobStates
    <2> HIDE DEF j
    <2>4. /\ job' \in [Stages -> JobStates]
          /\ \A t \in Stages : job'[t] = j[t]
               \/ (ParentOf[s] = t /\ j[t] = "waiting-children" /\ job'[t] = "wait"
                   /\ \A c \in Children(t) : j[c] \in Done)
          /\ \A t \in Stages :
               ParentOf[s] = t /\ job'[t] = "waiting-children" =>
                   \E c \in Children(t) : j[c] \notin Done
      <3>1. \A k \in [Stages -> JobStates] : k = j =>
               /\ Released(k, s) \in [Stages -> JobStates]
               /\ \A t \in Stages : Released(k, s)[t] = k[t]
                     \/ (ParentOf[s] = t /\ k[t] = "waiting-children" /\ Released(k, s)[t] = "wait"
                         /\ \A c \in Children(t) : k[c] \in Done)
               /\ \A t \in Stages :
                     ParentOf[s] = t /\ Released(k, s)[t] = "waiting-children" =>
                         \E c \in Children(t) : k[c] \notin Done
        BY <1>1, Release
      <3>2. QED
        BY <2>1, <2>3, <3>1
    <2>5. \A t \in Stages : \A c \in Children(t) : c \in Stages
      BY DEF Children
    <2>6. job'[s] = "completed"
      BY <1>1, <2>3, <2>4
    <2>7. \A t \in Stages \ {s} :
             \/ job'[t] = job[t]
             \/ /\ ParentOf[s] = t /\ job[t] = "waiting-children" /\ job'[t] = "wait"
                /\ \A c \in Children(t) : c = s \/ job[c] \in Done
      BY <1>1, <2>3, <2>4, <2>5
    <2>8. \A t \in Stages :
             ParentOf[s] = t /\ job'[t] = "waiting-children" =>
                 \E c \in Children(t) : c # s /\ job[c] \notin Done
      BY <1>1, <2>3, <2>4, <2>5 DEF Done
    <2>9. QED
      BY <1>1, <2>1, <2>2, <2>4, <2>6, <2>7, <2>8 DEF Completes
  <1>4. QED
    BY <1>2, <1>3

(* A processor that records its result keeps its stage and attempt. *)
LEMMA Closing ==
  ASSUME TypeOK, NEW w \in Workers, CloseRow(w)
  PROVE  /\ \A v \in Workers :
               /\ exec'[v].stage = exec[v].stage /\ exec'[v].attempt = exec[v].attempt
               /\ exec'[v].phase = "idle" <=> exec[v].phase = "idle"
         /\ row' = "success" => row = "success" \/ exec[w].stage = Root
         /\ job' = job /\ recon' = recon /\ lock' = lock /\ made' = made
  <1>1. exec[w].phase # "idle"
    BY DEF CloseRow
  <1>2. ASSUME NEW x \in {"ack", "nack"}, exec' = [exec EXCEPT ![w].phase = x]
        PROVE  \A v \in Workers :
                   /\ exec'[v].stage = exec[v].stage /\ exec'[v].attempt = exec[v].attempt
                   /\ exec'[v].phase = "idle" <=> exec[v].phase = "idle"
    <2>1. \A v \in Workers \ {w} : exec'[v] = exec[v]
      BY <1>2 DEF TypeOK
    <2>2. exec'[w] = [exec[w] EXCEPT !.phase = x]
      BY <1>2 DEF TypeOK
    <2>3. exec[w] \in [stage : Stages \cup {NoStage}, attempt : 0..Attempts,
                       phase : Phases, killed : BOOLEAN]
      BY DEF TypeOK
    <2>4. exec'[w].stage = exec[w].stage /\ exec'[w].attempt = exec[w].attempt
          /\ exec'[w].phase = x
      BY <2>2, <2>3
    <2>5. QED
      BY <1>1, <1>2, <2>1, <2>4
  <1>3. exec' = [exec EXCEPT ![w].phase = "ack"] \/ exec' = [exec EXCEPT ![w].phase = "nack"]
    BY DEF CloseRow
  <1>4. row' = "success" => row = "success" \/ exec[w].stage = Root
    BY DEF CloseRow
  <1>5. job' = job /\ recon' = recon /\ lock' = lock /\ made' = made
    BY DEF CloseRow, queue
  <1>6. QED
    BY <1>2, <1>3, <1>4, <1>5

(* A job between waiting-children and completed moves without its neighbours. *)
LEMMA Moves ==
  ASSUME TypeOK, TreeInv, NEW s \in Stages, NEW x,
         job[s] \in {"wait", "active", "delayed", "failed"},
         x \in {"wait", "active", "delayed", "failed"},
         job' = [job EXCEPT ![s] = x], submit' = submit
  PROVE  TreeInv'
  <1>1. /\ job'[s] = x
        /\ \A t \in Stages : t # s => job'[t] = job[t]
    BY DEF TypeOK
  <1>2. \A t \in Stages : job'[t] \in Done <=> job[t] \in Done
    BY <1>1 DEF Done
  <1>3. submit \notin {"start", "recorded"}
    BY DEF TreeInv
  <1>4. \A t \in Stages : Children(t) \subseteq Stages
    BY DEF Children
  <1>5. QED
    BY <1>1, <1>2, <1>3, <1>4 DEF TreeInv

(* An added flow waits for its leaves. *)
LEMMA Adding ==
  ASSUME TypeOK, job' = Added, submit' \notin {"start", "recorded"}
  PROVE  TreeInv'
  <1>1. \A t \in Stages : /\ Children(t) = {} => job'[t] = "wait"
                          /\ Children(t) # {} => job'[t] = "waiting-children"
    BY DEF Added
  <1>2. \A t \in Stages : job'[t] \notin Done /\ job'[t] # "absent"
    BY <1>1 DEF Done
  <1>3. \A t \in Stages : Children(t) \subseteq Stages
    BY DEF Children
  <1>4. \A s \in Stages : Children(s) # {} => \E c \in Children(s) : job'[c] \notin Done
    BY <1>2, <1>3
  <1>5. QED
    BY <1>1, <1>2, <1>4 DEF TreeInv

(* Every step keeps the types. *)
LEMMA TypeStep == IInv /\ [Next]_vars => TypeOK'
  <1> SUFFICES ASSUME IInv, [Next]_vars
               PROVE  TypeOK'
    OBVIOUS
  <1>0. TypeOK /\ LockInv /\ TreeInv /\ WorkInv /\ SpendInv
    BY DEF IInv
  <1> USE <1>0 DEF queue, Incident, Idle, Done, TypeOK, JobStates, Phases, LockInv
  <1>1. ASSUME RecordStart PROVE TypeOK'
    BY <1>1 DEF RecordStart
  <1>2. ASSUME AddFlow PROVE TypeOK'
    BY <1>2 DEF AddFlow, Added
  <1>3. ASSUME AddFails PROVE TypeOK'
    BY <1>3 DEF AddFails, Added
  <1>4. ASSUME SubmitterDies PROVE TypeOK'
    BY <1>4 DEF SubmitterDies
  <1>5. ASSUME ReadState PROVE TypeOK'
    BY <1>5 DEF ReadState, Snapshot
  <1>6. ASSUME ReadOpenParents PROVE TypeOK'
    BY <1>6 DEF ReadOpenParents
  <1>7. ASSUME ApplyTransition PROVE TypeOK'
    BY <1>7 DEF ApplyTransition
  <1>8. ASSUME NEW w \in Workers, NEW s \in Stages, Take(w, s) PROVE TypeOK'
    BY <1>8 DEF Take, Begin
  <1>9. ASSUME NEW w \in Workers, Timeout(w) PROVE TypeOK'
    <2>r. PICK r \in [stage : Stages \cup {NoStage}, attempt : 0..Attempts,
                      phase : Phases, killed : BOOLEAN] : r = exec[w]
      OBVIOUS
    <2>1. PICK e \in [stage : Stages \cup {NoStage}, attempt : 0..Attempts,
                      phase : Phases, killed : BOOLEAN] : e = [exec[w] EXCEPT !.killed = TRUE]
      BY <2>r
    <2>2. exec' \in [Workers -> [stage : Stages \cup {NoStage}, attempt : 0..Attempts,
                                phase : Phases, killed : BOOLEAN]]
      BY <1>9, <2>1 DEF Timeout
    <2>3. QED
      BY <1>9, <2>2 DEF Timeout
  <1>10. ASSUME NEW w \in Workers, ChildExits(w) PROVE TypeOK'
    BY <1>10 DEF ChildExits
  <1>11. ASSUME NEW w \in Workers, CloseRow(w) PROVE TypeOK'
    BY <1>11 DEF CloseRow
  <1>12. ASSUME NEW w \in Workers, Ack(w) PROVE TypeOK'
    <2>1. CASE Completes(w, exec[w].stage)
      BY <1>12, <2>1 DEF Ack, Completes, SpendInv
    <2>2. CASE UNCHANGED <<job, lock, made>>
      BY <1>12, <2>2 DEF Ack
    <2>3. QED
      BY <1>12, <2>1, <2>2, Acknowledged
  <1>13. ASSUME NEW w \in Workers, Nack(w) PROVE TypeOK'
    <2> DEFINE s == exec[w].stage
    <2>1. s \in Stages
      BY <1>13 DEF Nack
    <2>2. CASE lock[s] = w
      <3>1. job[s] = "active" /\ exec[w].attempt = made[s] /\ made[s] < Attempts
        BY <2>1, <2>2 DEF SpendInv
      <3>2. /\ job' = [job EXCEPT ![s] = IF made[s] + 1 >= Attempts THEN "failed" ELSE "delayed"]
            /\ lock' = [lock EXCEPT ![s] = NoWorker]
            /\ made' = [made EXCEPT ![s] = @ + 1]
        BY <1>13, <2>2, <3>1 DEF Nack, LastAttempt
      <3>3. QED
        BY <1>13, <2>1, <3>1, <3>2 DEF Nack
    <2>3. CASE lock[s] # w
      BY <1>13, <2>3 DEF Nack
    <2>4. QED
      BY <2>2, <2>3
  <1>14. ASSUME NEW w \in Workers, CloseRowThrows(w) PROVE TypeOK'
    BY <1>14 DEF CloseRowThrows
  <1>15. ASSUME NEW w \in Workers, WorkerCrash(w) PROVE TypeOK'
    BY <1>15 DEF WorkerCrash
  <1>16. ASSUME NEW w \in Workers, LockExpires(w) PROVE TypeOK'
    BY <1>16 DEF LockExpires
  <1>17. ASSUME NEW s \in Stages, Promote(s) PROVE TypeOK'
    BY <1>17 DEF Promote
  <1>18. ASSUME NEW s \in Stages, Stall(s) PROVE TypeOK'
    BY <1>18 DEF Stall
  <1>19. ASSUME NEW s \in Stages, TrimCompleted(s) PROVE TypeOK'
    BY <1>19 DEF TrimCompleted
  <1>a. ASSUME CloseFailed PROVE TypeOK'
    BY <1>a DEF CloseFailed
  <1>b. ASSUME NEW w \in Workers, NEW s \in Stages, TakeThrows(w, s) PROVE TypeOK'
    BY <1>b DEF TakeThrows, Begin
  <1>20. ASSUME UNCHANGED vars PROVE TypeOK'
    BY <1>20 DEF vars, queue
  <1>21. QED
    BY <1>1, <1>2, <1>3, <1>4, <1>5, <1>6, <1>7, <1>8, <1>9, <1>10, <1>11, <1>12, <1>13, <1>14, <1>15, <1>16, <1>17, <1>18, <1>19, <1>20, <1>a, <1>b DEF Next, Processor, Reconcile

(* Every step keeps locks and processors together. *)
LEMMA LockStep == IInv /\ [Next]_vars => LockInv'
  <1> SUFFICES ASSUME IInv, [Next]_vars
               PROVE  LockInv'
    OBVIOUS
  <1>0. TypeOK /\ LockInv /\ TreeInv /\ WorkInv /\ SpendInv
    BY DEF IInv
  <1> USE <1>0 DEF queue, Incident, Idle, Done, TypeOK, LockInv
  <1>1. ASSUME RecordStart PROVE LockInv'
    BY <1>1 DEF RecordStart
  <1>2. ASSUME AddFlow PROVE LockInv'
    BY <1>2 DEF AddFlow, TreeInv
  <1>3. ASSUME AddFails PROVE LockInv'
    BY <1>3 DEF AddFails, TreeInv
  <1>4. ASSUME SubmitterDies PROVE LockInv'
    BY <1>4 DEF SubmitterDies
  <1>5. ASSUME ReadState PROVE LockInv'
    BY <1>5 DEF ReadState
  <1>6. ASSUME ReadOpenParents PROVE LockInv'
    BY <1>6 DEF ReadOpenParents
  <1>7. ASSUME ApplyTransition PROVE LockInv'
    BY <1>7 DEF ApplyTransition
  <1>8. ASSUME NEW w \in Workers, NEW s \in Stages, Take(w, s) PROVE LockInv'
    BY <1>8 DEF Take, Begin
  <1>9. ASSUME NEW w \in Workers, Timeout(w) PROVE LockInv'
    BY <1>9 DEF Timeout
  <1>10. ASSUME NEW w \in Workers, ChildExits(w) PROVE LockInv'
    BY <1>10 DEF ChildExits, Phases
  <1>11. ASSUME NEW w \in Workers, CloseRow(w) PROVE LockInv'
    BY <1>11, Closing
  <1>12. ASSUME NEW w \in Workers, Ack(w) PROVE LockInv'
    <2>1. CASE Completes(w, exec[w].stage)
      BY <1>12, <2>1 DEF Ack, Completes
    <2>2. CASE UNCHANGED <<job, lock, made>>
      BY <1>12, <2>2 DEF Ack
    <2>3. QED
      BY <1>12, <2>1, <2>2, Acknowledged
  <1>13. ASSUME NEW w \in Workers, Nack(w) PROVE LockInv'
    BY <1>13 DEF Nack
  <1>14. ASSUME NEW w \in Workers, CloseRowThrows(w) PROVE LockInv'
    BY <1>14 DEF CloseRowThrows
  <1>15. ASSUME NEW w \in Workers, WorkerCrash(w) PROVE LockInv'
    BY <1>15 DEF WorkerCrash
  <1>16. ASSUME NEW w \in Workers, LockExpires(w) PROVE LockInv'
    BY <1>16 DEF LockExpires
  <1>17. ASSUME NEW s \in Stages, Promote(s) PROVE LockInv'
    BY <1>17 DEF Promote
  <1>18. ASSUME NEW s \in Stages, Stall(s) PROVE LockInv'
    BY <1>18 DEF Stall
  <1>19. ASSUME NEW s \in Stages, TrimCompleted(s) PROVE LockInv'
    BY <1>19 DEF TrimCompleted
  <1>a. ASSUME CloseFailed PROVE LockInv'
    BY <1>a DEF CloseFailed
  <1>b. ASSUME NEW w \in Workers, NEW s \in Stages, TakeThrows(w, s) PROVE LockInv'
    BY <1>b DEF TakeThrows, Begin
  <1>20. ASSUME UNCHANGED vars PROVE LockInv'
    BY <1>20 DEF vars, queue
  <1>21. QED
    BY <1>1, <1>2, <1>3, <1>4, <1>5, <1>6, <1>7, <1>8, <1>9, <1>10, <1>11, <1>12, <1>13, <1>14, <1>15, <1>16, <1>17, <1>18, <1>19, <1>20, <1>a, <1>b DEF Next, Processor, Reconcile

(* Every step keeps children before parents. *)
LEMMA TreeStep == IInv /\ [Next]_vars => TreeInv'
  <1> SUFFICES ASSUME IInv, [Next]_vars
               PROVE  TreeInv'
    OBVIOUS
  <1>0. TypeOK /\ LockInv /\ TreeInv /\ WorkInv /\ SpendInv
    BY DEF IInv
  <1> USE <1>0 DEF queue, Incident, Idle, Done, TypeOK, LockInv, TreeInv, JobStates
  <1>1. ASSUME RecordStart PROVE TreeInv'
    BY <1>1 DEF RecordStart
  <1>2. ASSUME AddFlow PROVE TreeInv'
    BY <1>2, Adding DEF AddFlow
  <1>3. ASSUME AddFails PROVE TreeInv'
    <2>1. CASE job' = job
      BY <1>3, <2>1 DEF AddFails
    <2>2. CASE job' = Added
      BY <1>3, <2>2, Adding DEF AddFails
    <2>3. QED
      BY <1>3, <2>1, <2>2 DEF AddFails
  <1>4. ASSUME SubmitterDies PROVE TreeInv'
    BY <1>4 DEF SubmitterDies
  <1>5. ASSUME ReadState PROVE TreeInv'
    BY <1>5 DEF ReadState
  <1>6. ASSUME ReadOpenParents PROVE TreeInv'
    BY <1>6 DEF ReadOpenParents
  <1>7. ASSUME ApplyTransition PROVE TreeInv'
    BY <1>7 DEF ApplyTransition
  <1>8. ASSUME NEW w \in Workers, NEW s \in Stages, Take(w, s) PROVE TreeInv'
    BY <1>8, Moves DEF Take, Begin
  <1>9. ASSUME NEW w \in Workers, Timeout(w) PROVE TreeInv'
    BY <1>9 DEF Timeout
  <1>10. ASSUME NEW w \in Workers, ChildExits(w) PROVE TreeInv'
    BY <1>10 DEF ChildExits
  <1>11. ASSUME NEW w \in Workers, CloseRow(w) PROVE TreeInv'
    BY <1>11 DEF CloseRow
  <1>12. ASSUME NEW w \in Workers, Ack(w) PROVE TreeInv'
    <2> DEFINE s == exec[w].stage
    <2>1. CASE Completes(w, s)
      <3>1. submit' = submit /\ submit \notin {"start", "recorded"}
        BY <1>12, <2>1 DEF Ack, Completes
      <3>2. \A t \in Stages : job[t] \in Done => job'[t] \in Done
        BY <2>1 DEF Completes
      <3>3. \A t \in Stages : job'[t] # "absent"
        BY <2>1 DEF Completes
      <3>4. ASSUME NEW t \in Stages, job'[t] # "waiting-children", NEW c \in Children(t)
            PROVE  job'[c] \in Done
        BY <2>1, <3>2, <3>4 DEF Completes, Children
      <3>5. ASSUME NEW t \in Stages, job'[t] = "waiting-children"
            PROVE  \E c \in Children(t) : job'[c] \notin Done
        <4>1. CASE ParentOf[s] = t
          <5>1. PICK c \in Children(t) : c # s /\ job[c] \notin Done
            BY <2>1, <3>5, <4>1 DEF Completes
          <5>2. QED
            BY <2>1, <5>1 DEF Completes, Children
        <4>2. CASE ParentOf[s] # t
          <5>1. job[t] = "waiting-children"
            BY <2>1, <3>5 DEF Completes
          <5>2. PICK c \in Children(t) : job[c] \notin Done
            BY <5>1
          <5>3. c # s /\ c \in Stages
            BY <4>2 DEF Children
          <5>4. QED
            BY <2>1, <5>2, <5>3 DEF Completes
        <4>3. QED
          BY <4>1, <4>2
      <3>6. QED
        BY <3>1, <3>3, <3>4, <3>5
    <2>2. CASE UNCHANGED job
      BY <1>12, <2>2 DEF Ack
    <2>3. QED
      BY <1>12, <2>1, <2>2, Acknowledged
  <1>13. ASSUME NEW w \in Workers, Nack(w) PROVE TreeInv'
    <2> DEFINE s == exec[w].stage
    <2>1. s \in Stages /\ submit' = submit
      BY <1>13 DEF Nack
    <2>2. CASE lock[s] = w
      <3>1. job' = [job EXCEPT ![s] = "failed"] \/ job' = [job EXCEPT ![s] = "delayed"]
        BY <1>13, <2>2 DEF Nack
      <3>2. QED
        BY <2>1, <2>2, <3>1, Moves
    <2>3. CASE lock[s] # w
      BY <1>13, <2>3 DEF Nack
    <2>4. QED
      BY <2>2, <2>3
  <1>14. ASSUME NEW w \in Workers, CloseRowThrows(w) PROVE TreeInv'
    BY <1>14 DEF CloseRowThrows
  <1>15. ASSUME NEW w \in Workers, WorkerCrash(w) PROVE TreeInv'
    BY <1>15 DEF WorkerCrash
  <1>16. ASSUME NEW w \in Workers, LockExpires(w) PROVE TreeInv'
    BY <1>16 DEF LockExpires
  <1>17. ASSUME NEW s \in Stages, Promote(s) PROVE TreeInv'
    BY <1>17, Moves DEF Promote
  <1>18. ASSUME NEW s \in Stages, Stall(s) PROVE TreeInv'
    <2>1. job' = [job EXCEPT ![s] = "wait"] \/ job' = [job EXCEPT ![s] = "failed"]
      BY <1>18 DEF Stall
    <2>2. QED
      BY <1>18, <2>1, Moves DEF Stall
  <1>19. ASSUME NEW s \in Stages, TrimCompleted(s) PROVE TreeInv'
    BY <1>19 DEF TrimCompleted
  <1>a. ASSUME CloseFailed PROVE TreeInv'
    BY <1>a DEF CloseFailed
  <1>b. ASSUME NEW w \in Workers, NEW s \in Stages, TakeThrows(w, s) PROVE TreeInv'
    BY <1>b, Moves DEF TakeThrows, Begin
  <1>20. ASSUME UNCHANGED vars PROVE TreeInv'
    BY <1>20 DEF vars, queue
  <1>21. QED
    BY <1>1, <1>2, <1>3, <1>4, <1>5, <1>6, <1>7, <1>8, <1>9, <1>10, <1>11, <1>12, <1>13, <1>14, <1>15, <1>16, <1>17, <1>18, <1>19, <1>20, <1>a, <1>b DEF Next, Processor, Reconcile

(* What is done stays done. *)
LEMMA DoneStays ==
  IInv /\ [Next]_vars => \A t \in Stages : job[t] \in Done => job'[t] \in Done
  <1> SUFFICES ASSUME IInv, [Next]_vars, NEW t \in Stages, job[t] \in Done
               PROVE  job'[t] \in Done
    OBVIOUS
  <1>0. TypeOK /\ LockInv /\ TreeInv /\ WorkInv /\ SpendInv
    BY DEF IInv
  <1> USE <1>0 DEF queue, Incident, Idle, Done, TypeOK, LockInv, TreeInv
  <1>1. ASSUME RecordStart PROVE job'[t] \in Done
    BY <1>1 DEF RecordStart
  <1>2. ASSUME AddFlow PROVE job'[t] \in Done
    BY <1>2 DEF AddFlow, Added
  <1>3. ASSUME AddFails PROVE job'[t] \in Done
    BY <1>3 DEF AddFails, Added
  <1>4. ASSUME SubmitterDies PROVE job'[t] \in Done
    BY <1>4 DEF SubmitterDies
  <1>5. ASSUME ReadState PROVE job'[t] \in Done
    BY <1>5 DEF ReadState
  <1>6. ASSUME ReadOpenParents PROVE job'[t] \in Done
    BY <1>6 DEF ReadOpenParents
  <1>7. ASSUME ApplyTransition PROVE job'[t] \in Done
    BY <1>7 DEF ApplyTransition
  <1>8. ASSUME NEW w \in Workers, NEW s \in Stages, Take(w, s) PROVE job'[t] \in Done
    BY <1>8 DEF Take, Begin
  <1>9. ASSUME NEW w \in Workers, Timeout(w) PROVE job'[t] \in Done
    BY <1>9 DEF Timeout
  <1>10. ASSUME NEW w \in Workers, ChildExits(w) PROVE job'[t] \in Done
    BY <1>10 DEF ChildExits
  <1>11. ASSUME NEW w \in Workers, CloseRow(w) PROVE job'[t] \in Done
    BY <1>11 DEF CloseRow
  <1>12. ASSUME NEW w \in Workers, Ack(w) PROVE job'[t] \in Done
    <2>1. CASE Completes(w, exec[w].stage)
      BY <2>1 DEF Completes
    <2>2. CASE UNCHANGED <<job, lock, made>>
      BY <2>2
    <2>3. QED
      BY <1>12, <2>1, <2>2, Acknowledged
  <1>13. ASSUME NEW w \in Workers, Nack(w) PROVE job'[t] \in Done
    BY <1>13 DEF Nack
  <1>14. ASSUME NEW w \in Workers, CloseRowThrows(w) PROVE job'[t] \in Done
    BY <1>14 DEF CloseRowThrows
  <1>15. ASSUME NEW w \in Workers, WorkerCrash(w) PROVE job'[t] \in Done
    BY <1>15 DEF WorkerCrash
  <1>16. ASSUME NEW w \in Workers, LockExpires(w) PROVE job'[t] \in Done
    BY <1>16 DEF LockExpires
  <1>17. ASSUME NEW s \in Stages, Promote(s) PROVE job'[t] \in Done
    BY <1>17 DEF Promote
  <1>18. ASSUME NEW s \in Stages, Stall(s) PROVE job'[t] \in Done
    BY <1>18 DEF Stall
  <1>19. ASSUME NEW s \in Stages, TrimCompleted(s) PROVE job'[t] \in Done
    BY <1>19 DEF TrimCompleted
  <1>a. ASSUME CloseFailed PROVE job'[t] \in Done
    BY <1>a DEF CloseFailed
  <1>b. ASSUME NEW w \in Workers, NEW s \in Stages, TakeThrows(w, s) PROVE job'[t] \in Done
    BY <1>b DEF TakeThrows, Begin
  <1>20. ASSUME UNCHANGED vars PROVE job'[t] \in Done
    BY <1>20 DEF vars, queue
  <1>21. QED
    BY <1>1, <1>2, <1>3, <1>4, <1>5, <1>6, <1>7, <1>8, <1>9, <1>10, <1>11, <1>12, <1>13, <1>14, <1>15, <1>16, <1>17, <1>18, <1>19, <1>20, <1>a, <1>b DEF Next, Processor, Reconcile

(* Every step keeps the work below a processor and a success done. *)
LEMMA WorkStep == IInv /\ [Next]_vars => WorkInv'
  <1> SUFFICES ASSUME IInv, [Next]_vars
               PROVE  WorkInv'
    OBVIOUS
  <1>0. TypeOK /\ LockInv /\ TreeInv /\ WorkInv /\ SpendInv
    BY DEF IInv
  <1>d. /\ \A t \in Stages : job[t] \in Done => job'[t] \in Done
        /\ Root \in Stages /\ \A t \in Stages : Children(t) \subseteq Stages
    BY DoneStays, RootIsTheRoot DEF Children
  <1> USE <1>0, <1>d DEF queue, Incident, Idle, TypeOK, LockInv, WorkInv
  <1>1. ASSUME RecordStart PROVE WorkInv'
    BY <1>1 DEF RecordStart
  <1>2. ASSUME AddFlow PROVE WorkInv'
    BY <1>2 DEF AddFlow
  <1>3. ASSUME AddFails PROVE WorkInv'
    BY <1>3 DEF AddFails
  <1>4. ASSUME SubmitterDies PROVE WorkInv'
    BY <1>4 DEF SubmitterDies
  <1>5. ASSUME ReadState PROVE WorkInv'
    BY <1>5 DEF ReadState, Snapshot, Done
  <1>6. ASSUME ReadOpenParents PROVE WorkInv'
    BY <1>6 DEF ReadOpenParents
  <1>7. ASSUME ApplyTransition PROVE WorkInv'
    <2>1. CASE Assessment(recon.seen) = "terminal_success"
      <3>1. "root" \in recon.seen
        BY <2>1 DEF Assessment
      <3>2. \A c \in Children(Root) : job[c] \in Done
        BY <3>1, RootIsTheRoot DEF TreeInv, Done
      <3>3. QED
        BY <1>7, <3>2 DEF ApplyTransition
    <2>2. CASE Assessment(recon.seen) # "terminal_success"
      BY <1>7, <2>2 DEF ApplyTransition
    <2>3. QED
      BY <2>1, <2>2
  <1>8. ASSUME NEW w \in Workers, NEW s \in Stages, Take(w, s) PROVE WorkInv'
    <2>1. \A c \in Children(s) : job[c] \in Done
      BY <1>8 DEF Take, Begin, TreeInv
    <2>2. QED
      BY <1>8, <2>1 DEF Take, Begin
  <1>9. ASSUME NEW w \in Workers, Timeout(w) PROVE WorkInv'
    BY <1>9 DEF Timeout
  <1>10. ASSUME NEW w \in Workers, ChildExits(w) PROVE WorkInv'
    BY <1>10 DEF ChildExits
  <1>11. ASSUME NEW w \in Workers, CloseRow(w) PROVE WorkInv'
    <2>1. Root # NoStage
      OBVIOUS
    <2>2. QED
      BY <1>11, <2>1, Closing
  <1>12. ASSUME NEW w \in Workers, Ack(w) PROVE WorkInv'
    BY <1>12 DEF Ack, Children
  <1>13. ASSUME NEW w \in Workers, Nack(w) PROVE WorkInv'
    BY <1>13 DEF Nack
  <1>14. ASSUME NEW w \in Workers, CloseRowThrows(w) PROVE WorkInv'
    BY <1>14 DEF CloseRowThrows
  <1>15. ASSUME NEW w \in Workers, WorkerCrash(w) PROVE WorkInv'
    BY <1>15 DEF WorkerCrash
  <1>16. ASSUME NEW w \in Workers, LockExpires(w) PROVE WorkInv'
    BY <1>16 DEF LockExpires
  <1>17. ASSUME NEW s \in Stages, Promote(s) PROVE WorkInv'
    BY <1>17 DEF Promote
  <1>18. ASSUME NEW s \in Stages, Stall(s) PROVE WorkInv'
    BY <1>18 DEF Stall
  <1>19. ASSUME NEW s \in Stages, TrimCompleted(s) PROVE WorkInv'
    BY <1>19 DEF TrimCompleted
  <1>a. ASSUME CloseFailed PROVE WorkInv'
    BY <1>a DEF CloseFailed
  <1>b. ASSUME NEW w \in Workers, NEW s \in Stages, TakeThrows(w, s) PROVE WorkInv'
    <2>1. \A c \in Children(s) : job[c] \in Done
      BY <1>b DEF TakeThrows, Begin, TreeInv
    <2>2. QED
      BY <1>b, <2>1 DEF TakeThrows, Begin
  <1>20. ASSUME UNCHANGED vars PROVE WorkInv'
    BY <1>20 DEF vars, queue
  <1>21. QED
    BY <1>1, <1>2, <1>3, <1>4, <1>5, <1>6, <1>7, <1>8, <1>9, <1>10, <1>11, <1>12, <1>13, <1>14, <1>15, <1>16, <1>17, <1>18, <1>19, <1>20, <1>a, <1>b DEF Next, Processor, Reconcile

(* Every step keeps the account of the children spawned. *)
LEMMA SpendStep == IInv /\ [Next]_vars => SpendInv'
  <1> SUFFICES ASSUME IInv, [Next]_vars
               PROVE  SpendInv'
    OBVIOUS
  <1>0. TypeOK /\ LockInv /\ TreeInv /\ WorkInv /\ SpendInv
    BY DEF IInv
  <1> USE <1>0 DEF queue, Incident, Idle, Done, TypeOK, LockInv, TreeInv, SpendInv, JobStates
  <1>1. ASSUME RecordStart PROVE SpendInv'
    BY <1>1 DEF RecordStart
  <1>2. ASSUME AddFlow PROVE SpendInv'
    BY <1>2 DEF AddFlow, Added
  <1>3. ASSUME AddFails PROVE SpendInv'
    BY <1>3 DEF AddFails, Added
  <1>4. ASSUME SubmitterDies PROVE SpendInv'
    BY <1>4 DEF SubmitterDies
  <1>5. ASSUME ReadState PROVE SpendInv'
    BY <1>5 DEF ReadState
  <1>6. ASSUME ReadOpenParents PROVE SpendInv'
    BY <1>6 DEF ReadOpenParents
  <1>7. ASSUME ApplyTransition PROVE SpendInv'
    BY <1>7 DEF ApplyTransition
  <1>8. ASSUME NEW w \in Workers, NEW s \in Stages, Take(w, s) PROVE SpendInv'
    BY <1>8 DEF Take, Begin
  <1>9. ASSUME NEW w \in Workers, Timeout(w) PROVE SpendInv'
    BY <1>9 DEF Timeout
  <1>10. ASSUME NEW w \in Workers, ChildExits(w) PROVE SpendInv'
    BY <1>10 DEF ChildExits
  <1>11. ASSUME NEW w \in Workers, CloseRow(w) PROVE SpendInv'
    BY <1>11 DEF CloseRow
  <1>12. ASSUME NEW w \in Workers, Ack(w) PROVE SpendInv'
    <2>1. CASE Completes(w, exec[w].stage)
      BY <1>12, <2>1 DEF Ack, Completes
    <2>2. CASE UNCHANGED <<job, lock, made>>
      BY <1>12, <2>2 DEF Ack
    <2>3. QED
      BY <1>12, <2>1, <2>2, Acknowledged
  <1>13. ASSUME NEW w \in Workers, Nack(w) PROVE SpendInv'
    <2> DEFINE s == exec[w].stage
    <2>1. s \in Stages
      BY <1>13 DEF Nack
    <2>2. CASE lock[s] = w
      <3>1. job[s] = "active" /\ exec[w].attempt = made[s] /\ made[s] < Attempts
        BY <2>1, <2>2
      <3>2. /\ job' = [job EXCEPT ![s] = IF made[s] + 1 >= Attempts THEN "failed" ELSE "delayed"]
            /\ lock' = [lock EXCEPT ![s] = NoWorker]
            /\ made' = [made EXCEPT ![s] = @ + 1]
        BY <1>13, <2>2, <3>1 DEF Nack, LastAttempt
      <3>3. stalls' = stalls /\ spawned' = spawned
        BY <1>13 DEF Nack
      <3>4. /\ job'[s] \in {"failed", "delayed"} /\ made'[s] = made[s] + 1
            /\ job'[s] = "delayed" => made[s] + 1 < Attempts
            /\ \A t \in Stages \ {s} : job'[t] = job[t] /\ made'[t] = made[t]
        BY <2>1, <3>1, <3>2
      <3>5. spawned[s] <= made[s] + stalls[s] + 1 /\ stalls[s] <= MaxStalls
        BY <2>1, <3>1
      <3>6. made[s] \in Nat /\ spawned[s] \in Nat /\ stalls[s] \in Nat
        BY <2>1
      <3>7. spawned'[s] <= Attempts + MaxStalls
        BY <2>1, <3>1, <3>3, <3>5, <3>6
      <3>8. \A t \in Stages \ {s} :
                /\ spawned'[t] = spawned[t] /\ stalls'[t] = stalls[t]
                /\ job'[t] = job[t] /\ made'[t] = made[t]
        BY <3>3, <3>4
      <3>9. job'[s] = "delayed" => spawned'[s] <= made'[s] + stalls'[s] /\ made'[s] < Attempts
        BY <3>3, <3>4, <3>5, <3>6
      <3>10. QED
        BY <2>1, <3>4, <3>7, <3>8, <3>9
    <2>3. CASE lock[s] # w
      BY <1>13, <2>3 DEF Nack
    <2>4. QED
      BY <2>2, <2>3
  <1>14. ASSUME NEW w \in Workers, CloseRowThrows(w) PROVE SpendInv'
    BY <1>14 DEF CloseRowThrows
  <1>15. ASSUME NEW w \in Workers, WorkerCrash(w) PROVE SpendInv'
    BY <1>15 DEF WorkerCrash
  <1>16. ASSUME NEW w \in Workers, LockExpires(w) PROVE SpendInv'
    BY <1>16 DEF LockExpires
  <1>17. ASSUME NEW s \in Stages, Promote(s) PROVE SpendInv'
    BY <1>17 DEF Promote
  <1>18. ASSUME NEW s \in Stages, Stall(s) PROVE SpendInv'
    BY <1>18 DEF Stall
  <1>19. ASSUME NEW s \in Stages, TrimCompleted(s) PROVE SpendInv'
    BY <1>19 DEF TrimCompleted
  <1>a. ASSUME CloseFailed PROVE SpendInv'
    BY <1>a DEF CloseFailed
  <1>b. ASSUME NEW w \in Workers, NEW s \in Stages, TakeThrows(w, s) PROVE SpendInv'
    BY <1>b DEF TakeThrows, Begin
  <1>20. ASSUME UNCHANGED vars PROVE SpendInv'
    BY <1>20 DEF vars, queue
  <1>21. QED
    BY <1>1, <1>2, <1>3, <1>4, <1>5, <1>6, <1>7, <1>8, <1>9, <1>10, <1>11, <1>12, <1>13, <1>14, <1>15, <1>16, <1>17, <1>18, <1>19, <1>20, <1>a, <1>b DEF Next, Processor, Reconcile

(* Every step keeps the invariant. *)
LEMMA InvStep == IInv /\ [Next]_vars => IInv'
  BY TypeStep, LockStep, TreeStep, WorkStep, SpendStep DEF IInv

(* Every reachable state satisfies the inductive invariant: locks belong to live    *)
(* processors, the tree completes from its leaves, and every spawn is accounted for. *)
THEOREM Invariance == Spec => []IInv
  <1>1. Init => IInv
    BY InitInv
  <1>2. IInv /\ [Next]_vars => IInv'
    BY InvStep
  <1>3. QED
    BY <1>1, <1>2, PTL DEF Spec

(* When the stages below the root are done as far as its children, all of them are. *)
LEMMA DoneBelow ==
  ASSUME TreeInv, \A c \in Children(Root) : job[c] \in Done
  PROVE  \A s \in Stages \ {Root} : job[s] \in Done
  <1> DEFINE below == {Root} \cup {s \in Stages : job[s] \in Done}
  <1>1. below \in SUBSET Stages /\ Root \in below
    BY RootIsTheRoot
  <1>2. \A s \in below : Children(s) \subseteq below
    <2> SUFFICES ASSUME NEW s \in below, NEW c \in Children(s)
                 PROVE  c \in below
      OBVIOUS
    <2>1. c \in Stages
      BY DEF Children
    <2>2. CASE s = Root
      BY <2>1, <2>2
    <2>3. CASE s # Root
      BY <2>1, <2>3 DEF TreeInv, Done
    <2>4. QED
      BY <2>2, <2>3
  <1>3. below = Stages
    BY <1>1, <1>2, TreeAssumption
  <1>4. QED
    BY <1>3

(* A run recorded as a success has all its stages below the root done, whoever of    *)
(* processJob and the reconciler recorded it.                                        *)
THEOREM SuccessIsTrue == Spec => []SuccessMeansWorkDone
  <1>1. IInv => SuccessMeansWorkDone
    BY DoneBelow DEF IInv, WorkInv, SuccessMeansWorkDone
  <1>2. QED
    BY <1>1, Invariance, PTL

(* No stage is spawned more often than its attempts and BullMQ's stalls allow.       *)
THEOREM SpendingIsBounded == Spec => []SpendIsBounded
  <1>1. ASSUME IInv, NEW s \in Stages
        PROVE  spawned[s] <= Attempts + MaxStalls
    <2>1. made[s] \in 0..Attempts /\ stalls[s] \in 0..MaxStalls /\ spawned[s] \in Nat
      BY <1>1 DEF IInv, TypeOK
    <2>2. job[s] \in JobStates
      BY <1>1 DEF IInv, TypeOK
    <2>3. CASE job[s] = "active"
      BY <1>1, <2>1, <2>3 DEF IInv, SpendInv
    <2>4. CASE job[s] = "failed"
      BY <1>1, <2>4 DEF IInv, SpendInv
    <2>5. CASE job[s] \notin {"active", "failed"}
      <3>1. spawned[s] <= made[s] + stalls[s]
        BY <1>1, <2>2, <2>5 DEF IInv, SpendInv, JobStates
      <3>2. QED
        BY <2>1, <3>1
    <2>6. QED
      BY <2>3, <2>4, <2>5
  <1>2. IInv => SpendIsBounded
    BY <1>1 DEF SpendIsBounded
  <1>3. QED
    BY <1>2, Invariance, PTL

\* What a step may do to the jobs.
Begins ==
    /\ submit = "recorded" /\ UNCHANGED row
    /\ (\A s \in Stages : job[s] = "absent") /\ job' = Added
Runs == Runnable /\ \A s \in Stages : job[s] # "absent" /\ job'[s] # "absent"
Trims ==
    \A s \in Stages : job'[s] = job[s] \/ (job[s] = "completed" /\ job'[s] = "trimmed")

(* Only a flow that can run changes, but for its beginning and the trimming. *)
LEMMA JobStep == IInv /\ [Next]_vars => UNCHANGED job \/ Begins \/ Runs \/ Trims
  <1> SUFFICES ASSUME IInv, [Next]_vars
               PROVE  UNCHANGED job \/ Begins \/ Runs \/ Trims
    OBVIOUS
  <1>0. TypeOK /\ LockInv /\ TreeInv
    BY DEF IInv
  <1> USE DEF queue
  <1>1. ASSUME AddFlow \/ AddFails PROVE UNCHANGED job \/ Begins
    BY <1>0, <1>1 DEF AddFlow, AddFails, Begins, TreeInv
  <1>2. ASSUME NEW s \in Stages, NEW x \in JobStates \ {"absent"},
               job[s] \in {"wait", "active", "delayed"}, job' = [job EXCEPT ![s] = x]
        PROVE  Runs
    <2>1. \A t \in Stages : job[t] # "absent"
      BY <1>0, <1>2 DEF TreeInv
    <2>2. \A t \in Stages : job'[t] # "absent"
      BY <1>0, <1>2, <2>1 DEF TypeOK
    <2>3. QED
      BY <1>2, <2>1, <2>2 DEF Runs, Runnable
  <1>3. ASSUME NEW w \in Workers, NEW s \in Stages, Take(w, s) \/ TakeThrows(w, s) PROVE Runs
    BY <1>2, <1>3 DEF Take, TakeThrows, Begin, JobStates
  <1>4. ASSUME NEW w \in Workers, Ack(w) PROVE UNCHANGED job \/ Runs
    <2>1. CASE Completes(w, exec[w].stage)
      <3>1. \A t \in Stages : job[t] # "absent"
        BY <1>0, <2>1 DEF TreeInv, Completes
      <3>2. \A t \in Stages : job'[t] # "absent"
        BY <2>1, <3>1 DEF Completes
      <3>3. QED
        BY <2>1, <3>1, <3>2 DEF Runs, Runnable, Completes
    <2>2. CASE UNCHANGED <<job, lock, made>>
      BY <2>2
    <2>3. QED
      BY <1>4, <2>1, <2>2, Acknowledged
  <1>5. ASSUME NEW w \in Workers, Nack(w) PROVE UNCHANGED job \/ Runs
    <2>1. CASE lock[exec[w].stage] = w
      <3>1. exec[w].stage \in Stages
        BY <1>0, <1>5 DEF Nack, TypeOK, LockInv
      <3>2. job[exec[w].stage] = "active"
        BY <1>0, <2>1, <3>1 DEF LockInv
      <3>3. \/ job' = [job EXCEPT ![exec[w].stage] = "failed"]
            \/ job' = [job EXCEPT ![exec[w].stage] = "delayed"]
        BY <1>5, <2>1 DEF Nack
      <3>4. QED
        BY <1>2, <3>1, <3>2, <3>3 DEF JobStates
    <2>2. CASE lock[exec[w].stage] # w
      BY <1>5, <2>2 DEF Nack
    <2>3. QED
      BY <2>1, <2>2
  <1>6. ASSUME NEW s \in Stages, Promote(s) PROVE Runs
    BY <1>2, <1>6 DEF Promote, JobStates
  <1>7. ASSUME NEW s \in Stages, Stall(s) PROVE Runs
    <2>1. job' = [job EXCEPT ![s] = "wait"] \/ job' = [job EXCEPT ![s] = "failed"]
      BY <1>7 DEF Stall
    <2>2. QED
      BY <1>2, <1>7, <2>1 DEF Stall, JobStates
  <1>8. ASSUME NEW s \in Stages, TrimCompleted(s) PROVE Trims
    BY <1>0, <1>8 DEF TrimCompleted, Trims, TypeOK
  <1>9. ASSUME NEW w \in Workers,
               Timeout(w) \/ ChildExits(w) \/ CloseRow(w)
               \/ CloseRowThrows(w) \/ WorkerCrash(w) \/ LockExpires(w)
        PROVE  UNCHANGED job
    BY <1>9 DEF Timeout, ChildExits, CloseRow, CloseRowThrows, WorkerCrash, LockExpires
  <1>10. ASSUME RecordStart \/ CloseFailed \/ SubmitterDies \/ Reconcile \/ UNCHANGED vars
         PROVE  UNCHANGED job
    BY <1>10 DEF RecordStart, CloseFailed, SubmitterDies, Reconcile, ReadState, ReadOpenParents,
                 ApplyTransition, vars
  <1>11. QED
    BY <1>1, <1>3, <1>4, <1>5, <1>6, <1>7, <1>8, <1>9, <1>10 DEF Next, Processor

(* A flow whose root is done has nothing left to run. *)
LEMMA RootIsLast ==
  ASSUME IInv, job[Root] \in Done
  PROVE  ~Runnable
  <1>1. \A c \in Children(Root) : job[c] \in Done
    BY RootIsTheRoot DEF IInv, TreeInv, Done
  <1>2. \A s \in Stages : job[s] \in Done
    BY <1>1, DoneBelow DEF IInv
  <1>3. QED
    BY <1>2 DEF Runnable, Done

-----------------------------------------------------------------------------
(* The abstract run. *)

(* What a step may do to the phase of the flow. *)
LEMMA PhaseStep ==
  ASSUME IInv, [Next]_vars
  PROVE  \/ UNCHANGED Phase
         \/ Phase = "none" /\ Phase' = "live" /\ Begins
         \/ Phase = "live" /\ Phase' \in {"live", "parked", "completed"} /\ Runs
  <1> USE RootIsTheRoot
  <1>1. CASE UNCHANGED job
    BY <1>1 DEF Phase, Runnable
  <1>2. CASE Begins
    <2>1. Phase = "none"
      BY <1>2 DEF Begins, Phase
    <2>2. PICK leaf \in Stages : Children(leaf) = {}
      BY TreeAssumption
    <2>3. job'[leaf] = "wait" /\ job'[Root] # "absent"
      BY <1>2, <2>2 DEF Begins, Added
    <2>4. Phase' = "live"
      BY <2>2, <2>3 DEF Phase, Runnable
    <2>5. QED
      BY <1>2, <2>1, <2>4
  <1>3. CASE Runs
    BY <1>3 DEF Runs, Phase
  <1>4. CASE Trims
    <2>1. Runnable' <=> Runnable
      BY <1>4 DEF Trims, Runnable
    <2>2. (job'[Root] \in Done <=> job[Root] \in Done) /\ (job'[Root] = "absent" <=> job[Root] = "absent")
      BY <1>4 DEF Trims, Done
    <2>3. QED
      BY <2>1, <2>2 DEF Phase
  <1>5. QED
    BY <1>1, <1>2, <1>3, <1>4, JobStep

\* Nothing is done about a run before its row is written.
RowFirst ==
    /\ row = "absent" <=> submit = "start"
    /\ row = "absent" => \A w \in Workers : exec[w].phase = "idle"

(* What a step may do to the row. *)
LEMMA RowStep ==
  ASSUME IInv, RowFirst, [Next]_vars
  PROVE  /\ \/ UNCHANGED row
            \/ row = "absent" /\ row' = "running" /\ submit' = "recorded" /\ UNCHANGED job
            \/ row # "absent" /\ row' \in {"success", "failed"}
         /\ submit' = "start" => submit = "start"
  <1>1. CASE RecordStart \/ AddFlow \/ AddFails \/ CloseFailed \/ SubmitterDies
    <2>1. CASE RecordStart
      <3>1. row' = "running" /\ UNCHANGED job /\ submit = "start" /\ submit' = "recorded"
        BY <2>1 DEF RecordStart, queue
      <3>2. row = "absent"
        BY <3>1 DEF RowFirst
      <3>3. QED
        BY <3>1, <3>2
    <2>2. QED
      BY <1>1, <2>1 DEF AddFlow, AddFails, CloseFailed, SubmitterDies, RowFirst
  <1>2. ASSUME NEW w \in Workers,
               \/ \E s \in Stages : Take(w, s) \/ TakeThrows(w, s)
               \/ Timeout(w) \/ ChildExits(w) \/ Ack(w) \/ Nack(w)
               \/ CloseRowThrows(w) \/ WorkerCrash(w) \/ LockExpires(w)
        PROVE  UNCHANGED <<row, submit>>
    BY <1>2 DEF Take, TakeThrows, Begin, Timeout, ChildExits, Ack, Nack, CloseRowThrows,
                WorkerCrash, LockExpires
  <1>3. ASSUME NEW w \in Workers, CloseRow(w)
        PROVE  row # "absent" /\ row' \in {row, "success", "failed"} /\ UNCHANGED submit
    BY <1>3 DEF CloseRow, RowFirst
  <1>4. CASE \E s \in Stages : Promote(s) \/ Stall(s) \/ TrimCompleted(s)
    BY <1>4 DEF Promote, Stall, TrimCompleted
  <1>5. CASE Reconcile
    BY <1>5 DEF Reconcile, ReadState, ReadOpenParents, ApplyTransition
  <1>6. CASE UNCHANGED vars
    BY <1>6 DEF vars
  <1>7. QED
    BY <1>1, <1>2, <1>3, <1>4, <1>5, <1>6 DEF Next, Processor

(* The row stays first. *)
LEMMA RowFirstStep ==
  ASSUME IInv, RowFirst, [Next]_vars
  PROVE  RowFirst'
  <1>0. submit' = "start" => row' = "absent"
    BY RowStep DEF RowFirst
  <1> SUFFICES ASSUME row' = "absent"
               PROVE  submit' = "start" /\ \A w \in Workers : exec'[w].phase = "idle"
    BY <1>0 DEF RowFirst
  <1>1. row = "absent"
    BY RowStep
  <1>2. submit = "start" /\ \A w \in Workers : exec[w].phase = "idle"
    BY <1>1 DEF RowFirst
  <1>3. \A s \in Stages : job[s] = "absent"
    BY <1>2 DEF IInv, TreeInv
  <1>4. CASE RecordStart \/ AddFlow \/ AddFails \/ CloseFailed \/ SubmitterDies
    BY <1>2, <1>4 DEF RecordStart, AddFlow, AddFails, CloseFailed, SubmitterDies
  <1>5. ASSUME NEW w \in Workers,
               \/ \E s \in Stages : Take(w, s) \/ TakeThrows(w, s)
               \/ Timeout(w) \/ ChildExits(w) \/ Processor(w)
               \/ CloseRowThrows(w) \/ WorkerCrash(w) \/ LockExpires(w)
        PROVE  FALSE
    BY <1>2, <1>3, <1>5 DEF Take, TakeThrows, Begin, Timeout, ChildExits, Processor, CloseRow,
                Ack, Nack, CloseRowThrows, WorkerCrash, LockExpires
  <1>6. CASE \E s \in Stages : Promote(s) \/ Stall(s) \/ TrimCompleted(s)
    BY <1>2, <1>6 DEF Promote, Stall, TrimCompleted
  <1>7. CASE Reconcile
    BY <1>2, <1>7 DEF Reconcile, ReadState, ReadOpenParents, ApplyTransition
  <1>8. CASE UNCHANGED vars
    BY <1>2, <1>8 DEF vars
  <1>9. QED
    BY <1>4, <1>5, <1>6, <1>7, <1>8 DEF Next

(* A flow is added once, to a run that has its row, and once stopped never runs again: *)
(* what DailyScheduler and the retirement of failed flows rely on (submit.ts:221,     *)
(* flow-cleanup.ts:6-9).                                                              *)
THEOREM ImplementsRun == Spec => ImplementsScheduledRun
  <1>1. Init => Run!Init /\ RowFirst
    BY RootIsTheRoot DEF Init, Run!Init, Phase, RowFirst, Idle
  <1>2. IInv /\ RowFirst /\ [Next]_vars => RowFirst'
    BY RowFirstStep
  <1>3. IInv /\ RowFirst /\ [Next]_vars => [Run!Next]_(Run!run)
    <2> SUFFICES ASSUME IInv, RowFirst, [Next]_vars
                 PROVE  Run!Next \/ UNCHANGED <<row, Phase>>
      BY DEF Run!run
    <2> USE DEF Run!Next, Run!Close
    <2>1. row \in {"absent", "running", "success", "failed"}
      BY DEF IInv, TypeOK
    <2>2. row = "absent" => Phase = "none"
      BY RootIsTheRoot DEF RowFirst, IInv, TreeInv, Phase
    <2>3. CASE UNCHANGED Phase
      BY <2>1, <2>2, <2>3, RowStep DEF Run!Submit, Run!CloseRow
    <2>4. CASE Phase = "none" /\ Phase' = "live" /\ Begins
      <3>1. row # "absent" /\ UNCHANGED row
        BY <2>4 DEF Begins, RowFirst
      <3>2. QED
        BY <2>4, <3>1 DEF Run!Add
    <2>5. CASE Phase = "live" /\ Phase' \in {"parked", "completed"} /\ Runs
      BY <2>1, <2>2, <2>5, RowStep DEF Run!Stop
    <2>6. QED
      BY <2>3, <2>4, <2>5, PhaseStep
  <1>4. QED
    BY <1>1, <1>2, <1>3, Invariance, PTL DEF Spec, ImplementsScheduledRun, Run!Spec

=============================================================================
